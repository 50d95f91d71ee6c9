------------------------------ MODULE MCServer ------------------------------
(* Instances of module Server for TLC. *)
EXTENDS Server

CONSTANT d1

MCDepartments == {d1}
MCTemplates   == {<<d1, PRIORITY_LOW>>}
=============================================================================
