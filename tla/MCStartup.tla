----------------------------- MODULE MCStartup -----------------------------
(* The start of the program as it is: six departments, three priorities,   *)
(* two vehicles per department.                                            *)
EXTENDS Startup
=============================================================================
