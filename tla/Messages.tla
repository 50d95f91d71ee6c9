------------------------------ MODULE Messages ------------------------------
(***************************************************************************)
(* The event and protocol vocabulary shared by the client and the server   *)
(* (Inc/event.h, Inc/message.h, Inc/vehicle.h, Inc/department.h).          *)
(*                                                                         *)
(* An event type and the department that serves it are the same thing in   *)
(* the program (GetDepartmentByEventType maps the i-th enumerator of one   *)
(* enum to the i-th of the other), so both are members of Departments.     *)
(* Texts, locations and timestamps take part in no decision of the code    *)
(* and are left out.                                                       *)
(***************************************************************************)
EXTENDS Naturals, Sequences

CONSTANTS
  Departments,        \* the departments, one per event type
  MAX_EVENT_RETRIES,  \* processing attempts granted after the first one
  SocketCapacity      \* datagrams a socket buffer holds before it overflows

ASSUME MessagesAssumption ==
  /\ MAX_EVENT_RETRIES \in Nat
  /\ SocketCapacity \in Nat \ {0}

PRIORITY_LOW    == 0
PRIORITY_MEDIUM == 1
PRIORITY_HIGH   == 2
PRIORITY_COUNT  == 3

Priorities == PRIORITY_LOW .. PRIORITY_HIGH

STATUS_PENDING   == "PENDING"
STATUS_COMPLETED == "COMPLETED"
STATUS_FAILED    == "FAILED"
STATUS_CANCELLED == "CANCELLED"

\* The outcomes ProcessEvent returns and a completion message carries.
Outcomes == {STATUS_COMPLETED, STATUS_FAILED, STATUS_CANCELLED}

VEHICLE_AVAILABLE == "AVAILABLE"
VEHICLE_BUSY      == "BUSY"
VEHICLE_BREAK     == "BREAK"

VehicleStatus == {VEHICLE_AVAILABLE, VEHICLE_BUSY, VEHICLE_BREAK}

\* Identifiers count up from 1; 0 stands for "no event" in Vehicle_t.
EventIds == Nat \ {0}

EventMessage ==
  [eventId : EventIds, type : Departments, priority : Priorities,
   retryCount : 0 .. MAX_EVENT_RETRIES]

MESSAGE_ACK        == "ACK"
MESSAGE_COMPLETION == "COMPLETION"

Ack(id) == [type |-> MESSAGE_ACK, eventId |-> id]

Completion(id, outcome) ==
  [type |-> MESSAGE_COMPLETION, eventId |-> id, status |-> outcome]

\* What the client sends: acknowledgements and completion reports.
ClientMessage ==
  [type : {MESSAGE_ACK}, eventId : EventIds]
    \cup [type : {MESSAGE_COMPLETION}, eventId : EventIds, status : Outcomes]

(***************************************************************************)
(* sendto over loopback UDP: the datagram joins the receiver's socket      *)
(* buffer or is lost.  It is always lost when that buffer is full, and may *)
(* be lost when nobody is bound to the port or the call fails; no sender   *)
(* of this program acts on the difference.                                 *)
(***************************************************************************)
AfterSendto(buffer, datagram) ==
  {buffer} \cup
  (IF Len(buffer) < SocketCapacity THEN {Append(buffer, datagram)} ELSE {})
=============================================================================
