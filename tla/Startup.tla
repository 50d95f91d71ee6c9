------------------------------ MODULE Startup ------------------------------
(***************************************************************************)
(* From main to the scheduler: main.c, RunClient and RunServer with the    *)
(* resources they create one after another, every creation of which may    *)
(* fail, the cleanup written out on each failure path, and the handler of  *)
(* SIGINT, which may come between any two of their steps.                  *)
(*                                                                         *)
(* Of a resource three things are recorded: whether it exists (live),      *)
(* whether its variable is not NULL or -1 (handles), and whether it was    *)
(* deleted when it did not exist (deletedTwice, a history).  A creation    *)
(* and the assignment of its handle are one step: between the two a signal *)
(* finds the variable as it was, and the resource is left to exit().       *)
(***************************************************************************)
EXTENDS Integers, Sequences, Functions

CONSTANTS
  DEPARTMENT_COUNT,
  PRIORITY_COUNT,
  VehicleCount        \* vehicles of each department

ASSUME StartupAssumption ==
  /\ DEPARTMENT_COUNT \in Nat
  /\ PRIORITY_COUNT \in Nat
  /\ VehicleCount \in Nat

VARIABLES
  mode,          \* what main was asked to run; "none" until it has looked
  pc,            \* where main or the SIGINT handler is, see StartupTypeOK
  next,          \* the creation that is due, an index of Plan
  todo,          \* what is left of a failure path or of the handler
  interrupted,   \* (history) what was left of the failure path SIGINT cut short
  xSchedulerRunning,    \* the tasks run, also while the handler does
  live, handles, deletedTwice

vars == <<mode, pc, next, todo, interrupted, xSchedulerRunning, live, handles,
          deletedTwice>>

D == 1 .. DEPARTMENT_COUNT

\* The resources, named after their variables.
serverSocket       == <<"g_serverSocket">>
database           == <<"g_database">>
serverUdpTxQueue   == <<"g_serverUdpTxQueue">>
eventGeneratorTask == <<"g_serverEventGeneratorTask">>
serverUdpTxTask    == <<"g_serverUdpTxTask">>
serverUdpRxTask    == <<"g_serverUdpRxTask">>
clientSocket       == <<"g_clientSocket">>
clientUdpMutex     == <<"g_clientUdpMutex">>
clientRxQueue      == <<"g_clientRxQueue">>
faultQueue         == <<"g_faultQueue">>
faultManagerTask   == <<"g_faultManagerTask">>
clientUdpRxTask    == <<"g_clientUdpRxTask">>
dispatcherTask     == <<"g_clientDispatcherTask">>
priorityQueue(d, p)  == <<"priorityQueues", d, p>>
vehicleMutex(d)      == <<"vehicleMutex", d>>
vehicleEventGroup(d) == <<"vehicleEventGroup", d>>
vehicleTask(d, i)    == <<"g_vehicleTasks", d, i>>
shiftManagerTask(d)  == <<"g_shiftManagerTasks", d>>

PriorityQueues     == {priorityQueue(d, p) : d \in D, p \in 1 .. PRIORITY_COUNT}
VehicleMutexes     == {vehicleMutex(d) : d \in D}
VehicleEventGroups == {vehicleEventGroup(d) : d \in D}
VehicleTasks       == {vehicleTask(d, i) : d \in D, i \in 1 .. VehicleCount}
ShiftManagerTasks  == {shiftManagerTask(d) : d \in D}

\* The k-th creation of InitDepartments in department d, counted from 1.
DepartmentCreation(d, k) ==
  IF k <= PRIORITY_COUNT THEN priorityQueue(d, k)
  ELSE IF k = PRIORITY_COUNT + 1 THEN vehicleMutex(d)
  ELSE vehicleEventGroup(d)

\* The n-th creation of a loop over the departments with the same number of
\* creations in each: the department, and which of its creations.
LoopDepartment(n, count) == (n - 1) \div count + 1
LoopIndex(n, count) == ((n - 1) % count) + 1

DepartmentsPlan ==
  LET count == PRIORITY_COUNT + 2
  IN [n \in 1 .. DEPARTMENT_COUNT * count |->
        DepartmentCreation(LoopDepartment(n, count), LoopIndex(n, count))]

VehiclesPlan ==
  [n \in 1 .. DEPARTMENT_COUNT * VehicleCount |->
     vehicleTask(LoopDepartment(n, VehicleCount), LoopIndex(n, VehicleCount))]

ShiftManagersPlan == [d \in D |-> shiftManagerTask(d)]

\* The creations of RunClient and RunServer, in their order.
ClientPlan ==
  <<clientSocket, clientUdpMutex, clientRxQueue, faultQueue, faultManagerTask>>
    \o DepartmentsPlan
    \o VehiclesPlan
    \o ShiftManagersPlan
    \o <<clientUdpRxTask, dispatcherTask>>

ServerPlan == <<serverSocket, database, serverUdpTxQueue, eventGeneratorTask,
                serverUdpTxTask, serverUdpRxTask>>

Plan == IF mode = "client" THEN ClientPlan
        ELSE IF mode = "server" THEN ServerPlan
        ELSE << >>

Due(resources) ==
  pc = "starting" /\ next <= Len(Plan) /\ Plan[next] \in resources

Init ==
  /\ mode = "none"
  /\ pc = "main"
  /\ next = 1
  /\ todo = << >>
  /\ interrupted = << >>
  /\ xSchedulerRunning = FALSE
  /\ live = {}
  /\ handles = {}
  /\ deletedTwice = {}

-----------------------------------------------------------------------------
(***************************************************************************)
(* What failure paths and the SIGINT handler are made of.  Some resources  *)
(* are deleted and their variable is left alone (vQueueDelete(             *)
(* g_faultQueue)); others are deleted if their variable is not NULL, which *)
(* is set to NULL in a step of its own.                                    *)
(***************************************************************************)
Delete(r) == [op |-> "delete", of |-> r]
Close(r)  == [op |-> "close", of |-> r]
Reset(r)  == [op |-> "reset", of |-> r]

CloseAll(plan) == [n \in DOMAIN plan |-> Close(plan[n])]

\* The Close and Cleanup functions.
ClientUdpClose == <<Close(clientSocket)>>
ServerUdpClose == <<Close(serverSocket), Close(clientUdpMutex)>>
DatabaseClose  == <<Close(database)>>
CleanupDepartments       == CloseAll(DepartmentsPlan)
CleanupVehicleTasks      == CloseAll(VehiclesPlan)
CleanupShiftManagerTasks == CloseAll(ShiftManagersPlan)
CleanupFaultManagerTask  == <<Close(faultManagerTask)>>

\* A creation fails, having created something all the same, and main takes
\* the path that follows.
Fail(created, path) ==
  /\ live' = live \cup created
  /\ handles' = handles \cup created
  /\ pc' = "failing"
  /\ todo' = path
  /\ UNCHANGED <<mode, next, interrupted, xSchedulerRunning, deletedTwice>>

-----------------------------------------------------------------------------
(* Slips a programmer could make in the code below. *)

\* The event queue is forgotten.
GeneratorTaskFailsKeepingQueue ==
  /\ Due({eventGeneratorTask})
  /\ Fail({}, ServerUdpClose)

\* Written like the path before it: vTaskDelete without a look at the handle,
\* then CleanupFaultManagerTask.
VehicleTaskFailsDeletingTwice ==
  /\ Due(VehicleTasks)
  /\ Fail({}, <<Delete(faultQueue), Delete(clientRxQueue),
                Delete(faultManagerTask)>>
                \o CleanupFaultManagerTask \o CleanupVehicleTasks
                \o CleanupDepartments \o ClientUdpClose)

\* CreateVehicleTasks returns 0 in spite of the failure.
VehicleTaskFailsUnnoticed ==
  /\ Due(VehicleTasks)
  /\ next' = next + 1
  /\ UNCHANGED <<mode, pc, todo, interrupted, xSchedulerRunning, live, handles,
                 deletedTwice>>

\* for (i = 0; i <= vehicleCount; i++)
CreateOneVehicleTooMany ==
  /\ pc = "starting"
  /\ next <= Len(Plan)
  /\ LET created ==
           {Plan[next]} \cup {vehicleTask(d, VehicleCount + 1) :
              d \in {e \in D : Plan[next] = vehicleTask(e, VehicleCount)}}
     IN live' = live \cup created /\ handles' = handles \cup created
  /\ next' = next + 1
  /\ UNCHANGED <<mode, pc, todo, interrupted, xSchedulerRunning, deletedTwice>>

-----------------------------------------------------------------------------
(* main *)

RunClient ==
  /\ pc = "main"
  /\ mode' = "client"
  /\ pc' = "starting"
  /\ UNCHANGED <<next, todo, interrupted, xSchedulerRunning, live, handles,
                 deletedTwice>>

RunServer ==
  /\ pc = "main"
  /\ mode' = "server"
  /\ pc' = "starting"
  /\ UNCHANGED <<next, todo, interrupted, xSchedulerRunning, live, handles,
                 deletedTwice>>

\* No mode, or an unknown one.
Usage ==
  /\ pc = "main"
  /\ pc' = "exited"
  /\ UNCHANGED <<mode, next, todo, interrupted, xSchedulerRunning, live, handles,
                 deletedTwice>>

\* The creation that is due succeeds.
Create ==
  /\ pc = "starting"
  /\ next <= Len(Plan)
  /\ live' = live \cup {Plan[next]}
  /\ handles' = handles \cup {Plan[next]}
  /\ next' = next + 1
  /\ UNCHANGED <<mode, pc, todo, interrupted, xSchedulerRunning, deletedTwice>>

-----------------------------------------------------------------------------
(* RunClient: the creation that is due fails *)

\* socket or bind, or the mutex; the last two close the socket again.
ClientUdpInitFails ==
  \/ Due({clientSocket}) /\ Fail({}, << >>)
  \/ Due({clientSocket}) /\ Fail({clientSocket}, <<Close(clientSocket)>>)
  \/ Due({clientUdpMutex}) /\ Fail({}, <<Close(clientSocket)>>)

RxQueueFails ==
  /\ Due({clientRxQueue})
  /\ Fail({}, ClientUdpClose)

FaultQueueFails ==
  /\ Due({faultQueue})
  /\ Fail({}, <<Delete(clientRxQueue)>> \o ClientUdpClose)

FaultManagerTaskFails ==
  /\ Due({faultManagerTask})
  /\ Fail({}, <<Delete(faultQueue), Delete(clientRxQueue)>> \o ClientUdpClose)

\* InitDepartments cleans up the departments, RunClient the rest.
InitDepartmentsFailed ==
  CleanupDepartments \o <<Delete(faultQueue), Delete(clientRxQueue)>>
    \o CleanupFaultManagerTask \o ClientUdpClose

DepartmentFails ==
  /\ Due(PriorityQueues \cup VehicleMutexes)
  /\ Fail({}, InitDepartmentsFailed)

\* InitDepartments deletes the mutex of this department, leaves its handle,
\* and calls CleanupDepartments.
EventGroupFails ==
  \E d \in D :
    /\ Due({vehicleEventGroup(d)})
    /\ Fail({}, <<Delete(vehicleMutex(d))>> \o InitDepartmentsFailed)

VehicleTaskFails ==
  /\ Due(VehicleTasks)
  /\ Fail({}, <<Delete(faultQueue), Delete(clientRxQueue)>>
                \o CleanupFaultManagerTask \o CleanupVehicleTasks
                \o CleanupDepartments \o ClientUdpClose)

\* The paths of the shift managers, the receive task and the dispatcher
\* clean up all there is; a task that does not exist yet has no handle.
LastTasksFail ==
  /\ Due(ShiftManagerTasks \cup {clientUdpRxTask, dispatcherTask})
  /\ Fail({}, <<Close(clientUdpRxTask)>> \o CleanupShiftManagerTasks
                \o CleanupVehicleTasks \o CleanupFaultManagerTask
                \o CleanupDepartments
                \o <<Delete(faultQueue), Delete(clientRxQueue)>>
                \o ClientUdpClose)

-----------------------------------------------------------------------------
(* RunServer: the creation that is due fails *)

\* socket, or bind, which closes the socket again.
ServerUdpInitFails ==
  \/ Due({serverSocket}) /\ Fail({}, << >>)
  \/ Due({serverSocket}) /\ Fail({serverSocket}, <<Close(serverSocket)>>)

\* SQLite leaves a handle to be closed even if it could not open the file,
\* and nobody closes it; if the table cannot be created or cleared,
\* DatabaseInit does.
DatabaseInitFails ==
  /\ Due({database})
  /\ \/ \E left \in SUBSET {database} : Fail(left, ServerUdpClose)
     \/ Fail({database}, <<Close(database)>> \o ServerUdpClose)

TxQueueFails ==
  /\ Due({serverUdpTxQueue})
  /\ Fail({}, ServerUdpClose)

GeneratorTaskFails ==
  /\ Due({eventGeneratorTask})
  /\ Fail({}, <<Delete(serverUdpTxQueue)>> \o ServerUdpClose)

\* The tasks are looked at before they are deleted, and are there.
TxTaskFails ==
  /\ Due({serverUdpTxTask})
  /\ Fail({}, <<Delete(eventGeneratorTask), Delete(serverUdpTxQueue)>>
                \o ServerUdpClose)

RxTaskFails ==
  /\ Due({serverUdpRxTask})
  /\ Fail({}, <<Delete(eventGeneratorTask), Delete(serverUdpTxTask),
                Delete(serverUdpTxQueue)>> \o ServerUdpClose)

-----------------------------------------------------------------------------
(* The steps of a failure path, and of the handler *)

Doing(op) ==
  /\ pc \in {"failing", "stopping"}
  /\ todo # << >>
  /\ Head(todo).op = op

Remove(r) ==
  /\ live' = live \ {r}
  /\ deletedTwice' = deletedTwice \cup ({r} \ live)

DoDelete ==
  /\ Doing("delete")
  /\ Remove(Head(todo).of)
  /\ todo' = Tail(todo)
  /\ UNCHANGED <<mode, pc, next, interrupted, xSchedulerRunning, handles>>

\* close(g_clientSocket), with g_clientSocket = -1 to follow.
DoClose ==
  /\ Doing("close")
  /\ Head(todo).of \in handles
  /\ Remove(Head(todo).of)
  /\ todo' = [todo EXCEPT ![1] = Reset(Head(todo).of)]
  /\ UNCHANGED <<mode, pc, next, interrupted, xSchedulerRunning, handles>>

NothingToClose ==
  /\ Doing("close")
  /\ Head(todo).of \notin handles
  /\ todo' = Tail(todo)
  /\ UNCHANGED <<mode, pc, next, interrupted, xSchedulerRunning, live, handles,
                 deletedTwice>>

DoReset ==
  /\ Doing("reset")
  /\ handles' = handles \ {Head(todo).of}
  /\ todo' = Tail(todo)
  /\ UNCHANGED <<mode, pc, next, interrupted, xSchedulerRunning, live,
                 deletedTwice>>

\* The end of a failure path: RunClient or RunServer returns.
Return ==
  /\ pc = "failing"
  /\ todo = << >>
  /\ pc' = "returned"
  /\ UNCHANGED <<mode, next, todo, interrupted, xSchedulerRunning, live, handles,
                 deletedTwice>>

\* main returns with it.
MainReturns ==
  /\ pc = "returned"
  /\ pc' = "exited"
  /\ UNCHANGED <<mode, next, todo, interrupted, xSchedulerRunning, live, handles,
                 deletedTwice>>

-----------------------------------------------------------------------------
(* vTaskStartScheduler, which returns only if the kernel's own tasks cannot *)
(* be created; then nothing is cleaned up.                                  *)

StartScheduler ==
  /\ pc = "starting"
  /\ next > Len(Plan)
  /\ \/ pc' = "running" /\ xSchedulerRunning' = TRUE
     \/ pc' = "returned" /\ UNCHANGED xSchedulerRunning
  /\ UNCHANGED <<mode, next, todo, interrupted, live, handles, deletedTwice>>

\* What the handler of the mode closes; handle_sigint, before there is one,
\* closes nothing.
HandlerCloses ==
  IF mode = "client" THEN ClientUdpClose
  ELSE IF mode = "server" THEN DatabaseClose \o ServerUdpClose
  ELSE << >>

\* SIGINT.  What it interrupts is not resumed: the handler ends in exit().
\* The tasks, which have threads of their own, go on until then.
SignalHandler ==
  /\ pc \in {"main", "starting", "failing", "running", "returned"}
  /\ pc' = "stopping"
  /\ todo' = HandlerCloses
  /\ interrupted' = todo
  /\ UNCHANGED <<mode, next, xSchedulerRunning, live, handles, deletedTwice>>

Exit ==
  /\ pc = "stopping"
  /\ todo = << >>
  /\ pc' = "exited"
  /\ xSchedulerRunning' = FALSE
  /\ UNCHANGED <<mode, next, todo, interrupted, live, handles, deletedTwice>>

-----------------------------------------------------------------------------
ClientFails ==
  \/ ClientUdpInitFails \/ RxQueueFails \/ FaultQueueFails
  \/ FaultManagerTaskFails \/ DepartmentFails \/ EventGroupFails
  \/ VehicleTaskFails \/ LastTasksFail

ServerFails ==
  \/ ServerUdpInitFails \/ DatabaseInitFails \/ TxQueueFails
  \/ GeneratorTaskFails \/ TxTaskFails \/ RxTaskFails

DoNext == DoDelete \/ DoClose \/ NothingToClose \/ DoReset

Next ==
  \/ RunClient \/ RunServer \/ Usage
  \/ Create \/ ClientFails \/ ServerFails
  \/ DoNext \/ Return \/ MainReturns
  \/ StartScheduler \/ SignalHandler \/ Exit

Spec == Init /\ [][Next]_vars
-----------------------------------------------------------------------------
(* Properties *)

StartupTypeOK ==
  /\ mode \in {"none", "client", "server"}
  /\ pc \in {"main", "starting", "failing", "running", "returned", "stopping",
             "exited"}
  /\ next \in 1 .. Len(Plan) + 1
  /\ xSchedulerRunning \in BOOLEAN
  /\ live \cup handles \cup deletedTwice \subseteq Range(Plan)

(***************************************************************************)
(* A start that fails half-way releases what it had created, whichever of  *)
(* the fifty-odd creations failed, but for two resources that no failure   *)
(* path of RunClient and RunServer mentions: the mutex of ClientUdpInit    *)
(* (deleted by ServerUdpClose, never by ClientUdpClose) and the database.  *)
(***************************************************************************)
FailedStartReleases ==
  pc = "returned" /\ next <= Len(Plan) =>
    live \subseteq {clientUdpMutex, database}

(***************************************************************************)
(* Nothing is deleted twice but in two cases.  InitDepartments and         *)
(* CleanupDepartments both delete the mutex of a department whose event    *)
(* group could not be created, the latter through a handle that was not    *)
(* reset; and SIGINT between the close of a socket or of the database on a *)
(* failure path and the reset of its variable makes the handler close it   *)
(* again.                                                                  *)
(***************************************************************************)
KnownSecondDeletions ==
  \A r \in deletedTwice :
    \/ \E d \in D : r = vehicleMutex(d) /\ Plan[next] = vehicleEventGroup(d)
    \/ /\ r \in {clientSocket, serverSocket, database}
       /\ interrupted # << >>
       /\ Head(interrupted) = Reset(r)

(***************************************************************************)
(* When the tasks start to run, everything they use exists, although a     *)
(* failed creation of one of a dozen like tasks is noticed three calls up. *)
(* While they go on beside the handler of SIGINT, it takes nothing away    *)
(* from them but the sockets and the database, and at most one variable is *)
(* not NULL any more the handle of something that exists: that of the      *)
(* resource just closed, until it is reset.                                *)
(***************************************************************************)
TasksFindEverything ==
  /\ pc \in {"starting", "running"} => handles = live
  /\ pc = "running" => live = Range(Plan)
  /\ xSchedulerRunning =>
       /\ Range(Plan) \ live \subseteq {clientSocket, serverSocket, database}
       /\ live \subseteq handles
       /\ \A r \in handles \ live :
            pc = "stopping" /\ todo # << >> /\ Head(todo) = Reset(r)
=============================================================================
