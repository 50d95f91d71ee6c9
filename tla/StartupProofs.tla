---------------------------- MODULE StartupProofs ----------------------------
(***************************************************************************)
(* Proofs about module Startup, for any number of departments, priorities  *)
(* and vehicles.                                                           *)
(*                                                                         *)
(* Until something fails, what exists is what the plan names before the    *)
(* creation that is due, and every variable that is not NULL is the handle *)
(* of something that exists.  Hence a failure path releases what it should *)
(* if the plan is in the right order: what stands in it before a resource  *)
(* whose creation may fail is deleted by the path of that resource         *)
(* (ClientPlanInOrder, ServerPlanInOrder).  From there on the invariant    *)
(* compares what exists with what is left of the path (Failing) or of the  *)
(* handler (Stopping), one operation after another.                        *)
(***************************************************************************)
EXTENDS Startup, SequenceTheorems, TLAPS

-----------------------------------------------------------------------------
(* The invariant *)

\* What a plan creates before its n-th resource.
Earlier(plan, n) == {plan[k] : k \in 1 .. n - 1}

\* What the SIGINT handler closes.
Closed == IF mode = "client" THEN {clientSocket}
          ELSE IF mode = "server" THEN {database, serverSocket, clientUdpMutex}
          ELSE {}

\* No cleanup has run yet: all that was created is there.
Intact ==
  /\ live = Earlier(Plan, next)
  /\ handles = live
  /\ deletedTwice = {}

\* What the operations of one kind in t are of.
Parts(t, op) == {t[n].of : n \in {m \in 1 .. Len(t) : t[m].op = op}}

\* What is deleted without a look at its handle is touched once, but for some
\* resource deleted first and closed later.
Once(t, twice) ==
  \A m, n \in 1 .. Len(t) :
    m # n /\ t[m].op = "delete" /\ t[n].of = t[m].of
      => m = 1 /\ t[n].op = "close" /\ t[m].of \in twice

\* A variable is reset right after what it named was closed.
ResetsFirst(t) == \A n \in 1 .. Len(t) : t[n].op = "reset" => n = 1

\* t goes on with the reset of r's variable.
Resets(t, r) == t # << >> /\ t[1] = Reset(r)

\* The mutex of the department whose event group could not be created.
Twice == {vehicleMutex(d) : d \in {e \in D : Plan[next] = vehicleEventGroup(e)}}

Resources ==
  {clientSocket, clientUdpMutex, clientRxQueue, faultQueue, faultManagerTask}
    \cup PriorityQueues \cup VehicleMutexes \cup VehicleEventGroups
    \cup VehicleTasks \cup ShiftManagerTasks
    \cup {clientUdpRxTask, dispatcherTask}
    \cup {serverSocket, database, serverUdpTxQueue, eventGeneratorTask,
          serverUdpTxTask, serverUdpRxTask}

Ops == [op : {"delete", "close", "reset"}, of : Resources]

Working ==
  /\ todo \in Seq(Ops)
  /\ ResetsFirst(todo)
  /\ \A r \in live : ~Resets(todo, r)

\* On a failure path: what exists is still to be deleted or closed, what is
\* still to be deleted exists, and a variable that is still to be looked at
\* names something that exists, or is about to be reset.
Failing ==
  /\ Working
  /\ Once(todo, Twice)
  /\ Parts(todo, "delete") \subseteq live
  /\ Parts(todo, "delete") \cap Closed = {}
  /\ live \subseteq Parts(todo, "delete") \cup (Parts(todo, "close") \cap handles)
                      \cup {clientUdpMutex, database}
  /\ \A r \in Parts(todo, "close") \cap handles :
       r \in live \/ r \in Twice \/ Resets(todo, r)
  /\ \A r \in Closed \cap handles : r \in live \/ Resets(todo, r)

\* In the handler: the same, but for the variable main was about to reset.
Stopping ==
  /\ Working
  /\ Parts(todo, "delete") = {}
  /\ Parts(todo, "close") \subseteq Closed
  /\ \A r \in Closed \cap handles :
       r \in live \/ Resets(todo, r) \/ Resets(interrupted, r)

\* Under the running tasks the handler takes away one thing after another.
Served ==
  /\ Range(Plan) \ live \subseteq Closed
  /\ live \subseteq handles
  /\ \A r \in handles \ live : Resets(todo, r)

StartupInv ==
  /\ StartupTypeOK
  /\ pc = "main" => mode = "none" /\ next = 1
  /\ pc \in {"main", "starting", "running"} => Intact
  /\ pc = "running" => next = Len(Plan) + 1
  /\ pc \in {"main", "starting", "running", "returned"} => todo = << >>
  /\ pc \notin {"stopping", "exited"} => interrupted = << >>
  /\ interrupted \in Seq(Ops)
  /\ pc = "failing" => Failing
  /\ pc = "returned" => Closed \cap handles \subseteq live
  /\ pc = "stopping" => Stopping
  /\ xSchedulerRunning => pc \in {"running", "stopping"}
  /\ xSchedulerRunning /\ pc = "stopping" => Served
  /\ FailedStartReleases
  /\ KnownSecondDeletions

-----------------------------------------------------------------------------
(* The resources *)

\* Those created before any department.
First == {clientSocket, clientUdpMutex, clientRxQueue, faultQueue,
          faultManagerTask}

\* Names are told apart by the variable they name.
LEMMA Names ==
  /\ \A r \in First :
       r[1] \in {"g_clientSocket", "g_clientUdpMutex", "g_clientRxQueue",
                 "g_faultQueue", "g_faultManagerTask"}
  /\ \A r \in PriorityQueues : r[1] = "priorityQueues"
  /\ \A r \in VehicleMutexes : r[1] = "vehicleMutex"
  /\ \A r \in VehicleEventGroups : r[1] = "vehicleEventGroup"
  /\ \A r \in VehicleTasks : r[1] = "g_vehicleTasks"
  /\ \A r \in ShiftManagerTasks : r[1] = "g_shiftManagerTasks"
  /\ clientSocket[1] = "g_clientSocket"
  /\ clientUdpMutex[1] = "g_clientUdpMutex"
  /\ clientRxQueue[1] = "g_clientRxQueue"
  /\ faultQueue[1] = "g_faultQueue"
  /\ faultManagerTask[1] = "g_faultManagerTask"
  /\ clientUdpRxTask[1] = "g_clientUdpRxTask"
  /\ dispatcherTask[1] = "g_clientDispatcherTask"
  /\ serverSocket[1] = "g_serverSocket"
  /\ database[1] = "g_database"
  /\ serverUdpTxQueue[1] = "g_serverUdpTxQueue"
  /\ eventGeneratorTask[1] = "g_serverEventGeneratorTask"
  /\ serverUdpTxTask[1] = "g_serverUdpTxTask"
  /\ serverUdpRxTask[1] = "g_serverUdpRxTask"
<1>1. \A r \in PriorityQueues : r[1] = "priorityQueues"
  BY DEF PriorityQueues, priorityQueue
<1>2. \A r \in VehicleMutexes : r[1] = "vehicleMutex"
  BY DEF VehicleMutexes, vehicleMutex
<1>3. \A r \in VehicleEventGroups : r[1] = "vehicleEventGroup"
  BY DEF VehicleEventGroups, vehicleEventGroup
<1>4. \A r \in VehicleTasks : r[1] = "g_vehicleTasks"
  BY DEF VehicleTasks, vehicleTask
<1>5. \A r \in ShiftManagerTasks : r[1] = "g_shiftManagerTasks"
  BY DEF ShiftManagerTasks, shiftManagerTask
<1> QED
  BY <1>1, <1>2, <1>3, <1>4, <1>5
  DEF First, clientSocket, clientUdpMutex, clientRxQueue, faultQueue,
      faultManagerTask, clientUdpRxTask, dispatcherTask, serverSocket,
      database, serverUdpTxQueue, eventGeneratorTask, serverUdpTxTask,
      serverUdpRxTask

\* Event groups and mutexes of different departments are different.
LEMMA NamesOfDepartments ==
  \A d, e \in D : vehicleEventGroup(d) = vehicleEventGroup(e) => d = e
BY DEF vehicleEventGroup

\* All that InitDepartments may create.
DepartmentResources == PriorityQueues \cup VehicleMutexes \cup VehicleEventGroups

-----------------------------------------------------------------------------
(* Plans *)

\* One plan after another.
LEMMA PlanThenPlan ==
  ASSUME NEW S, NEW s \in Seq(S), NEW t \in Seq(S), NEW n \in 1 .. Len(s \o t)
  PROVE  \/ /\ n \in 1 .. Len(s)
            /\ (s \o t)[n] = s[n]
            /\ Earlier(s \o t, n) = Earlier(s, n)
         \/ /\ n - Len(s) \in 1 .. Len(t)
            /\ (s \o t)[n] = t[n - Len(s)]
            /\ Earlier(s \o t, n) = Range(s) \cup Earlier(t, n - Len(s))
<1>1. /\ Len(s) \in Nat /\ Len(t) \in Nat /\ n \in Nat
      /\ Len(s \o t) = Len(s) + Len(t)
      /\ DOMAIN s = 1 .. Len(s)
  OBVIOUS
<1>2. \A k \in 1 .. Len(s) + Len(t) :
        (s \o t)[k] = IF k <= Len(s) THEN s[k] ELSE t[k - Len(s)]
  OBVIOUS
<1>3. CASE n <= Len(s)
  BY <1>1, <1>2, <1>3 DEF Earlier
<1>4. CASE n > Len(s)
  <2>1. n - Len(s) \in 1 .. Len(t) /\ (s \o t)[n] = t[n - Len(s)]
    BY <1>1, <1>2, <1>4
  <2>2. ASSUME NEW r PROVE r \in Earlier(s \o t, n)
                             <=> r \in Range(s) \cup Earlier(t, n - Len(s))
    <3>1. ASSUME NEW k \in 1 .. n - 1
          PROVE  (s \o t)[k] \in Range(s) \cup Earlier(t, n - Len(s))
      <4>1. CASE k <= Len(s)
        BY <1>1, <1>2, <4>1 DEF Range
      <4>2. CASE k > Len(s)
        <5>1. k - Len(s) \in 1 .. (n - Len(s)) - 1
          BY <1>1, <4>2
        <5>2. (s \o t)[k] = t[k - Len(s)]
          BY <1>1, <1>2, <4>2
        <5> QED BY <5>1, <5>2 DEF Earlier
      <4> QED BY <1>1, <4>1, <4>2
    <3>2. ASSUME NEW k \in 1 .. Len(s) PROVE s[k] \in Earlier(s \o t, n)
      <4>1. k \in 1 .. n - 1 /\ s[k] = (s \o t)[k]
        BY <1>1, <1>2, <1>4
      <4> QED BY <4>1 DEF Earlier
    <3>3. ASSUME NEW k \in 1 .. (n - Len(s)) - 1
          PROVE  t[k] \in Earlier(s \o t, n)
      <4>1. k + Len(s) \in 1 .. n - 1 /\ k + Len(s) > Len(s)
        BY <1>1
      <4>2. (s \o t)[k + Len(s)] = t[(k + Len(s)) - Len(s)]
        BY <1>1, <1>2, <4>1
      <4>3. (k + Len(s)) - Len(s) = k
        BY <1>1
      <4> QED BY <4>1, <4>2, <4>3 DEF Earlier
    <3> QED BY <1>1, <3>1, <3>2, <3>3 DEF Earlier, Range
  <2> QED BY <2>1, <2>2
<1> QED BY <1>1, <1>3, <1>4

\* Its resources are those of both.
LEMMA RangeOfBoth ==
  ASSUME NEW S, NEW s \in Seq(S), NEW t \in Seq(S)
  PROVE  Range(s \o t) = Range(s) \cup Range(t)
<1>1. /\ Len(s) \in Nat /\ Len(t) \in Nat
      /\ DOMAIN (s \o t) = 1 .. Len(s) + Len(t)
      /\ DOMAIN s = 1 .. Len(s) /\ DOMAIN t = 1 .. Len(t)
  OBVIOUS
<1>2. \A k \in 1 .. Len(s) + Len(t) :
        (s \o t)[k] = IF k <= Len(s) THEN s[k] ELSE t[k - Len(s)]
  OBVIOUS
<1>3. ASSUME NEW k \in 1 .. Len(s) + Len(t)
      PROVE  (s \o t)[k] \in Range(s) \cup Range(t)
  <2>1. CASE k <= Len(s)
    BY <1>1, <1>2, <2>1 DEF Range
  <2>2. CASE k > Len(s)
    <3>1. k - Len(s) \in 1 .. Len(t) /\ (s \o t)[k] = t[k - Len(s)]
      BY <1>1, <1>2, <2>2
    <3> QED BY <1>1, <3>1 DEF Range
  <2> QED BY <1>1, <2>1, <2>2
<1>4. ASSUME NEW k \in 1 .. Len(s) PROVE s[k] \in Range(s \o t)
  <2>1. k \in 1 .. Len(s) + Len(t) /\ (s \o t)[k] = s[k]
    BY <1>1, <1>2
  <2> QED BY <1>1, <2>1 DEF Range
<1>5. ASSUME NEW k \in 1 .. Len(t) PROVE t[k] \in Range(s \o t)
  <2>1. k + Len(s) \in 1 .. Len(s) + Len(t) /\ (k + Len(s)) - Len(s) = k
        /\ ~(k + Len(s) <= Len(s))
    BY <1>1
  <2>2. (s \o t)[k + Len(s)] = t[k]
    BY <1>2, <2>1
  <2> QED BY <1>1, <2>1, <2>2 DEF Range
<1> QED BY <1>1, <1>3, <1>4, <1>5 DEF Range

\* A plan and what stands early in it are of its kind.
LEMMA EarlierAreEntries ==
  ASSUME NEW S, NEW s \in Seq(S)
  PROVE  /\ Range(s) \subseteq S
         /\ \A n \in 1 .. Len(s) : /\ s[n] \in S /\ s[n] \in Range(s)
                                   /\ Earlier(s, n) \subseteq S
                                   /\ Earlier(s, n) \subseteq Range(s)
         /\ Earlier(s, 1) = {}
         /\ Earlier(s, Len(s) + 1) = Range(s)
         /\ \A n \in 1 .. Len(s) :
              Earlier(s, n + 1) = Earlier(s, n) \cup {s[n]}
<1>1. /\ DOMAIN s = 1 .. Len(s) /\ Len(s) \in Nat
      /\ \A n \in 1 .. Len(s) : s[n] \in S
  OBVIOUS
<1> QED BY <1>1 DEF Range, Earlier

\* Loops over the departments: the n-th creation is one of a department ...
LEMMA DepartmentOf ==
  ASSUME NEW count \in Nat, NEW n \in 1 .. DEPARTMENT_COUNT * count
  PROVE  /\ count > 0
         /\ (n - 1) \div count + 1 \in D
         /\ ((n - 1) % count) + 1 \in 1 .. count
<1> DEFINE q == (n - 1) \div count
           r == (n - 1) % count
<1>1. /\ DEPARTMENT_COUNT \in Nat /\ n \in Nat /\ n - 1 \in Nat
      /\ n <= DEPARTMENT_COUNT * count
  BY StartupAssumption
<1>2. count > 0
  BY <1>1
<1>3. /\ q \in Nat /\ r \in 0 .. count - 1
      /\ n - 1 = q * count + r
  BY <1>1, <1>2
<1> HIDE DEF q, r
<1>4. q * count < DEPARTMENT_COUNT * count
  BY <1>1, <1>3
<1>5. q < DEPARTMENT_COUNT
  BY <1>1, <1>3, <1>4
<1>6. q + 1 \in D /\ r + 1 \in 1 .. count
  BY <1>1, <1>2, <1>3, <1>5 DEF D
<1> QED BY <1>2, <1>6 DEF q, r

\* ... and, unless it is the first of a department, the one before it is the
\* one before it of the same department.
LEMMA OneBefore ==
  ASSUME NEW count \in Nat, NEW n \in 1 .. DEPARTMENT_COUNT * count,
         (n - 1) % count # 0
  PROVE  /\ n - 1 \in 1 .. DEPARTMENT_COUNT * count
         /\ ((n - 1) - 1) \div count = (n - 1) \div count
         /\ ((n - 1) - 1) % count = ((n - 1) % count) - 1
<1> DEFINE q == (n - 1) \div count
           r == (n - 1) % count
<1>1. /\ DEPARTMENT_COUNT \in Nat /\ n \in Nat /\ n - 1 \in Nat
      /\ n <= DEPARTMENT_COUNT * count /\ count > 0
  BY StartupAssumption, DepartmentOf
<1>2. /\ q \in Nat /\ r \in 0 .. count - 1
      /\ n - 1 = q * count + r
  BY <1>1
<1>3. r # 0
  OBVIOUS
<1> HIDE DEF q, r
<1>4. r - 1 \in 0 .. count - 1 /\ (n - 1) - 1 = q * count + (r - 1)
  BY <1>1, <1>2, <1>3
<1>5. (n - 1) - 1 \in Nat
  BY <1>1, <1>2, <1>3, <1>4
<1>6. ((n - 1) - 1) \div count = q /\ ((n - 1) - 1) % count = r - 1
  BY <1>1, <1>2, <1>4, <1>5
<1>7. n - 1 \in 1 .. DEPARTMENT_COUNT * count
  BY <1>1, <1>5
<1> QED BY <1>6, <1>7 DEF q, r

\* InitDepartments creates the departments' resources, and the mutex of a
\* department before its event group.
LEMMA DepartmentsInOrder ==
  /\ DepartmentsPlan \in Seq(DepartmentResources)
  /\ \A n \in 1 .. Len(DepartmentsPlan), d \in D :
       DepartmentsPlan[n] = vehicleEventGroup(d)
         => vehicleMutex(d) \in Earlier(DepartmentsPlan, n)
<1> DEFINE count == PRIORITY_COUNT + 2
           size == DEPARTMENT_COUNT * count
           dept(n) == (n - 1) \div count + 1
           k(n) == ((n - 1) % count) + 1
<1>1. /\ PRIORITY_COUNT \in Nat /\ count \in Nat /\ size \in Nat
      /\ DEPARTMENT_COUNT \in Nat
  BY StartupAssumption
<1>2. \A n \in 1 .. size : dept(n) \in D /\ k(n) \in 1 .. count
  BY <1>1, DepartmentOf
<1>3. \A n \in 1 .. size :
        DepartmentsPlan[n] = DepartmentCreation(dept(n), k(n))
  BY DEF DepartmentsPlan, LoopDepartment, LoopIndex
<1>4. DepartmentsPlan = [n \in 1 .. size |-> DepartmentsPlan[n]]
  BY DEF DepartmentsPlan
<1>5. ASSUME NEW n \in 1 .. size, NEW d \in D,
             DepartmentsPlan[n] = vehicleEventGroup(d)
      PROVE  /\ dept(n) = d /\ k(n) = count
             /\ vehicleMutex(d) \in Earlier(DepartmentsPlan, n)
  <2>1. dept(n) \in D /\ k(n) \in 1 .. count
    BY <1>2
  <2>2. DepartmentCreation(dept(n), k(n)) = vehicleEventGroup(d)
    BY <1>3, <1>5
  <2> HIDE DEF dept, k, count
  <2>3. k(n) # PRIORITY_COUNT + 1 /\ ~(k(n) <= PRIORITY_COUNT)
    BY <2>2
    DEF DepartmentCreation, priorityQueue, vehicleMutex, vehicleEventGroup
  <2>4. dept(n) = d
    BY <2>1, <2>2, <2>3, NamesOfDepartments DEF DepartmentCreation
  <2>5. k(n) = count
    BY <1>1, <2>1, <2>3 DEF count
  <2>6. /\ n - 1 \in 1 .. size /\ dept(n - 1) = d
        /\ k(n - 1) = PRIORITY_COUNT + 1
    <3>1. (n - 1) % count = PRIORITY_COUNT + 1
      BY <1>1, <2>5 DEF k, count
    <3>2. (n - 1) % count # 0
      BY <1>1, <3>1
    <3>3. /\ n - 1 \in 1 .. size
          /\ ((n - 1) - 1) \div count = (n - 1) \div count
          /\ ((n - 1) - 1) % count = ((n - 1) % count) - 1
      BY <1>1, <3>2, OneBefore
    <3>4. ((n - 1) - 1) % count = PRIORITY_COUNT
      BY <1>1, <3>1, <3>3
    <3>5. dept(n - 1) = dept(n)
      BY <3>3 DEF dept
    <3>6. k(n - 1) = PRIORITY_COUNT + 1
      BY <3>4 DEF k
    <3> QED BY <2>4, <3>3, <3>5, <3>6
  <2>7. DepartmentsPlan[n - 1] = DepartmentCreation(d, PRIORITY_COUNT + 1)
    BY <1>3, <2>6
  <2>8. DepartmentsPlan[n - 1] = vehicleMutex(d)
    BY <1>1, <2>7 DEF DepartmentCreation
  <2> QED BY <2>4, <2>5, <2>6, <2>8 DEF Earlier
<1>6. ASSUME NEW n \in 1 .. size
      PROVE  DepartmentsPlan[n] \in DepartmentResources
  <2>1. dept(n) \in D /\ k(n) \in 1 .. count
    BY <1>2
  <2> HIDE DEF dept, k
  <2> QED BY <1>1, <1>3, <2>1
          DEF DepartmentCreation, DepartmentResources, PriorityQueues,
              VehicleMutexes, VehicleEventGroups
<1>7. DepartmentsPlan \in Seq(DepartmentResources) /\ Len(DepartmentsPlan) = size
  <2> HIDE DEF size
  <2> QED BY <1>1, <1>4, <1>6
<1> QED BY <1>5, <1>7

\* CreateVehicleTasks creates vehicle tasks.
LEMMA VehiclesInOrder == VehiclesPlan \in Seq(VehicleTasks)
<1> DEFINE size == DEPARTMENT_COUNT * VehicleCount
           dept(n) == (n - 1) \div VehicleCount + 1
           i(n) == ((n - 1) % VehicleCount) + 1
<1>1. size \in Nat /\ VehicleCount \in Nat
  BY StartupAssumption
<1>2. \A n \in 1 .. size : dept(n) \in D /\ i(n) \in 1 .. VehicleCount
  BY <1>1, DepartmentOf
<1>3. VehiclesPlan = [n \in 1 .. size |-> vehicleTask(dept(n), i(n))]
  BY DEF VehiclesPlan, LoopDepartment, LoopIndex
<1>4. \A n \in 1 .. size : vehicleTask(dept(n), i(n)) \in VehicleTasks
  BY <1>2 DEF VehicleTasks
<1> HIDE DEF size, dept, i
<1> QED BY <1>1, <1>3, <1>4

FirstPlan == <<clientSocket, clientUdpMutex, clientRxQueue, faultQueue,
               faultManagerTask>>
LastPlan == <<clientUdpRxTask, dispatcherTask>>

\* All that the client creates.
ClientResources ==
  First \cup DepartmentResources \cup VehicleTasks \cup ShiftManagerTasks
        \cup {clientUdpRxTask, dispatcherTask}

\* The client's plan, part by part.
LEMMA ClientParts ==
  /\ ClientPlan = (((FirstPlan \o DepartmentsPlan) \o VehiclesPlan)
                     \o ShiftManagersPlan) \o LastPlan
  /\ FirstPlan \in Seq(First) /\ Range(FirstPlan) = First
  /\ ShiftManagersPlan \in Seq(ShiftManagerTasks)
  /\ LastPlan \in Seq({clientUdpRxTask, dispatcherTask}) /\ Len(LastPlan) = 2
<1>1. FirstPlan \in Seq(First) /\ Range(FirstPlan) = First
  BY DEF FirstPlan, First, Range
<1>2. ShiftManagersPlan \in Seq(ShiftManagerTasks)
  <2>1. DEPARTMENT_COUNT \in Nat
    BY StartupAssumption
  <2>2. \A d \in D : shiftManagerTask(d) \in ShiftManagerTasks
    BY DEF ShiftManagerTasks
  <2> QED BY <2>1, <2>2 DEF ShiftManagersPlan, D
<1> QED
  BY <1>1, <1>2
  DEF ClientPlan, FirstPlan, ShiftManagersPlan, LastPlan

\* Where a resource stands in the client's plan, and what stands before it.
LEMMA ClientPlanAt ==
  ASSUME NEW n \in 1 .. Len(ClientPlan)
  PROVE  \/ /\ n \in 1 .. Len(FirstPlan)
            /\ ClientPlan[n] = FirstPlan[n]
            /\ Earlier(ClientPlan, n) = Earlier(FirstPlan, n)
         \/ \E k \in 1 .. Len(DepartmentsPlan) :
              /\ ClientPlan[n] = DepartmentsPlan[k]
              /\ Earlier(ClientPlan, n) = First \cup Earlier(DepartmentsPlan, k)
         \/ /\ ClientPlan[n] \in VehicleTasks
            /\ First \subseteq Earlier(ClientPlan, n)
            /\ Earlier(ClientPlan, n)
                 \subseteq First \cup Range(DepartmentsPlan)
                             \cup Range(VehiclesPlan)
         \/ /\ ClientPlan[n] \in ShiftManagerTasks
                                 \cup {clientUdpRxTask, dispatcherTask}
            /\ First \subseteq Earlier(ClientPlan, n)
            /\ Earlier(ClientPlan, n)
                 \subseteq First \cup Range(DepartmentsPlan)
                             \cup Range(VehiclesPlan)
                             \cup Range(ShiftManagersPlan)
                             \cup {clientUdpRxTask}
<1> DEFINE S  == ClientResources
           P2 == FirstPlan \o DepartmentsPlan
           P3 == P2 \o VehiclesPlan
           P4 == P3 \o ShiftManagersPlan
<1>1. /\ FirstPlan \in Seq(S) /\ DepartmentsPlan \in Seq(S)
      /\ VehiclesPlan \in Seq(S) /\ ShiftManagersPlan \in Seq(S)
      /\ LastPlan \in Seq(S)
  <2>1. /\ Seq(First) \subseteq Seq(S) /\ Seq(DepartmentResources) \subseteq Seq(S)
        /\ Seq(VehicleTasks) \subseteq Seq(S)
        /\ Seq(ShiftManagerTasks) \subseteq Seq(S)
        /\ Seq({clientUdpRxTask, dispatcherTask}) \subseteq Seq(S)
    BY DEF ClientResources
  <2> QED BY <2>1, ClientParts, DepartmentsInOrder, VehiclesInOrder
<1>2. P2 \in Seq(S) /\ P3 \in Seq(S) /\ P4 \in Seq(S)
  BY <1>1
<1>3. /\ Range(P2) = First \cup Range(DepartmentsPlan)
      /\ Range(P3) = Range(P2) \cup Range(VehiclesPlan)
      /\ Range(P4) = Range(P3) \cup Range(ShiftManagersPlan)
  <2> HIDE DEF S, P2, P3, P4
  <2>1. Range(P2) = Range(FirstPlan) \cup Range(DepartmentsPlan)
    BY <1>1, RangeOfBoth DEF P2
  <2>2. Range(P3) = Range(P2) \cup Range(VehiclesPlan)
    BY <1>1, <1>2, RangeOfBoth DEF P3
  <2>3. Range(P4) = Range(P3) \cup Range(ShiftManagersPlan)
    BY <1>1, <1>2, RangeOfBoth DEF P4
  <2> QED BY <2>1, <2>2, <2>3, ClientParts
<1>4. /\ Range(DepartmentsPlan) \subseteq DepartmentResources
      /\ Range(VehiclesPlan) \subseteq VehicleTasks
      /\ Range(ShiftManagersPlan) \subseteq ShiftManagerTasks
  BY ClientParts, DepartmentsInOrder, VehiclesInOrder, EarlierAreEntries
<1>5. ClientPlan = P4 \o LastPlan
  BY ClientParts
<1> HIDE DEF S, P2, P3, P4
<1>6. CASE /\ n - Len(P4) \in 1 .. Len(LastPlan)
           /\ ClientPlan[n] = LastPlan[n - Len(P4)]
           /\ Earlier(ClientPlan, n)
                = Range(P4) \cup Earlier(LastPlan, n - Len(P4))
  <2>1. n - Len(P4) \in {1, 2}
    BY <1>6, ClientParts
  <2>2. /\ LastPlan[n - Len(P4)] \in {clientUdpRxTask, dispatcherTask}
        /\ Earlier(LastPlan, n - Len(P4)) \subseteq {clientUdpRxTask}
    BY <2>1 DEF LastPlan, Earlier
  <2> QED BY <1>3, <1>4, <1>6, <2>2
<1>7. CASE /\ n \in 1 .. Len(P4)
           /\ ClientPlan[n] = P4[n] /\ Earlier(ClientPlan, n) = Earlier(P4, n)
  <2>1. CASE /\ n - Len(P3) \in 1 .. Len(ShiftManagersPlan)
             /\ P4[n] = ShiftManagersPlan[n - Len(P3)]
             /\ Earlier(P4, n) = Range(P3) \cup Earlier(ShiftManagersPlan, n - Len(P3))
    <3>1. /\ ShiftManagersPlan[n - Len(P3)] \in ShiftManagerTasks
          /\ Earlier(ShiftManagersPlan, n - Len(P3))
               \subseteq Range(ShiftManagersPlan)
      BY <2>1, ClientParts, EarlierAreEntries
    <3> QED BY <1>3, <1>4, <1>7, <2>1, <3>1
  <2>2. CASE /\ n \in 1 .. Len(P3)
             /\ P4[n] = P3[n] /\ Earlier(P4, n) = Earlier(P3, n)
    <3>1. CASE /\ n - Len(P2) \in 1 .. Len(VehiclesPlan)
               /\ P3[n] = VehiclesPlan[n - Len(P2)]
               /\ Earlier(P3, n)
                    = Range(P2) \cup Earlier(VehiclesPlan, n - Len(P2))
      <4>1. /\ VehiclesPlan[n - Len(P2)] \in VehicleTasks
            /\ Earlier(VehiclesPlan, n - Len(P2)) \subseteq Range(VehiclesPlan)
        BY <3>1, VehiclesInOrder, EarlierAreEntries
      <4> QED BY <1>3, <1>4, <1>7, <2>2, <3>1, <4>1
    <3>2. CASE /\ n \in 1 .. Len(P2)
               /\ P3[n] = P2[n] /\ Earlier(P3, n) = Earlier(P2, n)
      <4>1. \/ /\ n \in 1 .. Len(FirstPlan)
               /\ P2[n] = FirstPlan[n]
               /\ Earlier(P2, n) = Earlier(FirstPlan, n)
            \/ /\ n - Len(FirstPlan) \in 1 .. Len(DepartmentsPlan)
               /\ P2[n] = DepartmentsPlan[n - Len(FirstPlan)]
               /\ Earlier(P2, n) = Range(FirstPlan) \cup
                    Earlier(DepartmentsPlan, n - Len(FirstPlan))
        BY <1>1, <3>2, PlanThenPlan DEF P2
      <4> QED BY <1>7, <2>2, <3>2, <4>1, ClientParts
    <3>3. P3 = P2 \o VehiclesPlan /\ n \in 1 .. Len(P2 \o VehiclesPlan)
      BY <2>2 DEF P3
    <3>4. \/ /\ n \in 1 .. Len(P2)
             /\ P3[n] = P2[n] /\ Earlier(P3, n) = Earlier(P2, n)
          \/ /\ n - Len(P2) \in 1 .. Len(VehiclesPlan)
             /\ P3[n] = VehiclesPlan[n - Len(P2)]
             /\ Earlier(P3, n)
                  = Range(P2) \cup Earlier(VehiclesPlan, n - Len(P2))
      BY <1>1, <1>2, <3>3, PlanThenPlan
    <3> QED BY <3>1, <3>2, <3>4
  <2>3. P4 = P3 \o ShiftManagersPlan /\ n \in 1 .. Len(P3 \o ShiftManagersPlan)
    BY <1>7 DEF P4
  <2>4. \/ /\ n \in 1 .. Len(P3)
           /\ P4[n] = P3[n] /\ Earlier(P4, n) = Earlier(P3, n)
        \/ /\ n - Len(P3) \in 1 .. Len(ShiftManagersPlan)
           /\ P4[n] = ShiftManagersPlan[n - Len(P3)]
           /\ Earlier(P4, n)
                = Range(P3) \cup Earlier(ShiftManagersPlan, n - Len(P3))
    BY <1>1, <1>2, <2>3, PlanThenPlan
  <2> QED BY <2>1, <2>2, <2>4
<1>8. n \in 1 .. Len(P4 \o LastPlan)
  BY <1>5
<1>9. \/ /\ n \in 1 .. Len(P4)
         /\ ClientPlan[n] = P4[n] /\ Earlier(ClientPlan, n) = Earlier(P4, n)
      \/ /\ n - Len(P4) \in 1 .. Len(LastPlan)
         /\ ClientPlan[n] = LastPlan[n - Len(P4)]
         /\ Earlier(ClientPlan, n)
              = Range(P4) \cup Earlier(LastPlan, n - Len(P4))
  BY <1>1, <1>2, <1>5, <1>8, PlanThenPlan
<1> QED BY <1>6, <1>7, <1>9

\* The server has resources of its own, but for the name of one mutex.
ServerResources == {serverSocket, database, serverUdpTxQueue,
                    eventGeneratorTask, serverUdpTxTask, serverUdpRxTask}

\* No resource is of two kinds.
LEMMA KindsDiffer ==
  /\ First \cap DepartmentResources = {}
  /\ (First \cup DepartmentResources) \cap VehicleTasks = {}
  /\ (First \cup DepartmentResources \cup VehicleTasks)
       \cap (ShiftManagerTasks \cup {clientUdpRxTask, dispatcherTask}) = {}
  /\ ClientResources \cap ServerResources = {}
  /\ (PriorityQueues \cup VehicleMutexes) \cap VehicleEventGroups = {}
<1>1. \A r \in DepartmentResources :
        r[1] \in {"priorityQueues", "vehicleMutex", "vehicleEventGroup"}
  BY Names DEF DepartmentResources
<1>2. \A r \in ServerResources :
        r[1] \in {"g_serverSocket", "g_database", "g_serverUdpTxQueue",
                  "g_serverEventGeneratorTask", "g_serverUdpTxTask",
                  "g_serverUdpRxTask"}
  BY Names DEF ServerResources
<1>3. First \cap DepartmentResources = {}
  BY <1>1, Names
<1>4. (First \cup DepartmentResources) \cap VehicleTasks = {}
  BY <1>1, Names
<1>5. (First \cup DepartmentResources \cup VehicleTasks)
        \cap (ShiftManagerTasks \cup {clientUdpRxTask, dispatcherTask}) = {}
  BY <1>1, Names
<1>6. ClientResources \cap ServerResources = {}
  BY <1>1, <1>2, Names DEF ClientResources
<1>7. (PriorityQueues \cup VehicleMutexes) \cap VehicleEventGroups = {}
  BY Names
<1> QED BY <1>3, <1>4, <1>5, <1>6, <1>7

\* Nor are two of those created first the same.
LEMMA FirstDiffer ==
  /\ clientSocket \notin {clientUdpMutex, clientRxQueue, faultQueue,
                          faultManagerTask}
  /\ clientUdpMutex \notin {clientRxQueue, faultQueue, faultManagerTask}
  /\ clientRxQueue \notin {faultQueue, faultManagerTask}
  /\ faultQueue # faultManagerTask
BY Names

\* Nor are two of the server's.
LEMMA ServerResourcesDiffer ==
  /\ serverSocket \notin {database, serverUdpTxQueue, eventGeneratorTask,
                          serverUdpTxTask, serverUdpRxTask}
  /\ database \notin {serverUdpTxQueue, eventGeneratorTask, serverUdpTxTask,
                      serverUdpRxTask}
  /\ serverUdpTxQueue \notin {eventGeneratorTask, serverUdpTxTask,
                              serverUdpRxTask}
  /\ eventGeneratorTask \notin {serverUdpTxTask, serverUdpRxTask}
  /\ serverUdpTxTask # serverUdpRxTask
BY Names

\* What each failure path of the client may take to exist, and must release.
LEMMA ClientPlanInOrder ==
  ASSUME NEW n \in 1 .. Len(ClientPlan),
         NEW r, r = ClientPlan[n],
         NEW before, before = Earlier(ClientPlan, n)
  PROVE  /\ r \in ClientResources
         /\ r = clientSocket => before = {}
         /\ r = clientUdpMutex => before = {clientSocket}
         /\ r = clientRxQueue => before = {clientSocket, clientUdpMutex}
         /\ r = faultQueue
              => before = {clientSocket, clientUdpMutex, clientRxQueue}
         /\ r = faultManagerTask
              => before = {clientSocket, clientUdpMutex, clientRxQueue,
                           faultQueue}
         /\ r \in DepartmentResources
              => /\ First \subseteq before
                 /\ before \subseteq First \cup Range(DepartmentsPlan)
         /\ \A d \in D : r = vehicleEventGroup(d) => vehicleMutex(d) \in before
         /\ r \in VehicleTasks
              => /\ First \subseteq before
                 /\ before \subseteq First \cup Range(DepartmentsPlan)
                                       \cup Range(VehiclesPlan)
         /\ r \in ShiftManagerTasks \cup {clientUdpRxTask, dispatcherTask}
              => /\ First \subseteq before
                 /\ before \subseteq First \cup Range(DepartmentsPlan)
                      \cup Range(VehiclesPlan) \cup Range(ShiftManagersPlan)
                      \cup {clientUdpRxTask}
<1>1. \A d \in D : vehicleEventGroup(d) \in DepartmentResources
  BY DEF DepartmentResources, VehicleEventGroups
<1>2. First \cup DepartmentResources \cup VehicleTasks \cup ShiftManagerTasks
        \cup {clientUdpRxTask, dispatcherTask} = ClientResources
  BY DEF ClientResources
<1>3. {clientSocket, clientUdpMutex, clientRxQueue, faultQueue,
       faultManagerTask} = First
  BY DEF First
<1>4. CASE /\ n \in 1 .. Len(FirstPlan)
           /\ r = FirstPlan[n] /\ before = Earlier(FirstPlan, n)
  <2>1. n \in {1, 2, 3, 4, 5}
    BY <1>4 DEF FirstPlan
  <2>2. r \in First
    BY <2>1, <1>4 DEF FirstPlan, First
  <2>3. /\ r = clientSocket => before = {}
        /\ r = clientUdpMutex => before = {clientSocket}
        /\ r = clientRxQueue => before = {clientSocket, clientUdpMutex}
        /\ r = faultQueue
             => before = {clientSocket, clientUdpMutex, clientRxQueue}
        /\ r = faultManagerTask
             => before = {clientSocket, clientUdpMutex, clientRxQueue,
                          faultQueue}
    <3>1. \/ r = clientSocket /\ before = {}
          \/ r = clientUdpMutex /\ before = {clientSocket}
          \/ r = clientRxQueue /\ before = {clientSocket, clientUdpMutex}
          \/ /\ r = faultQueue
             /\ before = {clientSocket, clientUdpMutex, clientRxQueue}
          \/ /\ r = faultManagerTask
             /\ before = {clientSocket, clientUdpMutex, clientRxQueue,
                          faultQueue}
      <4>1. /\ FirstPlan[1] = clientSocket /\ FirstPlan[2] = clientUdpMutex
            /\ FirstPlan[3] = clientRxQueue /\ FirstPlan[4] = faultQueue
            /\ FirstPlan[5] = faultManagerTask
        BY DEF FirstPlan
      <4>2. /\ 1 .. 1 - 1 = {} /\ 1 .. 2 - 1 = {1} /\ 1 .. 3 - 1 = {1, 2}
            /\ 1 .. 4 - 1 = {1, 2, 3} /\ 1 .. 5 - 1 = {1, 2, 3, 4}
        OBVIOUS
      <4>3. /\ Earlier(FirstPlan, 1) = {}
            /\ Earlier(FirstPlan, 2) = {clientSocket}
            /\ Earlier(FirstPlan, 3) = {clientSocket, clientUdpMutex}
            /\ Earlier(FirstPlan, 4)
                 = {clientSocket, clientUdpMutex, clientRxQueue}
            /\ Earlier(FirstPlan, 5)
                 = {clientSocket, clientUdpMutex, clientRxQueue, faultQueue}
        BY <4>1, <4>2 DEF Earlier
      <4> QED BY <2>1, <1>4, <4>1, <4>3
    <3> QED BY <3>1, FirstDiffer
  <2> QED BY <1>1, <1>2, <2>2, <2>3, KindsDiffer
<1>5. CASE \E k \in 1 .. Len(DepartmentsPlan) :
             /\ r = DepartmentsPlan[k]
             /\ before = First \cup Earlier(DepartmentsPlan, k)
  <2>1. PICK k \in 1 .. Len(DepartmentsPlan) :
             /\ r = DepartmentsPlan[k]
             /\ before = First \cup Earlier(DepartmentsPlan, k)
    BY <1>5
  <2>2. /\ r \in DepartmentResources
        /\ Earlier(DepartmentsPlan, k) \subseteq Range(DepartmentsPlan)
    BY <2>1, DepartmentsInOrder, EarlierAreEntries
  <2>3. \A d \in D : r = vehicleEventGroup(d) => vehicleMutex(d) \in before
    BY <2>1, DepartmentsInOrder
  <2> QED BY <1>2, <1>3, <2>1, <2>2, <2>3, KindsDiffer
<1>6. CASE /\ r \in VehicleTasks /\ First \subseteq before
           /\ before \subseteq First \cup Range(DepartmentsPlan)
                                 \cup Range(VehiclesPlan)
  BY <1>1, <1>2, <1>3, <1>6, KindsDiffer
<1>7. CASE /\ r \in ShiftManagerTasks \cup {clientUdpRxTask, dispatcherTask}
           /\ First \subseteq before
           /\ before \subseteq First \cup Range(DepartmentsPlan)
                \cup Range(VehiclesPlan) \cup Range(ShiftManagersPlan)
                \cup {clientUdpRxTask}
  BY <1>1, <1>2, <1>3, <1>7, KindsDiffer
<1> QED BY <1>4, <1>5, <1>6, <1>7, ClientPlanAt

\* The same for the server.
LEMMA ServerPlanInOrder ==
  ASSUME NEW n \in 1 .. Len(ServerPlan),
         NEW r, r = ServerPlan[n],
         NEW before, before = Earlier(ServerPlan, n)
  PROVE  /\ r \in ServerResources
         /\ r = serverSocket => before = {}
         /\ r = database => before = {serverSocket}
         /\ r = serverUdpTxQueue => before = {serverSocket, database}
         /\ r = eventGeneratorTask
              => before = {serverSocket, database, serverUdpTxQueue}
         /\ r = serverUdpTxTask
              => before = {serverSocket, database, serverUdpTxQueue,
                           eventGeneratorTask}
         /\ r = serverUdpRxTask
              => before = {serverSocket, database, serverUdpTxQueue,
                           eventGeneratorTask, serverUdpTxTask}
<1>1. n \in {1, 2, 3, 4, 5, 6}
  BY DEF ServerPlan
<1>2. r \in ServerResources
  BY <1>1 DEF ServerPlan, ServerResources
<1> QED BY <1>1, <1>2, ServerResourcesDiffer DEF ServerPlan, Earlier

\* Plans are sequences.
LEMMA PlansAreSequences ==
  /\ ClientPlan \in Seq(Resources)
  /\ ServerPlan \in Seq(Resources)
<1> DEFINE S == Resources
<1>0. ClientResources \cup ServerResources = S
  BY DEF Resources, ClientResources, ServerResources, First,
         DepartmentResources
<1>1. ClientPlan \in Seq(S)
  <2>1. /\ FirstPlan \in Seq(S) /\ DepartmentsPlan \in Seq(S)
        /\ VehiclesPlan \in Seq(S) /\ ShiftManagersPlan \in Seq(S)
        /\ LastPlan \in Seq(S)
    <3>1. /\ Seq(First) \subseteq Seq(S)
          /\ Seq(DepartmentResources) \subseteq Seq(S)
          /\ Seq(VehicleTasks) \subseteq Seq(S)
          /\ Seq(ShiftManagerTasks) \subseteq Seq(S)
          /\ Seq({clientUdpRxTask, dispatcherTask}) \subseteq Seq(S)
      BY <1>0 DEF ClientResources
    <3> QED BY <3>1, ClientParts, DepartmentsInOrder, VehiclesInOrder
  <2> QED BY <2>1, ClientParts
<1>2. ServerPlan \in Seq(S)
  BY <1>0 DEF ServerPlan, ServerResources
<1> QED BY <1>1, <1>2

\* So is the plan of the mode.
LEMMA PlanType == Plan \in Seq(Resources)
<1>1. << >> \in Seq(Resources)
  OBVIOUS
<1> QED BY <1>1, PlansAreSequences DEF Plan

-----------------------------------------------------------------------------
(* Sequences of operations *)

\* The three operations and what they are of.
LEMMA OpsAre ==
  ASSUME NEW r \in Resources
  PROVE  /\ Delete(r) \in Ops /\ Close(r) \in Ops /\ Reset(r) \in Ops
         /\ Delete(r).op = "delete" /\ Close(r).op = "close"
         /\ Reset(r).op = "reset"
         /\ Delete(r).of = r /\ Close(r).of = r /\ Reset(r).of = r
BY DEF Ops, Delete, Close, Reset

\* An operation is known by its kind and what it is of.
LEMMA OpIs ==
  ASSUME NEW o \in Ops
  PROVE  /\ o.of \in Resources /\ o.op \in {"delete", "close", "reset"}
         /\ o.op = "reset" <=> o = Reset(o.of)
         /\ \A r : o = Reset(r) => o.of = r
<1>1. /\ o.of \in Resources /\ o.op \in {"delete", "close", "reset"}
      /\ o = [op |-> o.op, of |-> o.of]
  BY DEF Ops
<1> QED BY <1>1 DEF Reset

\* One operation is done: what is left, and how it compares.
LEMMA Done ==
  ASSUME NEW t \in Seq(Ops), t # << >>, ResetsFirst(t),
         NEW twice, Once(t, twice)
  PROVE  /\ t[1] = Head(t) /\ Head(t) \in Ops
         /\ Tail(t) \in Seq(Ops) /\ ResetsFirst(Tail(t))
         /\ \A r : ~Resets(Tail(t), r)
         /\ Once(Tail(t), twice)
         /\ \A op : Parts(t, op) = Parts(Tail(t), op)
                      \cup (IF t[1].op = op THEN {t[1].of} ELSE {})
         /\ t[1].op = "delete"
              => /\ t[1].of \notin Parts(Tail(t), "delete")
                 /\ t[1].of \in Parts(Tail(t), "close") => t[1].of \in twice
         /\ t[1].op = "close" => t[1].of \notin Parts(Tail(t), "delete")
<1>1. /\ Len(t) \in Nat /\ Len(t) > 0 /\ t[1] = Head(t) /\ Head(t) \in Ops
      /\ Tail(t) \in Seq(Ops) /\ Len(Tail(t)) = Len(t) - 1
      /\ \A n \in 1 .. Len(t) - 1 : Tail(t)[n] = t[n + 1]
      /\ \A n \in 1 .. Len(t) : t[n] \in Ops
  OBVIOUS
<1>2. \A n \in 1 .. Len(Tail(t)) :
        /\ n + 1 \in 1 .. Len(t) /\ n + 1 # 1 /\ Tail(t)[n] = t[n + 1]
        /\ Tail(t)[n].op # "reset"
  BY <1>1 DEF ResetsFirst
<1>3. ResetsFirst(Tail(t)) /\ \A r : ~Resets(Tail(t), r)
  <2>1. ResetsFirst(Tail(t))
    BY <1>2 DEF ResetsFirst
  <2>2. ASSUME NEW r, Resets(Tail(t), r) PROVE FALSE
    <3>1. 1 \in 1 .. Len(Tail(t)) /\ Tail(t)[1] = Reset(r)
      BY <1>1, <2>2 DEF Resets
    <3>2. Tail(t)[1].op = "reset"
      BY <3>1 DEF Reset
    <3> QED BY <1>2, <3>1, <3>2
  <2> QED BY <2>1, <2>2
<1>4. Once(Tail(t), twice)
  <2> SUFFICES ASSUME NEW m \in 1 .. Len(Tail(t)), NEW n \in 1 .. Len(Tail(t)),
                      m # n, Tail(t)[m].op = "delete",
                      Tail(t)[n].of = Tail(t)[m].of
               PROVE  FALSE
    BY DEF Once
  <2>1. /\ m + 1 \in 1 .. Len(t) /\ n + 1 \in 1 .. Len(t) /\ m + 1 # n + 1
        /\ m + 1 # 1
        /\ t[m + 1].op = "delete" /\ t[n + 1].of = t[m + 1].of
    BY <1>1, <1>2
  <2> QED BY <2>1 DEF Once
<1>5. ASSUME NEW op
      PROVE  Parts(t, op) = Parts(Tail(t), op)
                              \cup (IF t[1].op = op THEN {t[1].of} ELSE {})
  <2>1. ASSUME NEW n \in 1 .. Len(t), t[n].op = op
        PROVE  t[n].of \in Parts(Tail(t), op)
                              \cup (IF t[1].op = op THEN {t[1].of} ELSE {})
    <3>1. CASE n = 1
      BY <2>1, <3>1
    <3>2. CASE n # 1
      <4>1. n - 1 \in 1 .. Len(Tail(t)) /\ Tail(t)[n - 1] = t[n]
        BY <1>1, <3>2
      <4> QED BY <2>1, <4>1 DEF Parts
    <3> QED BY <3>1, <3>2
  <2>2. ASSUME NEW n \in 1 .. Len(Tail(t)), Tail(t)[n].op = op
        PROVE  Tail(t)[n].of \in Parts(t, op)
    BY <1>2, <2>2 DEF Parts
  <2>3. t[1].op = op => t[1].of \in Parts(t, op)
    BY <1>1 DEF Parts
  <2> QED BY <2>1, <2>2, <2>3 DEF Parts
<1>6. ASSUME NEW n \in 1 .. Len(Tail(t)), Tail(t)[n].of = t[1].of
      PROVE  /\ t[1].op = "delete"
                  => Tail(t)[n].op = "close" /\ t[1].of \in twice
             /\ t[1].op = "close" => Tail(t)[n].op # "delete"
  <2>1. /\ 1 \in 1 .. Len(t) /\ n + 1 \in 1 .. Len(t) /\ n + 1 # 1
        /\ t[n + 1].of = t[1].of /\ Tail(t)[n] = t[n + 1]
    BY <1>1, <1>2, <1>6
  <2> QED BY <2>1 DEF Once
<1>7. /\ t[1].op = "delete"
           => /\ t[1].of \notin Parts(Tail(t), "delete")
              /\ t[1].of \in Parts(Tail(t), "close") => t[1].of \in twice
      /\ t[1].op = "close" => t[1].of \notin Parts(Tail(t), "delete")
  BY <1>6 DEF Parts
<1> QED BY <1>1, <1>3, <1>4, <1>5, <1>7

\* Something is closed: its reset is the next operation, the rest is as before.
LEMMA Closing ==
  ASSUME NEW t \in Seq(Ops), t # << >>, ResetsFirst(t),
         NEW twice, Once(t, twice), t[1].op = "close",
         NEW u, u = [t EXCEPT ![1] = Reset(t[1].of)]
  PROVE  /\ u \in Seq(Ops) /\ ResetsFirst(u) /\ Once(u, twice)
         /\ \A r : Resets(u, r) <=> r = t[1].of
         /\ \A op \in {"delete", "close"} : Parts(u, op) = Parts(Tail(t), op)
<1>1. /\ Len(t) \in Nat /\ Len(t) > 0
      /\ \A n \in 1 .. Len(t) : t[n] \in Ops
  OBVIOUS
<1>2. Reset(t[1].of) \in Ops /\ Reset(t[1].of).of = t[1].of
      /\ Reset(t[1].of).op = "reset"
  BY <1>1, OpIs, OpsAre
<1>3. /\ u \in Seq(Ops) /\ Len(u) = Len(t) /\ u # << >>
      /\ u[1] = Reset(t[1].of)
      /\ \A n \in 1 .. Len(t) : n # 1 => u[n] = t[n]
      /\ \A n \in 1 .. Len(t) : u[n].of = t[n].of
  BY <1>1, <1>2
<1>4. /\ Len(Tail(t)) = Len(t) - 1
      /\ \A n \in 1 .. Len(Tail(t)) : /\ n + 1 \in 1 .. Len(u)
                                      /\ u[n + 1] = Tail(t)[n]
  <2>1. /\ Len(Tail(t)) = Len(t) - 1
        /\ \A n \in 1 .. Len(t) - 1 : Tail(t)[n] = t[n + 1]
    BY <1>1
  <2> QED BY <1>1, <1>3, <2>1
<1>5. ResetsFirst(u)
  BY <1>1, <1>3 DEF ResetsFirst
<1>6. Once(u, twice)
  <2> SUFFICES ASSUME NEW m \in 1 .. Len(t), NEW n \in 1 .. Len(t), m # n,
                      u[m].op = "delete", u[n].of = u[m].of
               PROVE  FALSE
    BY <1>3 DEF Once
  <2>1. m # 1 /\ u[m] = t[m] /\ t[n].of = t[m].of
    BY <1>2, <1>3
  <2> QED BY <2>1 DEF Once
<1>7. \A r : Resets(u, r) <=> r = t[1].of
  BY <1>3 DEF Resets, Reset
<1>8. \A op \in {"delete", "close"} : Parts(u, op) = Parts(Tail(t), op)
  <2> TAKE op \in {"delete", "close"}
  <2>1. ASSUME NEW n \in 1 .. Len(u), u[n].op = op
        PROVE  u[n].of \in Parts(Tail(t), op)
    <3>1. n # 1
      BY <1>2, <1>3, <2>1
    <3>2. n - 1 \in 1 .. Len(Tail(t)) /\ (n - 1) + 1 = n
      BY <1>1, <1>3, <1>4, <3>1
    <3>3. Tail(t)[n - 1] = u[n]
      BY <1>4, <3>2
    <3> QED BY <2>1, <3>2, <3>3 DEF Parts
  <2>2. ASSUME NEW n \in 1 .. Len(Tail(t)), Tail(t)[n].op = op
        PROVE  Tail(t)[n].of \in Parts(u, op)
    BY <1>4, <2>2 DEF Parts
  <2> QED BY <2>1, <2>2 DEF Parts
<1> QED BY <1>3, <1>5, <1>6, <1>7, <1>8

\* t deletes what is in dels, closes what is in clos, and resets nothing yet.
Path(t, dels, clos, twice) ==
  /\ t \in Seq(Ops)
  /\ \A n \in 1 .. Len(t) : t[n].op # "reset"
  /\ Parts(t, "delete") = dels
  /\ Parts(t, "close") = clos
  /\ Once(t, twice)

\* The shortest paths.
LEMMA ShortPaths ==
  /\ Path(<< >>, {}, {}, {})
  /\ \A r \in Resources : /\ Path(<<Close(r)>>, {}, {r}, {})
                          /\ Path(<<Delete(r)>>, {r}, {}, {})
<1>1. Path(<< >>, {}, {}, {})
  BY DEF Path, Parts, Once
<1>2. ASSUME NEW r \in Resources
      PROVE  /\ Path(<<Close(r)>>, {}, {r}, {})
             /\ Path(<<Delete(r)>>, {r}, {}, {})
  <2>1. ASSUME NEW o \in Ops
        PROVE  /\ <<o>> \in Seq(Ops) /\ Once(<<o>>, {})
               /\ \A n \in 1 .. Len(<<o>>) : <<o>>[n] = o
               /\ \A op : Parts(<<o>>, op) = IF o.op = op THEN {o.of} ELSE {}
    BY DEF Parts, Once
  <2>2. /\ Close(r) \in Ops /\ Close(r).op = "close" /\ Close(r).of = r
        /\ Delete(r) \in Ops /\ Delete(r).op = "delete" /\ Delete(r).of = r
    BY OpsAre
  <2>3. Path(<<Close(r)>>, {}, {r}, {})
    BY <2>1, <2>2 DEF Path
  <2>4. Path(<<Delete(r)>>, {r}, {}, {})
    BY <2>1, <2>2 DEF Path
  <2> QED BY <2>3, <2>4
<1> QED BY <1>1, <1>2

\* One path after another.
LEMMA PathThenPath ==
  ASSUME NEW s, NEW sd, NEW sc, Path(s, sd, sc, {}),
         NEW t, NEW td, NEW tc, Path(t, td, tc, {}),
         sd \cap (td \cup tc) = {}, td \cap sc = {}
  PROVE  Path(s \o t, sd \cup td, sc \cup tc, {})
<1>1. /\ s \in Seq(Ops) /\ t \in Seq(Ops)
      /\ Len(s) \in Nat /\ Len(t) \in Nat
      /\ \A n \in 1 .. Len(s) : s[n].op # "reset"
      /\ \A n \in 1 .. Len(t) : t[n].op # "reset"
  BY DEF Path
<1>2. /\ s \o t \in Seq(Ops) /\ Len(s \o t) = Len(s) + Len(t)
      /\ \A n \in 1 .. Len(s) : n \in 1 .. Len(s \o t) /\ (s \o t)[n] = s[n]
      /\ \A n \in 1 .. Len(t) : /\ Len(s) + n \in 1 .. Len(s \o t)
                                /\ (s \o t)[Len(s) + n] = t[n]
  BY <1>1
<1>3. \A n \in 1 .. Len(s \o t) :
        \/ n \in 1 .. Len(s) /\ (s \o t)[n] = s[n]
        \/ n - Len(s) \in 1 .. Len(t) /\ (s \o t)[n] = t[n - Len(s)]
  BY <1>1
<1>4. \A op : Parts(s \o t, op) = Parts(s, op) \cup Parts(t, op)
  <2> TAKE op
  <2>1. \A n \in 1 .. Len(s \o t) :
          (s \o t)[n].op = op
            => (s \o t)[n].of \in Parts(s, op) \cup Parts(t, op)
    BY <1>3 DEF Parts
  <2>2. \A n \in 1 .. Len(s) : s[n].op = op => s[n].of \in Parts(s \o t, op)
    BY <1>2 DEF Parts
  <2>3. \A n \in 1 .. Len(t) : t[n].op = op => t[n].of \in Parts(s \o t, op)
    BY <1>2 DEF Parts
  <2> QED BY <2>1, <2>2, <2>3 DEF Parts
<1>5. /\ \A n \in 1 .. Len(s) : s[n].of \in sd \cup sc
      /\ \A n \in 1 .. Len(t) : t[n].of \in td \cup tc
      /\ \A n \in 1 .. Len(s) : s[n].op = "delete" => s[n].of \in sd
      /\ \A n \in 1 .. Len(t) : t[n].op = "delete" => t[n].of \in td
  <2>1. /\ \A n \in 1 .. Len(s) : s[n].op \in {"delete", "close"}
        /\ \A n \in 1 .. Len(t) : t[n].op \in {"delete", "close"}
    BY <1>1, OpIs
  <2> QED BY <2>1 DEF Path, Parts
<1>6. Once(s \o t, {})
  <2> SUFFICES ASSUME NEW m \in 1 .. Len(s \o t), NEW n \in 1 .. Len(s \o t),
                      m # n, (s \o t)[m].op = "delete",
                      (s \o t)[n].of = (s \o t)[m].of
               PROVE  FALSE
    BY DEF Once
  <2>1. CASE m \in 1 .. Len(s) /\ n \in 1 .. Len(s)
    BY <1>2, <2>1 DEF Path, Once
  <2>2. CASE /\ m - Len(s) \in 1 .. Len(t) /\ n - Len(s) \in 1 .. Len(t)
             /\ (s \o t)[m] = t[m - Len(s)] /\ (s \o t)[n] = t[n - Len(s)]
    <3>1. m - Len(s) # n - Len(s)
      BY <1>1
    <3> QED BY <2>2, <3>1 DEF Path, Once
  <2>3. CASE /\ m \in 1 .. Len(s) /\ (s \o t)[m] = s[m]
             /\ n - Len(s) \in 1 .. Len(t) /\ (s \o t)[n] = t[n - Len(s)]
    BY <1>5, <2>3
  <2>4. CASE /\ n \in 1 .. Len(s) /\ (s \o t)[n] = s[n]
             /\ m - Len(s) \in 1 .. Len(t) /\ (s \o t)[m] = t[m - Len(s)]
    BY <1>5, <2>4
  <2> QED BY <1>3, <2>1, <2>2, <2>3, <2>4
<1>7. \A n \in 1 .. Len(s \o t) : (s \o t)[n].op # "reset"
  BY <1>1, <1>3
<1> QED BY <1>2, <1>4, <1>6, <1>7 DEF Path

\* A cleanup function closes what its loop passes.
LEMMA CloseAllIs ==
  ASSUME NEW plan \in Seq(Resources)
  PROVE  Path(CloseAll(plan), {}, Range(plan), {})
<1>1. Len(plan) \in Nat /\ DOMAIN plan = 1 .. Len(plan)
      /\ \A n \in 1 .. Len(plan) : plan[n] \in Resources
  OBVIOUS
<1>2. CloseAll(plan) = [n \in 1 .. Len(plan) |-> Close(plan[n])]
  BY <1>1 DEF CloseAll
<1>3. \A n \in 1 .. Len(plan) :
        Close(plan[n]) \in Ops /\ Close(plan[n]).op = "close"
        /\ Close(plan[n]).of = plan[n]
  BY <1>1, OpsAre
<1>4. /\ CloseAll(plan) \in Seq(Ops) /\ Len(CloseAll(plan)) = Len(plan)
      /\ \A n \in 1 .. Len(plan) : /\ CloseAll(plan)[n].op = "close"
                                   /\ CloseAll(plan)[n].of = plan[n]
  BY <1>1, <1>2, <1>3
<1>5. /\ Parts(CloseAll(plan), "delete") = {}
      /\ Parts(CloseAll(plan), "close") = Range(plan)
  BY <1>1, <1>4 DEF Parts, Range
<1>6. Once(CloseAll(plan), {})
  BY <1>4 DEF Once
<1> QED BY <1>4, <1>5, <1>6 DEF Path

\* A path that starts with the deletion of something it closes later.
LEMMA DeleteThenPath ==
  ASSUME NEW t, NEW td, NEW tc, Path(t, td, tc, {}),
         NEW r \in Resources, r \notin td
  PROVE  Path(<<Delete(r)>> \o t, {r} \cup td, tc, {r})
<1> DEFINE u == <<Delete(r)>> \o t
<1>1. /\ t \in Seq(Ops) /\ Len(t) \in Nat
      /\ \A n \in 1 .. Len(t) : t[n].op # "reset" /\ t[n] \in Ops
  BY DEF Path
<1>2. Delete(r) \in Ops /\ Delete(r).op = "delete" /\ Delete(r).of = r
  BY OpsAre
<1>3. /\ u \in Seq(Ops) /\ Len(u) = Len(t) + 1 /\ u[1] = Delete(r)
      /\ \A n \in 1 .. Len(t) : n + 1 \in 1 .. Len(u) /\ u[n + 1] = t[n]
  BY <1>1, <1>2
<1>4. \A n \in 1 .. Len(u) :
        \/ n = 1 /\ u[n] = Delete(r)
        \/ n - 1 \in 1 .. Len(t) /\ u[n] = t[n - 1]
  BY <1>1, <1>2
<1> HIDE DEF u
<1>5. \A op : Parts(u, op) = Parts(t, op) \cup (IF op = "delete" THEN {r} ELSE {})
  <2> TAKE op
  <2>1. \A n \in 1 .. Len(u) :
          u[n].op = op => u[n].of \in Parts(t, op)
                                        \cup (IF op = "delete" THEN {r} ELSE {})
    BY <1>2, <1>4 DEF Parts
  <2>2. \A n \in 1 .. Len(t) : t[n].op = op => t[n].of \in Parts(u, op)
    BY <1>3 DEF Parts
  <2>3. op = "delete" => r \in Parts(u, op)
    <3>1. 1 \in 1 .. Len(u)
      BY <1>1, <1>3
    <3> QED BY <1>2, <1>3, <3>1 DEF Parts
  <2> QED BY <2>1, <2>2, <2>3 DEF Parts
<1>6. ASSUME NEW n \in 1 .. Len(t), t[n].of = r PROVE t[n].op = "close"
  <2>1. t[n].op # "delete"
    BY <1>6 DEF Path, Parts
  <2> QED BY <1>1, <2>1, OpIs
<1>7. Once(u, {r})
  <2> SUFFICES ASSUME NEW m \in 1 .. Len(u), NEW n \in 1 .. Len(u), m # n,
                      u[m].op = "delete", u[n].of = u[m].of
               PROVE  m = 1 /\ u[n].op = "close" /\ u[m].of = r
    BY DEF Once
  <2>1. CASE m = 1
    <3>1. n - 1 \in 1 .. Len(t) /\ u[n] = t[n - 1] /\ u[m].of = r
      BY <1>2, <1>4, <2>1
    <3> QED BY <1>6, <2>1, <3>1
  <2>2. CASE m # 1 /\ n = 1
    <3>1. m - 1 \in 1 .. Len(t) /\ u[m] = t[m - 1] /\ t[m - 1].of = r
      BY <1>2, <1>4, <2>2
    <3> QED BY <1>6, <3>1
  <2>3. CASE m # 1 /\ n # 1
    <3>1. /\ m - 1 \in 1 .. Len(t) /\ u[m] = t[m - 1]
          /\ n - 1 \in 1 .. Len(t) /\ u[n] = t[n - 1] /\ m - 1 # n - 1
      BY <1>1, <1>4, <2>3
    <3> QED BY <3>1 DEF Path, Once
  <2> QED BY <2>1, <2>2, <2>3
<1>8. \A n \in 1 .. Len(u) : u[n].op # "reset"
  BY <1>1, <1>2, <1>4
<1> QED BY <1>3, <1>5, <1>7, <1>8 DEF Path, u

-----------------------------------------------------------------------------
(* The paths of the program *)

\* What the plans create are resources.
LEMMA ResourcesAre ==
  /\ First \cup DepartmentResources \cup VehicleTasks \cup ShiftManagerTasks
       \cup {clientUdpRxTask, dispatcherTask} \cup ServerResources = Resources
  /\ DepartmentsPlan \in Seq(Resources) /\ VehiclesPlan \in Seq(Resources)
  /\ ShiftManagersPlan \in Seq(Resources)
  /\ Range(DepartmentsPlan) \subseteq DepartmentResources
  /\ Range(VehiclesPlan) \subseteq VehicleTasks
  /\ Range(ShiftManagersPlan) \subseteq ShiftManagerTasks
<1>1. First \cup DepartmentResources \cup VehicleTasks \cup ShiftManagerTasks
        \cup {clientUdpRxTask, dispatcherTask} \cup ServerResources = Resources
  BY DEF Resources, First, DepartmentResources, ServerResources
<1>2. /\ DepartmentResources \subseteq Resources
      /\ VehicleTasks \subseteq Resources /\ ShiftManagerTasks \subseteq Resources
  BY <1>1
<1>3. /\ Seq(DepartmentResources) \subseteq Seq(Resources)
      /\ Seq(VehicleTasks) \subseteq Seq(Resources)
      /\ Seq(ShiftManagerTasks) \subseteq Seq(Resources)
  BY <1>2
<1>4. /\ Range(DepartmentsPlan) \subseteq DepartmentResources
      /\ Range(VehiclesPlan) \subseteq VehicleTasks
      /\ Range(ShiftManagersPlan) \subseteq ShiftManagerTasks
  BY ClientParts, DepartmentsInOrder, VehiclesInOrder, EarlierAreEntries
<1> QED BY <1>1, <1>3, <1>4, ClientParts, DepartmentsInOrder, VehiclesInOrder

\* Tuples joined are tuples.
LEMMA Joined ==
  ASSUME NEW S, NEW a \in S, NEW b \in S, NEW c \in S
  PROVE  /\ <<a>> \o <<b>> = <<a, b>>
         /\ <<a, b>> \o <<c>> = <<a, b, c>>
<1>1. /\ <<a>> \in Seq(S) /\ <<b>> \in Seq(S) /\ <<c>> \in Seq(S)
      /\ <<a, b>> \in Seq(S) /\ <<a, b, c>> \in Seq(S)
  OBVIOUS
<1>2. <<a>> \o <<b>> \in Seq(S) /\ <<a, b>> \o <<c>> \in Seq(S)
  BY <1>1
<1>3. <<a>> \o <<b>> = <<a, b>>
  <2>1. Len(<<a>> \o <<b>>) = 2 /\ Len(<<a, b>>) = 2
    BY <1>1
  <2>2. \A i \in 1 .. 2 : (<<a>> \o <<b>>)[i] = <<a, b>>[i]
    BY <1>1
  <2> QED BY <1>1, <1>2, <2>1, <2>2, SeqEqual
<1>4. <<a, b>> \o <<c>> = <<a, b, c>>
  <2>1. Len(<<a, b>> \o <<c>>) = 3 /\ Len(<<a, b, c>>) = 3
    BY <1>1
  <2>2. \A i \in 1 .. 3 : (<<a, b>> \o <<c>>)[i] = <<a, b, c>>[i]
    BY <1>1
  <2> QED BY <1>1, <1>2, <2>1, <2>2, SeqEqual
<1> QED BY <1>3, <1>4

\* What the Close and Cleanup functions close.
LEMMA CleanupPaths ==
  /\ Path(ClientUdpClose, {}, {clientSocket}, {})
  /\ Path(ServerUdpClose, {}, {serverSocket, clientUdpMutex}, {})
  /\ Path(DatabaseClose, {}, {database}, {})
  /\ Path(CleanupFaultManagerTask, {}, {faultManagerTask}, {})
  /\ Path(CleanupDepartments, {}, Range(DepartmentsPlan), {})
  /\ Path(CleanupVehicleTasks, {}, Range(VehiclesPlan), {})
  /\ Path(CleanupShiftManagerTasks, {}, Range(ShiftManagersPlan), {})
<1>1. {clientSocket, clientUdpMutex, serverSocket, database, faultManagerTask}
        \subseteq Resources
  BY ResourcesAre DEF First, ServerResources
<1>2. /\ Path(<<Close(clientSocket)>>, {}, {clientSocket}, {})
      /\ Path(<<Close(serverSocket)>>, {}, {serverSocket}, {})
      /\ Path(<<Close(clientUdpMutex)>>, {}, {clientUdpMutex}, {})
      /\ Path(<<Close(database)>>, {}, {database}, {})
      /\ Path(<<Close(faultManagerTask)>>, {}, {faultManagerTask}, {})
  BY <1>1, ShortPaths
<1>3. Path(<<Close(serverSocket)>> \o <<Close(clientUdpMutex)>>,
           {} \cup {}, {serverSocket} \cup {clientUdpMutex}, {})
  BY <1>2, PathThenPath
<1>4. <<Close(serverSocket)>> \o <<Close(clientUdpMutex)>> = ServerUdpClose
  <2>1. Close(serverSocket) \in Ops /\ Close(clientUdpMutex) \in Ops
    BY <1>1, OpsAre
  <2>2. <<Close(serverSocket)>> \o <<Close(clientUdpMutex)>>
          = <<Close(serverSocket), Close(clientUdpMutex)>>
    BY <2>1, Joined
  <2> QED BY <2>2 DEF ServerUdpClose
<1>5. Path(ServerUdpClose, {}, {serverSocket, clientUdpMutex}, {})
  <2>1. /\ {serverSocket} \cup {clientUdpMutex} = {serverSocket, clientUdpMutex}
        /\ {} \cup {} = {}
    OBVIOUS
  <2> QED BY <1>3, <1>4, <2>1
<1> QED
  BY <1>2, <1>5, ResourcesAre, CloseAllIs
  DEF ClientUdpClose, DatabaseClose, CleanupFaultManagerTask,
      CleanupDepartments, CleanupVehicleTasks, CleanupShiftManagerTasks

\* Paths that only delete.
LEMMA DeletePaths ==
  ASSUME NEW a \in Resources, NEW b \in Resources, NEW c \in Resources,
         a # b, b # c, a # c
  PROVE  /\ Path(<<Delete(a), Delete(b)>>, {a, b}, {}, {})
         /\ Path(<<Delete(a), Delete(b), Delete(c)>>, {a, b, c}, {}, {})
<1>1. /\ Path(<<Delete(a)>>, {a}, {}, {}) /\ Path(<<Delete(b)>>, {b}, {}, {})
      /\ Path(<<Delete(c)>>, {c}, {}, {})
  BY ShortPaths
<1>2. Path(<<Delete(a)>> \o <<Delete(b)>>, {a} \cup {b}, {} \cup {}, {})
  BY <1>1, PathThenPath
<1>3. /\ <<Delete(a)>> \o <<Delete(b)>> = <<Delete(a), Delete(b)>>
      /\ <<Delete(a), Delete(b)>> \o <<Delete(c)>>
           = <<Delete(a), Delete(b), Delete(c)>>
      /\ {a} \cup {b} = {a, b} /\ {a, b} \cup {c} = {a, b, c} /\ {} \cup {} = {}
  BY OpsAre, Joined
<1>4. Path(<<Delete(a), Delete(b)>>, {a, b}, {}, {})
  BY <1>2, <1>3
<1>5. Path(<<Delete(a), Delete(b)>> \o <<Delete(c)>>,
           {a, b} \cup {c}, {} \cup {}, {})
  BY <1>1, <1>4, PathThenPath
<1> QED BY <1>3, <1>4, <1>5

\* Deletions, then a function that closes.
LEMMA DeletesThenCloses ==
  ASSUME NEW s, NEW sd, Path(s, sd, {}, {}),
         NEW t, NEW tc, Path(t, {}, tc, {}), sd \cap tc = {}
  PROVE  Path(s \o t, sd, tc, {})
<1>1. /\ sd \cap ({} \cup tc) = {} /\ {} \cap {} = {}
      /\ sd \cup {} = sd /\ {} \cup tc = tc
  OBVIOUS
<1>2. Path(s \o t, sd \cup {}, {} \cup tc, {})
  BY <1>1, PathThenPath
<1> QED BY <1>1, <1>2

\* What the longer paths of the client delete and close.
LEMMA ClientPaths ==
  /\ Path(InitDepartmentsFailed, {faultQueue, clientRxQueue},
          Range(DepartmentsPlan) \cup {faultManagerTask, clientSocket}, {})
  /\ Path(<<Delete(faultQueue), Delete(clientRxQueue)>>
            \o CleanupFaultManagerTask \o CleanupVehicleTasks
            \o CleanupDepartments \o ClientUdpClose,
          {faultQueue, clientRxQueue},
          Range(DepartmentsPlan) \cup Range(VehiclesPlan)
            \cup {faultManagerTask, clientSocket}, {})
  /\ Path(<<Close(clientUdpRxTask)>> \o CleanupShiftManagerTasks
            \o CleanupVehicleTasks \o CleanupFaultManagerTask
            \o CleanupDepartments
            \o <<Delete(faultQueue), Delete(clientRxQueue)>>
            \o ClientUdpClose,
          {faultQueue, clientRxQueue},
          Range(DepartmentsPlan) \cup Range(VehiclesPlan)
            \cup Range(ShiftManagersPlan)
            \cup {faultManagerTask, clientSocket, clientUdpRxTask}, {})
<1> DEFINE deletes == <<Delete(faultQueue), Delete(clientRxQueue)>>
           dels == {faultQueue, clientRxQueue}
           dd == Range(DepartmentsPlan)
           vv == Range(VehiclesPlan)
           mm == Range(ShiftManagersPlan)
<1>1. /\ faultQueue \in First /\ clientRxQueue \in First
      /\ faultManagerTask \in First /\ clientSocket \in First
      /\ faultQueue \in Resources /\ clientRxQueue \in Resources
      /\ clientSocket \in Resources /\ clientUdpRxTask \in Resources
      /\ faultQueue # clientRxQueue
  BY ResourcesAre, FirstDiffer DEF First
<1>2. /\ Path(deletes, dels, {}, {})
      /\ Path(<<Close(clientUdpRxTask)>>, {}, {clientUdpRxTask}, {})
  <2>1. clientSocket # faultQueue /\ clientSocket # clientRxQueue
    BY FirstDiffer
  <2> QED BY <1>1, <2>1, DeletePaths, ShortPaths
<1>3. /\ dels \cap {clientSocket} = {} /\ dels \cap {faultManagerTask} = {}
      /\ dels \cap {clientUdpRxTask} = {}
      /\ dels \cap dd = {} /\ dels \cap vv = {} /\ dels \cap mm = {}
  BY <1>1, FirstDiffer, KindsDiffer, ResourcesAre
<1> HIDE DEF deletes, dels, dd, vv, mm
<1>4. /\ Path(ClientUdpClose, {}, {clientSocket}, {})
      /\ Path(CleanupFaultManagerTask, {}, {faultManagerTask}, {})
      /\ Path(CleanupDepartments, {}, dd, {})
      /\ Path(CleanupVehicleTasks, {}, vv, {})
      /\ Path(CleanupShiftManagerTasks, {}, mm, {})
  BY CleanupPaths DEF dd, vv, mm
<1>5. ASSUME NEW s, NEW sd, NEW sc, Path(s, sd, sc, {}), sd \subseteq dels,
             NEW t, NEW tc, Path(t, {}, tc, {}), dels \cap tc = {}
      PROVE  Path(s \o t, sd, sc \cup tc, {})
  <2>1. sd \cap ({} \cup tc) = {} /\ {} \cap sc = {} /\ sd \cup {} = sd
    BY <1>5
  <2> QED BY <1>5, <2>1, PathThenPath
<1>6. ASSUME NEW s, NEW sc, Path(s, {}, sc, {}), dels \cap sc = {}
      PROVE  Path(s \o deletes, dels, sc, {})
  <2>1. {} \cap (dels \cup {}) = {} /\ {} \cup dels = dels /\ sc \cup {} = sc
    OBVIOUS
  <2> QED BY <1>2, <1>6, <2>1, PathThenPath
<1>7. Path(InitDepartmentsFailed, dels, dd \cup {faultManagerTask, clientSocket}, {})
  <2>1. Path(CleanupDepartments \o deletes, dels, dd, {})
    BY <1>3, <1>4, <1>6
  <2>2. Path(CleanupDepartments \o deletes \o CleanupFaultManagerTask, dels,
             dd \cup {faultManagerTask}, {})
    BY <1>3, <1>4, <1>5, <2>1
  <2>3. Path(CleanupDepartments \o deletes \o CleanupFaultManagerTask
               \o ClientUdpClose, dels,
             (dd \cup {faultManagerTask}) \cup {clientSocket}, {})
    BY <1>3, <1>4, <1>5, <2>2
  <2>4. (dd \cup {faultManagerTask}) \cup {clientSocket}
          = dd \cup {faultManagerTask, clientSocket}
    OBVIOUS
  <2> QED BY <2>3, <2>4 DEF InitDepartmentsFailed, deletes
<1>8. Path(deletes \o CleanupFaultManagerTask \o CleanupVehicleTasks
             \o CleanupDepartments \o ClientUdpClose, dels,
           dd \cup vv \cup {faultManagerTask, clientSocket}, {})
  <2>1. Path(deletes \o CleanupFaultManagerTask, dels,
             {} \cup {faultManagerTask}, {})
    BY <1>2, <1>3, <1>4, <1>5
  <2>2. Path(deletes \o CleanupFaultManagerTask \o CleanupVehicleTasks, dels,
             ({} \cup {faultManagerTask}) \cup vv, {})
    BY <1>3, <1>4, <1>5, <2>1
  <2>3. Path(deletes \o CleanupFaultManagerTask \o CleanupVehicleTasks
               \o CleanupDepartments, dels,
             (({} \cup {faultManagerTask}) \cup vv) \cup dd, {})
    BY <1>3, <1>4, <1>5, <2>2
  <2>4. Path(deletes \o CleanupFaultManagerTask \o CleanupVehicleTasks
               \o CleanupDepartments \o ClientUdpClose, dels,
             ((({} \cup {faultManagerTask}) \cup vv) \cup dd)
               \cup {clientSocket}, {})
    BY <1>3, <1>4, <1>5, <2>3
  <2>5. ((({} \cup {faultManagerTask}) \cup vv) \cup dd) \cup {clientSocket}
          = dd \cup vv \cup {faultManagerTask, clientSocket}
    OBVIOUS
  <2> QED BY <2>4, <2>5
<1>9. Path(<<Close(clientUdpRxTask)>> \o CleanupShiftManagerTasks
             \o CleanupVehicleTasks \o CleanupFaultManagerTask
             \o CleanupDepartments \o deletes \o ClientUdpClose, dels,
           dd \cup vv \cup mm
             \cup {faultManagerTask, clientSocket, clientUdpRxTask}, {})
  <2> DEFINE c1 == {clientUdpRxTask} \cup mm
             c2 == c1 \cup vv
             c3 == c2 \cup {faultManagerTask}
             c4 == c3 \cup dd
             c5 == c4 \cup {clientSocket}
             p1 == <<Close(clientUdpRxTask)>> \o CleanupShiftManagerTasks
             p2 == p1 \o CleanupVehicleTasks
             p3 == p2 \o CleanupFaultManagerTask
             p4 == p3 \o CleanupDepartments
             p5 == p4 \o deletes
  <2>1. {} \subseteq dels /\ dels \subseteq dels
    OBVIOUS
  <2>2. c5 = dd \cup vv \cup mm
              \cup {faultManagerTask, clientSocket, clientUdpRxTask}
    OBVIOUS
  <2>3. dels \cap c4 = {}
    BY <1>3
  <2>4. Path(p1, {}, c1, {})
    BY <1>2, <1>3, <1>4, <1>5, <2>1
  <2> HIDE DEF p1, c1
  <2>5. Path(p2, {}, c2, {})
    BY <1>3, <1>4, <1>5, <2>1, <2>4
  <2> HIDE DEF p2, c2
  <2>6. Path(p3, {}, c3, {})
    BY <1>3, <1>4, <1>5, <2>1, <2>5
  <2> HIDE DEF p3, c3
  <2>7. Path(p4, {}, c4, {})
    BY <1>3, <1>4, <1>5, <2>1, <2>6
  <2> HIDE DEF p4, c4
  <2>8. Path(p5, dels, c4, {})
    BY <1>6, <2>3, <2>7
  <2> HIDE DEF p5
  <2>9. Path(p5 \o ClientUdpClose, dels, c5, {})
    BY <1>3, <1>4, <1>5, <2>1, <2>8
  <2> HIDE DEF c5
  <2> QED BY <2>2, <2>9 DEF p5, p4, p3, p2, p1
<1> QED BY <1>7, <1>8, <1>9 DEF deletes, dels, dd, vv, mm

-----------------------------------------------------------------------------
(* Steps *)

\* A failure path is right if what it deletes without a look exists, if it
\* touches nothing twice but the mutex of an event group that could not be
\* created, and if it leaves only what no path deletes.
LEMMA FailureStarts ==
  ASSUME StartupInv, pc = "starting", next \in 1 .. Len(Plan),
         NEW created, created \subseteq {Plan[next]},
         NEW path, Fail(created, path),
         NEW dels, NEW clos, NEW twice, Path(path, dels, clos, twice),
         twice \subseteq Twice,
         dels \subseteq Earlier(Plan, next),
         created \cup Earlier(Plan, next)
           \subseteq dels \cup clos \cup {clientUdpMutex, database},
         dels \cap Closed = {}
  PROVE  StartupInv'
<1>1. /\ live' = live \cup created /\ handles' = handles \cup created
      /\ pc' = "failing" /\ todo' = path
      /\ mode' = mode /\ next' = next /\ interrupted' = interrupted
      /\ xSchedulerRunning' = xSchedulerRunning /\ deletedTwice' = deletedTwice
  BY DEF Fail
<1>2. Plan' = Plan /\ Closed' = Closed /\ Twice' = Twice
  BY <1>1 DEF Plan, Closed, Twice
<1>3. /\ live = Earlier(Plan, next) /\ handles = live /\ deletedTwice = {}
      /\ mode \in {"none", "client", "server"} /\ interrupted = << >>
      /\ interrupted \in Seq(Ops) /\ xSchedulerRunning = FALSE
  BY DEF StartupInv, StartupTypeOK, Intact
<1>4. live \subseteq Range(Plan) /\ Plan[next] \in Range(Plan)
  BY <1>3, PlanType, EarlierAreEntries
<1>5. StartupTypeOK'
  BY <1>1, <1>2, <1>3, <1>4 DEF StartupTypeOK, StartupInv
<1>6. /\ path \in Seq(Ops) /\ Once(path, twice)
      /\ Parts(path, "delete") = dels /\ Parts(path, "close") = clos
      /\ ResetsFirst(path) /\ \A r : ~Resets(path, r)
  <2>1. /\ path \in Seq(Ops) /\ \A n \in 1 .. Len(path) : path[n].op # "reset"
    BY DEF Path
  <2>2. ASSUME NEW r, Resets(path, r) PROVE FALSE
    <3>1. 1 \in 1 .. Len(path) /\ path[1] = Reset(r)
      BY <2>1, <2>2 DEF Resets
    <3> QED BY <2>1, <3>1 DEF Reset
  <2> QED BY <2>1, <2>2 DEF Path, ResetsFirst
<1>7. Once(path, Twice)
  BY <1>6 DEF Once
<1>8. Working'
  BY <1>1, <1>6 DEF Working
<1>9. Failing'
  BY <1>1, <1>2, <1>3, <1>6, <1>7, <1>8 DEF Failing
<1>10. KnownSecondDeletions' /\ FailedStartReleases'
  BY <1>1, <1>3 DEF KnownSecondDeletions, FailedStartReleases
<1> QED BY <1>1, <1>3, <1>5, <1>9, <1>10 DEF StartupInv

\* The creation that is due is one of the plan of the mode.
LEMMA DueIs ==
  ASSUME StartupInv, NEW R, Due(R)
  PROVE  /\ pc = "starting" /\ next \in 1 .. Len(Plan) /\ Plan[next] \in R
         /\ \/ mode = "client" /\ Plan = ClientPlan /\ Closed = {clientSocket}
            \/ /\ mode = "server" /\ Plan = ServerPlan
               /\ Closed = {database, serverSocket, clientUdpMutex}
<1>1. /\ pc = "starting" /\ next <= Len(Plan) /\ Plan[next] \in R
      /\ next \in 1 .. Len(Plan) + 1 /\ mode \in {"none", "client", "server"}
  BY DEF StartupInv, StartupTypeOK, Due
<1>2. Len(Plan) \in Nat
  BY PlanType
<1>3. next \in 1 .. Len(Plan)
  BY <1>1, <1>2
<1>4. mode # "none"
  BY <1>3 DEF Plan
<1> QED BY <1>1, <1>3, <1>4 DEF Plan, Closed

\* What is due for the client is no resource of the server, and conversely.
LEMMA DueOfClient ==
  ASSUME StartupInv, NEW R, R \subseteq ClientResources, Due(R)
  PROVE  /\ pc = "starting" /\ next \in 1 .. Len(Plan)
         /\ next \in 1 .. Len(ClientPlan)
         /\ Plan = ClientPlan /\ ClientPlan[next] \in R
         /\ Closed = {clientSocket}
<1>1. CASE mode = "server" /\ Plan = ServerPlan
  <2>1. Plan[next] \in ServerResources /\ Plan[next] \in ClientResources
    BY <1>1, DueIs, ServerPlanInOrder
  <2> QED BY <2>1, KindsDiffer
<1> QED BY <1>1, DueIs

\* The same for the server.
LEMMA DueOfServer ==
  ASSUME StartupInv, NEW R, R \subseteq ServerResources, Due(R)
  PROVE  /\ pc = "starting" /\ next \in 1 .. Len(Plan)
         /\ next \in 1 .. Len(ServerPlan)
         /\ Plan = ServerPlan /\ ServerPlan[next] \in R
         /\ Closed = {database, serverSocket, clientUdpMutex}
<1>1. CASE mode = "client" /\ Plan = ClientPlan
  <2>1. Plan[next] \in ClientResources /\ Plan[next] \in ServerResources
    BY <1>1, DueIs, ClientPlanInOrder
  <2> QED BY <2>1, KindsDiffer
<1> QED BY <1>1, DueIs

\* Every failure path of the client is right.
LEMMA ClientFailsStep ==
  ASSUME StartupInv, ClientFails PROVE StartupInv'
<1>1. /\ First \subseteq ClientResources
      /\ DepartmentResources \subseteq ClientResources
      /\ VehicleTasks \subseteq ClientResources
      /\ ShiftManagerTasks \cup {clientUdpRxTask, dispatcherTask}
           \subseteq ClientResources
      /\ {clientSocket, clientUdpMutex, clientRxQueue, faultQueue,
          faultManagerTask} = First
      /\ First \subseteq Resources
  BY ResourcesAre DEF ClientResources, First
<1>2. /\ PriorityQueues \cup VehicleMutexes \subseteq DepartmentResources
      /\ \A d \in D : /\ vehicleEventGroup(d) \in DepartmentResources
                      /\ vehicleMutex(d) \in DepartmentResources
  BY DEF DepartmentResources, VehicleMutexes, VehicleEventGroups
<1> DEFINE dels == {faultQueue, clientRxQueue}
           Departments == Range(DepartmentsPlan)
                            \cup {faultManagerTask, clientSocket}
<1>3. /\ dels \cap {clientSocket} = {} /\ dels \subseteq First
      /\ First \subseteq dels \cup Departments \cup {clientUdpMutex, database}
  BY <1>1, FirstDiffer
<1>4. /\ Path(ClientUdpClose, {}, {clientSocket}, {})
      /\ Path(<< >>, {}, {}, {})
      /\ {} \subseteq Twice
  BY CleanupPaths, ShortPaths
<1>5. CASE ClientUdpInitFails
  <2>1. /\ Due({clientSocket, clientUdpMutex})
        /\ \/ Plan[next] = clientSocket /\ Fail({}, << >>)
           \/ Plan[next] = clientSocket /\ Fail({clientSocket}, ClientUdpClose)
           \/ Plan[next] = clientUdpMutex /\ Fail({}, ClientUdpClose)
    BY <1>5 DEF ClientUdpInitFails, ClientUdpClose, Due
  <2>2. /\ pc = "starting" /\ next \in 1 .. Len(Plan)
        /\ next \in 1 .. Len(ClientPlan)
        /\ Plan = ClientPlan /\ Closed = {clientSocket}
        /\ ClientPlan[next] \in {clientSocket, clientUdpMutex}
    BY <1>1, <2>1, DueOfClient
  <2>3. /\ Plan[next] = clientSocket => Earlier(Plan, next) = {}
        /\ Plan[next] = clientUdpMutex => Earlier(Plan, next) = {clientSocket}
    BY <2>2, ClientPlanInOrder
  <2>4. ASSUME Plan[next] = clientSocket, Fail({}, << >>) PROVE StartupInv'
    <3>1. /\ {} \subseteq {Plan[next]} /\ {} \subseteq Earlier(Plan, next)
          /\ {} \cap Closed = {}
          /\ {} \cup Earlier(Plan, next)
               \subseteq {} \cup {} \cup {clientUdpMutex, database}
      BY <2>3, <2>4
    <3> QED BY <1>4, <2>2, <2>4, <3>1, FailureStarts
  <2>5. ASSUME NEW created \in {{}, {Plan[next]}},
               Fail(created, ClientUdpClose),
               created \cup Earlier(Plan, next) \subseteq {clientSocket}
        PROVE  StartupInv'
    <3>1. /\ created \subseteq {Plan[next]} /\ {} \subseteq Earlier(Plan, next)
          /\ {} \cap Closed = {}
          /\ created \cup Earlier(Plan, next)
               \subseteq {} \cup {clientSocket} \cup {clientUdpMutex, database}
      BY <2>5
    <3> QED BY <1>4, <2>2, <2>5, <3>1, FailureStarts
  <2>6. CASE Plan[next] = clientSocket /\ Fail({clientSocket}, ClientUdpClose)
    BY <2>3, <2>5, <2>6
  <2>7. CASE Plan[next] = clientUdpMutex /\ Fail({}, ClientUdpClose)
    BY <2>3, <2>5, <2>7
  <2> QED BY <2>1, <2>4, <2>6, <2>7
<1>6. CASE RxQueueFails
  <2>1. Due({clientRxQueue}) /\ Fail({}, ClientUdpClose)
    BY <1>6 DEF RxQueueFails
  <2>2. /\ pc = "starting" /\ next \in 1 .. Len(Plan)
        /\ next \in 1 .. Len(ClientPlan)
        /\ Plan = ClientPlan /\ Closed = {clientSocket}
        /\ ClientPlan[next] = clientRxQueue
    BY <1>1, <2>1, DueOfClient
  <2>3. Earlier(Plan, next) = {clientSocket, clientUdpMutex}
    BY <2>2, ClientPlanInOrder
  <2>4. /\ {} \subseteq {Plan[next]} /\ {} \subseteq Earlier(Plan, next)
        /\ {} \cap Closed = {}
        /\ {} \cup Earlier(Plan, next)
             \subseteq {} \cup {clientSocket} \cup {clientUdpMutex, database}
    BY <2>3
  <2> QED BY <1>4, <2>1, <2>2, <2>4, FailureStarts
<1>7. CASE FaultQueueFails
  <2>1. /\ Due({faultQueue})
        /\ Fail({}, <<Delete(clientRxQueue)>> \o ClientUdpClose)
    BY <1>7 DEF FaultQueueFails
  <2>2. /\ pc = "starting" /\ next \in 1 .. Len(Plan)
        /\ next \in 1 .. Len(ClientPlan)
        /\ Plan = ClientPlan /\ Closed = {clientSocket}
        /\ ClientPlan[next] = faultQueue
    BY <1>1, <2>1, DueOfClient
  <2>3. Earlier(Plan, next) = {clientSocket, clientUdpMutex, clientRxQueue}
    BY <2>2, ClientPlanInOrder
  <2>4. Path(<<Delete(clientRxQueue)>> \o ClientUdpClose,
             {clientRxQueue}, {clientSocket}, {})
    <3>1. /\ Path(<<Delete(clientRxQueue)>>, {clientRxQueue}, {}, {})
          /\ {clientRxQueue} \cap {clientSocket} = {}
      BY <1>1, FirstDiffer, ShortPaths
    <3> QED BY <1>4, <3>1, DeletesThenCloses
  <2>5. /\ {} \subseteq {Plan[next]} /\ {clientRxQueue} \subseteq Earlier(Plan, next)
        /\ {clientRxQueue} \cap Closed = {}
        /\ {} \cup Earlier(Plan, next)
             \subseteq {clientRxQueue} \cup {clientSocket}
                         \cup {clientUdpMutex, database}
    BY <2>2, <2>3, FirstDiffer
  <2> QED BY <1>4, <2>1, <2>2, <2>4, <2>5, FailureStarts
<1>8. CASE FaultManagerTaskFails
  <2> DEFINE path == <<Delete(faultQueue), Delete(clientRxQueue)>>
                       \o ClientUdpClose
  <2>1. Due({faultManagerTask}) /\ Fail({}, path)
    BY <1>8 DEF FaultManagerTaskFails
  <2>2. /\ pc = "starting" /\ next \in 1 .. Len(Plan)
        /\ next \in 1 .. Len(ClientPlan)
        /\ Plan = ClientPlan /\ Closed = {clientSocket}
        /\ ClientPlan[next] = faultManagerTask
    BY <1>1, <2>1, DueOfClient
  <2>3. Earlier(Plan, next)
          = {clientSocket, clientUdpMutex, clientRxQueue, faultQueue}
    BY <2>2, ClientPlanInOrder
  <2>4. Path(path, dels, {clientSocket}, {})
    <3>1. Path(<<Delete(faultQueue), Delete(clientRxQueue)>>, dels, {}, {})
      BY <1>1, FirstDiffer, DeletePaths
    <3> QED BY <1>3, <1>4, <3>1, DeletesThenCloses
  <2>5. /\ {} \subseteq {Plan[next]} /\ dels \subseteq Earlier(Plan, next)
        /\ dels \cap Closed = {}
        /\ {} \cup Earlier(Plan, next)
             \subseteq dels \cup {clientSocket} \cup {clientUdpMutex, database}
    BY <2>2, <2>3, FirstDiffer
  <2> HIDE DEF path, dels
  <2> QED BY <1>4, <2>1, <2>2, <2>4, <2>5, FailureStarts
<1>9. CASE DepartmentFails
  <2>1. /\ Due(PriorityQueues \cup VehicleMutexes)
        /\ Fail({}, InitDepartmentsFailed)
    BY <1>9 DEF DepartmentFails
  <2>2. /\ pc = "starting" /\ next \in 1 .. Len(Plan)
        /\ next \in 1 .. Len(ClientPlan)
        /\ Plan = ClientPlan /\ Closed = {clientSocket}
        /\ ClientPlan[next] \in DepartmentResources
    BY <1>1, <1>2, <2>1, DueOfClient
  <2>3. /\ First \subseteq Earlier(Plan, next)
        /\ Earlier(Plan, next) \subseteq First \cup Range(DepartmentsPlan)
    BY <2>2, ClientPlanInOrder
  <2>4. Path(InitDepartmentsFailed, dels, Departments, {})
    BY ClientPaths
  <2>5. /\ {} \subseteq {Plan[next]} /\ dels \subseteq Earlier(Plan, next)
        /\ dels \cap Closed = {}
        /\ {} \cup Earlier(Plan, next)
             \subseteq dels \cup Departments \cup {clientUdpMutex, database}
    BY <1>3, <2>2, <2>3
  <2> HIDE DEF dels, Departments
  <2> QED BY <1>4, <2>1, <2>2, <2>4, <2>5, FailureStarts
<1>10. CASE EventGroupFails
  <2>1. PICK d \in D :
          /\ Due({vehicleEventGroup(d)})
          /\ Fail({}, <<Delete(vehicleMutex(d))>> \o InitDepartmentsFailed)
    BY <1>10 DEF EventGroupFails
  <2>2. /\ pc = "starting" /\ next \in 1 .. Len(Plan)
        /\ next \in 1 .. Len(ClientPlan)
        /\ Plan = ClientPlan /\ Closed = {clientSocket}
        /\ ClientPlan[next] = vehicleEventGroup(d)
    BY <1>1, <1>2, <2>1, DueOfClient
  <2>3. /\ First \subseteq Earlier(Plan, next)
        /\ Earlier(Plan, next) \subseteq First \cup Range(DepartmentsPlan)
        /\ vehicleMutex(d) \in Earlier(Plan, next)
    BY <1>2, <2>2, ClientPlanInOrder
  <2>4. /\ vehicleMutex(d) \in Resources /\ vehicleMutex(d) \notin First
        /\ vehicleMutex(d) \notin dels /\ vehicleMutex(d) # clientSocket
    BY <1>1, <1>2, KindsDiffer, ResourcesAre
  <2>5. Path(<<Delete(vehicleMutex(d))>> \o InitDepartmentsFailed,
             {vehicleMutex(d)} \cup dels, Departments, {vehicleMutex(d)})
    BY <2>4, ClientPaths, DeleteThenPath
  <2>6. {vehicleMutex(d)} \subseteq Twice
    BY <2>2 DEF Twice
  <2>7. /\ {} \subseteq {Plan[next]}
        /\ {vehicleMutex(d)} \cup dels \subseteq Earlier(Plan, next)
        /\ ({vehicleMutex(d)} \cup dels) \cap Closed = {}
        /\ {} \cup Earlier(Plan, next)
             \subseteq ({vehicleMutex(d)} \cup dels) \cup Departments
                         \cup {clientUdpMutex, database}
    BY <1>3, <2>2, <2>3, <2>4
  <2> HIDE DEF dels, Departments
  <2> QED BY <2>1, <2>2, <2>5, <2>6, <2>7, FailureStarts
<1>11. CASE VehicleTaskFails
  <2> DEFINE path == <<Delete(faultQueue), Delete(clientRxQueue)>>
                       \o CleanupFaultManagerTask \o CleanupVehicleTasks
                       \o CleanupDepartments \o ClientUdpClose
             clos == Range(DepartmentsPlan) \cup Range(VehiclesPlan)
                       \cup {faultManagerTask, clientSocket}
  <2>1. Due(VehicleTasks) /\ Fail({}, path)
    BY <1>11 DEF VehicleTaskFails
  <2>2. /\ pc = "starting" /\ next \in 1 .. Len(Plan)
        /\ next \in 1 .. Len(ClientPlan)
        /\ Plan = ClientPlan /\ Closed = {clientSocket}
        /\ ClientPlan[next] \in VehicleTasks
    BY <1>1, <2>1, DueOfClient
  <2>3. /\ First \subseteq Earlier(Plan, next)
        /\ Earlier(Plan, next)
             \subseteq First \cup Range(DepartmentsPlan) \cup Range(VehiclesPlan)
    BY <2>2, ClientPlanInOrder
  <2>4. Path(path, dels, clos, {})
    BY ClientPaths
  <2>5. /\ {} \subseteq {Plan[next]} /\ dels \subseteq Earlier(Plan, next)
        /\ dels \cap Closed = {}
        /\ {} \cup Earlier(Plan, next)
             \subseteq dels \cup clos \cup {clientUdpMutex, database}
    BY <1>3, <2>2, <2>3
  <2> HIDE DEF path, dels, clos
  <2> QED BY <1>4, <2>1, <2>2, <2>4, <2>5, FailureStarts
<1>12. CASE LastTasksFail
  <2> DEFINE path == <<Close(clientUdpRxTask)>> \o CleanupShiftManagerTasks
                       \o CleanupVehicleTasks \o CleanupFaultManagerTask
                       \o CleanupDepartments
                       \o <<Delete(faultQueue), Delete(clientRxQueue)>>
                       \o ClientUdpClose
             clos == Range(DepartmentsPlan) \cup Range(VehiclesPlan)
                       \cup Range(ShiftManagersPlan)
                       \cup {faultManagerTask, clientSocket, clientUdpRxTask}
  <2>1. /\ Due(ShiftManagerTasks \cup {clientUdpRxTask, dispatcherTask})
        /\ Fail({}, path)
    BY <1>12 DEF LastTasksFail
  <2>2. /\ pc = "starting" /\ next \in 1 .. Len(Plan)
        /\ next \in 1 .. Len(ClientPlan)
        /\ Plan = ClientPlan /\ Closed = {clientSocket}
        /\ ClientPlan[next]
             \in ShiftManagerTasks \cup {clientUdpRxTask, dispatcherTask}
    BY <1>1, <2>1, DueOfClient
  <2>3. /\ First \subseteq Earlier(Plan, next)
        /\ Earlier(Plan, next)
             \subseteq First \cup Range(DepartmentsPlan) \cup Range(VehiclesPlan)
                         \cup Range(ShiftManagersPlan) \cup {clientUdpRxTask}
    BY <2>2, ClientPlanInOrder
  <2>4. Path(path, dels, clos, {})
    BY ClientPaths
  <2>5. /\ {} \subseteq {Plan[next]} /\ dels \subseteq Earlier(Plan, next)
        /\ dels \cap Closed = {}
        /\ {} \cup Earlier(Plan, next)
             \subseteq dels \cup clos \cup {clientUdpMutex, database}
    BY <1>3, <2>2, <2>3
  <2> HIDE DEF path, dels, clos
  <2> QED BY <1>4, <2>1, <2>2, <2>4, <2>5, FailureStarts
<1> QED BY <1>5, <1>6, <1>7, <1>8, <1>9, <1>10, <1>11, <1>12 DEF ClientFails

\* So is every failure path of the server; the database stays open.
LEMMA ServerFailsStep ==
  ASSUME StartupInv, ServerFails PROVE StartupInv'
<1> DEFINE udp == {serverSocket, clientUdpMutex}
<1>1. /\ {serverSocket, database, serverUdpTxQueue, eventGeneratorTask,
          serverUdpTxTask, serverUdpRxTask} = ServerResources
      /\ ServerResources \subseteq Resources
      /\ clientUdpMutex \notin ServerResources
  BY KindsDiffer, ResourcesAre DEF ServerResources, ClientResources, First
<1>2. /\ Path(ServerUdpClose, {}, udp, {}) /\ Path(DatabaseClose, {}, {database}, {})
      /\ Path(<< >>, {}, {}, {})
      /\ Path(<<Close(serverSocket)>>, {}, {serverSocket}, {})
      /\ {} \subseteq Twice
  BY <1>1, CleanupPaths, ShortPaths
<1>3. CASE ServerUdpInitFails
  <2>1. /\ Due({serverSocket})
        /\ Fail({}, << >>) \/ Fail({serverSocket}, <<Close(serverSocket)>>)
    BY <1>3 DEF ServerUdpInitFails
  <2>2. /\ pc = "starting" /\ next \in 1 .. Len(Plan)
        /\ next \in 1 .. Len(ServerPlan)
        /\ Plan = ServerPlan /\ ServerPlan[next] = serverSocket
    BY <1>1, <2>1, DueOfServer
  <2>3. Earlier(Plan, next) = {}
    BY <2>2, ServerPlanInOrder
  <2>4. CASE Fail({}, << >>)
    <3>1. /\ {} \subseteq {Plan[next]} /\ {} \subseteq Earlier(Plan, next)
          /\ {} \cap Closed = {}
          /\ {} \cup Earlier(Plan, next)
               \subseteq {} \cup {} \cup {clientUdpMutex, database}
      BY <2>3
    <3> QED BY <1>2, <2>2, <2>4, <3>1, FailureStarts
  <2>5. CASE Fail({serverSocket}, <<Close(serverSocket)>>)
    <3>1. /\ {serverSocket} \subseteq {Plan[next]}
          /\ {} \subseteq Earlier(Plan, next) /\ {} \cap Closed = {}
          /\ {serverSocket} \cup Earlier(Plan, next)
               \subseteq {} \cup {serverSocket} \cup {clientUdpMutex, database}
      BY <2>2, <2>3
    <3> QED BY <1>2, <2>2, <2>5, <3>1, FailureStarts
  <2> QED BY <2>1, <2>4, <2>5
\* The paths that end with ServerUdpClose, of whatever is due.
<1>4. ASSUME pc = "starting", next \in 1 .. Len(Plan),
             Closed = {database, serverSocket, clientUdpMutex},
             NEW dels, NEW p, Path(p, dels, {}, {}),
             Fail({}, p \o ServerUdpClose),
             Earlier(Plan, next) = {serverSocket, database} \cup dels,
             dels \cap {serverSocket, database, clientUdpMutex} = {}
      PROVE  StartupInv'
  <2>1. Path(p \o ServerUdpClose, dels, udp, {})
    <3>1. dels \cap udp = {}
      BY <1>4
    <3> HIDE DEF udp
    <3> QED BY <1>2, <1>4, <3>1, DeletesThenCloses
  <2>2. /\ {} \subseteq {Plan[next]} /\ dels \subseteq Earlier(Plan, next)
        /\ dels \cap Closed = {}
        /\ {} \cup Earlier(Plan, next)
             \subseteq dels \cup udp \cup {clientUdpMutex, database}
    BY <1>4
  <2> HIDE DEF udp
  <2> QED BY <1>2, <1>4, <2>1, <2>2, FailureStarts
<1>5. CASE DatabaseInitFails
  <2>1. /\ Due({database})
        /\ \/ \E left \in SUBSET {database} : Fail(left, ServerUdpClose)
           \/ Fail({database}, DatabaseClose \o ServerUdpClose)
    BY <1>5 DEF DatabaseInitFails, DatabaseClose
  <2>2. /\ pc = "starting" /\ next \in 1 .. Len(Plan)
        /\ next \in 1 .. Len(ServerPlan)
        /\ Plan = ServerPlan /\ ServerPlan[next] = database
    BY <1>1, <2>1, DueOfServer
  <2>3. Earlier(Plan, next) = {serverSocket}
    BY <2>2, ServerPlanInOrder
  <2>4. ASSUME NEW left \in SUBSET {database}, Fail(left, ServerUdpClose)
        PROVE  StartupInv'
    <3>1. /\ left \subseteq {Plan[next]} /\ {} \subseteq Earlier(Plan, next)
          /\ {} \cap Closed = {}
          /\ left \cup Earlier(Plan, next)
               \subseteq {} \cup udp \cup {clientUdpMutex, database}
      BY <2>2, <2>3
    <3> QED BY <1>2, <2>2, <2>4, <3>1, FailureStarts
  <2>5. CASE Fail({database}, DatabaseClose \o ServerUdpClose)
    <3>1. Path(DatabaseClose \o ServerUdpClose, {}, {database} \cup udp, {})
      <4>1. /\ {} \cap ({} \cup udp) = {} /\ {} \cap {database} = {}
            /\ {} \cup {} = {}
        OBVIOUS
      <4>2. Path(DatabaseClose \o ServerUdpClose, {} \cup {},
                 {database} \cup udp, {})
        BY <1>2, <4>1, PathThenPath
      <4> QED BY <4>1, <4>2
    <3>2. /\ {database} \subseteq {Plan[next]} /\ {} \subseteq Earlier(Plan, next)
          /\ {} \cap Closed = {}
          /\ {database} \cup Earlier(Plan, next)
               \subseteq {} \cup ({database} \cup udp)
                            \cup {clientUdpMutex, database}
      BY <2>2, <2>3
    <3> HIDE DEF udp
    <3> QED BY <1>2, <2>2, <2>5, <3>1, <3>2, FailureStarts
  <2> QED BY <2>1, <2>4, <2>5
<1>6. CASE TxQueueFails
  <2>1. Due({serverUdpTxQueue}) /\ Fail({}, ServerUdpClose)
    BY <1>6 DEF TxQueueFails
  <2>2. /\ pc = "starting" /\ next \in 1 .. Len(Plan)
        /\ next \in 1 .. Len(ServerPlan)
        /\ Plan = ServerPlan /\ ServerPlan[next] = serverUdpTxQueue
    BY <1>1, <2>1, DueOfServer
  <2>3. Earlier(Plan, next) = {serverSocket, database}
    BY <2>2, ServerPlanInOrder
  <2>4. /\ {} \subseteq {Plan[next]} /\ {} \subseteq Earlier(Plan, next)
        /\ {} \cap Closed = {}
        /\ {} \cup Earlier(Plan, next)
             \subseteq {} \cup udp \cup {clientUdpMutex, database}
    BY <2>3
  <2> HIDE DEF udp
  <2> QED BY <1>2, <2>1, <2>2, <2>4, FailureStarts
<1>7. CASE GeneratorTaskFails
  <2>1. /\ Due({eventGeneratorTask})
        /\ Fail({}, <<Delete(serverUdpTxQueue)>> \o ServerUdpClose)
    BY <1>7 DEF GeneratorTaskFails
  <2>2. /\ pc = "starting" /\ next \in 1 .. Len(Plan)
        /\ next \in 1 .. Len(ServerPlan)
        /\ Plan = ServerPlan /\ ServerPlan[next] = eventGeneratorTask
        /\ Closed = {database, serverSocket, clientUdpMutex}
    BY <1>1, <2>1, DueOfServer
  <2>3. Earlier(Plan, next) = {serverSocket, database} \cup {serverUdpTxQueue}
    BY <2>2, ServerPlanInOrder
  <2>4. {serverUdpTxQueue} \cap {serverSocket, database, clientUdpMutex} = {}
    BY <1>1, ServerResourcesDiffer
  <2>5. Path(<<Delete(serverUdpTxQueue)>>, {serverUdpTxQueue}, {}, {})
    BY <1>1, ShortPaths
  <2> QED BY <1>4, <2>1, <2>2, <2>3, <2>4, <2>5
<1>8. CASE TxTaskFails
  <2> DEFINE dels == {eventGeneratorTask, serverUdpTxQueue}
             p == <<Delete(eventGeneratorTask), Delete(serverUdpTxQueue)>>
  <2>1. Due({serverUdpTxTask}) /\ Fail({}, p \o ServerUdpClose)
    BY <1>8 DEF TxTaskFails
  <2>2. /\ pc = "starting" /\ next \in 1 .. Len(Plan)
        /\ next \in 1 .. Len(ServerPlan)
        /\ Plan = ServerPlan /\ ServerPlan[next] = serverUdpTxTask
        /\ Closed = {database, serverSocket, clientUdpMutex}
    BY <1>1, <2>1, DueOfServer
  <2>3. Earlier(Plan, next) = {serverSocket, database} \cup dels
    BY <2>2, ServerPlanInOrder
  <2>4. dels \cap {serverSocket, database, clientUdpMutex} = {}
    BY <1>1, ServerResourcesDiffer
  <2>5. Path(p, dels, {}, {})
    BY <1>1, ServerResourcesDiffer, DeletePaths
  <2> HIDE DEF dels, p
  <2> QED BY <1>4, <2>1, <2>2, <2>3, <2>4, <2>5
<1>9. CASE RxTaskFails
  <2> DEFINE dels == {eventGeneratorTask, serverUdpTxTask, serverUdpTxQueue}
             p == <<Delete(eventGeneratorTask), Delete(serverUdpTxTask),
                    Delete(serverUdpTxQueue)>>
  <2>1. Due({serverUdpRxTask}) /\ Fail({}, p \o ServerUdpClose)
    BY <1>9 DEF RxTaskFails
  <2>2. /\ pc = "starting" /\ next \in 1 .. Len(Plan)
        /\ next \in 1 .. Len(ServerPlan)
        /\ Plan = ServerPlan /\ ServerPlan[next] = serverUdpRxTask
        /\ Closed = {database, serverSocket, clientUdpMutex}
    BY <1>1, <2>1, DueOfServer
  <2>3. Earlier(Plan, next) = {serverSocket, database} \cup dels
    BY <2>2, ServerPlanInOrder
  <2>4. dels \cap {serverSocket, database, clientUdpMutex} = {}
    BY <1>1, ServerResourcesDiffer
  <2>5. Path(p, dels, {}, {})
    BY <1>1, ServerResourcesDiffer, DeletePaths
  <2> HIDE DEF dels, p
  <2> QED BY <1>4, <2>1, <2>2, <2>3, <2>4, <2>5
<1> QED BY <1>3, <1>5, <1>6, <1>7, <1>8, <1>9 DEF ServerFails

\* What the handler closes and the plan creates.
LEMMA ClosedAre ==
  ASSUME StartupInv
  PROVE  /\ Closed \cap Range(Plan) \subseteq {clientSocket, serverSocket, database}
         /\ handles \subseteq Range(Plan)
<1>1. mode \in {"none", "client", "server"} /\ handles \subseteq Range(Plan)
  BY DEF StartupInv, StartupTypeOK
<1>2. CASE mode = "server"
  <2>1. Range(ServerPlan) \subseteq ServerResources
    <3>1. ServerPlan \in Seq(ServerResources)
      BY DEF ServerPlan, ServerResources
    <3> QED BY <3>1, EarlierAreEntries
  <2>2. clientUdpMutex \notin ServerResources
    BY KindsDiffer DEF ClientResources, First
  <2> QED BY <1>1, <1>2, <2>1, <2>2 DEF Closed, Plan
<1> QED BY <1>1, <1>2 DEF Closed

\* Each operation of a failure path, and of the handler.
LEMMA DoNextStep ==
  ASSUME StartupInv, DoNext PROVE StartupInv'
<1> DEFINE r == Head(todo).of
<1>1. /\ pc \in {"failing", "stopping"} /\ todo # << >> /\ Working
      /\ pc' = pc /\ mode' = mode /\ next' = next /\ interrupted' = interrupted
      /\ xSchedulerRunning' = xSchedulerRunning
      /\ handles' \subseteq handles /\ live' \subseteq live
      /\ pc = "failing" => Failing
      /\ pc = "stopping" => Stopping
  BY DEF DoNext, DoDelete, DoClose, NothingToClose, DoReset, Doing, Remove,
         StartupInv, Failing, Stopping
<1>2. Plan' = Plan /\ Closed' = Closed /\ Twice' = Twice
  BY <1>1 DEF Plan, Closed, Twice
<1>3. /\ todo \in Seq(Ops) /\ ResetsFirst(todo)
      /\ \A x \in live : ~Resets(todo, x)
  BY <1>1 DEF Working
<1>4. /\ pc = "failing" => Once(todo, Twice)
      /\ pc = "stopping" => Once(todo, {})
  <2>1. ASSUME Stopping PROVE Once(todo, {})
    BY <2>1 DEF Stopping, Parts, Once
  <2> QED BY <1>1, <2>1 DEF Failing
<1> DEFINE twice == IF pc = "failing" THEN Twice ELSE {}
<1>5. Once(todo, twice)
  BY <1>1, <1>4
<1>6. /\ todo[1] = Head(todo) /\ Head(todo) \in Ops
      /\ Tail(todo) \in Seq(Ops) /\ ResetsFirst(Tail(todo))
      /\ \A x : ~Resets(Tail(todo), x)
      /\ Once(Tail(todo), twice)
      /\ \A op : Parts(todo, op) = Parts(Tail(todo), op)
                   \cup (IF todo[1].op = op THEN {todo[1].of} ELSE {})
      /\ todo[1].op = "delete"
           => /\ r \notin Parts(Tail(todo), "delete")
              /\ r \in Parts(Tail(todo), "close") => r \in twice
      /\ todo[1].op = "close" => r \notin Parts(Tail(todo), "delete")
  <2> HIDE DEF twice
  <2> QED BY <1>1, <1>3, <1>5, Done
<1>7. \A x : Resets(todo, x) => todo[1].op = "reset" /\ x = r
  BY <1>6 DEF Resets, Reset
<1> HIDE DEF r
\* It is enough to follow the path or the handler.
<1>8. ASSUME pc = "failing" => Failing', pc = "stopping" => Stopping',
             xSchedulerRunning /\ pc = "stopping" => Served',
             deletedTwice' \subseteq deletedTwice \cup (Twice \cap handles)
               \cup {x \in Closed \cap handles : Resets(interrupted, x)}
      PROVE  StartupInv'
  <2>1. StartupTypeOK'
    BY <1>1, <1>2, <1>8 DEF StartupInv, StartupTypeOK
  <2>2. KnownSecondDeletions'
    <3>1. ASSUME NEW x \in Twice
          PROVE  \E d \in D : x = vehicleMutex(d) /\ Plan[next] = vehicleEventGroup(d)
      BY DEF Twice
    <3>2. ASSUME NEW x \in Closed \cap handles, Resets(interrupted, x)
          PROVE  /\ x \in {clientSocket, serverSocket, database}
                 /\ interrupted # << >> /\ Head(interrupted) = Reset(x)
      <4>1. interrupted \in Seq(Ops)
        BY DEF StartupInv
      <4> QED BY <3>2, <4>1, ClosedAre DEF Resets
    <3> QED BY <1>1, <1>2, <1>8, <3>1, <3>2 DEF KnownSecondDeletions, StartupInv
  <2>3. FailedStartReleases'
    BY <1>1 DEF FailedStartReleases
  <2> QED BY <1>1, <1>2, <1>8, <2>1, <2>2, <2>3 DEF StartupInv
<1>9. CASE DoDelete
  <2>1. /\ todo[1].op = "delete" /\ todo' = Tail(todo)
        /\ live' = live \ {r} /\ deletedTwice' = deletedTwice \cup ({r} \ live)
        /\ handles' = handles
    BY <1>6, <1>9 DEF DoDelete, Doing, Remove, r
  <2>2. r \in Parts(todo, "delete")
    BY <1>6, <2>1 DEF r
  <2>3. pc = "failing" /\ Failing
    BY <1>1, <2>2 DEF Stopping
  <2>4. Working'
    BY <1>6, <2>1 DEF Working
  <2>5. Failing'
    BY <1>2, <1>6, <1>7, <2>1, <2>2, <2>3, <2>4 DEF Failing, r
  <2> QED BY <1>8, <2>1, <2>2, <2>3, <2>5 DEF Failing
<1>10. CASE DoClose
  <2>1. /\ todo[1].op = "close" /\ r \in handles
        /\ todo' = [todo EXCEPT ![1] = Reset(todo[1].of)]
        /\ live' = live \ {r} /\ deletedTwice' = deletedTwice \cup ({r} \ live)
        /\ handles' = handles
    BY <1>6, <1>10 DEF DoClose, Doing, Remove, r
  <2>2. /\ todo' \in Seq(Ops) /\ ResetsFirst(todo') /\ Once(todo', twice)
        /\ \A x : Resets(todo', x) <=> x = r
        /\ \A op \in {"delete", "close"} : Parts(todo', op) = Parts(Tail(todo), op)
    <3> HIDE DEF twice
    <3> QED BY <1>1, <1>3, <1>5, <1>6, <2>1, Closing DEF r
  <2>3. r \in Parts(todo, "close")
    BY <1>6, <2>1 DEF r
  <2>4. Working'
    BY <2>1, <2>2 DEF Working
  <2>5. CASE pc = "failing"
    <3>1. Failing'
      <4>1. /\ Parts(todo', "delete") = Parts(todo, "delete")
            /\ Parts(todo, "close") = Parts(todo', "close") \cup {r}
            /\ r \notin Parts(todo', "delete")
        <5>1. /\ Parts(todo', "delete") = Parts(Tail(todo), "delete")
              /\ Parts(todo', "close") = Parts(Tail(todo), "close")
          BY <2>2
        <5>2. /\ Parts(todo, "delete") = Parts(Tail(todo), "delete")
              /\ Parts(todo, "close") = Parts(Tail(todo), "close") \cup {r}
          <6>1. todo[1].op # "delete" /\ todo[1].of = r
            BY <1>6, <2>1 DEF r
          <6> QED BY <1>6, <2>1, <6>1
        <5> QED BY <1>6, <2>1, <5>1, <5>2
      <4>2. Failing /\ \A x : ~Resets(todo, x)
        BY <1>1, <1>7, <2>1, <2>5
      <4>3. Once(todo', Twice)
        BY <2>2, <2>5
      <4>4. \A x \in Closed \cap handles' : x \in live' \/ Resets(todo', x)
        BY <2>1, <2>2, <4>2 DEF Failing
      <4>5. /\ Parts(todo', "delete") \subseteq live'
            /\ Parts(todo', "delete") \cap Closed = {}
            /\ live' \subseteq Parts(todo', "delete")
                   \cup (Parts(todo', "close") \cap handles')
                   \cup {clientUdpMutex, database}
        BY <2>1, <4>1, <4>2 DEF Failing
      <4>6. \A x \in Parts(todo', "close") \cap handles' :
              x \in live' \/ x \in Twice \/ Resets(todo', x)
        BY <2>1, <2>2, <4>1, <4>2 DEF Failing
      <4> QED BY <1>2, <2>4, <4>3, <4>4, <4>5, <4>6 DEF Failing
    <3>2. r \in live \/ r \in Twice
      BY <1>1, <1>7, <2>1, <2>3, <2>5 DEF Failing
    <3> QED BY <1>8, <2>1, <2>5, <3>1, <3>2
  <2>6. CASE pc = "stopping"
    <3>1. Stopping'
      BY <1>1, <1>2, <1>6, <1>7, <2>1, <2>2, <2>3, <2>4, <2>6 DEF Stopping, r
    <3>2. r \in Closed /\ (r \in live \/ Resets(interrupted, r))
      BY <1>1, <1>7, <2>1, <2>3, <2>6 DEF Stopping
    <3>3. xSchedulerRunning => Served'
      <4>1. xSchedulerRunning => Served
        BY <2>6 DEF StartupInv
      <4> QED BY <1>2, <1>7, <2>1, <2>2, <3>2, <4>1 DEF Served
    <3> QED BY <1>8, <2>1, <2>6, <3>1, <3>2, <3>3
  <2> QED BY <1>1, <2>5, <2>6
<1>11. CASE NothingToClose \/ DoReset
  <2>1. /\ todo[1].op \in {"close", "reset"} /\ todo' = Tail(todo)
        /\ live' = live /\ deletedTwice' = deletedTwice
        /\ handles' = handles \ {r}
        /\ todo[1].op = "close" => handles' = handles
        /\ todo[1].op = "reset" => r \notin live
    <3>1. CASE NothingToClose
      BY <1>6, <3>1 DEF NothingToClose, Doing, r
    <3>2. CASE DoReset
      <4>1. todo[1].op = "reset" /\ todo[1] = Reset(r)
        BY <1>6, <3>2, OpIs DEF DoReset, Doing, r
      <4>2. Resets(todo, r)
        BY <1>1, <4>1 DEF Resets
      <4> QED BY <1>3, <1>6, <3>2, <4>1, <4>2 DEF DoReset, Doing, r
    <3> QED BY <1>11, <3>1, <3>2
  <2>2. Working'
    BY <1>6, <2>1 DEF Working
  <2>3. pc = "failing" => Failing'
    BY <1>1, <1>2, <1>6, <1>7, <2>1, <2>2 DEF Failing, r
  <2>4. pc = "stopping" => Stopping'
    BY <1>1, <1>2, <1>6, <1>7, <2>1, <2>2 DEF Stopping, r
  <2>5. xSchedulerRunning /\ pc = "stopping" => Served'
    <3>1. xSchedulerRunning /\ pc = "stopping" => Served
      BY DEF StartupInv
    <3> QED BY <1>2, <1>6, <1>7, <2>1, <3>1 DEF Served
  <2> QED BY <1>8, <2>1, <2>3, <2>4, <2>5
<1> QED BY <1>9, <1>10, <1>11 DEF DoNext

\* The end of a failure path, and of the handler.
LEMMA ReturnStep ==
  ASSUME StartupInv, Return \/ Exit PROVE StartupInv'
<1>1. /\ mode' = mode /\ next' = next /\ todo' = todo /\ todo = << >>
      /\ interrupted' = interrupted /\ live' = live /\ handles' = handles
      /\ deletedTwice' = deletedTwice
  BY DEF Return, Exit
<1>2. Plan' = Plan /\ Closed' = Closed
  BY <1>1 DEF Plan, Closed
<1>3. KnownSecondDeletions'
  BY <1>1, <1>2 DEF KnownSecondDeletions, StartupInv
<1>4. CASE Return
  <2>1. /\ pc = "failing" /\ pc' = "returned"
        /\ xSchedulerRunning' = xSchedulerRunning
    BY <1>4 DEF Return
  <2>2. Failing /\ \A op : Parts(todo, op) = {}
    BY <1>1, <2>1 DEF StartupInv, Parts
  <2>3. FailedStartReleases'
    BY <1>1, <2>2 DEF FailedStartReleases, Failing
  <2>4. Closed \cap handles \subseteq live
    BY <1>1, <2>2 DEF Failing, Resets
  <2>5. StartupTypeOK'
    BY <1>1, <1>2, <2>1 DEF StartupInv, StartupTypeOK
  <2> QED BY <1>1, <1>2, <1>3, <2>1, <2>3, <2>4, <2>5 DEF StartupInv
<1>5. CASE Exit
  <2>1. pc' = "exited" /\ xSchedulerRunning' = FALSE
    BY <1>5 DEF Exit
  <2>2. StartupTypeOK'
    BY <1>1, <1>2, <2>1 DEF StartupInv, StartupTypeOK
  <2> QED BY <1>1, <1>2, <1>3, <2>1, <2>2 DEF StartupInv, FailedStartReleases
<1> QED BY <1>4, <1>5

\* SIGINT, at whatever moment: what the handler will close is there, but for
\* what main was about to reset.
LEMMA SignalHandlerStep ==
  ASSUME StartupInv, SignalHandler PROVE StartupInv'
<1>1. /\ pc \in {"main", "starting", "failing", "running", "returned"}
      /\ pc' = "stopping" /\ todo' = HandlerCloses /\ interrupted' = todo
      /\ mode' = mode /\ next' = next /\ live' = live /\ handles' = handles
      /\ deletedTwice' = deletedTwice /\ xSchedulerRunning' = xSchedulerRunning
  BY DEF SignalHandler
<1>2. Plan' = Plan /\ Closed' = Closed
  BY <1>1 DEF Plan, Closed
<1>3. Path(HandlerCloses, {}, Closed, {})
  <2>1. Path(DatabaseClose \o ServerUdpClose, {},
             {database, serverSocket, clientUdpMutex}, {})
    <3>1. /\ {} \cap ({} \cup {serverSocket, clientUdpMutex}) = {}
          /\ {} \cap {database} = {} /\ {} \cup {} = {}
          /\ {database} \cup {serverSocket, clientUdpMutex}
               = {database, serverSocket, clientUdpMutex}
      OBVIOUS
    <3>2. Path(DatabaseClose \o ServerUdpClose, {} \cup {},
               {database} \cup {serverSocket, clientUdpMutex}, {})
      BY <3>1, CleanupPaths, PathThenPath
    <3> QED BY <3>1, <3>2
  <2>2. /\ Path(ClientUdpClose, {}, {clientSocket}, {})
        /\ Path(<< >>, {}, {}, {})
    BY CleanupPaths, ShortPaths
  <2> QED BY <2>1, <2>2 DEF HandlerCloses, Closed
<1>4. /\ HandlerCloses \in Seq(Ops)
      /\ Parts(HandlerCloses, "delete") = {}
      /\ Parts(HandlerCloses, "close") = Closed
      /\ ResetsFirst(HandlerCloses) /\ \A r : ~Resets(HandlerCloses, r)
  <2>1. /\ HandlerCloses \in Seq(Ops)
        /\ \A n \in 1 .. Len(HandlerCloses) : HandlerCloses[n].op # "reset"
    BY <1>3 DEF Path
  <2>2. ASSUME NEW r, Resets(HandlerCloses, r) PROVE FALSE
    <3>1. 1 \in 1 .. Len(HandlerCloses) /\ HandlerCloses[1] = Reset(r)
      BY <2>1, <2>2 DEF Resets
    <3> QED BY <2>1, <3>1 DEF Reset
  <2> QED BY <1>3, <2>1, <2>2 DEF Path, ResetsFirst
<1>5. /\ todo \in Seq(Ops)
      /\ \A r \in Closed \cap handles : r \in live \/ Resets(todo, r)
  <2>1. CASE pc = "failing"
    BY <2>1 DEF StartupInv, Failing, Working
  <2>2. CASE pc # "failing"
    <3>1. todo = << >> /\ Closed \cap handles \subseteq live
      BY <1>1, <2>2 DEF StartupInv, Intact
    <3> QED BY <3>1
  <2> QED BY <2>1, <2>2
<1>6. Working' /\ Stopping'
  BY <1>1, <1>2, <1>4, <1>5 DEF Working, Stopping
<1>7. interrupted = << >>
  BY <1>1 DEF StartupInv
<1>8. KnownSecondDeletions'
  BY <1>1, <1>2, <1>7 DEF StartupInv, KnownSecondDeletions
<1>9. xSchedulerRunning => Served'
  <2> SUFFICES ASSUME xSchedulerRunning PROVE Served'
    OBVIOUS
  <2>1. live = Earlier(Plan, next) /\ handles = live /\ next = Len(Plan) + 1
    BY <1>1 DEF StartupInv, Intact
  <2>2. live = Range(Plan)
    BY <2>1, PlanType, EarlierAreEntries
  <2> QED BY <1>1, <1>2, <2>1, <2>2 DEF Served
<1>10. StartupTypeOK'
  BY <1>1, <1>2 DEF StartupInv, StartupTypeOK
<1>11. xSchedulerRunning \in BOOLEAN /\ FailedStartReleases'
  BY <1>1 DEF StartupInv, StartupTypeOK, FailedStartReleases
<1> QED BY <1>1, <1>5, <1>6, <1>8, <1>9, <1>10, <1>11 DEF StartupInv

\* A creation that succeeds: one more resource of the plan is there.
LEMMA CreateStep ==
  ASSUME StartupInv, Create PROVE StartupInv'
<1>1. /\ pc = "starting" /\ next <= Len(Plan)
      /\ live' = live \cup {Plan[next]} /\ handles' = handles \cup {Plan[next]}
      /\ next' = next + 1
      /\ mode' = mode /\ pc' = pc /\ deletedTwice' = deletedTwice
      /\ todo' = todo /\ interrupted' = interrupted
      /\ xSchedulerRunning' = xSchedulerRunning
  BY DEF Create
<1>2. /\ live = Earlier(Plan, next) /\ handles = live /\ deletedTwice = {}
      /\ mode \in {"none", "client", "server"} /\ next \in 1 .. Len(Plan) + 1
  BY <1>1 DEF StartupInv, StartupTypeOK, Intact
<1>3. Plan' = Plan /\ Len(Plan) \in Nat
  BY <1>1, PlanType DEF Plan
<1>4. next \in 1 .. Len(Plan) /\ next' \in 1 .. Len(Plan) + 1
  BY <1>1, <1>2, <1>3
<1>5. /\ Earlier(Plan, next + 1) = Earlier(Plan, next) \cup {Plan[next]}
      /\ Earlier(Plan, next) \subseteq Range(Plan) /\ Plan[next] \in Range(Plan)
  BY <1>4, PlanType, EarlierAreEntries
<1>6. Intact'
  BY <1>1, <1>2, <1>3, <1>5 DEF Intact
<1>7. StartupTypeOK'
  BY <1>1, <1>2, <1>3, <1>4, <1>5 DEF StartupTypeOK, StartupInv
<1>8. KnownSecondDeletions' /\ FailedStartReleases'
  BY <1>1, <1>2 DEF KnownSecondDeletions, FailedStartReleases
<1> QED BY <1>1, <1>6, <1>7, <1>8 DEF StartupInv

\* main before and after, and the scheduler.
LEMMA MainStep ==
  ASSUME StartupInv,
         RunClient \/ RunServer \/ Usage \/ MainReturns \/ StartScheduler
  PROVE  StartupInv'
<1>1. CASE RunClient \/ RunServer
  <2>1. /\ pc = "main" /\ pc' = "starting" /\ mode' \in {"client", "server"}
        /\ next' = next /\ live' = live /\ handles' = handles
        /\ deletedTwice' = deletedTwice
        /\ todo' = todo /\ interrupted' = interrupted
        /\ xSchedulerRunning' = xSchedulerRunning
    BY <1>1 DEF RunClient, RunServer
  <2>2. /\ next = 1 /\ live = {} /\ handles = {} /\ deletedTwice = {}
    BY <2>1 DEF StartupInv, Intact, Earlier
  <2>3. Plan' \in {ClientPlan, ServerPlan}
    BY <2>1 DEF Plan
  <2>4. Len(Plan') \in Nat
    <3>1. \A plan \in {ClientPlan, ServerPlan} : Len(plan) \in Nat
      BY PlansAreSequences
    <3> QED BY <2>3, <3>1
  <2>5. Earlier(Plan, next)' = {}
    BY <2>1, <2>2 DEF Earlier
  <2>6. StartupTypeOK' /\ Intact'
    BY <2>1, <2>2, <2>4, <2>5 DEF StartupTypeOK, Intact, StartupInv
  <2>7. KnownSecondDeletions' /\ FailedStartReleases'
    BY <2>1, <2>2 DEF KnownSecondDeletions, FailedStartReleases
  <2> QED BY <2>1, <2>2, <2>6, <2>7 DEF StartupInv
<1>2. CASE Usage \/ MainReturns
  <2>1. /\ pc \in {"main", "returned"} /\ pc' = "exited"
        /\ UNCHANGED <<mode, next, todo, interrupted, xSchedulerRunning, live,
                       handles, deletedTwice>>
    BY <1>2 DEF Usage, MainReturns
  <2>2. Plan' = Plan
    BY <2>1 DEF Plan
  <2>3. KnownSecondDeletions' /\ FailedStartReleases' /\ StartupTypeOK'
    BY <2>1, <2>2 DEF StartupInv, StartupTypeOK, FailedStartReleases,
                      KnownSecondDeletions
  <2> QED BY <2>1, <2>3 DEF StartupInv
<1>3. CASE StartScheduler
  <2>1. /\ pc = "starting" /\ next > Len(Plan)
        /\ pc' \in {"running", "returned"} /\ xSchedulerRunning' \in BOOLEAN
        /\ xSchedulerRunning' => pc' = "running" \/ xSchedulerRunning
        /\ UNCHANGED <<mode, next, todo, interrupted, live, handles,
                       deletedTwice>>
    <3>1. xSchedulerRunning \in BOOLEAN
      BY DEF StartupInv, StartupTypeOK
    <3>2. \/ pc' = "running" /\ xSchedulerRunning' = TRUE
          \/ pc' = "returned" /\ xSchedulerRunning' = xSchedulerRunning
      BY <1>3 DEF StartScheduler
    <3>3. xSchedulerRunning' \in BOOLEAN
      BY <3>1, <3>2, Zenon
    <3> QED BY <1>3, <3>2, <3>3 DEF StartScheduler
  <2>2. next \in 1 .. Len(Plan) + 1 /\ Len(Plan) \in Nat /\ Plan' = Plan
    BY <2>1, PlanType DEF StartupInv, StartupTypeOK, Plan
  <2>3. next = Len(Plan) + 1
    BY <2>1, <2>2
  <2>4. StartupTypeOK'
    BY <2>1, <2>2 DEF StartupInv, StartupTypeOK
  <2>5. Intact /\ Intact'
    BY <2>1, <2>2 DEF StartupInv, Intact
  <2>6. KnownSecondDeletions'
    BY <2>5 DEF KnownSecondDeletions, Intact
  <2>7. FailedStartReleases'
    BY <2>1, <2>2, <2>3 DEF FailedStartReleases
  <2>8. (Closed \cap handles \subseteq live)'
    BY <2>5 DEF Intact
  <2> QED BY <2>1, <2>2, <2>3, <2>4, <2>5, <2>6, <2>7, <2>8 DEF StartupInv
<1> QED BY <1>1, <1>2, <1>3

-----------------------------------------------------------------------------
(* Theorems *)

LEMMA StartupInit == Init => StartupInv
<1> SUFFICES ASSUME Init PROVE StartupInv
  OBVIOUS
<1>1. /\ mode = "none" /\ pc = "main" /\ next = 1
      /\ todo = << >> /\ interrupted = << >> /\ xSchedulerRunning = FALSE
      /\ live = {} /\ handles = {} /\ deletedTwice = {} /\ Plan = << >>
  BY DEF Init, Plan
<1>2. StartupTypeOK
  <2>1. xSchedulerRunning \in BOOLEAN
    BY <1>1, Zenon
  <2>2. /\ next \in 1 .. Len(Plan) + 1
        /\ live \cup handles \cup deletedTwice \subseteq Range(Plan)
    BY <1>1
  <2> QED BY <1>1, <2>1, <2>2 DEF StartupTypeOK
<1>3. Intact
  BY <1>1 DEF Intact, Earlier
<1> QED BY <1>1, <1>2, <1>3
        DEF StartupInv, FailedStartReleases, KnownSecondDeletions

\* What exists is what the plan says; then what is left of the failure path
\* or of the handler fits what still exists.
THEOREM StartupInvariant == Spec => []StartupInv
<1>1. StartupInv /\ [Next]_vars => StartupInv'
  <2> SUFFICES ASSUME StartupInv, [Next]_vars PROVE StartupInv'
    OBVIOUS
  <2>1. CASE UNCHANGED vars
    BY <2>1 DEF vars, StartupInv, StartupTypeOK, Intact, Closed, Plan, Working,
                Failing, Stopping, Served, Twice, FailedStartReleases,
                KnownSecondDeletions
  <2>2. CASE Next
    BY <2>2, MainStep, CreateStep, ClientFailsStep, ServerFailsStep,
       DoNextStep, ReturnStep, SignalHandlerStep DEF Next
  <2> QED BY <2>1, <2>2
<1> QED BY <1>1, StartupInit, PTL DEF Spec

\* Every variable keeps its type; all that is ever created or deleted is in
\* the plan.
THEOREM StartupTypeCorrect == Spec => []StartupTypeOK
<1>1. StartupInv => StartupTypeOK
  BY DEF StartupInv
<1> QED BY <1>1, StartupInvariant, PTL

\* Whichever creation fails, what had been created is released, but for the
\* mutex of ClientUdpInit and the database.
THEOREM FailedStartsRelease == Spec => []FailedStartReleases
<1>1. StartupInv => FailedStartReleases
  BY DEF StartupInv
<1> QED BY <1>1, StartupInvariant, PTL

\* However SIGINT interleaves with the failure paths, nothing is deleted twice
\* but the mutex of a department whose event group could not be created, and
\* the socket or the database whose variable main was about to reset.
THEOREM SecondDeletionsAreKnown == Spec => []KnownSecondDeletions
<1>1. StartupInv => KnownSecondDeletions
  BY DEF StartupInv
<1> QED BY <1>1, StartupInvariant, PTL

\* The tasks find all that the plan names, whatever the number of departments,
\* priorities and vehicles, and lose the sockets and the database only.
THEOREM TasksAreProvided == Spec => []TasksFindEverything
<1>1. ASSUME StartupInv PROVE TasksFindEverything
  <2>1. Earlier(Plan, Len(Plan) + 1) = Range(Plan)
    BY PlanType, EarlierAreEntries
  <2>2. /\ pc \in {"starting", "running"} => handles = live
        /\ pc = "running" => live = Range(Plan)
    BY <1>1, <2>1 DEF StartupInv, Intact
  <2>3. ASSUME xSchedulerRunning
        PROVE  /\ Range(Plan) \ live \subseteq {clientSocket, serverSocket, database}
               /\ live \subseteq handles
               /\ \A r \in handles \ live :
                    pc = "stopping" /\ todo # << >> /\ Head(todo) = Reset(r)
    <3>1. CASE pc = "running"
      BY <2>2, <3>1
    <3>2. CASE pc = "stopping"
      <4>1. Served /\ todo \in Seq(Ops)
        BY <1>1, <2>3, <3>2 DEF StartupInv, Stopping, Working
      <4>2. Closed \cap Range(Plan) \subseteq {clientSocket, serverSocket, database}
        BY <1>1, ClosedAre
      <4> QED BY <3>2, <4>1, <4>2 DEF Served, Resets
    <3> QED BY <1>1, <2>3, <3>1, <3>2 DEF StartupInv
  <2> QED BY <2>2, <2>3 DEF TasksFindEverything
<1> QED BY <1>1, StartupInvariant, PTL
=============================================================================
