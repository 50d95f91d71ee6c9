# Formal model of City Emergency Dispatch

TLA+ modules, TLC configurations and TLAPS proofs for the program in `Src/` and
`Inc/`: a server that generates emergency events, a client whose FreeRTOS tasks
dispatch and process them, the UDP protocol between the two, and the part of the
FreeRTOS kernel (`core/Source/`) that the tasks rest on.

## 1. The system

### Inventory

| Component | Source | State | Operations |
|---|---|---|---|
| Vocabulary | `Inc/event.h`, `message.h`, `vehicle.h`, `department.h` | – | enumerations, message records |
| Departments | `client.c` 621–1200 | three priority queues, vehicle records (status, current event) under `vehicleMutex`, break event group, locals of the tasks | `VehicleTask` (two per department), `ShiftManagerTask` (one per department, every 10 s) |
| Client event flow | `client.c` 43–96, 479–608, 833–866, 1212–1247 | `g_clientRxQueue`, `g_faultQueue`, statistics, locals of the tasks | `ClientUdpRxTask`, `ClientDispatcherTask`, `FaultManagerTask`, reports of the vehicles |
| Startup | `main.c`, `client.c` 105–467, `server.c` 91–152, init and close in `udp.c`, `database.c` | sockets, queues, mutexes, event groups, task handles | `main`, `RunClient`, `RunServer`, `InitDepartments`, `Create…`, `Cleanup…`, the SIGINT handlers |
| Server | `server.c` | `g_serverUdpTxQueue`, statistics | `ServerEventGeneratorTask`, `ServerUdpTxTask`, `ServerUdpRxTask`, `ServerSignalHandler`, `RunServer` |
| Database | `database.c` | table `events`, connection handle | clear, insert, update, close |
| Event generator | `event_generator.c` | `g_nextEventId` | `CreateRandomEvent` |
| UDP | `udp.c` | two sockets, `g_clientUdpMutex` | init, close, send, receive |
| Logging names | `strings.c` | – | enumerator to text |
| Scheduler and queues | `core/Source/tasks.c`, `queue.c`, `list.c` (vendored) | tick count, ready ring, delayed lists, event lists, queue contents | tick, switch, send, receive, delay |
| Rest of `core/` | vendored | – | other ports, drivers, demos: not part of the program |

### How the parts interact

```
 generator --tx queue--> tx task ==UDP==> rx task --rx queue--> dispatcher
     |                                      | ACK                   |
   INSERT                                   v              priority queues
     v                                  (ack datagram)              |
  events.db <--UPDATE-- rx task <==UDP== vehicle task <-------------+
                                             | failed          ^
                                             v                 | status, break bit
                                        fault queue        shift manager
                                             |
                                        fault manager --rx queue (retry)
                                             | no retry left: FAILED datagram
```

Tasks share queues (atomic operations of the kernel), the vehicle records
(`vehicleMutex`, one short critical section per access), a break event group, and
plain global counters. All tasks have priority 2 and are time-sliced. SIGINT is
handled on the main thread while the tasks go on running.

### What is hard

* **Decisions on old facts.** A vehicle looks at its status and then waits up to
  300 ms on its queues; a shift manager counts, looks, decides and acts in
  separate critical sections.
* **One truth in several places.** Status and break bit; status and current
  event; statistics, table and messages in flight.
* **Bounded queues in a cycle.** Dispatcher → department queue → vehicle → fault
  queue → fault manager → receive queue → dispatcher.
* **Bounded waits that drop events**, retries that must be counted exactly.
* **Lost datagrams**, no retransmission; identifiers that start again from 1.
* **Shutdown** beside running tasks, and fifty creations at startup, each with a
  cleanup path written out by hand.
* **Time limits under preemption.** A call that is woken for nothing waits on for
  what is left of its time, computed from a tick count that wraps.

`PROJECT.json` lists each hazard at its line with the properties that watch it.

### What makes each component correct

* Departments: no hidden break, no stale record; waiting high-priority events get a
  vehicle, whatever else it is busy with; a vehicle gets rid of its event.
* Client flow: an event is nowhere twice and vanishes only where the code says
  so; one acknowledgement, at most one completion; retries bounded; statistics
  add up; no deadlock in the cycle of queues.
* Server: the row exists before an answer can come; statistics and table agree; a
  recorded outcome is final; a restart leaves nothing of the previous run.
* Startup: every resource is freed exactly once on every failure path, wherever SIGINT
  cuts it short, and the tasks find all they use. (The first is not quite so: section 3.)
* Together: the table records what the client reported, the statistics of the two
  processes fit, every event comes to rest somewhere.
* Kernel: a queue call fails only when its time is up, tasks wake on time, no
  message lies in a queue while all who want it sleep.

## 2. Modules

| Module | Models | Extends |
|---|---|---|
| `Messages` | vocabulary and `sendto` | |
| `Department` | vehicle tasks, shift managers, environment | `Messages` |
| `DepartmentProofs` | proofs about `Department` | `Department`, `TLAPS` |
| `EventLifecycle` | abstract: the life of an event as the server may see it | |
| `Client` | receive task, dispatcher, fault manager, reports, statistics | `Department` |
| `Server` | server tasks, database, shutdown, restart | `Messages` |
| `Startup` | `main`, every creation and failure path up to the scheduler | |
| `System` | both processes over one network | `Client`, instance of `Server` |
| `BlockingQueue` | abstract: what a queue call promises | |
| `Kernel` | the scheduler and the queue operations; implements `BlockingQueue` | |
| `ClientProofs` | what the client's tasks know; `Client` implements `Department` | `Client`, `DepartmentProofs` |
| `EventProofs` | no event is duplicated or lost in the client; `Client` implements `EventLifecycle` | `ClientProofs` |
| `StatisticsProofs` | the client's statistics always balance | `EventProofs` |
| `ServerProofs` | rows, outcomes and statistics of the server | `Server`, `TLAPS` |
| `SystemProofs` | each process is the environment of the other; both together | `System`, `StatisticsProofs`, instance of `ServerProofs` |
| `StartupProofs` | the failure paths fit the order of the creations | `Startup`, `TLAPS` |
| `KernelProofs` | the scheduler's lists, delays and wake-ups; `Kernel` implements `BlockingQueue` | `Kernel`, `TLAPS` |
| `MCDepartment`, `MCClient`, `MCServer`, `MCStartup`, `MCSystem`, `MCKernel` | instances for TLC | |

The layers meet as follows. `Kernel` is where a send or a receive with a time limit
is a loop of critical sections; the modules above use it as the single step that
`BlockingQueue` allows. `Client` puts the real tasks in the place of `Department`'s
environment (`ImplementsDepartment`), `System` puts the real client and the real
network in the place of `Server`'s environment and of `Client`'s
(`ImplementsServer`, `ImplementsClient`).

### State and actions against the code

**Messages.** An event type and its department are one value of `Departments`
(`GetDepartmentByEventType` is one-to-one). Locations, descriptions, vehicle
names and timestamps decide nothing and are left out. `AfterSendto` gives the two
things a datagram may do: join the receiver's buffer, or be lost. Nobody acts on
the result of a send.

**Department.** `status`, `currentEventId`, `currentPriority` are the fields of
`Vehicle_t`; `vehicleEventGroup` is the set of vehicles whose bit is set;
`priorityQueues` and `faultQueue` are the FreeRTOS queues. `vpc` and `mpc` say
where a vehicle task or shift manager is; `level`, `message`, `remaining`,
`result`, `i`, `pendingEvents`, `availableCount`, `highCount` are their locals.
A step is one queue operation, one critical section or one event-group call.
`vehicleMutex` is not a variable: each of its critical sections is straight-line
code that does not block or nest, so it is one step. A wait with a time limit
succeeds when it can and may end whenever the queue is empty (or full).
Random draws (break, failure, processing time) are choices. `NextVehicle` ends a
pass of the shift manager's loop; block-scoped locals are reset when they die,
which keeps the state space small and changes nothing.
`MonitorDepartmentVehicles` and `CheckDepartmentOverload` only log. What the
former would report is the subject of `BreakIsMonitored`; the overload warning is not modelled. The dispatcher's
branch for an unknown type or priority cannot be reached by a message the server
makes and is left out, as is a datagram of a wrong size or type.

**Client** adds the other tasks to `Department`. A vehicle's step is the step of
`Department` with the counter or datagram that belongs to it: `DriveVehicle` (no
effect outside the department), `CancelEvent`, `FinishEvent`, `ReportOutcome`,
`DropFailed`. A counter increment is a single instruction in the default (-O3)
build and part of the action that decides on it. Two history variables are read
by properties only: `dropped` (events given up at a full queue) and `replies`
(datagrams sent about each event). The network to the client is `ServerSends`: an
event that arrives; a lost one is one never sent. Replies are recorded as sent,
whether or not they arrive.

**EventLifecycle** has for each event a `fate` (unknown, accepted, an outcome,
lost) and the number of `tries`. `Client` maps each event to it by where its only
copy is.

**Server.** `rows` is the table (identifier → status), `stage` the progress of
the SIGINT handler (`running`; `closing`, after `sqlite3_close`; `closed`, after
`g_database = NULL`; `down`, after `exit`). Printing the statistics changes nothing; what it would print is the subject of
`StatisticsMatchTable`. The tasks take
steps in every stage but `down`. A statement has its effect, or none if
`g_database` is NULL or, with `DatabaseMayFail`, if it fails; callers ignore
the result. In `closing` the tasks still find a handle: a statement that was prepared
in time is carried out (SQLite does not close under it), a later one uses a handle that
is gone, and may do nothing or end the process (`Exit`). `run` and the run number paired
with each datagram are a history, to tell to which run a datagram belongs; `missed` records the events whose last
statement left no trace, so that the properties can say what a failed statement
excuses. The client is here an environment with the
protocol `Client` is checked to have (`AckThenOneCompletion`), it may also drop an
event, and it outlives the server.

**Startup.** A *plan* lists what `RunClient` or `RunServer` creates, in order, with
the names of the variables; a loop over the departments is a function of the position
(`DepartmentsPlan`, `VehiclesPlan`). `Create` is the success of the creation that is due.
For each failure path there is an action that puts what the path does into `todo`: a
sequence of operations. `Delete` leaves the variable as it is
(`vQueueDelete(g_faultQueue)`); `Close` deletes only if the variable is not NULL, and then
`Reset` is the next operation. They are carried out one by one (`DoDelete`, `DoClose`,
`NothingToClose`, `DoReset`), and SIGINT can come before each. The handler is a `todo` of
its own: `DatabaseClose`, `ServerUdpClose` or `ClientUdpClose`, then `Exit`; what it cut
short is kept in the history `interrupted`. Once `xSchedulerRunning`, the tasks run on beside
it until the exit. What they do with what they find closed is in `Server`.

**System** takes its steps from `Client` and `Server`. What a client step sends is
the change of `replies`; it then joins the server's socket buffer or is lost. The
server's history variables (run numbers, `unacknowledged`, `inWork`) are defined
from the state of the client (`FirstRun`, `Unacknowledged`, `InWork`).

**Kernel.** All tasks of the program have priority 2, so there is one ready list, a
ring written from the running task on; `xListEnd` is its end marker, and the idle
task runs when it stands first. `sched` holds the static variables of `tasks.c` and
the event lists of the queue. A critical section is a step, and so is a section
with the scheduler suspended: in it no other task runs and a tick is only counted,
to be made up for by `xTaskResumeAll` (`xPendedTicks`, at most one at a time).
Items are taken out of a list by `Keep`, which leaves the others in their order.
`FindNothing`, `Block` and `Expire` are the three parts of the loop of
`xQueueGenericSend` and `xQueueReceive`. A task computes between its calls for as
long as it likes (`Compute`).

Each module has a block of *slips*: definitions with a plausible mistake,
such as a missing reset or guard. No specification uses them. Put in place of the right
definition (`PROJECT.json`, `mutants`), each makes TLC find a property violated.

## 3. What the runs check

| Run | Question | Distinct states |
|---|---|---|
| `department` | two vehicles, their shift manager and high-priority events: `TypeOK`, `BreakIsMonitored`, `BusyShowsItsEvent`, and `HighPriorityIsServed`, even if both are on break | 613 k |
| `department_priorities` | one vehicle, with low-priority events too: `HighPriorityIsServed`, though it may be busy with lower work, be interrupted, or take lower work first while it waits on a lower queue | 37 k |
| `client_events` | a high- and a low-priority event, one vehicle, one retry: `EventConserved`, `AckThenOneCompletion`, `StatisticsBalance`, refinement of `EventLifecycle` and of `Department`, and `EveryEventLeaves`: the cycle of queues does not block | 114 k |
| `server` | two runs with loss, failing statements and shutdown at any moment: `RowBeforeEvent`, `StatisticsMatchTable`, `RowsAreThisRuns`, `OutcomeIsFinal` | 1.9 M |
| `startup` | every creation fails, SIGINT between any two steps of a creation or a failure path, the handler beside the running tasks: `FailedStartReleases`, `KnownSecondDeletions`, `TasksFindEverything` | 17.6 k |
| `system` | both processes, lost datagrams, two events of one priority, so that the department queue overflows too: `StatisticsBalance`, `RecordedOutcomeIsReported`, `StatisticsAgree`, `ImplementsClient`, `ImplementsServer`, `EveryEventComesToRest` | 270 k |
| `kernel` | a producer and two consumers on a queue of one, across wraps of the tick count: `DelayedListEmptyAtSwitch` (an assertion of `tasks.c`), `DelayEndsOnTime`, `WokenOnTime`, `NoLostWakeup`, `ImplementsBlockingQueue`, `BoundedCallReturns` | 438 k |

Deadlock is checked in all but two of them: some task can always
move (a shift manager can, the tick comes), and `EveryEventLeaves`, `EveryEventComesToRest` and
`BoundedCallReturns` are what says that nothing gets stuck for good. The runs `server` and
`startup` switch it off because a bounded number of runs, and a start, really end.

`FailedStartReleases` and `KnownSecondDeletions` name what the code does get
wrong, and nothing else. On the failure paths the mutex of `ClientUdpInit` is never
deleted (`udp.c:121` deletes it in `ServerUdpClose`, which the client does not
call) and the database stays open (`server.c:112`). The mutex of a department whose
event group cannot be created is deleted twice (`client.c:197`, then
`CleanupDepartments`). And a socket or the database is closed twice if SIGINT comes between
its close and the reset of its variable on a failure path (`udp.c:49`, `88`, `98`, `117`,
`138`, `database.c:96`, `103`), as the handler looks at the variable. No document says otherwise,
so these are not runs of their own.

### Statements of the documentation that do not hold

Each is a run that TLC finds violated within seconds.

| Run | Statement | What happens |
|---|---|---|
| `department_highest_priority_taken` | `client.c:649` "Retrieves the highest-priority available event" | a vehicle waiting on a lower queue takes from it although a high-priority event has arrived |
| `department_break_takes_no_event` | `vehicle.h:14` "temporarily out of service" | the status is not looked at again after the waits, and BUSY overwrites BREAK |
| `department_one_vehicle_stays_in_service` | `client.c:1165` "Keep at least one vehicle available for dispatch" | one cycle can send both vehicles to break: the count is not lowered |
| `department_high_priority_not_interrupted` | `client.c:916` "currently processing a lower-priority event" | between `ShouldInterruptVehicle` and `SetVehicleBreak` the vehicle finishes its event and takes the high-priority one; that one is interrupted, and cancelled for good |
| `server_completion_updates_its_own_event` | `database.c:184` "Updates the corresponding event entry" | after a restart a late completion finds another event under its identifier |

The same reading shows five more, which have no run of their own:

* `client.c:1031`, "reports vehicles currently marked as being on break": a vehicle task that
  overwrites BREAK, as in `department_break_takes_no_event`, or leaves it after an
  interruption (`client.c:1004`), does not clear the bit, so the monitor goes on showing it.
* `README.md:70`, "Retries interrupted events through Fault Manager": an interrupted
  event is reported as cancelled for good (`client.c:1018`); only failed ones are retried.
* `README.md:211`, "The final pending records match the runtime statistics": the handler
  prints before it closes the database (`server.c:74`), and the tasks go on meanwhile.
* `main.c:24`, "non-zero on error": `main` returns 0 when `RunClient` or `RunServer`
  has failed.
* `server.c:40`, "pending events": after a restart of the server completions of the
  previous run can outnumber the generated events, and the unsigned difference
  (`server.c:45`) wraps around.

### Bounds

* One department: departments share nothing but the client's receive and fault
  queues and the counters, and in the model of the client these are as full or
  empty as one department can make them.
* Two vehicles where they compete, which is the number the program has
  (`MAX_VEHICLES_PER_DEPARTMENT`); one vehicle where the question is one event's way.
* One high- and one low-priority event in `client_events`: the medium queue is still
  polled, counted and waited on, and is always empty. In `department` and
  `department_priorities` a message may arrive again and again, so that queues fill and
  vehicles are busy: two vehicles with high-priority events only, one vehicle with both
  priorities. Both at once have 10.7 million states, which hold the safety properties but are
  too many for the liveness property; the safety properties are proved for all
  vehicles and arrivals (section 4).
* Queue capacities of one, so that full queues happen with two events.
* Processing of one second: one look at the status and then the outcome. More
  seconds repeat the same look.
* `MAX_EVENT_RETRIES` 1: failing with and without a retry left. The code has 3.
* `server`: two events per run, two runs, transmit queue and socket buffers of one,
  `UintRange` 8, so that the wrap-around of a difference is seen and sums of a run do not reach it.
* `startup` has the sizes of the program: six departments, three priorities, two vehicles each.
* `system`: two events, one vehicle, one run of the server (its restart is in
  `server`, beside which the client just goes on), buffers of one.
* `kernel`: three tasks, block times of 1 and 2 ticks and without limit. `TickRange` 8 lets
  the count wrap with tasks asleep on both delayed lists. Two of the properties need a range
  larger than the time for which a task that is ready may have to wait for the processor, or
  its elapsed time is mistaken for a smaller one and it sleeps on: `WokenOnTime` and
  `BoundedCallReturns`. With 4 TLC finds that; in the program the range is 2^64. The other
  properties hold for every range (section 4).
  `age` counts to 2 (`MaxAge`), the longest block time.

### Fairness

In the modules of the program every task is weakly fair: all have the same priority and are time-sliced, and
each of their waits ends when what it waits for is there or, where it has a limit,
when the time is up. `CheckStatus` is strongly fair: a vehicle looks at its status
every 100 ms, the shift manager changes it once in 10 s, so a vehicle that is
available again and again does see it once. Without that, a model without clocks would let the
shift manager send the vehicle to break just before each of its looks. Nothing is assumed
of the environment: neither arrivals nor the server's sends are fair, and the
fault queue of `Department` may stay full. In `System` a datagram may always be lost. Random draws are not fair either:
liveness holds if every draw goes the worst way.

`Kernel` shows where that fairness comes from. It assumes only that the tick comes
again and again and that the thread that has been given the processor runs; that every
task gets its turn and that every limited wait ends (`BoundedCallReturns`) follows from the round
robin. One assumption on timing goes with it: a task that is given the processor
completes at least one critical section before the tick takes it away (`ran`). A tick is
1 ms, a critical section microseconds; without it a task could be switched out before each
of its steps for ever. `SF` for the tick, because `ran` holds it back at times.

## 4. What is proved

The proofs hold for any set of departments, any number of vehicles, queue lengths,
retries, processing times, arrivals, events, templates and runs. They use the assumptions
on the constants, which TLC evaluates in every run: at least one vehicle, positive
capacities, the server sends events with no retry used up, and a retried event is one of
the arrivals of `Department` (`MessagesAssumption`, `DepartmentAssumption`,
`ClientAssumption`); the server's constants are numbers, its templates pairs of a
department and a priority, and `None` is no message (`ServerAssumption`); the client's events
are those the server's generator can make (`SystemAssumption`); numbers of departments,
priorities and vehicles (`StartupAssumption`); finitely many tasks, none of them the end
marker of a list, a queue of positive length, counts of more than one value, and calls with a
block time that the history `age` can count, or without limit (`KernelAssumption`). Three theorems have a hypothesis of their own,
`MaxEvents < UintRange`: the server's counters are `uint32_t`, and say how many
events there are only until one has wrapped, which takes 2^32 events.

| Module | Theorem | Statement |
|---|---|---|
| `DepartmentProofs` | `DepartmentInvariant` | `SafetySpec => []DepartmentInv` |
| | `DepartmentTypeCorrect` | `Spec => []TypeOK` |
| | `BreaksAreMonitored` | `Spec => []BreakIsMonitored` |
| | `BusyVehiclesShowTheirEvent` | `Spec => []BusyShowsItsEvent` |
| `ClientProofs` | `ClientInvariant` | `ClientSpec => []ClientInv` |
| | `ClientTypeCorrect` | `ClientSpec => []ClientTypeOK` |
| | `ClientImplementsDepartment` | `ClientSpec => ImplementsDepartment` |
| | `DepartmentsInTheClient` | the department theorems hold in the client |
| `EventProofs` | `ConservationInvariant` | `ClientSpec => []ConservationInv` |
| | `EventsAreConserved` | `ClientSpec => []EventConserved` |
| | `AnswersAreInOrder` | `ClientSpec => []AckThenOneCompletion` |
| | `ClientImplementsLifecycle` | `ClientSpec => ImplementsLifecycle` |
| `StatisticsProofs` | `StatisticsAlwaysBalance` | `ClientSpec => []StatisticsBalance` |
| `ServerProofs` | `ServerInvariant` | `Spec => []ServerInv` |
| | `ServerTypeCorrect` | `Spec => []ServerTypeOK` |
| | `RowComesFirst` | `Spec => []RowBeforeEvent` |
| | `RowsAreOfThisRun` | `Spec => []RowsAreThisRuns` |
| | `FirstRunInvariant` | `Spec => []` of `PlaceInv` and `AccountsInv` |
| | `OutcomesAreFinal` | `Spec => OutcomeIsFinal` |
| | `StatisticsAndTable` | `Spec => []StatisticsMatchTable`, if `MaxEvents < UintRange` |
| `SystemProofs` | `SystemInvariant` | `SystemSpec => []SystemInv` |
| | `SystemImplementsClient` | `SystemSpec => ImplementsClient` |
| | `SystemImplementsServer` | `SystemSpec => ImplementsServer` |
| | `ClientInTheSystem` | `EventConserved`, `AckThenOneCompletion` and `StatisticsBalance` in the system |
| | `LifecycleInTheSystem` | `SystemSpec => ImplementsLifecycle` |
| | `TableSaysWhatWasReported` | `SystemSpec => []RecordedOutcomeIsReported` |
| | `StatisticsOfBothAgree` | `SystemSpec => []StatisticsAgree`, if `MaxEvents < UintRange` |
| | `ServerInTheSystem` | `RowBeforeEvent`, `RowsAreThisRuns`, `OutcomeIsFinal` in the system |
| | `StatisticsInTheSystem` | `StatisticsMatchTable` in the system, if `MaxEvents < UintRange` |
| `StartupProofs` | `StartupInvariant` | `Spec => []StartupInv` |
| | `StartupTypeCorrect` | `Spec => []StartupTypeOK` |
| | `FailedStartsRelease` | `Spec => []FailedStartReleases` |
| | `SecondDeletionsAreKnown` | `Spec => []KnownSecondDeletions` |
| | `TasksAreProvided` | `Spec => []TasksFindEverything` |
| `KernelProofs` | `KernelInvariant` | `SafetySpec => []KernelInv` |
| | `KernelTypeCorrect` | `SafetySpec => []KernelTypeOK` |
| | `SwitchIsSafe` | `SafetySpec => []DelayedListEmptyAtSwitch` |
| | `DelaysAreExact` | `SafetySpec => []DelayEndsOnTime` |
| | `WakeupsAreNotLost` | `SafetySpec => []NoLostWakeup` |
| | `KernelImplementsBlockingQueue` | `SafetySpec => ImplementsBlockingQueue` |

**Departments.** None of the three properties is inductive. The decrement of
`pendingEvents` happens two steps after the test that it is positive, so one needs
that the test still holds there (`ManagerKnows`, first conjunct). `BreakIsMonitored`
would fail when a bit is cleared unless the vehicle is known to be off break by then:
only the manager of its own department puts it on break, and that manager is busy
clearing (second conjunct). `BusyShowsItsEvent` needs that a vehicle is busy only
while its task is between two of its own steps, and that the record was written before
(`TaskKnows`). `DepartmentInv` is the conjunction of `TypeOK`, these, and
`BreakIsMonitored`. There is one lemma per action, with one step for each conjunct;
for the manager's actions two facts are shared: what a pass of the loop does to
the loop variables (`NextVehicleMoves`, `ManagerContinuesMoves`) and that other
managers' knowledge is not disturbed (`OthersKnow`).

**Client.** `ClientInv` is `DepartmentInv` with what the other tasks know: the
receive task and the fault manager have an event in hand whenever their next step uses
it, a vehicle that is to report has a verdict, an event to be reported as failed has
no retry left, and everything in a queue is an event of the server with some retries
used up (`Retried`). That each task's step is one of `Department`'s or leaves the
departments alone (`DepartmentMoves`) needs the last of these: the dispatcher forwards
only arrivals. `ImplementsDepartment` and the transfer of the theorems follow.

**Where an event is.** `EventConserved` speaks of copies in seven kinds of
variables. The proof sees all of them, and the socket, as one function `Content` from
places to sequences. `ConservationInv` says that no event is in two positions
(`Distinct`) and that each event is in one of three phases: *unanswered* (nothing said
to the server, and if the event is anywhere, it is in the socket or just read from it),
*accepted* (acknowledged; dropped if and only if it is nowhere) or *answered* (its
completion sent, and it is nowhere). The phase gives the acknowledgement its place
before the completion: an event in any queue behind the receive task is an accepted
one (`OldEvent`). An action then does one of a few things to `Content`, each with a lemma
(`MoveKeeps`, `DropKeeps`, `ReportKeeps`, `NothingMoves`), and one short lemma per
action says which.

**The life of an event.** The same lemmas say of every step that it is quiet, brings an
event in, uses up a retry, drops or reports an event (`EventMoves`). As there is one
copy, the `fate` and the `tries` of `EventLifecycle` are a function of that copy (`LifeIs`),
and each of the five is a stutter, `Accept`, `Retry`, `Lose` or `Report`.
`Report` with `STATUS_FAILED` needs that no retry is left, which is the conjunct of
`ClientInv` about the fault manager; the vehicles report everything else.

**Client statistics.** A sum over all events would need induction over data. Instead each
counter is shown to be the number of elements of a set of events that grows in the same
step: `received` of the events known (`KnownIds`), the sum of the three outcomes of those
with a verdict, given or about to be given (`ClosedIds`), and each outcome of the events with
that verdict (`FailureIds`, `FinalIds`). A step adds one element that was not there, because
the event was held, once, by the task that counts it (`ConservationInv`). Retries are told
apart by a set of pairs: the k-th retry of an event, where k is at most the retry count the
event has now (`RetriesAre`); that bounds them by `MAX_EVENT_RETRIES` times the events known.
What was dispatched was received or retried and is no longer on its way (`OnTheWay`).

**Server.** In every run: `ServerInv` says what each task has in hand, that no datagram is
from a run still to come and that rows are of events inserted (hence `RowsAreThisRuns`);
`RowInv` says that the row is there already when the event is about to be queued, one step
earlier than `RowBeforeEvent`. The rest is about the first run, as the properties are: answers
to an earlier run can do what these exclude. Each event is then in at most one of eight
places (`Parts`: generator, queue, transmit task, client's socket, received, in work, server's
socket, completion being recorded), and in none twice (`PlaceInv`). A step moves one event
from one place to another or loses it (`Moves`). Hence an event is
answered once, and `AccountsInv` has for each outcome the set of events it was counted for:
disjoint sets of events that are nowhere any more but in the task that records, and whose rows
have that outcome unless the table missed them. `OutcomeIsFinal` follows, and with the
cardinalities of these sets `StatisticsMatchTable`.

**System.** Both refinements are proved step by step. `ImplementsClient` needs that the real
server sends no event twice: its events are in the order of their numbers from the generator
through the queue to those sent (`Numbered`). For `ImplementsServer` each action of the client
is shown to be receiving, acknowledging, dropping or completing one event as `Server` lets
its client do, or nothing the server notices; that an event reported or dropped is one in
work is what `ConservationInv` says of it. `TableSaysWhatWasReported` follows from `Heard`: what is in
the server's socket, in its receive task or in the table the client has said, and no datagram
is there twice. `StatisticsOfBothAgree` bounds each counter of the server by the number of events
whose datagram has left the socket again (`Counted`), and these are among the sets that
`StatisticsInv` counts for the client. As the system implements `Server`, an instance of
`ServerProofs` gives the server's theorems with the real client in place of the modelled one.

**Startup.** `StartupInv` has a part for each phase. Until something fails, what exists is
what the plan names before the creation that is due, and `handles` is the same set
(`Intact`). On a failure path (`Failing`), what is still to be deleted without a look exists and is
touched only once, what exists is still to be deleted or closed, and a variable that is not
NULL names something that exists or is reset next. In the handler (`Stopping`) the same holds of
what it closes, but for the variable that was to be reset when SIGINT came: hence
`KnownSecondDeletions`. Beside running tasks (`Served`) there is no such variable.
A path fits these if the plan is in the right order: what stands before the creation that
failed is what the path deletes, and what the path deletes without looking stands before it
(`ClientPlanInOrder`, `ServerPlanInOrder`, used by `FailureStarts`). For the loops over
the departments this is arithmetic on positions (`DepartmentOf`, `OneBefore`); a path composed
of the Cleanup functions deletes and closes what they do (`Path`, `PathThenPath`).

**Kernel.** `KernelInv` has three parts.

* `SchedInv`, of the scheduler's lists and times. Each task is on exactly one of the
  ready, delayed, overflow and suspended lists, and only blocked tasks are on an event
  list. The two delayed lists are in the order of their times: those on the delayed list
  are still to come in this round of the tick count and none is before
  `xNextTaskUnblockTime`, those on the overflow list are less than a whole round away. So
  none is overlooked by the tick, which is what the assertion of
  `taskSWITCH_DELAYED_LISTS` needs.
* `TaskInv`, of each call. `BlockedInv` says which of its lines a blocked task is at and
  that it is on the event list of its own call only. `AgeInv` says that at least as many
  ticks have passed as the call has used up of its block time and as show in the tick
  count since: an inequality, because a difference of tick counts cannot show a whole
  round. A call may therefore wait too long, and never gives up too early. For
  `vTaskDelay` it is an equation (`DelayInv`): the ticks passed and those to come are the
  ticks asked for.
* `WakeupInv`: while a task sleeps on an event list there are at most as many messages
  (slots) as tasks awake whose next step is to look at the queue (`Trying`). That is more
  than `NoLostWakeup` says: a task that is about to block does not count. A task blocks
  only after a look with the scheduler suspended, and a tick that wakes a task by its time
  only adds to those who look.

A list is spoken of as a sequence without repetition of a set (`Lists`), or as one in the
order of its times (`Timed`); what `Keep`, `vListInsert` and the ring operations do is
stated in these terms, once, with no recursion. An action of the kernel is composed of few
changes, each with a lemma for the whole invariant: a call goes on (`CallGoesOn`),
succeeds and wakes a task (`CallSucceeds`), a task blocks (`CallBlocks`, `DelayBlocks`),
time passes (`TimePasses`), which also covers the tick made up for by `xTaskResumeAll`.
For the refinement a blocked or woken task is the same caller with the same ticks waited,
so the steps in between are stutters of `BlockingQueue`, or its `Tick` when one is made up
for, and an `Expire` that fails is `GiveUp` because of `AgeInv`.

### Only model-checked

Liveness (`HighPriorityIsServed`, `EveryEventLeaves`, `EveryEventComesToRest`,
`BoundedCallReturns`), which under fairness is beyond the prover, as is ENABLED; and
`WokenOnTime`. The latter says that a call does not sleep beyond its block time however
often it is woken for nothing. It rests on a bound on the time a woken task spends in the
ready ring before it computes what it has left, which is a matter of the round robin;
where that wait can last a whole range of the tick count it is false (see Bounds).

## 5. Not modelled

* **The rest of `core/`.** Of the 432 000 lines in the repository some 3 000 are this program and
  about 13 000 the kernel sources it links. The others are FreeRTOS demos, drivers and
  start-up code for microcontrollers, ports to other processors and compilers, lwIP, FatFs and
  trace libraries, none of which is compiled into the program. A model of them would say nothing
  of it, so the share of the repository that is modelled stays small.
* **Kernel.** Priorities and preemption by priority, mutexes and their inheritance (the
  program's mutexes are never held across a kernel call that blocks), notifications, timers, stream
  buffers, queue sets and the calls for interrupts: the program does not use them.
  The hand-over from thread to thread in the POSIX port (`prvSwitchThread`,
  `wait_for_event.c`) is one step. Event groups are used as a word of bits that is set, cleared
  and read, each in a critical section; nobody waits for a bit. The memory
  allocator is there only as creations that may fail.
* **Database and sockets.** SQLite and the socket layer are used by what a call promises:
  a statement is done or fails, a datagram arrives or is lost.
* **Counters of the PROFILE build.** Without optimisation an increment of a global counter
  is a load, an addition and a store, so that two vehicles may lose a count, and the signal
  handlers read the counters one after the other. The models take the increment of the
  default build, and the statistics as read together.
* `strings.c`, texts, timestamps and log lines: no decision depends on them.

## 6. What could come next

1. A bound on the ticks that a task waits in the ready ring of `Kernel`, in the number of tasks,
   from which `WokenOnTime` would follow for every tick range larger than that.
2. Counters as load, addition and store, and statistics read one by one beside the running tasks.
3. `Kernel` with a task waiting to send and one to receive on two queues, as the
   dispatcher and the fault manager do.
