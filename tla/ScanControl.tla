---------------------------- MODULE ScanControl ----------------------------
(* When a BeaconScanner scans (BeaconScanner.swift): startScanning and       *)
(* stopScanning called by the app, the queue the start is put on, and the    *)
(* Bluetooth radio, which the user turns on and off at any time.             *)
EXTENDS Integers, Sequences

CONSTANT MaxTasks    \* bound of the model: tasks waiting on the queue

ASSUME MaxTasksAssumption == MaxTasks \in Nat \ {0}

VARIABLES
    state,               \* centralManager.state
    tasks,               \* beacon_operations_queue: "start", "state"
    shouldBeScanning,
    scanning,            \* CoreBluetooth is scanning for this manager
    called,              \* the last call of the app: "none", "start", "stop"
    cut,                 \* the radio went off during a scan never resumed since
    ended                \* history: stopScanning has ended a scan that was
                         \* running, when no task was waiting

vars == <<state, tasks, shouldBeScanning, scanning, called, cut, ended>>

(* CoreBluetooth reports the state of the radio to a new manager.            *)
Init ==
    /\ state = "unknown"
    /\ tasks = <<>>
    /\ shouldBeScanning = FALSE
    /\ scanning = FALSE
    /\ called = "none"
    /\ cut = FALSE
    /\ ended = FALSE

(* External: the radio. A scan ends with the radio; the delegate is told of  *)
(* every change by a task on its queue.                                      *)
Radio(s) ==
    /\ state # s
    /\ Len(tasks) < MaxTasks
    /\ state' = s
    /\ tasks' = Append(tasks, "state")
    /\ scanning' = FALSE
    /\ cut' = (cut \/ scanning)
    /\ UNCHANGED <<shouldBeScanning, called, ended>>

(* startScanning, once in the life of a scanner (viewDidLoad).               *)
StartScanning ==
    /\ called = "none"
    /\ Len(tasks) < MaxTasks
    /\ called' = "start"
    /\ tasks' = Append(tasks, "start")
    /\ UNCHANGED <<state, shouldBeScanning, scanning, cut, ended>>

(* stopScanning, on the caller's thread: by goBack1 and on arrival.          *)
StopScanning ==
    /\ called # "none"
    /\ called' = "stop"
    /\ scanning' = FALSE
    /\ ended' = (ended \/ (scanning /\ tasks = <<>>))
    /\ UNCHANGED <<state, tasks, shouldBeScanning, cut>>

(* Mutant of startScanningSynchronized: without remembering the start.       *)
StartIfOn ==
    /\ IF state # "poweredOn" THEN UNCHANGED <<scanning, cut>>
       ELSE scanning' = TRUE /\ cut' = FALSE
    /\ UNCHANGED shouldBeScanning

startScanningSynchronized ==
    IF state # "poweredOn"
    THEN shouldBeScanning' = TRUE /\ UNCHANGED <<scanning, cut>>
    ELSE scanning' = TRUE /\ cut' = FALSE /\ UNCHANGED shouldBeScanning

(* The block that startScanning put on the queue.                            *)
StartTask ==
    /\ tasks # <<>> /\ Head(tasks) = "start"
    /\ tasks' = Tail(tasks)
    /\ startScanningSynchronized
    /\ UNCHANGED <<state, called, ended>>

(* Mutant of StateTask: nothing starts when the radio comes on.              *)
StateTaskIdle ==
    /\ tasks # <<>> /\ Head(tasks) = "state"
    /\ tasks' = Tail(tasks)
    /\ UNCHANGED <<state, called, shouldBeScanning, scanning, cut, ended>>

(* centralManagerDidUpdateState, which reads the state of the moment.        *)
StateTask ==
    /\ tasks # <<>> /\ Head(tasks) = "state"
    /\ tasks' = Tail(tasks)
    /\ IF state = "poweredOn" /\ shouldBeScanning
       THEN startScanningSynchronized
       ELSE UNCHANGED <<shouldBeScanning, scanning, cut>>
    /\ UNCHANGED <<state, called, ended>>

Next ==
    \/ \E s \in {"poweredOn", "poweredOff"} : Radio(s)
    \/ StartScanning \/ StopScanning
    \/ StartTask \/ StateTask

Spec == Init /\ [][Next]_vars

(* The queue runs its tasks; the app and the radio do as they like.          *)
FairSpec == Spec /\ WF_vars(StartTask \/ StateTask)

-----------------------------------------------------------------------------
Waiting(t) == \E i \in 1..Len(tasks) : tasks[i] = t

TypeOK ==
    /\ state \in {"unknown", "poweredOn", "poweredOff"}
    /\ tasks \in Seq({"start", "state"}) /\ Len(tasks) =< MaxTasks
    /\ shouldBeScanning \in BOOLEAN
    /\ scanning \in BOOLEAN
    /\ called \in {"none", "start", "stop"}
    /\ cut \in BOOLEAN
    /\ ended \in BOOLEAN

(* startScanning: "If Core Bluetooth isn't ready for us just yet, then waits *)
(* and THEN starts scanning". While the app wants the scan it runs, or a     *)
(* task that will start it is queued, or the radio is off and the start is   *)
(* remembered for its return. The one exception: a radio that was on when    *)
(* the scan began and has been off since; nothing remembers that start.      *)
StartIsNotForgotten ==
    called = "start" =>
        \/ scanning
        \/ Waiting("start")
        \/ shouldBeScanning /\ (state # "poweredOn" \/ Waiting("state"))
        \/ cut /\ ~shouldBeScanning

(* The same with respect to time: if the radio stays on in the end and the   *)
(* app does not stop the scan, it runs, unless it was cut (see above).       *)
StartLeadsToScan ==
    <>[](state = "poweredOn" /\ called = "start") => <>[](scanning \/ cut)

(* "Stops scanning for Eddystone beacons": a scan that was running when the  *)
(* app stopped it, with no start or callback left to be handled by then, does*)
(* not start again.                                                          *)
StopMeansStopped == [][ended => ~scanning']_vars
=============================================================================
