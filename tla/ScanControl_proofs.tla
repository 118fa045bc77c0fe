------------------------- MODULE ScanControl_proofs -------------------------
(* Proofs about ScanControl, for queues of any length.                       *)
EXTENDS ScanControl, TLAPS

(* What is waiting on the queue once a task is added, or the first one gone. *)
LEMMA WaitingAppend ==
    ASSUME NEW q \in Seq({"start", "state"}), NEW t \in {"start", "state"},
           NEW u \in {"start", "state"}
    PROVE  (\E i \in 1..Len(Append(q, t)) : Append(q, t)[i] = u)
             <=> (u = t \/ \E i \in 1..Len(q) : q[i] = u)
  <1>1. Len(Append(q, t)) = Len(q) + 1 /\ Append(q, t)[Len(q) + 1] = t
    OBVIOUS
  <1>2. \A i \in 1..Len(q) : Append(q, t)[i] = q[i]
    OBVIOUS
  <1> QED BY <1>1, <1>2

LEMMA WaitingTail ==
    ASSUME NEW q \in Seq({"start", "state"}), q # <<>>,
           NEW u \in {"start", "state"}, u # Head(q)
    PROVE  (\E i \in 1..Len(q) : q[i] = u)
             => (\E i \in 1..Len(Tail(q)) : Tail(q)[i] = u)
  <1> SUFFICES ASSUME NEW i \in 1..Len(q), q[i] = u
               PROVE  \E j \in 1..Len(Tail(q)) : Tail(q)[j] = u
    OBVIOUS
  <1>1. i # 1
    OBVIOUS
  <1>2. Len(Tail(q)) = Len(q) - 1 /\ i - 1 \in 1..Len(Tail(q))
    BY <1>1
  <1>3. Tail(q)[i - 1] = q[i]
    BY <1>1, <1>2
  <1> QED BY <1>2, <1>3

IInv == TypeOK /\ StartIsNotForgotten

LEMMA InitIInv == Init => IInv
  <1> SUFFICES ASSUME Init PROVE IInv
    OBVIOUS
  <1>1. tasks \in Seq({"start", "state"}) /\ Len(tasks) =< MaxTasks
    BY MaxTasksAssumption DEF Init
  <1> QED BY <1>1, Zenon DEF Init, IInv, TypeOK, StartIsNotForgotten

LEMMA StepIInv == IInv /\ [Next]_vars => IInv'
  <1> SUFFICES ASSUME IInv, [Next]_vars
               PROVE  IInv'
    OBVIOUS
  <1> USE DEF IInv
  <1>1. ASSUME NEW s \in {"poweredOn", "poweredOff"}, Radio(s)
        PROVE  IInv'
    <2>1. TypeOK'
      <3>1. tasks' \in Seq({"start", "state"}) /\ Len(tasks') =< MaxTasks
        BY <1>1, MaxTasksAssumption DEF TypeOK, Radio
      <3> QED BY <1>1, <3>1, Zenon DEF TypeOK, Radio
    <2>2. Waiting("state")' /\ (Waiting("start") => Waiting("start")')
      BY <1>1, WaitingAppend DEF TypeOK, Radio, Waiting
    <2>3. StartIsNotForgotten'
      BY <1>1, <2>2 DEF StartIsNotForgotten, Radio, TypeOK
    <2> QED BY <2>1, <2>3
  <1>2. ASSUME StartScanning
        PROVE  IInv'
    <2>1. TypeOK'
      BY <1>2, MaxTasksAssumption DEF TypeOK, StartScanning
    <2>2. Waiting("start")'
      BY <1>2, WaitingAppend DEF TypeOK, StartScanning, Waiting
    <2> QED BY <1>2, <2>1, <2>2 DEF StartIsNotForgotten, StartScanning
  <1>3. ASSUME StopScanning
        PROVE  IInv'
    BY <1>3 DEF TypeOK, StartIsNotForgotten, StopScanning
  <1>4. ASSUME StartTask
        PROVE  IInv'
    <2>1. TypeOK'
      <3>1. tasks' \in Seq({"start", "state"}) /\ Len(tasks') =< MaxTasks
        BY <1>4, MaxTasksAssumption DEF TypeOK, StartTask
      <3> QED BY <1>4, <3>1, Zenon DEF TypeOK, StartTask, startScanningSynchronized
    <2>2. StartIsNotForgotten'
      BY <1>4 DEF StartIsNotForgotten, StartTask, startScanningSynchronized, TypeOK
    <2> QED BY <2>1, <2>2
  <1>5. ASSUME StateTask
        PROVE  IInv'
    <2>1. TypeOK'
      <3>1. tasks' \in Seq({"start", "state"}) /\ Len(tasks') =< MaxTasks
        BY <1>5, MaxTasksAssumption DEF TypeOK, StateTask
      <3> QED BY <1>5, <3>1, Zenon DEF TypeOK, StateTask, startScanningSynchronized
    <2>2. Waiting("start") => Waiting("start")'
      BY <1>5, WaitingTail DEF TypeOK, StateTask, Waiting
    <2>3. StartIsNotForgotten'
      BY <1>5, <2>2 DEF StartIsNotForgotten, StateTask, startScanningSynchronized, TypeOK
    <2> QED BY <2>1, <2>3
  <1>6. ASSUME UNCHANGED vars
        PROVE  IInv'
    BY <1>6 DEF vars, TypeOK, StartIsNotForgotten, Waiting
  <1> QED BY <1>1, <1>2, <1>3, <1>4, <1>5, <1>6 DEF Next

(* A start asked for is never forgotten, whatever the radio does while tasks *)
(* are queued: startScanning and centralManagerDidUpdateState of             *)
(* BeaconScanner.swift.                                                      *)
THEOREM StartRemembered == Spec => [](TypeOK /\ StartIsNotForgotten)
  <1>1. IInv => TypeOK /\ StartIsNotForgotten
    BY DEF IInv
  <1> QED BY InitIInv, StepIInv, <1>1, PTL DEF Spec

-----------------------------------------------------------------------------
(* What StartLeadsToScan needs besides fairness. While the app wants the     *)
(* scan and the radio stays on, a task that will start the scan is among the *)
(* first k of the queue, and k falls with every task that runs.              *)
Wanted == state = "poweredOn" /\ called = "start"
Wakes(t) == t = "start" \/ (t = "state" /\ shouldBeScanning)
WakesWithin(k) == \E i \in 1..Len(tasks) : i =< k /\ Wakes(tasks[i])

StartIsUnderWay ==
    Wanted => scanning \/ cut \/ (WakesWithin(MaxTasks) /\ Head(tasks) \in {"start", "state"})

RunATask == StartTask \/ StateTask
Advances ==
    Wanted /\ Wanted' =>
        /\ scanning \/ cut => scanning' \/ cut'
        /\ \A k \in Nat : WakesWithin(k) =>
              scanning' \/ (IF RunATask THEN WakesWithin(k - 1)' ELSE WakesWithin(k)')

(* Only a call of the app or the radio ends the wish for a scan, so a step   *)
(* that leaves it standing runs a task or changes nothing.                   *)
LEMMA WantedSteps ==
    ASSUME TypeOK, [Next]_vars, Wanted, Wanted'
    PROVE  RunATask \/ UNCHANGED vars
  <1>1. \A s \in {"poweredOn", "poweredOff"} : ~Radio(s)
    BY DEF Wanted, Radio
  <1>2. ~StartScanning /\ ~StopScanning
    BY DEF Wanted, StartScanning, StopScanning
  <1> QED BY <1>1, <1>2 DEF Next, RunATask

(* A task that runs starts the scan, or leaves the ones behind it a place    *)
(* further ahead.                                                            *)
LEMMA TaskAdvances ==
    ASSUME TypeOK, RunATask, Wanted, NEW k \in Nat, WakesWithin(k)
    PROVE  scanning' \/ WakesWithin(k - 1)'
  <1>1. CASE Wakes(Head(tasks))
    BY <1>1, Zenon DEF RunATask, StartTask, StateTask, startScanningSynchronized, Wanted, Wakes
  <1>2. CASE ~Wakes(Head(tasks))
    <2>1. PICK i \in 1..Len(tasks) : i =< k /\ Wakes(tasks[i])
      BY DEF WakesWithin
    <2>2. tasks \in Seq({"start", "state"}) /\ tasks # <<>>
      BY DEF TypeOK, RunATask, StartTask, StateTask
    <2>3. i # 1
      BY <1>2, <2>1, <2>2
    <2>4. tasks' = Tail(tasks) /\ shouldBeScanning' = shouldBeScanning
      BY <1>2, Zenon DEF RunATask, StartTask, StateTask, startScanningSynchronized,
                         Wanted, Wakes
    <2>5. i - 1 \in 1..Len(tasks') /\ tasks'[i - 1] = tasks[i] /\ i - 1 =< k - 1
      BY <2>1, <2>2, <2>3, <2>4
    <2> QED BY <2>4, <2>5, <2>1 DEF WakesWithin, Wakes
  <1> QED BY <1>1, <1>2

LEMMA StepAdvances == TypeOK /\ [Next]_vars => Advances
  <1> SUFFICES ASSUME TypeOK, [Next]_vars, Wanted, Wanted'
               PROVE  /\ scanning \/ cut => scanning' \/ cut'
                      /\ \A k \in Nat : WakesWithin(k) =>
                            scanning' \/ (IF RunATask THEN WakesWithin(k - 1)'
                                          ELSE WakesWithin(k)')
    BY DEF Advances
  <1>1. RunATask \/ UNCHANGED vars
    BY WantedSteps
  <1>2. scanning \/ cut => scanning' \/ cut'
    BY <1>1, Zenon DEF RunATask, StartTask, StateTask, startScanningSynchronized, vars
  <1>3. ASSUME NEW k \in Nat, WakesWithin(k), RunATask
        PROVE  scanning' \/ WakesWithin(k - 1)'
    BY <1>3, TaskAdvances
  <1>4. ASSUME NEW k \in Nat, WakesWithin(k), ~RunATask
        PROVE  WakesWithin(k)'
    BY <1>1, <1>4 DEF vars, WakesWithin, Wakes
  <1> QED BY <1>2, <1>3, <1>4

(* StartIsNotForgotten names a task that waits, and none waits further back  *)
(* than the queue is long.                                                   *)
LEMMA StartUnderWay == IInv => StartIsUnderWay
  <1> SUFFICES ASSUME IInv, Wanted, ~scanning, ~cut
               PROVE  WakesWithin(MaxTasks) /\ Head(tasks) \in {"start", "state"}
    BY DEF StartIsUnderWay
  <1>1. tasks \in Seq({"start", "state"}) /\ Len(tasks) =< MaxTasks
    BY DEF IInv, TypeOK
  <1>2. Waiting("start") \/ (shouldBeScanning /\ Waiting("state"))
    BY DEF IInv, StartIsNotForgotten, Wanted
  <1>3. PICK i \in 1..Len(tasks) : Wakes(tasks[i])
    BY <1>2 DEF Waiting, Wakes
  <1>4. i =< MaxTasks
    BY <1>1, MaxTasksAssumption
  <1>5. Head(tasks) \in {"start", "state"}
    BY <1>1, <1>3
  <1> QED BY <1>3, <1>4, <1>5 DEF WakesWithin

(* A start comes closer with every task: while the radio stays on and the    *)
(* app does not stop it, what was asked for has happened or a task that      *)
(* startScanning or centralManagerDidUpdateState left on the queue will do   *)
(* it, at most MaxTasks tasks from now; nothing puts it off or undoes it.    *)
THEOREM StartComesCloser == Spec => []StartIsUnderWay /\ [][Advances]_vars
  <1>1. IInv => TypeOK
    BY DEF IInv
  <1>2. IInv /\ [Next]_vars => [Advances]_vars
    BY <1>1, StepAdvances
  <1> QED BY InitIInv, StepIInv, StartUnderWay, <1>2, PTL DEF Spec
=============================================================================
