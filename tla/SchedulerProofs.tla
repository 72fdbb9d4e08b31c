-------------------------- MODULE SchedulerProofs --------------------------
(***************************************************************************)
(* For any number of CPUs, any set of tasks and whatever they call: module *)
(* Scheduler implements module RunQueues, so what RunQueuesProofs shows of *)
(* the critical sections holds of the running system.                      *)
(*                                                                         *)
(* And which task a CPU executes: as long as no CPU takes tasks out of the *)
(* queue of another - on one CPU always, on several while nothing is       *)
(* killed and no queue is long enough to be stolen from - every CPU        *)
(* executes the task its scheduler calls current, on that task's own live  *)
(* stack, and no sleep ends early.                                         *)
(***************************************************************************)
EXTENDS ControlProofs

\* The steps that scan a queue take the first slot they find.
LOCAL W == INSTANCE WellFoundedInduction

\* The numbers in their order.
Below == {p \in Nat \X Nat : p[1] < p[2]}

\* Min of a non-empty set of numbers is its least element: the first match of a
\* scan over a vector.
LEMMA MinFacts ==
    ASSUME NEW S, S \subseteq Nat, S # {}
    PROVE  Min(S) \in S /\ \A y \in S : Min(S) <= y
  <1>1. W!IsWellFoundedOn(Below, Nat)
    BY W!NatLessThanWellFounded, ZenonT(30) DEF W!NatLessThanWellFounded, W!OpToRel, Below
  <1>2. PICK x \in S : \A y \in S : ~ (<<y, x>> \in Below)
    BY <1>1, W!WFMin, ZenonT(30) DEF W!WFMin
  <1>3. \A y \in S : x <= y
    <2>1. SUFFICES ASSUME NEW y \in S PROVE x <= y
      OBVIOUS
    <2>2. x \in Nat /\ y \in Nat
      BY <2>1
    <2>3. y < x => <<y, x>> \in Below
      BY <2>2 DEF Below
    <2>4. QED
      BY <1>2, <2>1, <2>2, <2>3, SMTT(30)
  <1>4. QED
    BY <1>3, Zenon DEF Min

\* What pick_next chooses, if it is neither None nor the current task, is a Ready task
\* of the queue.
LEMMA PickFacts ==
    ASSUME RQ!IInv, NEW k \in Cpu, PickNext(k) \notin {0, current[k]}
    PROVE  PickNext(k) \in Slots(k) \ {current[k]} /\ state[tasks[k][PickNext(k)]] = "Ready"
  <1> DEFINE n == Len(tasks[k])
             Nth(i) == ((current[k] - 1 + i) % n) + 1
             ready == {i \in 1 .. n : state[tasks[k][Nth(i)]] = "Ready"}
  <1>1. n \in Nat /\ current[k] \in Nat /\ Slots(k) = 1 .. n /\ current[k] \in 1 .. n
    BY QFacts, ZenonT(30)
  <1>2. ready # {} /\ PickNext(k) = Nth(Min(ready))
    BY ZenonT(30) DEF PickNext
  <1>3. \A i \in 1 .. n : Nth(i) \in 1 .. n
    <2>1. SUFFICES ASSUME NEW i \in 1 .. n PROVE Nth(i) \in 1 .. n
      OBVIOUS
    <2>2. n > 0 /\ current[k] > 0 /\ i \in Nat
      BY <1>1
    <2> HIDE DEF n
    <2>3. QED
      BY <1>1, <2>2, NthInRange, SMTT(30)
  <1>4. Min(ready) \in ready
    <2>1. ready \subseteq Nat
      OBVIOUS
    <2> HIDE DEF ready
    <2>2. QED
      BY <1>2, <2>1, MinFacts, ZenonT(30)
  <1>5. Min(ready) \in 1 .. n /\ state[tasks[k][Nth(Min(ready))]] = "Ready"
    BY <1>4, Zenon
  <1> HIDE DEF ready, Nth
  <1>6. QED
    BY <1>1, <1>2, <1>3, <1>5, ZenonT(30)

\* The election of another task of the CPU's own queue: its stack pointer is the one it
\* saved, for no CPU executes it.
LEMMA ElectGoes ==
    ASSUME NEW c, Going(c), NEW f, Elects(c, exec[c], f, c), mode[c] # "switch",
           Settled(c, f, "switch"), InSleep(f) => InSleep(frame[exec[c]])
    PROVE  J' /\ Honoured
  <1> DEFINE t == exec[c]
  <1>1. /\ t \in Task /\ c \in Cpu /\ (InSleep(frame[t]) => Rested(t))
        /\ \A d \in Cpu : Queued(exec[d], d) /\ exec[d] \in Task
    BY AtWork, Zenon DEF Going
  <1>2. PICK nx \in Slots(c) \ {current[c]} :
          /\ state[tasks[c][nx]] = "Ready" /\ tasks[c][nx] \in Task
          /\ pend' = [pend EXCEPT ![c] = [cpu |-> c, cap |-> cap[c], idx |-> current[c],
                                          new |-> rsp[tasks[c][nx]]]]
          /\ state' = [state EXCEPT ![Cur(c)] = IF @ = "Running" THEN "Ready" ELSE @,
                                    ![tasks[c][nx]] = "Running"]
          /\ current' = [current EXCEPT ![c] = nx]
    <2>1. /\ PickNext(c) \in Slots(c) \ {current[c]} /\ state[tasks[c][PickNext(c)]] = "Ready"
          /\ tasks[c][PickNext(c)] \in Task
      BY <1>1, PickFacts, QFacts, ZenonT(30) DEF Going, IInv, Elects
    <2>2. QED
      BY <2>1, Zenon DEF Elects, Elect, Elected
  <1>3. mode' = [mode EXCEPT ![c] = "switch"] /\ UNCHANGED <<tasks, cap, left, rsp, exec, arg>>
    BY Zenon DEF Elects, Elect, Elected, Enter
  <1>4. /\ current[c] \in Slots(c) /\ Cur(c) = t /\ tasks[c][current[c]] = t
        /\ current \in [Cpu -> Nat \ {0}] /\ DOMAIN state = Task
    BY <1>1, QFacts, ZenonT(30) DEF Going, IInv, J, OnCur, Cur
  <1>5. \A d \in Cpu : exec[d] # tasks[c][nx]
    <2>1. SUFFICES ASSUME NEW d \in Cpu, exec[d] = tasks[c][nx] PROVE FALSE
      BY Zenon
    <2>2. d = c
      BY <1>1, <1>2, <2>1, OneCur, ZenonT(30) DEF Going, IInv
    <2>3. Queued(tasks[c][nx], c)
      BY <1>2, Zenon DEF Queued
    <2>4. current[c] = nx
      BY <1>1, <1>2, <1>4, <2>1, <2>2, <2>3, OneCur, ZenonT(30) DEF Going, IInv
    <2>5. QED
      BY <1>2, <2>4, Zenon
  <1>6. rsp[tasks[c][nx]] = tasks[c][nx]
    BY <1>2, <1>5, Zenon DEF Going, J, Saved
  <1>7. mode'[c] = "switch" /\ \A d \in Cpu \ {c} : mode'[d] = mode[d]
    BY <1>1, <1>3, ZenonT(30) DEF Going, IInv, Ctl, Types
  <1>8. OnCur'
    <2>1. Switching(c)'
      <3>1. /\ pend'[c].cpu = c /\ pend'[c].cap = cap[c] /\ pend'[c].idx = current[c]
            /\ pend'[c].new = rsp[tasks[c][nx]]
        BY <1>1, <1>2, ZenonT(30) DEF Going, IInv, Ctl, Types
      <3>2. Cur(c)' = tasks[c][nx]
        BY <1>1, <1>2, <1>3, <1>4, ZenonT(30) DEF Cur
      <3>3. QED
        BY <1>3, <1>4, <1>6, <3>1, <3>2, ZenonT(30) DEF Switching, Slots
    <2>2. ASSUME NEW d \in Cpu \ {c}
          PROVE  IF mode'[d] = "switch" THEN Switching(d)' ELSE exec'[d] = Cur(d)'
      <3>1. Cur(d)' = Cur(d) /\ pend'[d] = pend[d]
        BY <1>2, <1>3, <1>4, ZenonT(30) DEF Cur, Going, IInv, Ctl, Types
      <3>2. QED
        BY <1>3, <1>7, <3>1, ZenonT(30) DEF Going, J, OnCur, Switching, Slots
    <2>3. QED
      BY <1>7, <2>1, <2>2, ZenonT(30) DEF OnCur
  <1>9. Saved'
    BY <1>3, Zenon DEF Going, J, Saved, Ages
  <1>10. Rests
    <2>1. \A s \in Task : state'[s] = state[s] \/ state[s] \in {"Ready", "Running"}
      BY <1>1, <1>2, <1>4, ZenonT(30)
    <2>2. QED
      BY <1>3, <2>1, RestsStill, ZenonT(30) DEF Going
  <1>11. Tidy(c)
    <2>1. frame'[t] = f /\ \A s \in Task \ {t} : frame'[s] = frame[s]
      BY <1>1, ZenonT(30) DEF Elects, Going, IInv, Ctl, Types
    <2>2. \A s \in Task \ {t} : Same(frame'[s], frame[s]) /\ frame'[s].wait \in Nat
      BY <2>1, Zenon DEF Same, Going, J, Slept
    <2>3. \A s \in Task : state'[s] = "Unborn" \/ s \in Flight' => state[s] = "Unborn" \/ s \in Flight
      BY <1>3, ZenonT(30) DEF Going, Ages
    <2>4. \A d \in Cpu, s \in Task : Queued(s, d)' => Queued(s, d)
      BY <1>3, ZenonT(30) DEF Queued, Slots
    <2>5. InSleep(f) => Rested(t)'
      BY <1>1, <1>3, <1>10, ZenonT(30) DEF Rests
    <2>6. f.at = frame[t].at
      BY Zenon DEF Elects
    <2>7. QED
      BY <1>3, <1>7, <1>10, <2>1, <2>2, <2>3, <2>4, <2>5, <2>6, ZenonT(30) DEF Tidy, Rests, Reaping
  <1>12. Caps'
    BY <1>3, Zenon DEF Going, J, Caps
  <1>13. QED
    BY <1>1, <1>8, <1>9, <1>11, <1>12, TidyKeeps, ZenonT(30) DEF Going, J

\* The last critical section of yield_now.
LEMMA YieldSelectGoes ==
    ASSUME NEW c, Going(c), YieldSelect(c)
    PROVE  J' /\ Honoured
  <1> DEFINE t == exec[c]
             f == [frame[t] EXCEPT !.ycpu = 0, !.ret = "run"]
  <1>1. mode[c] = "select" /\ frame' = [frame EXCEPT ![t] = f]
    BY Zenon DEF YieldSelect
  <1>2. /\ t \in Task /\ FrameOK(t, frame[t]) /\ c \in Cpu /\ Settled(c, frame[t], "task")
        /\ InSleep(frame[t]) => Rested(t)
    BY AtWork, ZenonT(30) DEF Going, Settled
  <1>3. /\ frame[t].ycpu = c /\ frame[t].at \in Back
        /\ frame[t].hand # NoTask <=> frame[t].at \in CarryPoints
    <2>1. frame[t].ycpu = c /\ frame[t].at \in Back
      BY <1>1, <1>2, ZenonT(30) DEF Going, J, AtHome, IInv, Ctl, Modes
    <2>2. QED
      BY <1>1, <1>2, <2>1, InHandler, ZenonT(30) DEF Going, IInv
  <1>4. FrameOK(t, f) /\ f.hand = frame[t].hand /\ f.at = frame[t].at
        /\ f.scpu = frame[t].scpu /\ f.wait = frame[t].wait
    BY <1>2, FieldsAre, ZeroCpu, SMTT(30) DEF FrameOK, Back
  <1> HIDE DEF f
  <1>5. InSleep(f) => InSleep(frame[t])
    BY <1>3, <1>4, ZenonT(30) DEF InSleep, Back
  <1>6. Settled(c, f, "task") /\ Settled(c, f, "switch")
    BY <1>2, <1>3, <1>4, <1>5, ZenonT(30) DEF Settled, HomeOK, Back
  <1>7. CASE Len(tasks[c]) < 2 \/ PickNext(c) \in {0, current[c]}
    <2>1. /\ mode' = [mode EXCEPT ![c] = "task"]
          /\ UNCHANGED <<tasks, current, cap, state, rsp, exec, arg, pend, left>>
      BY <1>3, <1>7 DEF YieldSelect, Enter, queues
    <2>2. Rests
      BY <2>1, RestsStill DEF Going
    <2>3. InSleep(f) => Rested(t)'
      BY <1>2, <1>5, <2>1, <2>2, ZenonT(30) DEF Rests
    <2>4. Goes(c, f, "task")
      BY <1>1, <1>4, <1>6, <2>1, <2>2, <2>3, ZenonT(30) DEF Goes, Rests, Reaping
    <2>5. QED
      BY <1>2, <2>4, GoesKeeps, ZenonT(30) DEF Going
  <1>8. CASE ~(Len(tasks[c]) < 2 \/ PickNext(c) \in {0, current[c]})
    <2>1. Elect(c, c, PickNext(c)) /\ ~Locked(c)
      BY <1>3, <1>8, SMTT(30) DEF YieldSelect
    <2>2. Elects(c, t, f, c)
      BY <1>1, <1>2, <1>3, <1>4, <1>8, <2>1, ZenonT(30) DEF Elects, Reaping
    <2>3. QED
      BY <1>1, <1>5, <1>6, <2>2, ElectGoes, ZenonT(30)
  <1>9. QED
    BY <1>7, <1>8

\* The end of a timer handler.
LEMMA PreemptGoes ==
    ASSUME NEW c, Going(c), Preempt(c)
    PROVE  J' /\ Honoured
  <1> DEFINE t == exec[c]
             b == ~(Len(tasks[c]) >= 2 /\ quantum[Cur(c)] = 0) \/ PickNext(c) \in {0, current[c]}
  <1>1. mode[c] = "preempt" /\ ~Locked(c) /\ frame' = frame
    BY Zenon DEF Preempt
  <1>2. /\ t \in Task /\ FrameOK(t, frame[t]) /\ c \in Cpu
        /\ Settled(c, frame[t], "task") /\ Settled(c, frame[t], "switch")
        /\ InSleep(frame[t]) => Rested(t)
    BY AtWork, ZenonT(30) DEF Going, Settled
  <1>3. frame[t].hand # NoTask <=> frame[t].at \in CarryPoints
    BY <1>1, <1>2, InHandler, ZenonT(30) DEF Going, IInv
  <1>4. CASE b
    <2>1. /\ mode' = [mode EXCEPT ![c] = "task"]
          /\ UNCHANGED <<tasks, current, cap, state, rsp, exec, arg, pend, left>>
      BY <1>4, ZenonT(30) DEF Preempt, Enter, queues
    <2>2. Rests
      BY <2>1, RestsStill DEF Going
    <2>3. InSleep(frame[t]) => Rested(t)'
      BY <1>2, <2>1, <2>2, ZenonT(30) DEF Rests
    <2>4. Goes(c, frame[t], "task")
      BY <1>1, <1>2, <2>1, <2>2, <2>3, ZenonT(30) DEF Goes, Rests, Reaping
    <2>5. QED
      BY <1>2, <2>4, GoesKeeps, ZenonT(30) DEF Going
  <1>5. CASE ~b
    <2>1. Elect(c, c, PickNext(c))
      BY <1>5, ZenonT(30) DEF Preempt
    <2>2. Elects(c, t, frame[t], c)
      BY <1>1, <1>2, <1>3, <1>5, <2>1, ZenonT(30) DEF Elects, Reaping
    <2>3. QED
      BY <1>1, <1>2, <2>2, ElectGoes, ZenonT(30)
  <1>6. QED
    BY <1>4, <1>5

-----------------------------------------------------------------------------
\* The reaping loop: one dead task, or the end.
LEMMA ReapStepStep ==
    ASSUME IInv, NEW c \in Cpu, ReapStep(c)
    PROVE  Ctl' /\ QStep
  <1> DEFINE k == arg[c]
  <1>1. /\ mode[c] \in Reaping /\ frame' = frame /\ UNCHANGED <<exec, pend, rsp>>
    BY ZenonT(30) DEF ReapStep, Reaping
  <1>2. /\ exec[c] \in Task /\ FrameOK(exec[c], frame[exec[c]])
        /\ frame[exec[c]].hand # NoTask <=> frame[exec[c]].at \in CarryPoints
    BY <1>1, InHandler, ZenonT(30) DEF IInv, Reaping
  <1>3. k \in Cpu /\ Locked(k)
    BY <1>1, ZenonT(30) DEF IInv, Ctl, Modes, Locked, Reaping
  <1>4. k \in 0 .. N /\ 0 \in 0 .. N
    BY <1>3, RunQueuesAssumption, SMTT(30) DEF Cpu
  <1>5. \A d \in Cpu \ {c} : mode[d] \in Reaping => arg[d] # k
    BY <1>1, ZenonT(30) DEF IInv, Ctl, Modes
  <1>6. CASE Corpses(k) # {}
    <2> DEFINE i == Min(Corpses(k))
    <2>1. /\ Remove(k, i) /\ state' = [state EXCEPT ![tasks[k][i]] = "Reaped"]
          /\ UNCHANGED <<mode, arg>>
      BY <1>6, Zenon DEF ReapStep
    <2>2. i \in Corpses(k)
      <3>1. Corpses(k) \subseteq Nat
        BY <1>3, QFacts, SMTT(30) DEF Corpses, IInv
      <3>2. QED
        BY <1>6, <3>1, MinFacts, Zenon
    <2> HIDE DEF i
    <2>3. mode' = [mode EXCEPT ![c] = mode[c]] /\ arg' = [arg EXCEPT ![c] = k] /\ mode[c] \in Mode
      BY <2>1, Zenon DEF IInv, Ctl, Types
    <2>4. mode[c] \notin {"steal", "insert", "select", "switch"}
      BY <1>1, Zenon DEF Reaping
    <2> HIDE DEF k
    <2>5. Ctl' /\ Flight' = Flight /\ Locks' = Locks
      <3>1. Ctl' /\ Flight' = Flight /\ Own(c, exec[c]) /\ mode'[c] = mode[c] /\ arg'[c] = k
        <4>1. Reaper(c, exec[c], frame[exec[c]], mode[c], k)
          BY <1>1, <1>2, <1>3, <1>4, <1>5, <2>3, <2>4, ZenonT(30) DEF Reaper
        <4>2. QED
          BY <1>2, <4>1, ReaperKeeps, ZenonT(30) DEF IInv
      <3>2. QED
        BY <1>1, <1>2, <3>1, LocksStep, ZenonT(30) DEF IInv, k
    <2>6. i \in Slots(k) \ {current[k]} /\ state[tasks[k][i]] = "Dead"
      BY <2>2, Zenon DEF Corpses
    <2>7. RQ!ReapOne(k, i)
      BY <1>3, <2>1, <2>5, <2>6, RemoveIs, ZenonT(30) DEF RQ!ReapOne, Locks, RQ!Slots, Slots
    <2>8. QED
      BY <1>3, <2>5, <2>6, <2>7, QActions, ZenonT(30) DEF QStep
  <1>7. CASE Corpses(k) = {}
    <2> DEFINE m == IF mode[c] = "reap" THEN "preempt" ELSE "task"
    <2>1. /\ mode' = [mode EXCEPT ![c] = m] /\ arg' = [arg EXCEPT ![c] = 0]
          /\ UNCHANGED <<tasks, current, state>>
      BY <1>7, ZenonT(30) DEF ReapStep, Enter
    <2>2. m \in Mode /\ m \notin Reaping /\ m \notin {"steal", "insert", "select", "switch"}
      BY DEF Mode, Reaping
    <2> HIDE DEF m
    <2>3. Ctl' /\ Flight' = Flight /\ Locks' = [Locks EXCEPT ![arg[c]] = FALSE]
      <3>1. Ctl' /\ Flight' = Flight /\ Own(c, exec[c]) /\ mode'[c] = m
        <4>1. Reaper(c, exec[c], frame[exec[c]], m, 0)
          BY <1>1, <1>2, <1>4, <2>1, <2>2, ZenonT(30) DEF Reaper
        <4>2. QED
          BY <1>2, <4>1, ReaperKeeps, ZenonT(30) DEF IInv
      <3>2. QED
        BY <1>1, <1>2, <2>2, <3>1, LocksStep, ZenonT(30) DEF IInv
    <2>4. RQ!ReapUnlock(k)
      BY <1>3, <2>1, <2>3, ZenonT(30) DEF RQ!ReapUnlock, Locks
    <2>5. QED
      BY <1>3, <2>3, <2>4, QActions, ZenonT(30) DEF QStep
  <1>8. QED
    BY <1>6, <1>7, ZenonT(30)

\* try_steal_task takes a task out of the victim's queue, or goes on to the next victim.
LEMMA StealStep ==
    ASSUME IInv, NEW c \in Cpu, Steal(c)
    PROVE  Ctl' /\ QStep
  <1> DEFINE t == exec[c]
             v == (frame[t].ycpu + frame[t].off) % N
  <1>1. /\ mode[c] = "steal" \/ At(c, "i_steal")
        /\ ~Locked(v) /\ UNCHANGED <<state, rsp, exec, arg, pend>>
    BY ZenonT(30) DEF Steal, Stealing
  <1>2. /\ t \in Task /\ FrameOK(t, frame[t]) /\ frame[t].hand = NoTask
        /\ mode[c] = "steal" => frame[t].at \in Back
        /\ mode[c] # "steal" => mode[c] = "task" /\ frame[t].at = "i_steal"
    BY <1>1, InSteal, SMTT(30) DEF IInv, At, Back
  <1>3. v \in Cpu
    BY <1>2, VictimIsCpu, ZenonT(30) DEF FrameOK
  <1>4. CASE Len(tasks[v]) > 2 /\ Loot(v) # {}
    <2> DEFINE i == Min(Loot(v))
               l == IF mode[c] = "steal" THEN frame[t].at ELSE "i_insert"
               m == IF mode[c] = "steal" THEN "insert" ELSE "task"
               f == [frame[t] EXCEPT !.hand = tasks[v][i], !.off = 0, !.at = l]
    <2>1. Remove(v, i) /\ mode' = [mode EXCEPT ![c] = m]
      BY <1>4, ZenonT(30) DEF Steal, Enter
    <2>2. frame' = [frame EXCEPT ![t] = f]
      BY <1>2, <1>4, FieldsAre, ZenonT(30) DEF Steal, FrameOK
    <2> HIDE DEF v
    <2>3. i \in Loot(v)
      <3>1. Slots(v) = 1 .. Len(tasks[v])
        BY <1>3, QFacts, SMTT(30) DEF IInv
      <3>2. Loot(v) \subseteq Nat
        BY <3>1, SMTT(30) DEF Loot
      <3>3. QED
        BY <1>4, <3>2, MinFacts, SMTT(30)
    <2> HIDE DEF i
    <2>4. /\ i \in Slots(v) \ {1, current[v]} /\ state[tasks[v][i]] = "Ready"
          /\ tasks[v][i] \notin User
      BY <2>3, ZenonT(30) DEF Loot
    <2>5. tasks[v][i] \in Task /\ tasks[v][i] \notin Flight /\ tasks[v][i] # NoTask
      <3>1. tasks[v][i] \in Task /\ Queued(tasks[v][i], v)
        BY <1>3, <2>4, QFacts, ZenonT(30) DEF Queued, IInv
      <3>2. QED
        BY <1>3, <3>1, QFacts, SchedulerAssumption, ZenonT(30) DEF IInv
    <2>6. /\ m \in Mode \ Reaping /\ m # "switch" /\ mode[c] \notin Reaping
          /\ m \in {"steal", "insert", "select"} => mode[c] = "steal" /\ m = "insert"
          /\ m # "insert" => l = "i_insert"
          /\ mode[c] = "steal" => m = "insert"
      BY <1>2 DEF Mode, Reaping
    <2>7. /\ l \in Points /\ l \notin ShellPoints /\ (l \in IdlePoints => N > 1)
          /\ mode[c] = "steal" => l \in Back
          /\ mode[c] # "steal" => l = "i_insert"
      BY <1>2, ZenonT(30) DEF FrameOK, Points, ShellPoints, IdlePoints, Back
    <2> HIDE DEF m, l
    <2>8. FrameOK(t, f) /\ f.hand = tasks[v][i] /\ f.at = l
      BY <1>2, <2>5, <2>7, FieldsAre, ZeroCpu, SMTT(30) DEF FrameOK
    <2> HIDE DEF f
    <2>9. Handles(c, t, f, m)
      BY <1>1, <1>2, <2>1, <2>2, <2>5, <2>6, <2>7, <2>8, ZenonT(30) DEF Handles, CarryPoints
    <2> HIDE DEF t
    <2>10. Ctl' /\ Locks' = Locks /\ Flight' = Flight \cup {tasks[v][i]}
      BY <1>2, <2>5, <2>8, <2>9, HandlesKeeps, ZenonT(30) DEF IInv
    <2>11. RQ!Steal(v, i)
      BY <1>1, <1>3, <2>1, <2>4, <2>10, RemoveIs, ZenonT(30) DEF RQ!Steal, Locks, RQ!Slots, Slots
    <2>12. QED
      BY <1>3, <2>4, <2>10, <2>11, QActions, ZenonT(30) DEF QStep
  <1>5. CASE ~(Len(tasks[v]) > 2 /\ Loot(v) # {})
    <2> DEFINE o == frame[t].off + 1
               y == IF mode[c] = "steal" THEN frame[t].ycpu ELSE 0
               l == IF mode[c] = "steal" THEN frame[t].at ELSE "i_hlt"
               m == IF mode[c] = "steal" THEN "select" ELSE "task"
    <2>1. UNCHANGED <<tasks, current>>
      BY <1>5, Zenon DEF Steal
    <2>2. CASE o < N
      <3> DEFINE f == [frame[t] EXCEPT !.off = o]
      <3>1. frame' = [frame EXCEPT ![t] = f] /\ mode' = mode
        BY <1>5, <2>2, ZenonT(30) DEF Steal
      <3>2. o \in Cpu
        BY <1>2, <2>2, RunQueuesAssumption, SMTT(30) DEF FrameOK, Cpu
      <3>3. FrameOK(t, f) /\ f.hand = frame[t].hand /\ f.at = frame[t].at
        BY <1>2, <3>2, FieldsAre, Zenon DEF FrameOK
      <3> HIDE DEF f
      <3>4. Handles(c, t, f, mode[c])
        BY <1>1, <1>2, <3>1, <3>3, Zenon DEF Handles, CarryPoints, Mode, Reaping, Back
      <3> HIDE DEF t
      <3>5. Ctl' /\ Locks' = Locks /\ Flight' = Flight
        BY <1>2, <3>3, <3>4, HandlesKeeps, ZenonT(30) DEF IInv
      <3>6. QED
        BY <1>1, <2>1, <3>5, ZenonT(30) DEF QStep, Still
    <2>3. CASE ~(o < N)
      <3> DEFINE f == [frame[t] EXCEPT !.off = 0, !.ycpu = y, !.at = l]
      <3>1. frame' = [frame EXCEPT ![t] = f] /\ mode' = [mode EXCEPT ![c] = m]
        <4>1. mode' = [mode EXCEPT ![c] = m]
          BY <1>5, <2>3, ZenonT(30) DEF Steal, Enter
        <4>2. frame' = [frame EXCEPT ![t] = f]
          BY <1>2, <1>5, <2>3, FieldsAre, ZenonT(30) DEF Steal, FrameOK
        <4>3. QED
          BY <4>1, <4>2, SMTT(30)
      <3>2. /\ l \in Points /\ l \notin ShellPoints /\ (l \in IdlePoints => N > 1)
            /\ l \notin CarryPoints
            /\ mode[c] = "steal" => l \in Back
        BY <1>2, ZenonT(30) DEF FrameOK, Points, ShellPoints, IdlePoints, Back, CarryPoints
      <3>3. /\ m \in Mode \ Reaping /\ mode[c] \notin Reaping /\ m \notin {"insert", "switch"}
            /\ m \in {"steal", "insert", "select"} => mode[c] = "steal"
        BY <1>2, ZenonT(30) DEF Mode, Reaping
      <3>4. y \in Cpu
        BY <1>2, ZeroCpu, ZenonT(30) DEF FrameOK
      <3> HIDE DEF m, l, y
      <3>5. FrameOK(t, f) /\ f.hand = frame[t].hand /\ f.at = l
        BY <1>2, <3>2, <3>4, FieldsAre, ZeroCpu, SMTT(30) DEF FrameOK
      <3> HIDE DEF f
      <3>6. Handles(c, t, f, m)
        BY <1>1, <1>2, <3>1, <3>2, <3>3, <3>5, ZenonT(30) DEF Handles
      <3> HIDE DEF t
      <3>7. Ctl' /\ Locks' = Locks /\ Flight' = Flight
        BY <1>2, <3>5, <3>6, HandlesKeeps, ZenonT(30) DEF IInv
      <3>8. QED
        BY <1>1, <2>1, <3>7, Zenon DEF QStep, Still
    <2>4. QED
      BY <2>2, <2>3, SMTT(30)
  <1>6. QED
    BY <1>4, <1>5, SMTT(30)

\* The election is the Switch of RunQueues.
LEMMA ElectStep ==
    ASSUME IInv, NEW c \in Cpu, NEW t, NEW f, NEW k \in Cpu, Elects(c, t, f, k)
    PROVE  Ctl' /\ QStep
  <1> DEFINE nx == PickNext(k)
             p == [cpu |-> k, cap |-> cap[k], idx |-> current[k], new |-> rsp[tasks[k][nx]]]
  <1>1. nx \in Slots(k) \ {current[k]} /\ state[tasks[k][nx]] = "Ready" /\ tasks[k][nx] \in Task
    BY PickFacts, QFacts, Zenon DEF IInv, Elects
  <1>2. /\ mode' = [mode EXCEPT ![c] = "switch"] /\ pend' = [pend EXCEPT ![c] = p]
        /\ UNCHANGED <<tasks, rsp, exec, arg>>
        /\ state' = [state EXCEPT ![Cur(k)] = IF @ = "Running" THEN "Ready" ELSE @,
                                  ![tasks[k][nx]] = "Running"]
        /\ current' = [current EXCEPT ![k] = nx]
    BY Zenon DEF Elects, Elect, Elected, Enter
  <1> HIDE DEF nx
  <1>3. /\ DOMAIN frame' = Task /\ frame'[t] = f
        /\ \A s \in Task \ {t} : Same(frame'[s], frame[s])
    BY SameRest, Zenon DEF Elects, IInv
  <1>4. /\ mode' \in [Cpu -> Mode] /\ mode'[c] = "switch"
        /\ \A d \in Cpu \ {c} : mode'[d] = mode[d]
    BY <1>2, ZenonT(30) DEF IInv, Ctl, Types, Mode
  <1>5. PendOK(p) /\ p.new # NoTask /\ \A d \in Cpu : p.new # exec[d]
    <2>1. DOMAIN p = DOMAIN NoSwitch
      BY ZenonT(30) DEF NoSwitch
    <2>2. p.new = rsp[tasks[k][nx]]
      OBVIOUS
    <2>3. p.new \in Task \cup {Stale} /\ \A d \in Cpu : p.new # exec[d]
      BY <1>1, <2>2, ZenonT(30) DEF IInv, Ctl, Types, Stacks
    <2> HIDE DEF p
    <2>4. QED
      BY <2>1, <2>3, SchedulerAssumption, ZenonT(30) DEF PendOK
  <1> HIDE DEF p
  <1>6. DOMAIN pend' = Cpu /\ pend'[c] = p /\ \A d \in Cpu \ {c} : pend'[d] = pend[d]
    BY <1>2, ZenonT(30) DEF IInv, Ctl, Types
  <1>7. Own(c, t)
    BY <1>2, <1>3, <1>4, <1>5, <1>6, ZenonT(30) DEF Own, Elects, IInv, Ctl, Types, Reaping
  <1>8. Ctl' /\ Flight' = Flight /\ Locks' = Locks
    BY <1>3, <1>4, <1>7, OwnKeeps, FlightStep, LocksStep, ZenonT(30) DEF Elects, IInv, Reaping
  <1>9. RQ!Switch(k, nx)
    <2>1. ~Locks[k]
      BY Zenon DEF Locks, Elects
    <2>2. QED
      BY <1>1, <1>2, <1>8, <2>1, ZenonT(30) DEF RQ!Switch, RQ!Slots, Slots, RQ!Cur, Cur
  <1>10. QED
    BY <1>1, <1>8, <1>9, QActions, Zenon DEF QStep

\* The last critical section of yield_now.
LEMMA YieldSelectStep ==
    ASSUME IInv, NEW c \in Cpu, YieldSelect(c)
    PROVE  Ctl' /\ QStep
  <1> DEFINE t == exec[c]
             k == frame[t].ycpu
             f == [frame[t] EXCEPT !.ycpu = 0, !.ret = "run"]
  <1>1. mode[c] = "select" /\ ~Locked(k) /\ frame' = [frame EXCEPT ![t] = f]
    BY Zenon DEF YieldSelect
  <1>2. /\ t \in Task /\ FrameOK(t, frame[t]) /\ frame[t].at \in Back
        /\ frame[t].hand # NoTask <=> frame[t].at \in CarryPoints
    BY <1>1, InHandler, ZenonT(30) DEF IInv, Ctl, Modes
  <1>3. k \in Cpu
    BY <1>2, ZenonT(30) DEF FrameOK
  <1>4. FrameOK(t, f) /\ f.hand = frame[t].hand /\ f.at = frame[t].at
    BY <1>2, FieldsAre, ZeroCpu, ZenonT(30) DEF FrameOK, Back
  <1> HIDE DEF f
  <1>5. CASE Len(tasks[k]) < 2 \/ PickNext(k) \in {0, current[k]}
    <2>1. /\ mode' = [mode EXCEPT ![c] = "task"]
          /\ UNCHANGED <<tasks, current, state, rsp, exec, arg, pend>>
      BY <1>5, ZenonT(30) DEF YieldSelect, Enter, queues
    <2>2. Handles(c, t, f, "task")
      BY <1>1, <1>2, <1>4, <2>1, ZenonT(30) DEF Handles, Mode, Reaping
    <2> HIDE DEF t
    <2>3. Ctl' /\ Locks' = Locks /\ Flight' = Flight
      BY <1>2, <1>4, <2>2, HandlesKeeps, ZenonT(30) DEF IInv
    <2>4. QED
      BY <2>1, <2>3, ZenonT(30) DEF QStep, Still
  <1>6. CASE ~(Len(tasks[k]) < 2 \/ PickNext(k) \in {0, current[k]})
    <2>1. Elect(c, k, PickNext(k))
      BY <1>6 DEF YieldSelect
    <2>2. Elects(c, t, f, k)
      BY <1>1, <1>2, <1>4, <1>6, <2>1, ZenonT(30) DEF Elects, Reaping
    <2>3. QED
      BY <1>3, <2>2, ElectStep, ZenonT(30)
  <1>7. QED
    BY <1>5, <1>6, ZenonT(30)

\* The end of a timer handler.
LEMMA PreemptStep ==
    ASSUME IInv, NEW c \in Cpu, Preempt(c)
    PROVE  Ctl' /\ QStep
  <1> DEFINE t == exec[c]
             b == ~(Len(tasks[c]) >= 2 /\ quantum[Cur(c)] = 0) \/ PickNext(c) \in {0, current[c]}
  <1>1. mode[c] = "preempt" /\ ~Locked(c) /\ frame' = frame
    BY ZenonT(30) DEF Preempt
  <1>2. /\ t \in Task /\ FrameOK(t, frame[t])
        /\ frame[t].hand # NoTask <=> frame[t].at \in CarryPoints
    BY <1>1, InHandler, ZenonT(30) DEF IInv
  <1>3. CASE b
    <2>1. /\ mode' = [mode EXCEPT ![c] = "task"]
          /\ UNCHANGED <<tasks, current, state, rsp, exec, arg, pend>>
      BY <1>3, ZenonT(30) DEF Preempt, Enter, queues
    <2>2. Handles(c, t, frame[t], "task")
      BY <1>1, <1>2, <2>1, ZenonT(30) DEF Handles, Mode, Reaping
    <2> HIDE DEF t
    <2>3. Ctl' /\ Locks' = Locks /\ Flight' = Flight
      BY <1>2, <2>2, HandlesKeeps, ZenonT(30) DEF IInv
    <2>4. QED
      BY <2>1, <2>3 DEF QStep, Still
  <1>4. CASE ~b
    <2>1. Elect(c, c, PickNext(c))
      BY <1>4, ZenonT(30) DEF Preempt
    <2>2. Elects(c, t, frame[t], c)
      BY <1>1, <1>2, <1>4, <2>1, ZenonT(30) DEF Elects, Reaping
    <2>3. QED
      BY <2>2, ElectStep, ZenonT(30)
  <1>5. QED
    BY <1>3, <1>4, SMTT(30)

\* Every step of every function is a critical section of RunQueues or does not touch the
\* queues.
LEMMA NextStep == IInv /\ [Next]_vars => Ctl' /\ QStep
  <1> SUFFICES ASSUME IInv, [Next]_vars PROVE Ctl' /\ QStep
    BY ZenonT(30)
  <1>1. Still => QStep
    BY DEF QStep
  <1>2. Ctl
    BY ZenonT(30) DEF IInv
  <1>3. CASE PitTick
    BY <1>1, <1>2, <1>3, PitTickStep, ZenonT(30)
  <1>4. CASE PitWake
    BY <1>4, PitWakeStep, ZenonT(30)
  <1>5. ASSUME NEW c \in Cpu, Call(c) PROVE Ctl' /\ QStep
    BY <1>1, <1>2, <1>5, SleepCallStep, ExitCallStep, SpawnCallStep, KillCallStep, YieldCallStep, SMTT(30)
       DEF Call
  <1>6. ASSUME NEW c \in Cpu, Proceed(c) PROVE Ctl' /\ QStep
    <2>1. CASE YieldCall(c) \/ YieldCheck(c) \/ SleepCheck(c) \/ ExitReturn(c) \/ IdleCheck(c)
               \/ SwitchContext(c)
      BY <1>1, <1>2, <2>1, YieldCallStep, YieldCheckStep, SleepCheckStep, ExitReturnStep,
         IdleCheckStep, SwitchContextStep, SMTT(30)
    <2>2. CASE Steal(c) \/ StealInsert(c) \/ YieldSelect(c) \/ Preempt(c)
      BY <2>2, StealStep, StealInsertStep, YieldSelectStep, PreemptStep, ZenonT(30)
    <2>3. CASE SleepMark(c) \/ ExitMark(c)
      BY <2>3, SleepMarkStep, ExitMarkStep, ZenonT(30)
    <2>4. CASE SpawnScan(c) \/ SpawnPush(c) \/ KillScan(c)
      BY <1>1, <1>2, <2>4, SpawnScanStep, SpawnPushStep, KillScanStep, ZenonT(30)
    <2>5. CASE KillReap(c) \/ TimerReap(c) \/ ReapStep(c)
      BY <2>5, KillReapStep, TimerReapStep, ReapStepStep, ZenonT(30)
    <2>6. QED
      BY <1>6, <2>1, <2>2, <2>3, <2>4, <2>5, ZenonT(30) DEF Proceed
  <1>7. ASSUME NEW c \in Cpu, LapicTick(c) PROVE Ctl' /\ QStep
    BY <1>7, LapicTickStep, ZenonT(30)
  <1>8. CASE UNCHANGED vars
    <2>1. UNCHANGED <<tasks, current, state, rsp, exec, mode, arg, pend, frame>>
      BY <1>8, ZenonT(30) DEF vars
    <2>2. Ctl'
      <3>1. Types'
        BY <1>2, <2>1, ZenonT(30) DEF Ctl, Types
      <3>2. Stacks' /\ Modes'
        BY <1>2, <2>1, SMTT(30) DEF Ctl, Stacks, Modes
      <3>3. \A t \in Task : Carries(t)' <=> Carries(t)
        BY <2>1, Zenon DEF Carries
      <3>4. Hands'
        BY <1>2, <2>1, <3>3, ZenonT(30) DEF Ctl, Hands
      <3>5. QED
        BY <3>1, <3>2, <3>4, ZenonT(30) DEF Ctl
    <2>3. Flight' = Flight
      BY <2>1 DEF Flight
    <2>4. Locks' = Locks
      <3>1. \A k \in Cpu : Locked(k)' = Locked(k)
        BY <2>1, ZenonT(30) DEF Locked
      <3>2. QED
        BY <3>1, ZenonT(30) DEF Locks
    <2>5. QED
      BY <2>1, <2>2, <2>3, <2>4, ZenonT(30) DEF QStep, Still
  <1>9. QED
    BY <1>3, <1>4, <1>5, <1>6, <1>7, <1>8, SMTT(30) DEF Next

-----------------------------------------------------------------------------
\* The theorems about the queues, under the refinement mapping.
LOCAL Q == INSTANCE RunQueuesProofs WITH flight <- Flight, locked <- Locks

\* The refinement mapping of Scheduler is the one of these theorems.
LEMMA SameMapping ==
    /\ Q!Next <=> RQ!Next
    /\ Q!vars = RQ!vars /\ Q!vars' = RQ!vars'
    /\ Q!Init <=> RQ!Init
    /\ (Q!IInv <=> RQ!IInv) /\ (Q!IInv' <=> RQ!IInv')
    /\ Q!Cpu = Cpu /\ RQ!Cpu = Cpu
  <1>1. Q!Next <=> RQ!Next
    BY ZenonT(30) DEF Q!Next, RQ!Next, Q!Create, Q!Insert, Q!Kill, Q!Steal, Q!Switch, Q!ReapOne,
       Q!MarkCurrent, Q!Wake, Q!ReapLock, Q!ReapUnlock, Q!Slots, Q!Cur, Q!Queued, Q!TakeOut,
       Q!RemoveSlot, Q!Cpu, RQ!Create, RQ!Insert, RQ!Kill, RQ!Steal, RQ!Switch, RQ!ReapOne,
       RQ!MarkCurrent, RQ!Wake, RQ!ReapLock, RQ!ReapUnlock, RQ!Slots, RQ!Cur, RQ!Queued,
       RQ!TakeOut, RQ!RemoveSlot, RQ!Cpu
  <1>2. Q!vars = RQ!vars /\ Q!vars' = RQ!vars' /\ Q!Cpu = Cpu /\ RQ!Cpu = Cpu
    BY ZenonT(30) DEF Q!vars, RQ!vars, RQ!Cpu, Q!Cpu, Cpu
  <1>3. Q!Init <=> RQ!Init
    BY ZenonT(30) DEF Q!Init, RQ!Init, RQ!Cpu, Q!Cpu, Q!RootOf, RQ!RootOf
  <1>4. (Q!IInv <=> RQ!IInv) /\ (Q!IInv' <=> RQ!IInv')
    <2>1. (Q!TypeOK <=> RQ!TypeOK) /\ (Q!TypeOK' <=> RQ!TypeOK')
      BY ZenonT(30) DEF Q!TypeOK, RQ!TypeOK, Q!TaskState, RQ!TaskState, Q!Cpu, RQ!Cpu
    <2>2. (Q!CurrentInRange <=> RQ!CurrentInRange) /\ (Q!CurrentInRange' <=> RQ!CurrentInRange')
      BY ZenonT(30) DEF Q!CurrentInRange, RQ!CurrentInRange, Q!Slots, RQ!Slots, Q!Cpu, RQ!Cpu
    <2>3. (Q!OneSlot <=> RQ!OneSlot) /\ (Q!OneSlot' <=> RQ!OneSlot')
      BY ZenonT(30) DEF Q!OneSlot, RQ!OneSlot, Q!Slots, RQ!Slots, Q!Cpu, RQ!Cpu
    <2>4. (Q!RootsPinned <=> RQ!RootsPinned) /\ (Q!RootsPinned' <=> RQ!RootsPinned')
      BY ZenonT(30) DEF Q!RootsPinned, RQ!RootsPinned, Q!Queued, RQ!Queued, Q!Slots, RQ!Slots, Q!Cur, RQ!Cur, Q!Cpu, RQ!Cpu, Q!RootOf, RQ!RootOf
    <2>5. (Q!RootsHeld <=> RQ!RootsHeld) /\ (Q!RootsHeld' <=> RQ!RootsHeld')
      BY ZenonT(30) DEF Q!RootsHeld, RQ!RootsHeld, Q!Queued, RQ!Queued, Q!Slots, RQ!Slots, Q!Cur, RQ!Cur, Q!Cpu, RQ!Cpu, Q!RootOf, RQ!RootOf
    <2>6. (Q!RunningIsCurrent <=> RQ!RunningIsCurrent) /\ (Q!RunningIsCurrent' <=> RQ!RunningIsCurrent')
      BY ZenonT(30) DEF Q!RunningIsCurrent, RQ!RunningIsCurrent, Q!Queued, RQ!Queued, Q!Slots, RQ!Slots, Q!Cur, RQ!Cur, Q!Cpu, RQ!Cpu
    <2>7. (Q!Conserved <=> RQ!Conserved) /\ (Q!Conserved' <=> RQ!Conserved')
      BY DEF Q!Conserved, RQ!Conserved, Q!Queued, RQ!Queued, Q!Slots, RQ!Slots, Q!Cur, RQ!Cur, Q!Cpu, RQ!Cpu
    <2>8. QED
      BY <2>1, <2>2, <2>3, <2>4, <2>5, <2>6, <2>7, SMTT(30) DEF Q!IInv, RQ!IInv
  <1>5. QED
    BY <1>1, <1>2, <1>3, <1>4, SMTT(30)

\* Removing a slot that is not the current one leaves every CPU on its task and queues
\* nothing.
LEMMA TakeOutKeeps ==
    ASSUME RQ!IInv, NEW c \in Cpu, NEW i \in Slots(c) \ {current[c]}, RQ!TakeOut(c, i)
    PROVE  /\ \A d \in Cpu : Cur(d)' = Cur(d)
           /\ \A s \in Task, d \in Cpu : Queued(s, d)' => Queued(s, d)
  <1>1. /\ \A d \in Q!Cpu : Q!Cur(d)' = Q!Cur(d)
        /\ \A s \in Task, d \in Q!Cpu : Q!Queued(s, d)' => Q!Queued(s, d)
    <2>1. c \in Q!Cpu /\ i \in Q!Slots(c) /\ i # current[c] /\ Q!Cpu = Cpu
      BY SameMapping, ZenonT(30) DEF Q!Slots, Slots
    <2>2. Q!IInv /\ Q!TakeOut(c, i)
      BY SameMapping, ZenonT(30) DEF RQ!TakeOut, Q!TakeOut, RQ!RemoveSlot, Q!RemoveSlot
    <2>3. QED
      BY <2>1, <2>2, Q!TakeOutFacts, RunQueuesAssumption, ZenonT(30) DEF Q!TakeOutFacts
  <1>2. QED
    BY <1>1, SameMapping, ZenonT(30) DEF Q!Cur, Cur, Q!Queued, Queued, Q!Slots, Slots

\* The reaping loop works on the CPU's own queue, on which no switch is pending.
LEMMA ReapStepGoes ==
    ASSUME NEW c, Going(c), ReapStep(c)
    PROVE  J' /\ Honoured
  <1> DEFINE t == exec[c]
  <1>1. /\ mode[c] \in Reaping /\ frame' = frame /\ UNCHANGED <<cap, left, rsp, exec, pend>>
    BY DEF ReapStep, Reaping
  <1>2. /\ \A m : m \in {"reap", "kreap", "preempt", "task"} => Settled(c, frame[t], m)
        /\ InSleep(frame[t]) => Rested(t)
        /\ t \in Task /\ c \in Cpu
    BY AtWork, ZenonT(30) DEF Going, Settled
  <1>3. arg[c] = c
    BY <1>1, <1>2, ZenonT(30) DEF Going, J, Calm
  <1>4. CASE Corpses(c) = {}
    <2> DEFINE m == IF mode[c] = "reap" THEN "preempt" ELSE "task"
    <2>1. /\ mode' = [mode EXCEPT ![c] = m] /\ arg' = [arg EXCEPT ![c] = 0]
          /\ UNCHANGED <<tasks, current, state>>
      BY <1>3, <1>4, ZenonT(30) DEF ReapStep, Enter
    <2>2. m \in {"preempt", "task"}
      OBVIOUS
    <2> HIDE DEF m
    <2>3. Rests
      BY <1>1, <2>1, RestsStill, ZenonT(30) DEF Going
    <2>4. \A d \in Cpu \ {c} : arg'[d] = arg[d]
      BY <2>1, ZenonT(30) DEF Going, IInv, Ctl, Types
    <2>5. InSleep(frame[t]) => Rested(t)'
      BY <1>1, <1>2, <2>3, ZenonT(30) DEF Rests
    <2>6. Goes(c, frame[t], m)
      BY <1>1, <1>2, <2>1, <2>2, <2>3, <2>4, <2>5, SMTT(30) DEF Goes, Rests, Reaping
    <2>7. QED
      BY <1>2, <2>6, GoesKeeps, ZenonT(30) DEF Going
  <1>5. CASE Corpses(c) # {}
    <2>1. Min(Corpses(c)) \in Corpses(c)
      <3>1. Corpses(c) \subseteq Nat
        <4>1. Slots(c) = 1 .. Len(tasks[c]) /\ Len(tasks[c]) \in Nat
          BY <1>2, QFacts, ZenonT(30) DEF Going, IInv
        <4>2. Corpses(c) \subseteq Slots(c)
          BY ZenonT(30) DEF Corpses
        <4>3. QED
          BY <4>1, <4>2, SMTT(30)
      <3>2. QED
        BY <1>5, <3>1, MinFacts, ZenonT(30)
    <2>2. PICK i \in Corpses(c) : Remove(c, i) /\ state' = [state EXCEPT ![tasks[c][i]] = "Reaped"]
      BY <1>3, <1>5, <2>1, SMTT(30) DEF ReapStep
    <2>3. i \in Slots(c) \ {current[c]} /\ UNCHANGED <<mode, arg>>
      BY <1>3, <1>5, ZenonT(30) DEF Corpses, ReapStep
    <2>4. /\ \A d \in Cpu : Cur(d)' = Cur(d)
          /\ \A s \in Task, d \in Cpu : Queued(s, d)' => Queued(s, d)
      <3>1. RQ!TakeOut(c, i)
        BY <2>2, RemoveIs, ZenonT(30)
      <3>2. QED
        BY <1>2, <2>3, <3>1, TakeOutKeeps, ZenonT(30) DEF Going, IInv
    <2>5. \A d \in Cpu \ {c} : tasks'[d] = tasks[d]
      BY <2>2, QFacts, ZenonT(30) DEF Remove, Going, IInv
    <2>6. \A s \in Task : state'[s] = state[s] \/ state'[s] = "Reaped"
      BY <2>2, QFacts, ZeroCpu, SMTT(30) DEF Going, IInv
    <2>7. Rests
      BY <1>1, <2>6, RestsStill, ZenonT(30) DEF Going
    <2>8. Flight' = Flight
      BY <1>1 DEF Flight
    <2>9. Tidy(c)
      <3>1. \A s \in Task : state'[s] = "Unborn" \/ s \in Flight' => state[s] = "Unborn" \/ s \in Flight
        BY <2>8, ZenonT(30) DEF Going, Ages
      <3>2. \A s \in Task \ {t} : Same(frame'[s], frame[s]) /\ frame'[s].wait \in Nat
        BY <1>1, ZenonT(30) DEF Same, Going, J, Slept
      <3>3. Settled(c, frame'[t], mode'[c])
        BY <1>1, <1>2, <2>3, ZenonT(30) DEF Reaping
      <3>4. InSleep(frame'[t]) => Rested(t)'
        BY <1>1, <1>2, <2>7, ZenonT(30) DEF Rests
      <3>5. QED
        BY <1>1, <1>3, <2>3, <2>4, <2>7, <3>1, <3>2, <3>3, <3>4, ZenonT(30) DEF Tidy, Rests
    <2>10. Steady
      BY <1>1, <2>3, <2>4, <2>5, ZenonT(30) DEF Steady, Slots, Reaping
    <2>11. Caps'
      BY <1>1 DEF Going, J, Caps
    <2>12. QED
      BY <1>2, <2>9, <2>10, <2>11, TidyKeeps, SteadyKeeps, ZenonT(30) DEF Going, J
  <1>6. QED
    BY <1>4, <1>5, ZenonT(30)

-----------------------------------------------------------------------------
\* The state in which init leaves the schedulers.
LEMMA InitStep == Init => IInv /\ RQ!Init
  <1> SUFFICES ASSUME Init PROVE IInv /\ RQ!Init
    BY ZenonT(30)
  <1>1. /\ \A c \in Cpu : exec[c] = Root[c] /\ Root[c] \in Task /\ mode[c] = "task" /\ arg[c] = 0
        /\ \A c \in Cpu : pend[c] = NoSwitch
        /\ \A t \in Task : frame[t] = Frame0("run") \/ (frame[t] = Frame0("idle") /\ N > 1)
    <2>1. \A c \in Cpu \ {0} : N > 1
      BY RunQueuesAssumption, SMTT(30) DEF Cpu
    <2>2. QED
      BY <2>1, RunQueuesAssumption, ZenonT(30) DEF Init
  <1>2. \A t \in Task : /\ FrameOK(t, frame[t]) /\ frame[t].hand = NoTask
                        /\ frame[t].at \notin CarryPoints
    <2>1. FrameOK(NoTask, Frame0("run")) /\ (N > 1 => FrameOK(NoTask, Frame0("idle")))
      BY ZeroCpu, ZenonT(30) DEF FrameOK, Fields, Frame0, Points, Back, ShellPoints, IdlePoints
    <2>2. \A l \in {"run", "idle"} : /\ Frame0(l).at = l /\ Frame0(l).hand = NoTask
                                     /\ l \notin CarryPoints /\ l \notin ShellPoints
      BY Zenon DEF Frame0, CarryPoints, ShellPoints
    <2>3. QED
      BY <1>1, <2>1, <2>2, ZenonT(30) DEF FrameOK
  <1>3. Types
    <2>1. 0 \in 0 .. N /\ PendOK(NoSwitch)
      BY RunQueuesAssumption, SMTT(30) DEF PendOK, NoSwitch
    <2>2. /\ DOMAIN pend = Cpu /\ DOMAIN frame = Task
          /\ exec \in [Cpu -> Task \cup {Wild}] /\ rsp \in [Task -> Task \cup {Stale}]
          /\ mode \in [Cpu -> Mode] /\ arg \in [Cpu -> 0 .. N]
      BY <2>1, RunQueuesAssumption, Zenon DEF Init, Mode
    <2>3. QED
      BY <1>1, <1>2, <2>1, <2>2, ZenonT(30) DEF Types
  <1>4. Stacks
    <2>1. \A c, d \in Cpu : exec[c] = exec[d] => c = d
      BY <1>1, RunQueuesAssumption, ZenonT(30)
    <2>2. \A c \in Cpu, t \in Task : rsp[t] # exec[c]
      BY <1>1, SchedulerAssumption, ZenonT(30) DEF Init
    <2>3. \A c, d \in Cpu : pend[d].new # exec[c]
      BY <1>1, SchedulerAssumption, SMTT(30) DEF NoSwitch
    <2>4. QED
      BY <2>1, <2>2, <2>3, ZenonT(30) DEF Stacks
  <1>5. Modes
    BY <1>1, Zenon DEF Modes, Reaping
  <1>6. Hands
    BY <1>1, <1>2, Zenon DEF Hands, Carries
  <1>7. Flight = {}
    BY <1>2, Zenon DEF Flight
  <1>8. Locks = [c \in Cpu |-> FALSE]
    <2>1. \A k \in Cpu : Locked(k) = FALSE
      BY <1>1, Zenon DEF Locked
    <2>2. QED
      BY <2>1, ZenonT(30) DEF Locks
  <1>9. RQ!Init
    BY <1>7, <1>8, ZenonT(30) DEF RQ!Init, Init, RQ!Cpu, Cpu, RQ!RootOf
  <1>10. RQ!IInv
    BY <1>9, SameMapping, Q!InitIInv, RunQueuesAssumption, SMTT(30) DEF Q!InitIInv
  <1>11. QED
    BY <1>3, <1>4, <1>5, <1>6, <1>9, <1>10, SMTT(30) DEF IInv, Ctl

\* The inductive invariant of the running system.
LEMMA NextIInv == IInv /\ [Next]_vars => IInv' /\ [RQ!Next]_RQ!vars
  <1> SUFFICES ASSUME IInv, [Next]_vars PROVE IInv' /\ [RQ!Next]_RQ!vars
    BY ZenonT(30)
  <1>1. Ctl' /\ QStep
    BY NextStep, ZenonT(30)
  <1>2. [RQ!Next]_RQ!vars
    BY <1>1, ZenonT(30) DEF QStep, Still, RQ!vars
  <1>3. RQ!IInv'
    BY <1>2, SameMapping, Q!NextIInv, RunQueuesAssumption, SMTT(30) DEF Q!NextIInv, IInv
  <1>4. QED
    BY <1>1, <1>2, <1>3, ZenonT(30) DEF IInv

\* IInv holds in every state the kernel's scheduler reaches.
THEOREM Inductive == Spec => []IInv
  BY InitStep, NextIInv, PTL DEF Spec

\* Refinement: whatever the tasks call, whenever the timers tick and however the CPUs
\* interleave, task/mod.rs changes its queues only by the critical sections of RunQueues.
THEOREM Refines == Spec => ImplementsRunQueues
  BY Inductive, InitStep, NextIInv, PTL DEF Spec, ImplementsRunQueues, RQ!Spec

\* No task is lost or duplicated by a spawn or a steal that other CPUs interrupt between
\* its two locks.
THEOREM TasksConserved == Spec => []Conserved
  <1>1. IInv => Conserved
    BY ZenonT(30) DEF IInv, RQ!IInv, Conserved
  <1>2. QED
    BY Inductive, <1>1, PTL

-----------------------------------------------------------------------------
\* The initial state.
LEMMA InitJ == Init => J
  <1> SUFFICES ASSUME Init PROVE J
    BY ZenonT(30)
  <1>1. /\ \A c \in Cpu : mode[c] = "task" /\ exec[c] = Root[c] /\ arg[c] = 0 /\ Root[c] \in Task
        /\ \A t \in Task : frame[t] = Frame0("idle") \/ frame[t] = Frame0("run")
        /\ \A t \in Task : state[t] = "Unborn" => frame[t] = Frame0("run")
        /\ left = [t \in Task |-> 0] /\ cap = [c \in Cpu |-> MinCap]
    BY RunQueuesAssumption, ZenonT(30) DEF Init
  <1>2. \A l : Frame0(l).at = l /\ Frame0(l).ret = "run" /\ Frame0(l).wait = 0 /\ Frame0(l).hand = NoTask
    BY DEF Frame0
  <1>3. OnCur
    <2>1. \A c \in Cpu : Cur(c) = Root[c]
      <3>1. SUFFICES ASSUME NEW c \in Cpu PROVE tasks[c][current[c]] = Root[c]
        BY ZenonT(30) DEF Cur
      <3>2. current[c] = 1 /\ tasks[c] = IF c = 0 THEN <<Root[0], Sentinel>> ELSE <<Root[c]>>
        BY ZenonT(30) DEF Init
      <3>3. QED
        BY <3>2, SMTT(30)
    <2>2. QED
      BY <1>1, <2>1, ZenonT(30) DEF OnCur
  <1>4. Saved
    BY <1>1, ZenonT(30) DEF Saved, Init
  <1>5. Flight = {}
    BY <1>1, <1>2, SMTT(30) DEF Flight
  <1>6. \A t \in Task : /\ frame[t].at \in {"idle", "run"} /\ frame[t].ret = "run"
                        /\ frame[t].wait = 0 /\ (state[t] = "Unborn" => frame[t].at = "run")
    BY <1>1, <1>2, SMTT(30)
  <1>7. AtHome
    <2>1. \A c \in Cpu : \A i \in Slots(c) : tasks[c][i] \in Task
      BY InitStep, QFacts, Zenon DEF IInv
    <2>2. QED
      BY <1>1, <1>5, <1>6, <2>1, ZenonT(30) DEF AtHome, HomeOK, InSleep
  <1>8. Calm /\ Caps /\ Slept
    BY <1>1, <1>6, SMTT(30) DEF Calm, Caps, Slept, Reaping, InSleep
  <1>9. QED
    BY <1>3, <1>4, <1>7, <1>8, ZenonT(30) DEF J

\* Every step, as long as no CPU touches the queue of another.
LEMMA NextJ ==
    ASSUME N = 1 \/ Targets = {}
    PROVE  IInv /\ J /\ Alone /\ Alone' /\ [Next]_vars => J' /\ [Honoured]_vars
  <1> SUFFICES ASSUME IInv, J, Alone, Alone', [Next]_vars PROVE J' /\ [Honoured]_vars
    BY Zenon
  <1>1. IInv' /\ Ages
    BY NextIInv, QAges, Zenon DEF IInv
  <1>2. \A c \in Cpu : Going(c)
    BY <1>1, ZenonT(30) DEF Going
  <1>3. CASE PitTick \/ PitWake
    BY <1>2, <1>3, ZeroCpu, PitTickGoes, PitWakeGoes, ZenonT(30)
  <1>4. ASSUME NEW c \in Cpu, Call(c) PROVE J' /\ Honoured
    BY <1>2, <1>4, SleepCallGoes, ExitCallGoes, SpawnCallGoes, KillCallGoes, YieldCallGoes, SMTT(30)
       DEF Call
  <1>5. ASSUME NEW c \in Cpu, Proceed(c) PROVE J' /\ Honoured
    <2>1. CASE YieldCall(c) \/ YieldCheck(c) \/ SleepCheck(c) \/ ExitReturn(c) \/ IdleCheck(c)
               \/ SwitchContext(c)
      BY <1>2, <2>1, YieldCallGoes, YieldCheckGoes, SleepCheckGoes, ExitReturnGoes,
         IdleCheckGoes, SwitchContextGoes, SMTT(30)
    <2>2. CASE Steal(c) \/ StealInsert(c) \/ YieldSelect(c) \/ Preempt(c)
      BY <1>2, <2>2, StealGoes, StealInsertGoes, YieldSelectGoes, PreemptGoes, SMTT(30)
    <2>3. CASE SleepMark(c) \/ ExitMark(c)
      BY <1>2, <2>3, SleepMarkGoes, ExitMarkGoes, SMTT(30)
    <2>4. CASE SpawnScan(c) \/ SpawnPush(c) \/ KillScan(c)
      BY <1>2, <2>4, SpawnScanGoes, SpawnPushGoes, KillScanGoes, SMTT(30)
    <2>5. CASE KillReap(c) \/ TimerReap(c) \/ ReapStep(c)
      BY <1>2, <2>5, KillReapGoes, TimerReapGoes, ReapStepGoes, ZenonT(30)
    <2>6. QED
      BY <1>5, <2>1, <2>2, <2>3, <2>4, <2>5, SMTT(30) DEF Proceed
  <1>6. ASSUME NEW c \in Cpu, LapicTick(c) PROVE J' /\ Honoured
    BY <1>2, <1>6, LapicTickGoes, ZenonT(30)
  <1>7. CASE UNCHANGED vars
    <2>1. UNCHANGED <<tasks, current, cap, state, left, rsp, exec, mode, arg, pend, frame>>
      BY <1>7, ZenonT(30) DEF vars
    <2>2. OnCur' /\ Saved' /\ Caps' /\ Calm'
      BY <2>1, ZenonT(30) DEF J, OnCur, Switching, Cur, Slots, Saved, Caps, Calm
    <2>3. Flight' = Flight
      BY <2>1, SMTT(30) DEF Flight
    <2>4. AtHome' /\ Slept'
      BY <2>1, <2>3, ZenonT(30) DEF J, AtHome, Slept, Slots, Rested
    <2>5. QED
      BY <1>7, <2>2, <2>4, ZenonT(30) DEF J
  <1>8. QED
    BY <1>3, <1>4, <1>5, <1>6, <1>7, Zenon DEF Next

\* J holds as long as no CPU touches the queue of another.
LEMMA Executes ==
    ASSUME N = 1 \/ Targets = {}
    PROVE  Spec /\ []Alone => [](IInv /\ J) /\ [][Honoured]_vars
  <1>1. IInv /\ J /\ Alone /\ Alone' /\ [Next]_vars => J' /\ [Honoured]_vars
    BY NextJ, ZenonT(30)
  <1>2. QED
    BY <1>1, InitJ, Inductive, PTL DEF Spec

\* On one CPU, and on several while nothing is killed and no queue is long enough to be
\* stolen from: outside the window between election and switch_context a CPU executes the
\* task its scheduler calls current, so sleep_ticks, exit and the fault handler, which act
\* on tasks[current], act on their caller.
THEOREM ContextsExecute ==
    ASSUME N = 1 \/ Targets = {}
    PROVE  Spec /\ []Alone => []ExecIsCurrent
  <1>1. J => ExecIsCurrent
    BY ZenonT(30) DEF J, OnCur, ExecIsCurrent
  <1>2. QED
    BY <1>1, Executes, PTL

\* Under the same conditions, the stack pointer that switch_context loads is the one the
\* elected task saved when it was last suspended.
THEOREM ContextsFresh ==
    ASSUME N = 1 \/ Targets = {}
    PROVE  Spec /\ []Alone => []FreshContext
  <1>1. J => FreshContext
    BY DEF J, OnCur, Switching, FreshContext
  <1>2. QED
    BY <1>1, Executes, PTL

\* Under the same conditions, sleep_ticks returns to no task before its wake tick, unless
\* the task has been killed.
THEOREM SleepsHonoured ==
    ASSUME N = 1 \/ Targets = {}
    PROVE  Spec /\ []Alone => SleepHonoured
  <1>1. [Honoured]_vars =>
          [\A t \in Task : frame[t].at = "s_check" /\ frame'[t].at = "run" =>
              left[t] = 0 \/ state[t] \in {"Dead", "Reaped"}]_vars
    BY ZenonT(30) DEF Honoured
  <1>2. QED
    BY <1>1, Executes, PTL DEF SleepHonoured

\* A kernel that has brought up one CPU is sound whatever its tasks do: spawn, sleep, exit,
\* fault and kill each other.  That no stack in use is freed is proved here only: a kill from
\* another CPU frees one (see FreedInWindow).
THEOREM OneCpuSound ==
    ASSUME N = 1
    PROVE  Spec => [](ExecIsCurrent /\ FreshContext /\ StackAlive) /\ SleepHonoured
  <1>1. N = 1 \/ Targets = {}
    OBVIOUS
  <1>2. Spec => []Alone
    <2>1. Alone
      BY Zenon DEF Alone
    <2>2. QED
      BY <2>1, PTL
  <1>3. IInv /\ J => StackAlive
    BY AtWork, ZenonT(30) DEF StackAlive
  <1>4. Spec => []StackAlive
    BY <1>1, <1>2, <1>3, Executes, PTL
  <1>5. QED
    BY <1>1, <1>2, <1>4, ContextsExecute, ContextsFresh, SleepsHonoured, PTL
=============================================================================
