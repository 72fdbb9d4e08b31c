--------------------------- MODULE ControlProofs ---------------------------
(***************************************************************************)
(* The control state of module Scheduler: for any number of CPUs, any set  *)
(* of tasks and whatever they call, the invariant Ctl of contexts, stacks  *)
(* and locals and the invariant J of who executes what, and what each step *)
(* that scans no queue does to them and, as a step of RunQueues, to the    *)
(* queues.  SchedulerProofs has the other steps and the theorems.          *)
(***************************************************************************)
EXTENDS Scheduler, TLAPS

Mode == {"task", "steal", "insert", "select", "switch", "pit", "reap0", "reap", "kreap",
         "preempt"}
Reaping == {"reap", "kreap"}
Back == {"run", "s_check", "x_back", "f_hlt", "idle"}
IdlePoints == {"idle", "i_yield", "i_steal", "i_insert", "i_hlt"}
ShellPoints == {"sp_scan", "sp_push", "k_scan", "k_reap"}
CarryPoints == {"sp_scan", "sp_push", "i_insert"}
Fields == DOMAIN Frame0("run")

FrameOK(t, f) ==
    /\ DOMAIN f = Fields
    /\ f.at \in Points /\ f.ret \in Back /\ f.hand \in Task \cup {NoTask}
    /\ f.ycpu \in Cpu /\ f.scpu \in Cpu /\ f.off \in Cpu /\ f.best \in Cpu
    /\ f.at \in ShellPoints => t = Shell
    /\ f.at \in IdlePoints \/ f.ret = "idle" => N > 1

PendOK(p) == DOMAIN p = DOMAIN NoSwitch /\ p.new \in Task \cup {Stale, NoTask}

Types ==
    /\ exec \in [Cpu -> Task \cup {Wild}]
    /\ mode \in [Cpu -> Mode]
    /\ arg \in [Cpu -> 0 .. N]
    /\ rsp \in [Task -> Task \cup {Stale}]
    /\ DOMAIN pend = Cpu /\ \A c \in Cpu : PendOK(pend[c])
    /\ DOMAIN frame = Task /\ \A t \in Task : FrameOK(t, frame[t])

Stacks ==
    /\ \A c, d \in Cpu : exec[c] = exec[d] /\ exec[c] # Wild => c = d
    /\ \A c \in Cpu, t \in Task : rsp[t] # exec[c]
    /\ \A c, d \in Cpu : pend[d].new # exec[c]

Modes ==
    /\ \A c \in Cpu : mode[c] # "task" => exec[c] # Wild
    /\ \A c \in Cpu : mode[c] = "switch" => pend[c].new # NoTask
    /\ \A c \in Cpu : mode[c] \in {"steal", "insert", "select"} => frame[exec[c]].at \in Back
    /\ \A c \in Cpu : mode[c] \in Reaping => arg[c] \in Cpu
    /\ \A c, d \in Cpu : mode[c] \in Reaping /\ mode[d] \in Reaping /\ arg[c] = arg[d] => c = d

Carries(t) == frame[t].at \in CarryPoints \/ \E c \in Cpu : exec[c] = t /\ mode[c] = "insert"

Hands ==
    /\ \A t \in Task : frame[t].hand # NoTask <=> Carries(t)
    /\ \A s, t \in Task : frame[s].hand = frame[t].hand /\ frame[s].hand # NoTask => s = t

\* What holds of the execution, whatever the queues contain.
Ctl == Types /\ Stacks /\ Modes /\ Hands

IInv == Ctl /\ RQ!IInv

\* Frames that differ at most in what the queues do not depend on.
Same(f, g) ==
    /\ DOMAIN f = DOMAIN g
    /\ f.at = g.at /\ f.ret = g.ret /\ f.hand = g.hand
    /\ f.ycpu = g.ycpu /\ f.scpu = g.scpu /\ f.off = g.off /\ f.best = g.best

\* A step of CPU c on context t that changes no other context and, of the state of
\* the CPUs, only that of c.
Own(c, t) ==
    /\ exec' = exec /\ rsp' = rsp
    /\ DOMAIN frame' = Task /\ \A s \in Task \ {t} : Same(frame'[s], frame[s])
    /\ FrameOK(t, frame'[t])
    /\ mode' \in [Cpu -> Mode] /\ arg' \in [Cpu -> 0 .. N] /\ DOMAIN pend' = Cpu
    /\ \A d \in Cpu \ {c} : mode'[d] = mode[d] /\ arg'[d] = arg[d] /\ pend'[d] = pend[d]
    /\ PendOK(pend'[c]) /\ \A d \in Cpu : pend'[c].new # exec[d]
    /\ mode'[c] = "switch" => pend'[c].new # NoTask
    /\ mode'[c] \in {"steal", "insert", "select"} => frame'[t].at \in Back
    /\ mode'[c] \in Reaping =>
         arg'[c] \in Cpu /\ \A d \in Cpu \ {c} : mode[d] \in Reaping => arg[d] # arg'[c]
    /\ frame'[t].hand # NoTask <=> frame'[t].at \in CarryPoints \/ mode'[c] = "insert"
    /\ frame'[t].hand \in {NoTask, frame[t].hand} \/ frame'[t].hand \notin Flight

\* Such a step keeps the control state sound.
LEMMA OwnKeeps ==
    ASSUME Ctl, NEW c \in Cpu, NEW t \in Task, exec[c] = t, Own(c, t)
    PROVE  Ctl'
  <1>1. Types'
    <2>1. \A s \in Task : FrameOK(s, frame'[s])
      BY DEF Ctl, Types, Own, FrameOK, Same
    <2>2. \A d \in Cpu : PendOK(pend'[d])
      BY Zenon DEF Ctl, Types, Own
    <2>3. QED
      BY <2>1, <2>2, Zenon DEF Ctl, Types, Own
  <1>2. Stacks'
    BY DEF Ctl, Stacks, Own
  <1>3. Modes'
    <2>1. \A d \in Cpu : mode'[d] # "task" => exec'[d] # Wild
      BY SchedulerAssumption DEF Ctl, Modes, Own
    <2>2. \A d \in Cpu : mode'[d] \in {"steal", "insert", "select"} =>
                           frame'[exec'[d]].at \in Back
      <3>1. SUFFICES ASSUME NEW d \in Cpu, d # c,
                            mode[d] \in {"steal", "insert", "select"}
                     PROVE  frame'[exec[d]].at \in Back
        BY Zenon DEF Own
      <3>2. exec[d] \in Task \ {t} /\ frame[exec[d]].at \in Back
        BY <3>1, SchedulerAssumption DEF Ctl, Modes, Stacks, Types
      <3>3. QED
        BY <3>2, Zenon DEF Own, Same
    <2>3. \A d \in Cpu : mode'[d] \in Reaping => arg'[d] \in Cpu
      BY Zenon DEF Ctl, Modes, Own
    <2>4. \A d, e \in Cpu : mode'[d] \in Reaping /\ mode'[e] \in Reaping
                              /\ arg'[d] = arg'[e] => d = e
      BY DEF Ctl, Modes, Own
    <2>5. \A d \in Cpu : mode'[d] = "switch" => pend'[d].new # NoTask
      BY DEF Ctl, Modes, Own
    <2>6. QED
      BY <2>1, <2>2, <2>3, <2>4, <2>5, Zenon DEF Modes
  <1>4. Hands'
    <2>1. \A s \in Task : frame'[s].hand # NoTask <=> Carries(s)'
      <3>1. SUFFICES ASSUME NEW s \in Task
                     PROVE  frame'[s].hand # NoTask <=> Carries(s)'
        BY Zenon
      <3>2. CASE s = t
        <4>1. \A d \in Cpu : exec[d] = t => d = c
          BY SchedulerAssumption, Zenon DEF Ctl, Stacks
        <4>2. QED
          BY <3>2, <4>1, Zenon DEF Own, Carries
      <3>3. CASE s # t
        <4>1. frame'[s].at = frame[s].at /\ frame'[s].hand = frame[s].hand
          BY <3>3, Zenon DEF Own, Same
        <4>2. \A d \in Cpu : exec'[d] = s => exec[d] = s /\ mode'[d] = mode[d]
          BY <3>3, Zenon DEF Own
        <4>3. \A d \in Cpu : exec[d] = s => exec'[d] = s
          BY Zenon DEF Own
        <4>4. Carries(s)' <=> Carries(s)
          BY <4>1, <4>2, <4>3, Zenon DEF Carries
        <4>5. QED
          BY <4>1, <4>4, Zenon DEF Ctl, Hands
      <3>4. QED
        BY <3>2, <3>3, Zenon
    <2>2. \A s \in Task \ {t} : frame'[s].hand = frame[s].hand
      BY Zenon DEF Own, Same
    <2>3. \A s \in Task \ {t} : frame[s].hand # NoTask => frame'[t].hand # frame[s].hand
      <3>1. CASE frame'[t].hand \in {NoTask, frame[t].hand}
        BY <3>1, Zenon DEF Ctl, Hands
      <3>2. CASE frame'[t].hand \notin Flight
        BY <3>2, Zenon DEF Flight
      <3>3. QED
        BY <3>1, <3>2, Zenon DEF Own
    <2>4. \A r, s \in Task : frame'[r].hand = frame'[s].hand /\ frame'[r].hand # NoTask
                               => r = s
      BY <2>2, <2>3 DEF Ctl, Hands
    <2>5. QED
      BY <2>1, <2>4, Zenon DEF Hands
  <1>5. QED
    BY <1>1, <1>2, <1>3, <1>4 DEF Ctl

\* What it does to the tasks in hand: t drops the one it had and takes the one it has.
LEMMA FlightStep ==
    ASSUME Ctl, NEW c \in Cpu, NEW t \in Task, Own(c, t)
    PROVE  /\ frame'[t].hand = frame[t].hand => Flight' = Flight
           /\ frame[t].hand = NoTask /\ frame'[t].hand # NoTask =>
                Flight' = Flight \cup {frame'[t].hand}
           /\ frame[t].hand # NoTask /\ frame'[t].hand = NoTask =>
                Flight' = Flight \ {frame[t].hand}
  <1>1. \A s \in Task \ {t} : frame'[s].hand = frame[s].hand
    BY Zenon DEF Own, Same
  <1>2. ASSUME frame'[t].hand = frame[t].hand PROVE Flight' = Flight
    BY <1>1, <1>2, Zenon DEF Flight
  <1>3. ASSUME frame[t].hand = NoTask, frame'[t].hand # NoTask
        PROVE  Flight' = Flight \cup {frame'[t].hand}
    BY <1>1, <1>3, Zenon DEF Flight
  <1>4. ASSUME frame[t].hand # NoTask, frame'[t].hand = NoTask
        PROVE  Flight' = Flight \ {frame[t].hand}
    <2>1. \A s \in Task \ {t} : frame[s].hand # frame[t].hand
      BY <1>4, Zenon DEF Ctl, Hands
    <2>2. QED
      BY <1>1, <1>4, <2>1 DEF Flight
  <1>5. QED
    BY <1>2, <1>3, <1>4, Zenon

\* What it does to the locks: c may take or drop the one it reaps under.
LEMMA LocksStep ==
    ASSUME Ctl, NEW c \in Cpu, NEW t \in Task, Own(c, t)
    PROVE  /\ Locks' = [k \in Cpu |-> Locked(k)']
           /\ mode[c] \notin Reaping /\ mode'[c] \notin Reaping => Locks' = Locks
           /\ mode[c] \in Reaping /\ mode'[c] = mode[c] /\ arg'[c] = arg[c] => Locks' = Locks
           /\ mode[c] \notin Reaping /\ mode'[c] \in Reaping /\ ~Locked(arg'[c]) =>
                Locks' = [Locks EXCEPT ![arg'[c]] = TRUE]
           /\ mode[c] \in Reaping /\ mode'[c] \notin Reaping =>
                Locks' = [Locks EXCEPT ![arg[c]] = FALSE]
  <1>1. Locks' = [k \in Cpu |-> Locked(k)']
    BY Zenon DEF Locks
  <1>2. \A k \in Cpu : Locked(k)' <=> \/ \E d \in Cpu \ {c} : mode[d] \in Reaping /\ arg[d] = k
                                      \/ mode'[c] \in Reaping /\ arg'[c] = k
    BY DEF Own, Locked, Reaping
  <1>3. \A k \in Cpu : Locked(k) <=> \/ \E d \in Cpu \ {c} : mode[d] \in Reaping /\ arg[d] = k
                                     \/ mode[c] \in Reaping /\ arg[c] = k
    BY Zenon DEF Locked, Reaping
  <1>4. \A d \in Cpu \ {c} : mode[d] \in Reaping /\ mode[c] \in Reaping => arg[d] # arg[c]
    BY Zenon DEF Ctl, Modes
  <1>5. ASSUME \A k \in Cpu : Locked(k)' <=> Locked(k) PROVE Locks' = Locks
    <2>1. \A k \in Cpu : Locked(k)' = Locked(k)
      BY <1>5, Zenon DEF Locked
    <2>2. QED
      BY <1>1, <2>1, Zenon DEF Locks
  <1>6. ASSUME NEW a \in Cpu, NEW b \in BOOLEAN,
               \A k \in Cpu : Locked(k)' <=> IF k = a THEN b ELSE Locked(k)
        PROVE  Locks' = [Locks EXCEPT ![a] = b]
    <2>1. \A k \in Cpu : Locked(k)' = IF k = a THEN b ELSE Locked(k)
      BY <1>6, Zenon DEF Locked
    <2>2. [Locks EXCEPT ![a] = b] = [k \in Cpu |-> IF k = a THEN b ELSE Locked(k)]
      BY Zenon DEF Locks
    <2>3. QED
      BY <1>1, <2>1, <2>2, Zenon
  <1>7. mode[c] \notin Reaping /\ mode'[c] \notin Reaping => Locks' = Locks
    BY <1>2, <1>3, <1>5, Zenon
  <1>8. mode[c] \in Reaping /\ mode'[c] = mode[c] /\ arg'[c] = arg[c] => Locks' = Locks
    BY <1>2, <1>3, <1>5, Zenon
  <1>9. ASSUME mode[c] \notin Reaping, mode'[c] \in Reaping, ~Locked(arg'[c])
        PROVE  Locks' = [Locks EXCEPT ![arg'[c]] = TRUE]
    <2>1. arg'[c] \in Cpu
      BY <1>9, Zenon DEF Own
    <2>2. \A k \in Cpu : Locked(k)' <=> IF k = arg'[c] THEN TRUE ELSE Locked(k)
      BY <1>2, <1>3, <1>9, Zenon
    <2>3. QED
      BY <1>6, <2>1, <2>2, Zenon
  <1>10. ASSUME mode[c] \in Reaping, mode'[c] \notin Reaping
         PROVE  Locks' = [Locks EXCEPT ![arg[c]] = FALSE]
    <2>1. arg[c] \in Cpu
      BY <1>10, Zenon DEF Ctl, Modes
    <2>2. \A k \in Cpu : Locked(k)' <=> IF k = arg[c] THEN FALSE ELSE Locked(k)
      BY <1>2, <1>3, <1>4, <1>10, Zenon
    <2>3. QED
      BY <1>6, <2>1, <2>2, Zenon
  <1>11. QED
    BY <1>1, <1>7, <1>8, <1>9, <1>10, Zenon

\* The locals of a context.
LEMMA FieldsAre ==
    Fields = {"at", "masked", "ret", "ycpu", "scpu", "off", "hand", "tid", "best", "load", "wait"}
  BY Zenon DEF Fields, Frame0

\* There is a first CPU.
LEMMA ZeroCpu == 0 \in Cpu
  BY RunQueuesAssumption DEF Cpu

\* Assigning to locals of context t leaves the other contexts alone.
LEMMA SameRest ==
    ASSUME Ctl, NEW t \in Task, NEW f,
           (frame' = [frame EXCEPT ![t] = f] \/ (frame' = frame /\ f = frame[t]))
    PROVE  /\ DOMAIN frame' = Task /\ frame'[t] = f
           /\ \A s \in Task \ {t} : Same(frame'[s], frame[s])
  BY Zenon DEF Ctl, Types, Same

\* A fresh frame.
LEMMA FreshFrame ==
    FrameOK(Shell, Frame0("run")) /\ Frame0("run").hand = NoTask /\ Frame0("run").at = "run"
  BY RunQueuesAssumption DEF FrameOK, Frame0, Fields, Points, Back, Cpu, ShellPoints, IdlePoints

\* CPU c runs code of a task, in no handler and in no critical section.
LEMMA InTask ==
    ASSUME Ctl, NEW c \in Cpu, NEW l, At(c, l)
    PROVE  /\ exec[c] \in Task /\ mode[c] = "task" /\ frame[exec[c]].at = l
           /\ FrameOK(exec[c], frame[exec[c]])
           /\ \A d \in Cpu : exec[d] = exec[c] => d = c
           /\ frame[exec[c]].hand # NoTask <=> l \in CarryPoints
  BY SchedulerAssumption DEF Ctl, Types, Stacks, Hands, Carries, At

\* CPU c enters mode m, its context t going on as f says, perhaps with another task in
\* hand; no lock is taken or dropped.
Handles(c, t, f, m) ==
    /\ exec[c] = t /\ FrameOK(t, f)
    /\ frame' = [frame EXCEPT ![t] = f] \/ (frame' = frame /\ f = frame[t])
    /\ mode' = [mode EXCEPT ![c] = m] \/ (mode' = mode /\ m = mode[c])
    /\ UNCHANGED <<exec, arg, pend, rsp>>
    /\ mode[c] \notin Reaping /\ m \in Mode \ Reaping /\ m # "switch"
    /\ m \in {"steal", "insert", "select"} => f.at \in Back
    /\ f.hand \in {NoTask, frame[t].hand} \/ f.hand \notin Flight
    /\ f.hand # NoTask <=> f.at \in CarryPoints \/ m = "insert"

\* Such a step keeps the control state sound.
LEMMA HandlesKeeps ==
    ASSUME Ctl, NEW c \in Cpu, NEW t \in Task, NEW f, NEW m, Handles(c, t, f, m)
    PROVE  /\ Ctl' /\ Locks' = Locks
           /\ f.hand = frame[t].hand => Flight' = Flight
           /\ frame[t].hand = NoTask /\ f.hand # NoTask => Flight' = Flight \cup {f.hand}
           /\ frame[t].hand # NoTask /\ f.hand = NoTask => Flight' = Flight \ {frame[t].hand}
  <1>1. /\ DOMAIN frame' = Task /\ frame'[t] = f
        /\ \A s \in Task \ {t} : Same(frame'[s], frame[s])
    BY SameRest, Zenon DEF Handles
  <1>2. /\ mode' \in [Cpu -> Mode] /\ mode'[c] = m
        /\ \A d \in Cpu \ {c} : mode'[d] = mode[d]
    BY DEF Ctl, Types, Handles
  <1>3. Own(c, t)
    BY <1>1, <1>2, ZenonT(30) DEF Own, Ctl, Types, Stacks, Handles
  <1>4. Ctl'
    BY <1>3, OwnKeeps, Zenon DEF Handles
  <1>5. Locks' = Locks
    BY <1>2, <1>3, LocksStep, Zenon DEF Handles
  <1>6. QED
    BY <1>1, <1>3, <1>4, <1>5, FlightStep, Zenon

\* The queues stay as they are.
Still == UNCHANGED <<tasks, current, state, Flight, Locks>>

\* A task calls yield_now: only its own locals change.
LEMMA YieldCallStep ==
    ASSUME Ctl, NEW c \in Cpu, YieldCall(c)
    PROVE  Ctl' /\ Still
  <1> DEFINE t == exec[c]
  <1>1. PICK l \in DOMAIN AfterYield :
          /\ At(c, l)
          /\ frame' = [frame EXCEPT ![t].at = "y_enter", ![t].ret = AfterYield[l],
                                    ![t].ycpu = c,
                                    ![t].masked = IF l = "run" THEN t \in User ELSE @]
    BY Zenon DEF YieldCall
  <1>2. l \in {"run", "s_loop", "x_yield", "f_yield", "i_yield"} /\ AfterYield[l] \in Back
        /\ (AfterYield[l] = "idle" => l = "i_yield")
    BY <1>1 DEF AfterYield, Back
  <1>3. /\ t \in Task /\ mode[c] = "task" /\ frame[t].at = l /\ FrameOK(t, frame[t])
        /\ frame[t].hand = NoTask
    BY <1>1, <1>2, InTask DEF CarryPoints
  <1> DEFINE f == [frame[t] EXCEPT !.at = "y_enter", !.ret = AfterYield[l], !.ycpu = c,
                     !.masked = IF l = "run" THEN t \in User ELSE @]
  <1>4. frame' = [frame EXCEPT ![t] = f]
    BY <1>1, Zenon
  <1>5. FrameOK(t, f) /\ f.hand = frame[t].hand /\ f.at = "y_enter"
    BY <1>2, <1>3, FieldsAre, ZenonT(30) DEF FrameOK, Points, ShellPoints, IdlePoints
  <1>6. UNCHANGED <<tasks, current, state, exec, mode, arg, pend, rsp>>
    BY Zenon DEF YieldCall, queues, tcbs, cpus
  <1> HIDE DEF t, f
  <1>7. Ctl' /\ Flight' = Flight /\ Locks' = Locks
    <2>1. Handles(c, t, f, "task")
      BY <1>3, <1>4, <1>5, <1>6 DEF Handles, Mode, Reaping, CarryPoints, t
    <2>2. QED
      BY <1>3, <1>4, <1>5, <1>6, <2>1, HandlesKeeps, ZenonT(30)
  <1>8. QED
    BY <1>6, <1>7, Zenon DEF Still

\* yield_now looks for work before it elects: only control moves.
LEMMA YieldCheckStep ==
    ASSUME Ctl, NEW c \in Cpu, YieldCheck(c)
    PROVE  Ctl' /\ Still
  <1> DEFINE t == exec[c]
             k == frame[t].ycpu
             stealing == ~OtherReady(k) /\ Len(tasks[k]) > 1 /\ N > 1
             m == IF stealing THEN "steal" ELSE "select"
             f == [frame[t] EXCEPT !.at = frame[t].ret,
                                   !.off = IF stealing THEN 1 ELSE @,
                                   !.masked = @ /\ frame[t].ret \notin {"run", "f_hlt"}]
  <1>1. /\ At(c, "y_enter") /\ mode' = [mode EXCEPT ![c] = m]
        /\ frame' = [frame EXCEPT ![t] = f]
        /\ UNCHANGED <<tasks, current, state, exec, arg, pend, rsp>>
    BY Zenon DEF YieldCheck, Enter, queues, tcbs
  <1>2. /\ t \in Task /\ mode[c] = "task" /\ FrameOK(t, frame[t]) /\ frame[t].hand = NoTask
    BY <1>1, InTask, Zenon DEF CarryPoints
  <1>3. stealing => 1 \in Cpu
    BY RunQueuesAssumption DEF Cpu
  <1>4. /\ m \in Mode \ {"insert", "switch"} /\ m \notin Reaping /\ mode[c] \notin Reaping
    BY <1>2, Zenon DEF Mode, Reaping
  <1> HIDE DEF stealing, m
  <1>5. FrameOK(t, f) /\ f.hand = frame[t].hand /\ f.at \in Back
    BY <1>2, <1>3, FieldsAre DEF FrameOK, Points, ShellPoints, IdlePoints, Back
  <1> HIDE DEF t, f
  <1>6. Ctl' /\ Flight' = Flight /\ Locks' = Locks
    <2>1. Handles(c, t, f, m)
      BY <1>1, <1>2, <1>4, <1>5, Zenon DEF Handles, Mode, Reaping, CarryPoints, Back, t
    <2>2. QED
      BY <1>1, <1>2, <1>4, <1>5, <2>1, HandlesKeeps, Zenon
  <1>7. QED
    BY <1>1, <1>6, Zenon DEF Still

\* A task calls sleep_ticks.
LEMMA SleepCallStep ==
    ASSUME Ctl, NEW c \in Cpu, SleepCall(c)
    PROVE  Ctl' /\ Still
  <1> DEFINE t == exec[c]
             f == [frame[t] EXCEPT !.at = "s_mark", !.scpu = c, !.wait = SleepTicks,
                                   !.masked = t \in User]
  <1>1. /\ At(c, "run") /\ frame' = [frame EXCEPT ![t] = f]
        /\ UNCHANGED <<tasks, current, state, exec, mode, arg, pend, rsp>>
    BY Zenon DEF SleepCall, queues, tcbs, cpus
  <1>2. /\ t \in Task /\ mode[c] = "task" /\ FrameOK(t, frame[t]) /\ frame[t].hand = NoTask
    BY <1>1, InTask, Zenon DEF CarryPoints
  <1>3. FrameOK(t, f) /\ f.hand = frame[t].hand /\ f.at = "s_mark"
    BY <1>2, FieldsAre, ZenonT(30) DEF FrameOK, Points, ShellPoints, IdlePoints
  <1> HIDE DEF t, f
  <1>4. Ctl' /\ Flight' = Flight /\ Locks' = Locks
    <2>1. Handles(c, t, f, "task")
      BY <1>1, <1>2, <1>3, Zenon DEF Handles, Mode, Reaping, CarryPoints, t
    <2>2. QED
      BY <1>1, <1>2, <1>3, <2>1, HandlesKeeps, Zenon
  <1>5. QED
    BY <1>1, <1>4, Zenon DEF Still

\* sleep_ticks looks whether its wake tick has come.
LEMMA SleepCheckStep ==
    ASSUME Ctl, NEW c \in Cpu, SleepCheck(c)
    PROVE  Ctl' /\ Still
  <1> DEFINE t == exec[c]
             f == frame'[t]
  <1>1. /\ At(c, "s_check")
        /\ UNCHANGED <<tasks, current, state, exec, mode, arg, pend, rsp>>
    BY Zenon DEF SleepCheck, queues, tcbs, cpus
  <1>2. /\ t \in Task /\ mode[c] = "task" /\ FrameOK(t, frame[t]) /\ frame[t].hand = NoTask
    BY <1>1, InTask DEF CarryPoints
  <1>3. \/ frame' = [frame EXCEPT ![t] = [frame[t] EXCEPT !.at = "s_hlt", !.masked = FALSE]]
        \/ frame' = [frame EXCEPT ![t] = [frame[t] EXCEPT !.at = "run", !.masked = FALSE,
                                                          !.scpu = 0]]
    BY Zenon DEF SleepCheck
  <1>4. \/ f = [frame[t] EXCEPT !.at = "s_hlt", !.masked = FALSE]
        \/ f = [frame[t] EXCEPT !.at = "run", !.masked = FALSE, !.scpu = 0]
    BY <1>2, <1>3, Zenon DEF Ctl, Types
  <1>5. frame' = [frame EXCEPT ![t] = f]
    BY <1>2, <1>3 DEF Ctl, Types
  <1>6. FrameOK(t, f) /\ f.hand = frame[t].hand /\ f.at \in {"s_hlt", "run"}
    BY <1>2, <1>4, FieldsAre, ZeroCpu, ZenonT(30) DEF FrameOK, Points, ShellPoints, IdlePoints
  <1> HIDE DEF t, f
  <1>7. Ctl' /\ Flight' = Flight /\ Locks' = Locks
    <2>1. Handles(c, t, f, "task")
      BY <1>1, <1>2, <1>5, <1>6, Zenon DEF Handles, Mode, Reaping, CarryPoints, t
    <2>2. QED
      BY <1>1, <1>2, <1>5, <1>6, <2>1, HandlesKeeps
  <1>8. QED
    BY <1>1, <1>7, Zenon DEF Still

\* A task exits or faults.
LEMMA ExitCallStep ==
    ASSUME Ctl, NEW c \in Cpu, ExitCall(c)
    PROVE  Ctl' /\ Still
  <1> DEFINE t == exec[c]
  <1>1. PICK l \in {"x_mark", "f_mark"} :
          frame' = [frame EXCEPT ![t].at = l, ![t].scpu = c, ![t].masked = t \in User]
    BY Zenon DEF ExitCall
  <1> DEFINE f == [frame[t] EXCEPT !.at = l, !.scpu = c, !.masked = t \in User]
  <1>2. /\ At(c, "run") /\ frame' = [frame EXCEPT ![t] = f]
        /\ UNCHANGED <<tasks, current, state, exec, mode, arg, pend, rsp>>
    BY <1>1, ZenonT(30) DEF ExitCall, queues, tcbs, cpus
  <1>3. /\ t \in Task /\ mode[c] = "task" /\ FrameOK(t, frame[t]) /\ frame[t].hand = NoTask
    BY <1>2, InTask DEF CarryPoints
  <1>4. FrameOK(t, f) /\ f.hand = frame[t].hand /\ f.at = l
    BY <1>3, FieldsAre, Zenon DEF FrameOK, Points, ShellPoints, IdlePoints
  <1> HIDE DEF t, f
  <1>5. Ctl' /\ Flight' = Flight /\ Locks' = Locks
    <2>1. Handles(c, t, f, "task")
      BY <1>2, <1>3, <1>4, Zenon DEF Handles, Mode, Reaping, CarryPoints, t
    <2>2. QED
      BY <1>2, <1>3, <1>4, <2>1, HandlesKeeps
  <1>6. QED
    BY <1>2, <1>5, Zenon DEF Still

\* SYS_EXIT returns to its program.
LEMMA ExitReturnStep ==
    ASSUME Ctl, NEW c \in Cpu, ExitReturn(c)
    PROVE  Ctl' /\ Still
  <1> DEFINE t == exec[c]
             f == [frame[t] EXCEPT !.at = "run", !.masked = FALSE]
  <1>1. /\ At(c, "x_back") /\ frame' = [frame EXCEPT ![t] = f]
        /\ UNCHANGED <<tasks, current, state, exec, mode, arg, pend, rsp>>
    BY Zenon DEF ExitReturn, queues, tcbs, cpus
  <1>2. /\ t \in Task /\ mode[c] = "task" /\ FrameOK(t, frame[t]) /\ frame[t].hand = NoTask
    BY <1>1, InTask, ZenonT(30) DEF CarryPoints
  <1>3. FrameOK(t, f) /\ f.hand = frame[t].hand /\ f.at = "run"
    BY <1>2, FieldsAre, ZenonT(30) DEF FrameOK, Points, ShellPoints, IdlePoints
  <1> HIDE DEF t, f
  <1>4. Ctl' /\ Flight' = Flight /\ Locks' = Locks
    <2>1. Handles(c, t, f, "task")
      BY <1>1, <1>2, <1>3, Zenon DEF Handles, Mode, Reaping, CarryPoints, t
    <2>2. QED
      BY <1>1, <1>2, <1>3, <2>1, HandlesKeeps, ZenonT(30)
  <1>5. QED
    BY <1>1, <1>4, Zenon DEF Still

\* The idle loop decides what to do next.
LEMMA IdleCheckStep ==
    ASSUME Ctl, NEW c \in Cpu, IdleCheck(c)
    PROVE  Ctl' /\ Still
  <1> DEFINE t == exec[c]
             f == frame'[t]
  <1>1. /\ At(c, "idle")
        /\ UNCHANGED <<tasks, current, state, exec, mode, arg, pend, rsp>>
    BY Zenon DEF IdleCheck, queues, tcbs, cpus
  <1>2. /\ t \in Task /\ mode[c] = "task" /\ FrameOK(t, frame[t]) /\ frame[t].hand = NoTask
        /\ frame[t].at = "idle"
    BY <1>1, InTask DEF CarryPoints
  <1>3. PICK l \in {"i_yield", "i_hlt", "i_steal"} :
          \/ frame' = [frame EXCEPT ![t] = [frame[t] EXCEPT !.at = l]] /\ l # "i_steal"
          \/ /\ frame' = [frame EXCEPT ![t] = [frame[t] EXCEPT !.at = l, !.ycpu = c, !.off = 1]]
             /\ l = "i_steal"
    BY Zenon DEF IdleCheck, Goto
  <1>4. \/ f = [frame[t] EXCEPT !.at = l] /\ l # "i_steal"
        \/ f = [frame[t] EXCEPT !.at = l, !.ycpu = c, !.off = 1] /\ l = "i_steal"
    BY <1>2, <1>3, Zenon DEF Ctl, Types
  <1>5. frame' = [frame EXCEPT ![t] = f]
    BY <1>2, <1>3, Zenon DEF Ctl, Types
  <1>6. N > 1 /\ 1 \in Cpu
    BY <1>2, RunQueuesAssumption DEF FrameOK, IdlePoints, Cpu
  <1>7. FrameOK(t, f) /\ f.hand = frame[t].hand /\ f.at = l
    BY <1>2, <1>3, <1>4, <1>6, FieldsAre, ZenonT(30) DEF FrameOK, Points, ShellPoints, IdlePoints
  <1> HIDE DEF t, f
  <1>8. Ctl' /\ Flight' = Flight /\ Locks' = Locks
    <2>1. Handles(c, t, f, "task")
      BY <1>1, <1>2, <1>5, <1>7, Zenon DEF Handles, Mode, Reaping, CarryPoints, t
    <2>2. QED
      BY <1>1, <1>2, <1>5, <1>7, <2>1, HandlesKeeps, Zenon
  <1>9. QED
    BY <1>1, <1>8, Zenon DEF Still

-----------------------------------------------------------------------------
\* A step under the refinement mapping.
QStep == RQ!Next \/ Still

\* The critical sections of RunQueues, as steps.
LEMMA QActions ==
    /\ \A t \in Task : RQ!Create(t) => RQ!Next
    /\ \A t \in Task, c \in Cpu : RQ!Insert(t, c) \/ RQ!Kill(t, c) => RQ!Next
    /\ \A c \in Cpu : \A i \in Slots(c) : RQ!Steal(c, i) \/ RQ!Switch(c, i) \/ RQ!ReapOne(c, i) => RQ!Next
    /\ \A c \in Cpu, s \in {"Sleeping", "Dead"} : RQ!MarkCurrent(c, s) => RQ!Next
    /\ \A c \in Cpu, W \in SUBSET Task : RQ!Wake(c, W) => RQ!Next
    /\ \A c \in Cpu : RQ!ReapLock(c) \/ RQ!ReapUnlock(c) => RQ!Next
  <1>1. RQ!Cpu = Cpu /\ \A c : RQ!Slots(c) = Slots(c)
    BY Zenon DEF RQ!Cpu, Cpu, RQ!Slots, Slots
  <1>2. QED
    BY <1>1, Zenon DEF RQ!Next

\* The state of the queues, in words of both modules.
LEMMA QFacts ==
    ASSUME RQ!IInv, NEW k \in Cpu
    PROVE  /\ tasks \in [Cpu -> Seq(Task)] /\ current \in [Cpu -> Nat \ {0}]
           /\ Slots(k) = 1 .. Len(tasks[k]) /\ Len(tasks[k]) \in Nat
           /\ \A i \in Slots(k) : tasks[k][i] \in Task
           /\ current[k] \in Slots(k) /\ Cur(k) \in Task
           /\ DOMAIN state = Task
           /\ \A t \in Task : Queued(t, k) => t \notin Flight /\ state[t] # "Unborn"
           /\ \A t \in Task : state[t] = "Unborn" => t \notin Flight
  <1>1. RQ!TypeOK /\ RQ!CurrentInRange /\ RQ!Conserved
    BY Zenon DEF RQ!IInv
  <1>2. /\ tasks \in [Cpu -> Seq(Task)] /\ current \in [Cpu -> Nat \ {0}]
        /\ DOMAIN state = Task
    BY <1>1, Zenon DEF RQ!TypeOK, RQ!Cpu, Cpu
  <1>3. /\ Slots(k) = 1 .. Len(tasks[k]) /\ Len(tasks[k]) \in Nat
        /\ \A i \in Slots(k) : tasks[k][i] \in Task
    BY <1>2 DEF Slots
  <1>4. current[k] \in Slots(k)
    BY <1>1, Zenon DEF RQ!CurrentInRange, RQ!Slots, Slots, RQ!Cpu, Cpu
  <1>5. /\ \A t \in Task : Queued(t, k) => t \notin Flight /\ state[t] # "Unborn"
        /\ \A t \in Task : state[t] = "Unborn" => t \notin Flight
    BY <1>1, Zenon DEF RQ!Conserved, RQ!Queued, Queued, RQ!Slots, Slots, RQ!Cpu, Cpu
  <1>6. QED
    BY <1>2, <1>3, <1>4, <1>5, Zenon DEF Cur

\* sleep_ticks marks the current task of the queue it was called on.
LEMMA SleepMarkStep ==
    ASSUME IInv, NEW c \in Cpu, SleepMark(c)
    PROVE  Ctl' /\ QStep
  <1> DEFINE t == exec[c]
             k == frame[t].scpu
             f == [frame[t] EXCEPT !.at = "s_loop", !.wait = 0]
  <1>1. /\ At(c, "s_mark") /\ ~Locked(k) /\ frame' = [frame EXCEPT ![t] = f]
        /\ state' = [state EXCEPT ![Cur(k)] = "Sleeping"]
        /\ UNCHANGED <<tasks, current, exec, mode, arg, pend, rsp>>
    BY Zenon DEF SleepMark, queues, cpus
  <1>2. /\ t \in Task /\ mode[c] = "task" /\ FrameOK(t, frame[t]) /\ frame[t].hand = NoTask
    BY <1>1, InTask, ZenonT(30) DEF CarryPoints, IInv
  <1>3. /\ k \in Cpu /\ FrameOK(t, f) /\ f.hand = frame[t].hand /\ f.at = "s_loop"
    BY <1>2, FieldsAre, ZenonT(30) DEF FrameOK, Points, ShellPoints, IdlePoints
  <1> HIDE DEF t, f, k
  <1>4. Ctl' /\ Flight' = Flight /\ Locks' = Locks
    <2>1. Handles(c, t, f, "task")
      BY <1>1, <1>2, <1>3, ZenonT(30) DEF Handles, Mode, Reaping, CarryPoints, t
    <2>2. QED
      BY <1>1, <1>2, <1>3, <2>1, HandlesKeeps, Zenon DEF IInv
  <1>5. RQ!MarkCurrent(k, "Sleeping")
    BY <1>1, <1>3, <1>4, ZenonT(30) DEF RQ!MarkCurrent, RQ!Cur, Cur, Locks
  <1>6. QED
    BY <1>3, <1>4, <1>5, QActions, Zenon DEF QStep

\* SYS_EXIT, the end of a worker and a fault do the same with Dead.
LEMMA ExitMarkStep ==
    ASSUME IInv, NEW c \in Cpu, ExitMark(c)
    PROVE  Ctl' /\ QStep
  <1> DEFINE t == exec[c]
             k == frame[t].scpu
             l == IF frame[t].at = "x_mark" THEN "x_yield" ELSE "f_yield"
             f == [frame[t] EXCEPT !.scpu = 0, !.at = l]
  <1>1. /\ At(c, "x_mark") \/ At(c, "f_mark")
        /\ ~Locked(k) /\ frame' = [frame EXCEPT ![t] = f]
        /\ state' = [state EXCEPT ![Cur(k)] = "Dead"]
        /\ UNCHANGED <<tasks, current, exec, mode, arg, pend, rsp>>
    BY Zenon DEF ExitMark, queues, cpus
  <1>2. /\ t \in Task /\ mode[c] = "task" /\ FrameOK(t, frame[t]) /\ frame[t].hand = NoTask
    BY <1>1, InTask DEF CarryPoints, IInv
  <1>3. l \in {"x_yield", "f_yield"}
    BY Zenon
  <1> HIDE DEF l
  <1>4. /\ k \in Cpu /\ FrameOK(t, f) /\ f.hand = frame[t].hand /\ f.at = l
    BY <1>2, <1>3, FieldsAre, ZeroCpu, ZenonT(30) DEF FrameOK, Points, ShellPoints, IdlePoints
  <1> HIDE DEF t, f, k
  <1>5. Ctl' /\ Flight' = Flight /\ Locks' = Locks
    <2>1. Handles(c, t, f, "task")
      BY <1>1, <1>2, <1>3, <1>4, Zenon DEF Handles, Mode, Reaping, CarryPoints, t
    <2>2. QED
      BY <1>1, <1>2, <1>3, <1>4, <2>1, HandlesKeeps, SMTT(30) DEF IInv
  <1>6. RQ!MarkCurrent(k, "Dead")
    BY <1>1, <1>4, <1>5, Zenon DEF RQ!MarkCurrent, RQ!Cur, Cur, Locks
  <1>7. QED
    BY <1>4, <1>5, <1>6, QActions, ZenonT(30) DEF QStep

\* spawn creates a task that is in no queue yet.
LEMMA SpawnCallStep ==
    ASSUME IInv, NEW c \in Cpu, SpawnCall(c)
    PROVE  Ctl' /\ QStep
  <1>1. PICK x \in Task :
          /\ state[x] = "Unborn" /\ state' = [state EXCEPT ![x] = "Ready"]
          /\ frame' = [frame EXCEPT ![Shell].at = IF N = 1 THEN "sp_push" ELSE "sp_scan",
                                    ![Shell].hand = x]
    BY Zenon DEF SpawnCall
  <1> DEFINE l == IF N = 1 THEN "sp_push" ELSE "sp_scan"
             f == [frame[Shell] EXCEPT !.at = l, !.hand = x]
  <1>2. /\ At(c, "run") /\ exec[c] = Shell /\ frame' = [frame EXCEPT ![Shell] = f]
        /\ UNCHANGED <<tasks, current, exec, mode, arg, pend, rsp>>
    <2>1. frame' = [frame EXCEPT ![Shell] = f]
      BY <1>1, Zenon
    <2>2. At(c, "run") /\ exec[c] = Shell
          /\ UNCHANGED <<tasks, current, exec, mode, arg, pend, rsp>>
      BY Zenon DEF SpawnCall, queues, cpus
    <2>3. QED
      BY <2>1, <2>2, Zenon
  <1>3. /\ Shell \in Task /\ mode[c] = "task" /\ FrameOK(Shell, frame[Shell])
        /\ frame[Shell].hand = NoTask
    BY <1>2, InTask DEF CarryPoints, IInv
  <1>4. l \in {"sp_push", "sp_scan"}
    BY Zenon
  <1> HIDE DEF l
  <1>5. FrameOK(Shell, f) /\ f.hand = x /\ f.at = l
    BY <1>3, <1>4, FieldsAre, Zenon DEF FrameOK, Points, ShellPoints, IdlePoints
  <1>6. x # NoTask /\ x \notin Flight
    BY <1>1, QFacts, ZeroCpu, SchedulerAssumption, Zenon DEF IInv
  <1> HIDE DEF f
  <1>7. Handles(c, Shell, f, "task")
    BY <1>2, <1>3, <1>4, <1>5, <1>6, Zenon DEF Handles, Mode, Reaping, CarryPoints
  <1>8. Ctl' /\ Locks' = Locks /\ Flight' = Flight \cup {x}
    BY <1>3, <1>5, <1>6, <1>7, HandlesKeeps, Zenon DEF IInv
  <1>9. RQ!Create(x)
    BY <1>1, <1>2, <1>8, Zenon DEF RQ!Create
  <1>10. QED
    BY <1>8, <1>9, QActions, Zenon DEF QStep

\* choose_target_cpu looks at one queue.
LEMMA SpawnScanStep ==
    ASSUME Ctl, NEW c \in Cpu, SpawnScan(c)
    PROVE  Ctl' /\ Still
  <1> DEFINE g == frame[Shell]
             b == IF g.off = 0 \/ Len(tasks[g.off]) < g.load THEN g.off ELSE g.best
             n == IF g.off = 0 \/ Len(tasks[g.off]) < g.load THEN Len(tasks[g.off]) ELSE g.load
             o == IF g.off + 1 < N THEN g.off + 1 ELSE 0
             l == IF g.off + 1 < N THEN g.at ELSE "sp_push"
             f == [frame[Shell] EXCEPT !.best = b, !.load = n, !.off = o, !.at = l]
  <1>1. At(c, "sp_scan") /\ UNCHANGED <<tasks, current, state, exec, mode, arg, pend, rsp>>
    BY Zenon DEF SpawnScan, queues, tcbs, cpus
  <1>2. /\ exec[c] = Shell /\ Shell \in Task /\ mode[c] = "task"
        /\ FrameOK(Shell, frame[Shell]) /\ g.at = "sp_scan" /\ g.hand # NoTask
    BY <1>1, InTask DEF CarryPoints, FrameOK, ShellPoints
  <1>3. frame' = [frame EXCEPT ![Shell] = f]
    BY <1>2, FieldsAre, ZenonT(30) DEF SpawnScan, FrameOK
  <1>4. b \in Cpu /\ o \in Cpu /\ l \in {"sp_scan", "sp_push"}
    BY <1>2, RunQueuesAssumption DEF FrameOK, Cpu
  <1> HIDE DEF b, n, o, l
  <1>5. FrameOK(Shell, f) /\ f.hand = frame[Shell].hand /\ f.at = l
    BY <1>2, <1>4, FieldsAre, Zenon DEF FrameOK, Points, ShellPoints, IdlePoints
  <1> HIDE DEF f
  <1>6. Ctl' /\ Flight' = Flight /\ Locks' = Locks
    <2>1. Handles(c, Shell, f, "task")
      BY <1>1, <1>2, <1>3, <1>4, <1>5, Zenon DEF Handles, Mode, Reaping, CarryPoints
    <2>2. QED
      BY <1>1, <1>2, <1>3, <1>4, <1>5, <2>1, HandlesKeeps
  <1>7. QED
    BY <1>1, <1>6, Zenon DEF Still

\* spawn pushes the new task on the queue it chose.
LEMMA SpawnPushStep ==
    ASSUME IInv, NEW c \in Cpu, SpawnPush(c)
    PROVE  Ctl' /\ QStep
  <1> DEFINE g == frame[Shell]
  <1>1. /\ At(c, "sp_push") /\ ~Locked(g.best)
        /\ tasks' = [tasks EXCEPT ![g.best] = Append(@, g.hand)]
        /\ frame' = [frame EXCEPT ![Shell] = Frame0("run")]
        /\ UNCHANGED <<current, state, exec, mode, arg, pend, rsp>>
    BY Zenon DEF SpawnPush, Push, tcbs, cpus
  <1>2. /\ exec[c] = Shell /\ Shell \in Task /\ mode[c] = "task"
        /\ FrameOK(Shell, g) /\ g.hand # NoTask /\ g.hand \in Task /\ g.best \in Cpu
    <2>1. /\ exec[c] \in Task /\ mode[c] = "task" /\ frame[exec[c]].at = "sp_push"
          /\ FrameOK(exec[c], frame[exec[c]]) /\ frame[exec[c]].hand # NoTask
      BY <1>1, InTask, Zenon DEF CarryPoints, IInv
    <2>2. exec[c] = Shell
      BY <2>1, Zenon DEF FrameOK, ShellPoints
    <2>3. QED
      BY <2>1, <2>2, Zenon DEF FrameOK
  <1>3. Handles(c, Shell, Frame0("run"), "task")
    BY <1>1, <1>2, FreshFrame, Zenon DEF Handles, Mode, Reaping, CarryPoints
  <1>4. Ctl' /\ Locks' = Locks /\ Flight' = Flight \ {g.hand}
    BY <1>2, <1>3, FreshFrame, HandlesKeeps, Zenon DEF IInv
  <1>5. g.hand \in Flight
    BY <1>2, Zenon DEF Flight
  <1> HIDE DEF g
  <1>6. RQ!Insert(g.hand, g.best)
    BY <1>1, <1>2, <1>4, <1>5, Zenon DEF RQ!Insert, Locks
  <1>7. QED
    BY <1>2, <1>4, <1>6, QActions, Zenon DEF QStep

\* kill_task is called.
LEMMA KillCallStep ==
    ASSUME Ctl, NEW c \in Cpu, KillCall(c)
    PROVE  Ctl' /\ Still
  <1>1. PICK x \in Targets : frame' = [frame EXCEPT ![Shell].at = "k_scan", ![Shell].tid = x]
    BY Zenon DEF KillCall
  <1> DEFINE f == [frame[Shell] EXCEPT !.at = "k_scan", !.tid = x]
  <1>2. /\ At(c, "run") /\ exec[c] = Shell /\ frame' = [frame EXCEPT ![Shell] = f]
        /\ UNCHANGED <<tasks, current, state, exec, mode, arg, pend, rsp>>
    BY <1>1, ZenonT(30) DEF KillCall, queues, tcbs, cpus
  <1>3. /\ Shell \in Task /\ mode[c] = "task" /\ FrameOK(Shell, frame[Shell])
        /\ frame[Shell].hand = NoTask
    BY <1>2, InTask DEF CarryPoints
  <1>4. FrameOK(Shell, f) /\ f.hand = frame[Shell].hand /\ f.at = "k_scan"
    BY <1>3, FieldsAre, Zenon DEF FrameOK, Points, ShellPoints, IdlePoints
  <1> HIDE DEF f
  <1>5. Ctl' /\ Flight' = Flight /\ Locks' = Locks
    <2>1. Handles(c, Shell, f, "task")
      BY <1>2, <1>3, <1>4, Zenon DEF Handles, Mode, Reaping, CarryPoints
    <2>2. QED
      BY <1>2, <1>3, <1>4, <2>1, HandlesKeeps
  <1>6. QED
    BY <1>2, <1>5, Zenon DEF Still

\* kill_task looks at one queue, and marks the task if it is there.
LEMMA KillScanStep ==
    ASSUME IInv, NEW c \in Cpu, KillScan(c)
    PROVE  Ctl' /\ QStep
  <1> DEFINE g == frame[Shell]
  <1>1. /\ At(c, "k_scan") /\ ~Locked(g.off)
        /\ UNCHANGED <<tasks, current, exec, mode, arg, pend, rsp>>
    BY Zenon DEF KillScan, queues, cpus
  <1>2. /\ exec[c] = Shell /\ Shell \in Task /\ mode[c] = "task"
        /\ FrameOK(Shell, g) /\ g.hand = NoTask /\ g.off \in Cpu
    <2>1. /\ exec[c] \in Task /\ mode[c] = "task" /\ frame[exec[c]].at = "k_scan"
          /\ FrameOK(exec[c], frame[exec[c]]) /\ frame[exec[c]].hand = NoTask
      BY <1>1, InTask, ZenonT(30) DEF CarryPoints, IInv
    <2>2. exec[c] = Shell
      BY <2>1, Zenon DEF FrameOK, ShellPoints
    <2>3. QED
      BY <2>1, <2>2, Zenon DEF FrameOK
  <1>3. CASE Queued(g.tid, g.off)
    <2> DEFINE f == [g EXCEPT !.at = "k_reap"]
    <2>1. /\ state' = [state EXCEPT ![g.tid] = "Dead"]
          /\ frame' = [frame EXCEPT ![Shell] = f]
      BY <1>3, Zenon DEF KillScan, Goto
    <2>2. FrameOK(Shell, f) /\ f.hand = NoTask /\ f.at = "k_reap"
      BY <1>2, FieldsAre, ZenonT(30) DEF FrameOK, Points, ShellPoints, IdlePoints
    <2>3. g.tid \in Task
      BY <1>2, <1>3, QFacts, Zenon DEF Queued, IInv
    <2> HIDE DEF f
    <2>4. Ctl' /\ Flight' = Flight /\ Locks' = Locks
      <3>1. Handles(c, Shell, f, "task")
        BY <1>1, <1>2, <2>1, <2>2, Zenon DEF Handles, Mode, Reaping, CarryPoints
      <3>2. QED
        BY <1>1, <1>2, <2>1, <2>2, <3>1, HandlesKeeps, SMTT(30) DEF IInv
    <2> HIDE DEF g
    <2>5. RQ!Kill(g.tid, g.off)
      BY <1>1, <1>2, <1>3, <2>1, <2>4, Zenon DEF RQ!Kill, Locks, RQ!Queued, Queued, RQ!Slots, Slots
    <2>6. QED
      BY <1>2, <2>3, <2>4, <2>5, QActions, ZenonT(30) DEF QStep
  <1>4. CASE ~Queued(g.tid, g.off)
    <2> DEFINE f == IF g.off + 1 < N THEN [g EXCEPT !.off = g.off + 1] ELSE Frame0("run")
    <2>1. /\ UNCHANGED state
          /\ frame' = [frame EXCEPT ![Shell] = f]
      BY <1>4, Zenon DEF KillScan
    <2>2. g.off + 1 < N => g.off + 1 \in Cpu
      BY <1>2, RunQueuesAssumption DEF Cpu
    <2>3. g.at = "k_scan"
      BY <1>1, <1>2, Zenon DEF At
    <2>4. FrameOK(Shell, f) /\ f.hand = NoTask /\ f.at \notin CarryPoints
      <3>1. CASE g.off + 1 < N
        BY <1>2, <2>2, <2>3, <3>1, FieldsAre, Zenon
        DEF FrameOK, Points, ShellPoints, IdlePoints, CarryPoints
      <3>2. CASE ~(g.off + 1 < N)
        BY <3>2, FreshFrame, Zenon DEF CarryPoints
      <3>3. QED
        BY <3>1, <3>2, Zenon
    <2> HIDE DEF f
    <2>5. Ctl' /\ Flight' = Flight /\ Locks' = Locks
      <3>1. Handles(c, Shell, f, "task")
        BY <1>1, <1>2, <2>1, <2>4, Zenon DEF Handles, Mode, Reaping, CarryPoints
      <3>2. QED
        BY <1>1, <1>2, <2>1, <2>4, <3>1, HandlesKeeps, SMTT(30) DEF IInv
    <2>6. QED
      BY <1>1, <2>1, <2>5, Zenon DEF QStep, Still
  <1>5. QED
    BY <1>3, <1>4, Zenon

\* CPU c enters mode m with argument k, its context t going on as f says: a step that
\* may take, keep or drop the lock of a reaping loop.
Reaper(c, t, f, m, k) ==
    /\ exec[c] = t /\ FrameOK(t, f)
    /\ frame' = [frame EXCEPT ![t] = f] \/ (frame' = frame /\ f = frame[t])
    /\ mode' = [mode EXCEPT ![c] = m] /\ arg' = [arg EXCEPT ![c] = k]
    /\ UNCHANGED <<exec, pend, rsp>>
    /\ m \in Mode \ {"steal", "insert", "select", "switch"} /\ k \in 0 .. N
    /\ m \in Reaping => k \in Cpu /\ \A d \in Cpu \ {c} : mode[d] \in Reaping => arg[d] # k
    /\ f.hand = frame[t].hand
    /\ f.hand # NoTask <=> f.at \in CarryPoints

\* Such a step keeps the control state sound and leaves the tasks in hand alone.
LEMMA ReaperKeeps ==
    ASSUME Ctl, NEW c \in Cpu, NEW t \in Task, NEW f, NEW m, NEW k, Reaper(c, t, f, m, k)
    PROVE  /\ Ctl' /\ Flight' = Flight
           /\ Own(c, t) /\ mode'[c] = m /\ arg'[c] = k
  <1>1. /\ DOMAIN frame' = Task /\ frame'[t] = f
        /\ \A s \in Task \ {t} : Same(frame'[s], frame[s])
    BY SameRest, Zenon DEF Reaper
  <1>2. /\ mode' \in [Cpu -> Mode] /\ mode'[c] = m
        /\ \A d \in Cpu \ {c} : mode'[d] = mode[d]
    BY Zenon DEF Ctl, Types, Reaper
  <1>3. /\ arg' \in [Cpu -> 0 .. N] /\ arg'[c] = k
        /\ \A d \in Cpu \ {c} : arg'[d] = arg[d]
    BY Zenon DEF Ctl, Types, Reaper
  <1>4. Own(c, t)
    BY <1>1, <1>2, <1>3, SMTT(30) DEF Own, Ctl, Types, Stacks, Reaper
  <1>5. QED
    BY <1>1, <1>2, <1>3, <1>4, OwnKeeps, FlightStep, Zenon DEF Reaper

\* A context in a handler or in a reaping loop has its own CPU and no task in hand but
\* the one its program point says.
LEMMA InHandler ==
    ASSUME Ctl, NEW c \in Cpu, mode[c] \notin {"task", "insert"}
    PROVE  /\ exec[c] \in Task /\ FrameOK(exec[c], frame[exec[c]])
           /\ frame[exec[c]].hand # NoTask <=> frame[exec[c]].at \in CarryPoints
  <1>1. exec[c] \in Task /\ FrameOK(exec[c], frame[exec[c]])
    BY SchedulerAssumption, Zenon DEF Ctl, Types, Modes
  <1>2. \A d \in Cpu : exec[d] = exec[c] => d = c
    BY <1>1, SchedulerAssumption, Zenon DEF Ctl, Stacks
  <1>3. frame[exec[c]].hand # NoTask <=> frame[exec[c]].at \in CarryPoints
    BY <1>1, <1>2 DEF Ctl, Hands, Carries
  <1>4. QED
    BY <1>1, <1>3, Zenon

\* Whoever holds the lock of a queue keeps the others out.
LEMMA Unlocked ==
    ASSUME NEW k \in Cpu, ~Locked(k), NEW d \in Cpu, mode[d] \in Reaping
    PROVE  arg[d] # k
  BY Zenon DEF Locked, Reaping

\* kill_task takes the lock of the queue it found the task in.
LEMMA KillReapStep ==
    ASSUME IInv, NEW c \in Cpu, KillReap(c)
    PROVE  Ctl' /\ QStep
  <1> DEFINE k == frame[Shell].off
  <1>1. /\ At(c, "k_reap") /\ ~Locked(k) /\ mode' = [mode EXCEPT ![c] = "kreap"]
        /\ arg' = [arg EXCEPT ![c] = k] /\ frame' = [frame EXCEPT ![Shell] = Frame0("run")]
        /\ UNCHANGED <<tasks, current, state, exec, pend, rsp>>
    BY Zenon DEF KillReap, Enter, queues, tcbs
  <1>2. /\ exec[c] = Shell /\ Shell \in Task /\ mode[c] = "task"
        /\ frame[Shell].hand = NoTask /\ k \in Cpu
    <2>1. /\ exec[c] \in Task /\ mode[c] = "task" /\ frame[exec[c]].at = "k_reap"
          /\ FrameOK(exec[c], frame[exec[c]]) /\ frame[exec[c]].hand = NoTask
      BY <1>1, InTask, ZenonT(30) DEF CarryPoints, IInv
    <2>2. exec[c] = Shell
      BY <2>1, Zenon DEF FrameOK, ShellPoints
    <2>3. QED
      BY <2>1, <2>2, Zenon DEF FrameOK
  <1>3. \A d \in Cpu \ {c} : mode[d] \in Reaping => arg[d] # k
    BY <1>1, <1>2, Unlocked, Zenon
  <1>4. k \in 0 .. N
    BY <1>2, RunQueuesAssumption, SMTT(30) DEF Cpu
  <1>5. Reaper(c, Shell, Frame0("run"), "kreap", k)
    BY <1>1, <1>2, <1>3, <1>4, FreshFrame, Zenon DEF Reaper, Reaping, Mode, CarryPoints
  <1>6. Ctl' /\ Flight' = Flight /\ Locks' = [Locks EXCEPT ![k] = TRUE]
    <2>1. Ctl' /\ Flight' = Flight /\ Own(c, Shell) /\ mode'[c] = "kreap" /\ arg'[c] = k
      BY <1>2, <1>5, ReaperKeeps DEF IInv
    <2>2. QED
      BY <1>1, <1>2, <2>1, LocksStep, ZenonT(30) DEF IInv, Reaping
  <1>7. ~Locks[k]
    BY <1>1, <1>2, Zenon DEF Locks
  <1>8. RQ!ReapLock(k)
    BY <1>1, <1>6, <1>7, Zenon DEF RQ!ReapLock
  <1>9. QED
    BY <1>2, <1>6, <1>8, QActions, Zenon DEF QStep

\* The local timer takes the lock of its own queue.
LEMMA TimerReapStep ==
    ASSUME IInv, NEW c \in Cpu, TimerReap(c)
    PROVE  Ctl' /\ QStep
  <1>1. /\ mode[c] = "reap0" /\ ~Locked(c) /\ mode' = [mode EXCEPT ![c] = "reap"]
        /\ arg' = [arg EXCEPT ![c] = c] /\ frame' = frame
        /\ UNCHANGED <<tasks, current, state, exec, pend, rsp>>
    BY Zenon DEF TimerReap, Enter, queues, tcbs
  <1>2. /\ exec[c] \in Task /\ FrameOK(exec[c], frame[exec[c]])
        /\ frame[exec[c]].hand # NoTask <=> frame[exec[c]].at \in CarryPoints
    BY <1>1, InHandler, Zenon DEF IInv
  <1>3. \A d \in Cpu \ {c} : mode[d] \in Reaping => arg[d] # c
    BY <1>1, Unlocked, Zenon
  <1>4. c \in 0 .. N
    BY RunQueuesAssumption, SMTT(30) DEF Cpu
  <1>5. Reaper(c, exec[c], frame[exec[c]], "reap", c)
    BY <1>1, <1>2, <1>3, <1>4, Zenon DEF Reaper, Reaping, Mode
  <1>6. Ctl' /\ Flight' = Flight /\ Locks' = [Locks EXCEPT ![c] = TRUE]
    <2>1. Ctl' /\ Flight' = Flight /\ Own(c, exec[c]) /\ mode'[c] = "reap" /\ arg'[c] = c
      BY <1>2, <1>5, ReaperKeeps, Zenon DEF IInv
    <2>2. QED
      BY <1>1, <1>2, <2>1, LocksStep, Zenon DEF IInv, Reaping
  <1>7. ~Locks[c]
    BY <1>1, Zenon DEF Locks
  <1>8. RQ!ReapLock(c)
    BY <1>1, <1>6, <1>7, Zenon DEF RQ!ReapLock
  <1>9. QED
    BY <1>6, <1>8, QActions, Zenon DEF QStep

\* The removal of a slot is the same in both modules.
LEMMA RemoveIs == ASSUME NEW k, NEW i, Remove(k, i) PROVE RQ!TakeOut(k, i)
  BY Zenon DEF Remove, RQ!TakeOut, RQ!RemoveSlot

-----------------------------------------------------------------------------
\* The victims of try_steal_task are CPUs.
LEMMA VictimIsCpu == ASSUME NEW a \in Cpu, NEW b \in Cpu PROVE (a + b) % N \in Cpu
  BY RunQueuesAssumption, SMTT(30) DEF Cpu

\* A context that is looking for work or has found some, in yield_now or in the idle loop.
LEMMA InSteal ==
    ASSUME Ctl, NEW c \in Cpu,
           mode[c] \in {"steal", "insert"} \/ At(c, "i_steal") \/ At(c, "i_insert")
    PROVE  /\ exec[c] \in Task /\ FrameOK(exec[c], frame[exec[c]])
           /\ mode[c] \in {"steal", "insert"} => frame[exec[c]].at \in Back
           /\ mode[c] \notin {"steal", "insert"} =>
                mode[c] = "task" /\ frame[exec[c]].at \in {"i_steal", "i_insert"}
           /\ frame[exec[c]].hand # NoTask <=> mode[c] = "insert" \/ frame[exec[c]].at = "i_insert"
  <1>1. exec[c] \in Task /\ FrameOK(exec[c], frame[exec[c]])
    BY SchedulerAssumption, Zenon DEF Ctl, Types, Modes, At
  <1>2. \A d \in Cpu : exec[d] = exec[c] => d = c
    BY <1>1, SchedulerAssumption, Zenon DEF Ctl, Stacks
  <1>3. /\ mode[c] \in {"steal", "insert"} => frame[exec[c]].at \in Back
        /\ mode[c] \notin {"steal", "insert"} =>
                mode[c] = "task" /\ frame[exec[c]].at \in {"i_steal", "i_insert"}
    BY Zenon DEF Ctl, Modes, At
  <1>4. frame[exec[c]].hand # NoTask <=> frame[exec[c]].at \in CarryPoints \/ mode[c] = "insert"
    BY <1>1, <1>2, ZenonT(30) DEF Ctl, Hands, Carries
  <1>5. QED
    BY <1>1, <1>3, <1>4, Zenon DEF CarryPoints, Back

\* The thief's half of a steal.
LEMMA StealInsertStep ==
    ASSUME IInv, NEW c \in Cpu, StealInsert(c)
    PROVE  Ctl' /\ QStep
  <1> DEFINE t == exec[c]
             k == frame[t].ycpu
             x == frame[t].hand
             y == IF mode[c] = "insert" THEN frame[t].ycpu ELSE 0
             l == IF mode[c] = "insert" THEN frame[t].at ELSE "i_hlt"
             m == IF mode[c] = "insert" THEN "select" ELSE "task"
             f == [frame[t] EXCEPT !.hand = NoTask, !.ycpu = y, !.at = l]
  <1>1. /\ mode[c] = "insert" \/ At(c, "i_insert")
        /\ ~Locked(k) /\ UNCHANGED <<current, state, rsp, exec, arg, pend>>
        /\ tasks' = [tasks EXCEPT ![k] = Append(@, x)]
        /\ mode' = [mode EXCEPT ![c] = m]
    BY Zenon DEF StealInsert, Push, Enter, tcbs
  <1>2. /\ t \in Task /\ FrameOK(t, frame[t]) /\ x # NoTask
        /\ mode[c] = "insert" => frame[t].at \in Back
        /\ mode[c] # "insert" => mode[c] = "task" /\ frame[t].at = "i_insert"
    BY <1>1, InSteal, Zenon DEF IInv, At, Back
  <1>3. frame' = [frame EXCEPT ![t] = f]
    BY <1>2, FieldsAre, Zenon DEF StealInsert, FrameOK
  <1>4. /\ l \in Points /\ l \notin ShellPoints /\ (l \in IdlePoints => N > 1)
        /\ l \notin CarryPoints
        /\ mode[c] = "insert" => l \in Back
    BY <1>2, ZenonT(30) DEF FrameOK, Points, ShellPoints, IdlePoints, Back, CarryPoints
  <1>5. /\ m \in Mode \ Reaping /\ mode[c] \notin Reaping /\ m \notin {"insert", "switch"}
        /\ m \in {"steal", "insert", "select"} => mode[c] = "insert"
    BY <1>2, Zenon DEF Mode, Reaping
  <1>6. y \in Cpu /\ k \in Cpu /\ x \in Task
    BY <1>2, ZeroCpu, ZenonT(30) DEF FrameOK
  <1> HIDE DEF m, l, y
  <1>7. FrameOK(t, f) /\ f.hand = NoTask /\ f.at = l
    BY <1>2, <1>4, <1>6, FieldsAre DEF FrameOK
  <1> HIDE DEF f
  <1>8. Handles(c, t, f, m)
    BY <1>1, <1>2, <1>3, <1>4, <1>5, <1>7, ZenonT(30) DEF Handles
  <1>9. Ctl' /\ Locks' = Locks /\ Flight' = Flight \ {x}
    BY <1>2, <1>7, <1>8, HandlesKeeps, Zenon DEF IInv
  <1>10. x \in Flight
    BY <1>2, Zenon DEF Flight
  <1> HIDE DEF x, k
  <1>11. RQ!Insert(x, k)
    BY <1>1, <1>6, <1>9, <1>10, ZenonT(30) DEF RQ!Insert, Locks
  <1>12. QED
    BY <1>6, <1>9, <1>11, QActions, Zenon DEF QStep

-----------------------------------------------------------------------------
\* The circular search stays inside the vector.
LEMMA NthInRange ==
    ASSUME NEW n \in Nat, NEW j \in Nat, NEW i \in Nat, n > 0, j > 0
    PROVE  ((j - 1 + i) % n) + 1 \in 1 .. n
  OBVIOUS

\* CPU c, on context t with locals f from now on, elects another task of queue k.
Elects(c, t, f, k) ==
    /\ exec[c] = t /\ t \in Task /\ FrameOK(t, f)
    /\ frame' = [frame EXCEPT ![t] = f] \/ (frame' = frame /\ f = frame[t])
    /\ f.at = frame[t].at /\ f.hand = frame[t].hand
    /\ f.hand # NoTask <=> f.at \in CarryPoints
    /\ mode[c] \notin Reaping /\ ~Locked(k)
    /\ PickNext(k) \notin {0, current[k]} /\ Elect(c, k, PickNext(k))

\* switch_context: the CPU leaves one stack for another.  No two CPUs come to be on the
\* same one, because all copies of the pointer it loads go stale.
LEMMA SwitchContextStep ==
    ASSUME Ctl, NEW c \in Cpu, SwitchContext(c)
    PROVE  Ctl' /\ Still
  <1> DEFINE p == pend[c]
             x == IF p.new = Stale THEN Wild ELSE p.new
             saved == IF p.cap = cap[p.cpu] /\ p.idx \in Slots(p.cpu)
                      THEN [rsp EXCEPT ![tasks[p.cpu][p.idx]] = exec[c]] ELSE rsp
  <1>1. /\ mode[c] = "switch"
        /\ rsp' = [t \in Task |-> IF saved[t] = p.new THEN Stale ELSE saved[t]]
        /\ exec' = [exec EXCEPT ![c] = x]
        /\ pend' = [d \in Cpu |->
                      IF d = c THEN NoSwitch
                      ELSE IF pend[d].new = p.new THEN [pend[d] EXCEPT !.new = Stale]
                      ELSE pend[d]]
        /\ mode' = [mode EXCEPT ![c] = "task"]
        /\ UNCHANGED <<tasks, current, state, arg, frame>>
    BY Zenon DEF SwitchContext, Enter, queues
  <1>2. /\ p.new \in Task \cup {Stale} /\ exec[c] \in Task
        /\ x \in Task \cup {Wild} /\ x # Stale /\ x # NoTask
        /\ p.new = Stale \/ p.new = x
    BY <1>1, SchedulerAssumption DEF Ctl, Types, Modes, PendOK
  <1>3. /\ \A t \in Task : saved[t] \in {rsp[t], exec[c]}
        /\ \A t \in Task : saved[t] \in Task \cup {Stale}
    <2>1. \A t \in Task : saved[t] \in {rsp[t], exec[c]}
      BY Zenon DEF Ctl, Types
    <2>2. QED
      BY <1>2, <2>1, ZenonT(30) DEF Ctl, Types
  <1> HIDE DEF saved
  <1>4. /\ exec' \in [Cpu -> Task \cup {Wild}] /\ exec'[c] = x
        /\ \A d \in Cpu \ {c} : exec'[d] = exec[d]
    BY <1>1, <1>2, Zenon DEF Ctl, Types
  <1>5. /\ rsp' \in [Task -> Task \cup {Stale}]
        /\ \A t \in Task : rsp'[t] = Stale \/ (rsp'[t] = saved[t] /\ rsp'[t] # p.new)
    BY <1>1, <1>3, Zenon
  <1>6. /\ DOMAIN pend' = Cpu /\ pend'[c] = NoSwitch
        /\ \A d \in Cpu \ {c} : /\ DOMAIN pend'[d] = DOMAIN pend[d]
                                /\ pend'[d].new = IF pend[d].new = p.new THEN Stale ELSE pend[d].new
    <2>1. SUFFICES ASSUME NEW d \in Cpu \ {c}
                   PROVE  /\ DOMAIN pend'[d] = DOMAIN pend[d]
                          /\ pend'[d].new = IF pend[d].new = p.new THEN Stale ELSE pend[d].new
      BY <1>1
    <2>2. PendOK(pend[d]) /\ "new" \in DOMAIN pend[d]
      BY Zenon DEF Ctl, Types, PendOK, NoSwitch
    <2>3. QED
      BY <1>1, <2>2
  <1>7. mode' \in [Cpu -> Mode] /\ mode'[c] = "task" /\ \A d \in Cpu \ {c} : mode'[d] = mode[d]
    BY <1>1, Zenon DEF Ctl, Types, Mode
  <1>8. Types'
    <2>1. \A d \in Cpu : PendOK(pend'[d])
      <3>1. PendOK(NoSwitch)
        BY Zenon DEF PendOK, NoSwitch
      <3>2. QED
        BY <1>6, <3>1, Zenon DEF Ctl, Types, PendOK
    <2>2. QED
      BY <1>1, <1>4, <1>5, <1>6, <1>7, <2>1 DEF Ctl, Types
  <1>9. Stacks'
    <2>1. /\ \A d \in Cpu : x # exec[d] \/ x = Wild
          /\ \A d \in Cpu \ {c} : exec[d] # exec[c]
      BY <1>2, SchedulerAssumption, Zenon DEF Ctl, Stacks
    <2>2. \A d, e \in Cpu : exec'[d] = exec'[e] /\ exec'[d] # Wild => d = e
      BY <1>4, <2>1 DEF Ctl, Stacks
    <2>3. \A d \in Cpu, t \in Task : rsp'[t] # exec'[d]
      <3>1. SUFFICES ASSUME NEW d \in Cpu, NEW t \in Task, rsp'[t] = exec'[d] PROVE FALSE
        BY Zenon
      <3>2. rsp'[t] # Stale /\ rsp'[t] # Wild
        BY <1>4, <1>5, <3>1, SchedulerAssumption, SMTT(30)
      <3>3. CASE d = c
        BY <1>2, <1>4, <1>5, <3>1, <3>2, <3>3, Zenon
      <3>4. CASE d # c
        BY <1>3, <1>4, <1>5, <2>1, <3>1, <3>2, <3>4, SMTT(30) DEF Ctl, Stacks
      <3>5. QED
        BY <3>3, <3>4, Zenon
    <2>4. \A d, e \in Cpu : pend'[e].new # exec'[d]
      <3>1. SUFFICES ASSUME NEW d \in Cpu, NEW e \in Cpu, pend'[e].new = exec'[d] PROVE FALSE
        BY Zenon
      <3>2. exec'[d] \notin {Stale, NoTask}
        BY <1>4, SchedulerAssumption, Zenon
      <3>3. e # c /\ pend'[e].new = pend[e].new /\ pend[e].new # p.new
        BY <1>6, <3>1, <3>2, SMTT(30) DEF NoSwitch
      <3>4. pend[e].new # Wild
        BY SchedulerAssumption, Zenon DEF Ctl, Types, PendOK
      <3>5. QED
        BY <1>2, <1>4, <3>1, <3>3, <3>4, ZenonT(30) DEF Ctl, Stacks
    <2>5. QED
      BY <2>2, <2>3, <2>4, ZenonT(30) DEF Stacks
  <1>10. Modes'
    BY <1>1, <1>4, <1>6, <1>7, SchedulerAssumption DEF Ctl, Modes, Reaping
  <1>11. Hands'
    <2>1. \A t \in Task : Carries(t)' <=> Carries(t)
      BY <1>1, <1>4, <1>7, Zenon DEF Carries
    <2>2. QED
      BY <1>1, <2>1, Zenon DEF Ctl, Hands
  <1>12. Flight' = Flight
    BY <1>1, Zenon DEF Flight
  <1>13. Locks' = Locks
    <2>1. \A k \in Cpu : Locked(k)' = Locked(k)
      BY <1>1, <1>7, Zenon DEF Locked
    <2>2. QED
      BY <2>1, Zenon DEF Locks
  <1>14. QED
    BY <1>1, <1>8, <1>9, <1>10, <1>11, <1>12, <1>13, ZenonT(30) DEF Ctl, Still

-----------------------------------------------------------------------------
\* The interrupt that ends a hlt takes the context to a point it can be at.
LEMMA ResumeFacts ==
    ASSUME NEW t, NEW f, FrameOK(t, f)
    PROVE  /\ FrameOK(t, [f EXCEPT !.at = Resume(f.at)])
           /\ [f EXCEPT !.at = Resume(f.at)].hand = f.hand
           /\ [f EXCEPT !.at = Resume(f.at)].at \in CarryPoints <=> f.at \in CarryPoints
  <1> DEFINE l == Resume(f.at)
  <1>1. /\ l \in Points
        /\ l \in ShellPoints <=> f.at \in ShellPoints
        /\ l \in CarryPoints <=> f.at \in CarryPoints
        /\ l \in IdlePoints <=> f.at \in IdlePoints
    BY DEF Resume, Points, ShellPoints, CarryPoints, IdlePoints, FrameOK
  <1> HIDE DEF l
  <1>2. QED
    BY <1>1, FieldsAre, Zenon DEF FrameOK, l

\* A context that an interrupt can reach.
LEMMA Interrupted ==
    ASSUME Ctl, NEW c \in Cpu, Interruptible(c)
    PROVE  /\ mode[c] = "task" /\ exec[c] \in Task /\ FrameOK(exec[c], frame[exec[c]])
           /\ frame[exec[c]].hand # NoTask <=> frame[exec[c]].at \in CarryPoints
  <1>1. mode[c] = "task" /\ exec[c] \in Task /\ FrameOK(exec[c], frame[exec[c]])
    BY Zenon DEF Ctl, Types, Interruptible
  <1>2. \A d \in Cpu : exec[d] = exec[c] => d = c
    BY <1>1, SchedulerAssumption, Zenon DEF Ctl, Stacks
  <1>3. QED
    BY <1>1, <1>2, ZenonT(30) DEF Ctl, Hands, Carries

\* The wake-up loop over queue k is a Wake of RunQueues.
LEMMA WakeDueIs ==
    ASSUME NEW k \in Cpu, WakeDue(k), ~Locked(k), UNCHANGED <<tasks, current, Flight, Locks>>
    PROVE  RQ!Next
  <1> DEFINE W == {t \in Task : Queued(t, k) /\ state[t] = "Sleeping" /\ left[t] = 0}
  <1>1. \A t \in W : RQ!Queued(t, k) /\ state[t] = "Sleeping"
    BY Zenon DEF RQ!Queued, Queued, RQ!Slots, Slots
  <1>2. state' = [t \in Task |-> IF t \in W THEN "Ready" ELSE state[t]]
    BY Zenon DEF WakeDue
  <1>3. ~Locks[k]
    BY Zenon DEF Locks
  <1>4. W \in SUBSET Task
    BY Zenon
  <1> HIDE DEF W
  <1>5. RQ!Wake(k, W)
    BY <1>1, <1>2, <1>3, Zenon DEF RQ!Wake
  <1>6. QED
    BY <1>4, <1>5, QActions, ZenonT(30)

\* The local timer interrupt.
LEMMA LapicTickStep ==
    ASSUME IInv, NEW c \in Cpu, LapicTick(c)
    PROVE  Ctl' /\ QStep
  <1> DEFINE t == exec[c]
             f == [frame[t] EXCEPT !.at = Resume(frame[t].at)]
             m == IF clock = 0 THEN "reap0" ELSE "preempt"
  <1>1. /\ Interruptible(c) /\ ~Locked(c) /\ WakeDue(c)
        /\ frame' = [frame EXCEPT ![t] = f] /\ mode' = [mode EXCEPT ![c] = m]
        /\ UNCHANGED <<tasks, current, rsp, exec, arg, pend>>
    BY Zenon DEF LapicTick, Goto, Enter, queues
  <1>2. /\ mode[c] = "task" /\ t \in Task /\ FrameOK(t, frame[t])
        /\ frame[t].hand # NoTask <=> frame[t].at \in CarryPoints
    BY <1>1, Interrupted DEF IInv
  <1>3. FrameOK(t, f) /\ f.hand = frame[t].hand /\ (f.at \in CarryPoints <=> frame[t].at \in CarryPoints)
    BY <1>2, ResumeFacts, Zenon
  <1>4. m \in Mode /\ m \notin Reaping /\ m \notin {"steal", "insert", "select", "switch"}
    BY Zenon DEF Mode, Reaping
  <1> HIDE DEF m, f
  <1>5. Handles(c, t, f, m)
    BY <1>1, <1>2, <1>3, <1>4, ZenonT(30) DEF Handles, Reaping
  <1> HIDE DEF t
  <1>6. Ctl' /\ Locks' = Locks /\ Flight' = Flight
    BY <1>2, <1>3, <1>5, HandlesKeeps, ZenonT(30) DEF IInv
  <1>7. QED
    BY <1>1, <1>6, WakeDueIs, ZenonT(30) DEF QStep

\* The tick of the global timer.
LEMMA PitTickStep ==
    ASSUME Ctl, PitTick
    PROVE  Ctl' /\ Still
  <1> DEFINE t == exec[0]
             g(s) == [frame[s] EXCEPT !.wait = Passed(frame[s].wait),
                        !.at = IF s = t THEN Resume(frame[s].at) ELSE frame[s].at]
  <1>1. /\ Interruptible(0) /\ 0 \in Cpu
        /\ mode' = [mode EXCEPT ![0] = "pit"]
        /\ UNCHANGED <<tasks, current, state, rsp, exec, arg, pend>>
    BY ZeroCpu, Zenon DEF PitTick, Enter, queues
  <1>2. frame' = [s \in Task |-> g(s)]
    BY Zenon DEF PitTick
  <1>3. /\ mode[0] = "task" /\ t \in Task /\ FrameOK(t, frame[t])
        /\ frame[t].hand # NoTask <=> frame[t].at \in CarryPoints
    BY <1>1, Interrupted, Zenon
  <1>4. DOMAIN frame' = Task /\ \A s \in Task \ {t} : Same(frame'[s], frame[s])
    <2>1. SUFFICES ASSUME NEW s \in Task \ {t} PROVE Same(g(s), frame[s])
      BY <1>2, Zenon
    <2>2. FrameOK(s, frame[s])
      BY DEF Ctl, Types
    <2>3. QED
      BY <2>1, <2>2, FieldsAre, ZenonT(30) DEF Same, FrameOK
  <1>5. /\ FrameOK(t, frame'[t]) /\ frame'[t].hand = frame[t].hand
        /\ frame'[t].at \in CarryPoints <=> frame[t].at \in CarryPoints
    <2> DEFINE h == [frame[t] EXCEPT !.at = Resume(frame[t].at)]
    <2>1. FrameOK(t, h) /\ h.hand = frame[t].hand /\ (h.at \in CarryPoints <=> frame[t].at \in CarryPoints)
      BY <1>3, ResumeFacts, Zenon
    <2>2. Same(g(t), h)
      BY <1>3, FieldsAre, ZenonT(30) DEF Same, FrameOK
    <2>3. frame'[t] = g(t)
      BY <1>2, <1>3, Zenon
    <2> HIDE DEF h, g
    <2>4. QED
      BY <2>1, <2>2, <2>3, Zenon DEF Same, FrameOK
  <1> HIDE DEF t, g
  <1>6. mode' \in [Cpu -> Mode] /\ mode'[0] = "pit" /\ \A d \in Cpu \ {0} : mode'[d] = mode[d]
    BY <1>1 DEF Ctl, Types, Mode
  <1>7. Own(0, t)
    BY <1>1, <1>3, <1>4, <1>5, <1>6, Zenon DEF Own, Ctl, Types, Stacks, Reaping
  <1>8. Ctl' /\ Flight' = Flight /\ Locks' = Locks
    BY <1>1, <1>3, <1>5, <1>6, <1>7, OwnKeeps, FlightStep, LocksStep, ZenonT(30) DEF Reaping, t
  <1>9. QED
    BY <1>1, <1>8 DEF Still

\* timer_tick wakes the sleepers of one queue, or has done so for all.
LEMMA PitWakeStep ==
    ASSUME IInv, PitWake
    PROVE  Ctl' /\ QStep
  <1> DEFINE t == exec[0]
  <1>1. mode[0] = "pit" /\ 0 \in Cpu /\ frame' = frame /\ UNCHANGED <<tasks, current, exec, pend, rsp>>
    BY ZeroCpu, Zenon DEF PitWake, queues
  <1>2. /\ t \in Task /\ FrameOK(t, frame[t])
        /\ frame[t].hand # NoTask <=> frame[t].at \in CarryPoints
    BY <1>1, InHandler, Zenon DEF IInv
  <1>3. ASSUME NEW m \in {"pit", "preempt"}, NEW k \in 0 .. N,
               mode' = [mode EXCEPT ![0] = m], arg' = [arg EXCEPT ![0] = k]
        PROVE  Ctl' /\ Flight' = Flight /\ Locks' = Locks
    <2>1. m \in Mode \ {"steal", "insert", "select", "switch"} /\ m \notin Reaping
      BY <1>3, Zenon DEF Mode, Reaping
    <2>2. Reaper(0, t, frame[t], m, k)
      BY <1>1, <1>2, <1>3, <2>1, ZenonT(30) DEF Reaper
    <2> HIDE DEF t
    <2>3. Ctl' /\ Flight' = Flight /\ Own(0, t) /\ mode'[0] = m
      BY <1>1, <1>2, <2>2, ReaperKeeps, SMTT(30) DEF IInv
    <2>4. Locks' = Locks
      BY <1>1, <1>2, <2>1, <2>3, LocksStep, Zenon DEF IInv, Reaping
    <2>5. QED
      BY <2>3, <2>4
  <1>4. CASE /\ arg[0] < N /\ ~Locked(arg[0]) /\ WakeDue(arg[0])
             /\ arg' = [arg EXCEPT ![0] = arg[0] + 1] /\ mode' = mode
    <2>1. arg[0] \in Cpu /\ arg[0] + 1 \in 0 .. N
      BY <1>1, <1>4, RunQueuesAssumption DEF IInv, Ctl, Types, Cpu
    <2>2. mode' = [mode EXCEPT ![0] = "pit"]
      BY <1>1, <1>4, Zenon DEF IInv, Ctl, Types
    <2>3. Ctl' /\ Flight' = Flight /\ Locks' = Locks
      BY <1>3, <1>4, <2>1, <2>2, Zenon
    <2>4. QED
      BY <1>1, <1>4, <2>1, <2>3, WakeDueIs, ZenonT(30) DEF QStep
  <1>5. CASE /\ arg' = [arg EXCEPT ![0] = 0] /\ mode' = [mode EXCEPT ![0] = "preempt"]
             /\ state' = state
    <2>1. 0 \in 0 .. N
      BY RunQueuesAssumption
    <2>2. Ctl' /\ Flight' = Flight /\ Locks' = Locks
      BY <1>3, <1>5, <2>1, Zenon
    <2>3. QED
      BY <1>1, <1>5, <2>2, Zenon DEF QStep, Still
  <1>6. QED
    BY <1>4, <1>5, Zenon DEF PitWake, Enter

-----------------------------------------------------------------------------
\* Which task a CPU executes, as long as no CPU takes tasks out of the queue of
\* another: the invariant J, and what the same steps do to it.
Alone == N = 1 \/ \A c \in Cpu : Len(tasks[c]) <= 2

\* Between an election and the switch it announces.
Switching(c) ==
    LET p == pend[c] IN
    /\ p.cpu = c /\ p.cap = cap[c] /\ p.idx \in Slots(c) /\ tasks[c][p.idx] = exec[c]
    /\ p.new = Cur(c)

OnCur == \A c \in Cpu : IF mode[c] = "switch" THEN Switching(c) ELSE exec[c] = Cur(c)

\* Whoever is not executing has saved its stack pointer.
Saved == \A t \in Task : state[t] # "Reaped" /\ (\A c \in Cpu : exec[c] # t) => rsp[t] = t

InSleep(f) == f.at \in {"s_loop", "s_check", "s_hlt"} \/ (f.at = "y_enter" /\ f.ret = "s_check")

\* The CPU number a context has read is that of the CPU it is queued on.
HomeOK(c, f) ==
    /\ f.at = "y_enter" => f.ycpu = c
    /\ InSleep(f) \/ f.at \in {"s_mark", "x_mark", "f_mark"} => f.scpu = c

\* What CPU c may be doing, in mode m on a context with locals f.
Settled(c, f, m) ==
    /\ HomeOK(c, f) /\ f.wait \in Nat
    /\ m \in {"steal", "select"} => f.ycpu = c
    /\ m = "steal" => N > 1
    /\ m # "insert" /\ f.at # "i_insert"
    /\ f.at \in {"k_scan", "k_reap"} => N = 1

AtHome ==
    /\ \A c \in Cpu : \A i \in Slots(c) : HomeOK(c, frame[tasks[c][i]])
    /\ \A c \in Cpu : mode[c] \in {"steal", "select"} => frame[exec[c]].ycpu = c
    /\ \A t \in Task : state[t] = "Unborn" \/ t \in Flight => frame[t].at = "run"

Caps == N > 1 => cap = [c \in Cpu |-> MinCap]

Calm ==
    /\ \A c \in Cpu : /\ mode[c] # "insert" /\ (mode[c] = "steal" => N > 1)
                      /\ mode[c] \in Reaping => arg[c] = c
    /\ \A t \in Task : frame[t].at # "i_insert" /\ (frame[t].at \in {"k_scan", "k_reap"} => N = 1)

Rested(t) == left[t] = 0 \/ state[t] \in {"Sleeping", "Dead", "Reaped"}

Slept ==
    /\ left \in [Task -> Nat] /\ \A t \in Task : frame[t].wait \in Nat
    /\ \A t \in Task : InSleep(frame[t]) => Rested(t)

J == OnCur /\ Saved /\ AtHome /\ Caps /\ Calm /\ Slept

\* A step that ends no sleep early.
Honoured ==
    \A t \in Task : frame[t].at = "s_check" /\ frame'[t].at = "run" =>
        left[t] = 0 \/ state[t] \in {"Dead", "Reaped"}

\* A task is created once and reaped once; only creation and stealing put one in hand.
Ages ==
    \A t \in Task : /\ state'[t] = "Unborn" => state[t] = "Unborn"
                    /\ state[t] = "Reaped" => state'[t] = "Reaped"
                    /\ t \in Flight' => t \in Flight \/ state[t] = "Unborn" \/ tasks' # tasks

\* Every critical section of RunQueues has this property.
LEMMA QAges ==
    ASSUME RQ!IInv, [RQ!Next]_RQ!vars
    PROVE  Ages
  <1>1. /\ tasks \in [Cpu -> Seq(Task)] /\ DOMAIN state = Task
        /\ \A c \in Cpu : Cur(c) \in Task /\ Queued(Cur(c), c)
        /\ \A c \in Cpu, t \in Task : Queued(t, c) => state[t] \notin {"Unborn", "Reaped"}
        /\ \A c \in Cpu : \A i \in Slots(c) : Queued(tasks[c][i], c) /\ tasks[c][i] \in Task
    <2>1. \A c \in Cpu, t \in Task : Queued(t, c) => state[t] \notin {"Unborn", "Reaped"}
      BY Zenon DEF RQ!IInv, RQ!Conserved, RQ!Queued, Queued, RQ!Slots, Slots, RQ!Cpu, Cpu
    <2>2. \A c \in Cpu : Cur(c) \in Task /\ Queued(Cur(c), c)
      BY QFacts, Zenon DEF Queued, Cur
    <2>3. \A c \in Cpu : \A i \in Slots(c) : Queued(tasks[c][i], c) /\ tasks[c][i] \in Task
      BY QFacts, Zenon DEF Queued
    <2>4. tasks \in [Cpu -> Seq(Task)] /\ DOMAIN state = Task
      BY QFacts, ZeroCpu, ZenonT(30)
    <2>5. QED
      BY <2>1, <2>2, <2>3, <2>4, Zenon
  <1>2. CASE UNCHANGED RQ!vars
    BY <1>2, Zenon DEF RQ!vars, Ages
  <1>3. ASSUME NEW t \in Task, RQ!Create(t) PROVE Ages
    BY <1>1, <1>3, ZenonT(30) DEF RQ!Create, Ages
  <1>4. ASSUME NEW t \in Task, NEW c \in Cpu, RQ!Insert(t, c) \/ RQ!Kill(t, c) PROVE Ages
    BY <1>1, <1>4, SMTT(30) DEF RQ!Insert, RQ!Kill, Ages, RQ!Queued, Queued, RQ!Slots, Slots
  <1>5. ASSUME NEW c \in Cpu, NEW i \in Slots(c), RQ!Steal(c, i) PROVE Ages
    <2>1. tasks' # tasks
      <3>1. tasks'[c] = [j \in 1 .. Len(tasks[c]) - 1 |-> IF j < i THEN tasks[c][j] ELSE tasks[c][j + 1]]
        BY <1>1, <1>5, Zenon DEF RQ!Steal, RQ!TakeOut, RQ!RemoveSlot
      <3>2. Len(tasks[c]) \in Nat /\ DOMAIN tasks[c] = 1 .. Len(tasks[c])
        BY <1>1
      <3>3. DOMAIN tasks'[c] = 1 .. Len(tasks[c]) - 1
        BY <3>1, Zenon
      <3>4. i \in 1 .. Len(tasks[c])
        BY <1>5, <3>2, Zenon DEF Slots
      <3>5. 1 .. Len(tasks[c]) # 1 .. Len(tasks[c]) - 1
        BY <3>2, <3>4
      <3>6. QED
        BY <3>2, <3>3, <3>5, Zenon
    <2>2. QED
      BY <1>5, <2>1, Zenon DEF RQ!Steal, Ages
  <1>6. ASSUME NEW c \in Cpu, NEW i \in Slots(c), RQ!Switch(c, i) PROVE Ages
    BY <1>1, <1>6, Zenon DEF RQ!Switch, Ages, RQ!Cur, Cur
  <1>7. ASSUME NEW c \in Cpu, NEW i \in Slots(c), RQ!ReapOne(c, i) PROVE Ages
    BY <1>1, <1>7, Zenon DEF RQ!ReapOne, Ages
  <1>8. ASSUME NEW c \in Cpu, NEW s \in {"Sleeping", "Dead"}, RQ!MarkCurrent(c, s) PROVE Ages
    BY <1>1, <1>8, Zenon DEF RQ!MarkCurrent, Ages, RQ!Cur, Cur
  <1>9. ASSUME NEW c \in Cpu, NEW W \in SUBSET Task, RQ!Wake(c, W) PROVE Ages
    BY <1>1, <1>9, Zenon DEF RQ!Wake, Ages
  <1>10. ASSUME NEW c \in Cpu, RQ!ReapLock(c) \/ RQ!ReapUnlock(c) PROVE Ages
    BY <1>10, Zenon DEF RQ!ReapLock, RQ!ReapUnlock, Ages
  <1>11. CASE RQ!Next
    <2>1. RQ!Cpu = Cpu /\ \A c : RQ!Slots(c) = Slots(c)
      BY Zenon DEF RQ!Cpu, Cpu, RQ!Slots, Slots
    <2>2. QED
      BY <1>3, <1>4, <1>5, <1>6, <1>7, <1>8, <1>9, <1>10, <1>11, <2>1, ZenonT(30) DEF RQ!Next
  <1>12. QED
    BY <1>2, <1>11, Zenon

\* The task a CPU executes is in the CPU's own queue.
LEMMA AtWork ==
    ASSUME IInv, J, NEW c \in Cpu
    PROVE  /\ exec[c] \in Task /\ exec[c] # Wild /\ FrameOK(exec[c], frame[exec[c]])
           /\ Queued(exec[c], c) /\ state[exec[c]] \notin {"Unborn", "Reaped"}
           /\ exec[c] \notin Flight /\ HomeOK(c, frame[exec[c]])
           /\ \A d \in Cpu : exec[d] = exec[c] => d = c
           /\ InSleep(frame[exec[c]]) => Rested(exec[c])
           /\ frame[exec[c]].wait \in Nat /\ frame[exec[c]].at # "i_insert"
           /\ frame[exec[c]].at \in {"k_scan", "k_reap"} => N = 1
  <1>1. \E i \in Slots(c) : tasks[c][i] = exec[c]
    <2>1. current[c] \in Slots(c)
      BY QFacts, Zenon DEF IInv
    <2>2. QED
      BY <2>1, Zenon DEF J, OnCur, Switching, Cur
  <1>2. exec[c] \in Task /\ Queued(exec[c], c)
    BY <1>1, QFacts, Zenon DEF IInv, Queued
  <1>3. state[exec[c]] \notin {"Unborn", "Reaped"} /\ exec[c] \notin Flight
    BY <1>2, Zenon DEF IInv, RQ!IInv, RQ!Conserved, RQ!Queued, Queued, RQ!Slots, Slots, RQ!Cpu, Cpu
  <1>4. HomeOK(c, frame[exec[c]])
    BY <1>1 DEF J, AtHome
  <1>5. FrameOK(exec[c], frame[exec[c]]) /\ \A d \in Cpu : exec[d] = exec[c] => d = c
    BY <1>2, SchedulerAssumption, Zenon DEF IInv, Ctl, Types, Stacks
  <1>6. QED
    BY <1>2, <1>3, <1>4, <1>5, SchedulerAssumption, Zenon DEF J, Slept, Calm

\* A step of CPU c that leaves the other contexts and CPUs as they are, and its own
\* context settled.
Tidy(c) ==
    /\ \A t \in Task \ {exec[c]} : Same(frame'[t], frame[t]) /\ frame'[t].wait \in Nat
    /\ \A d \in Cpu \ {c} : mode'[d] = mode[d] /\ arg'[d] = arg[d]
    /\ mode'[c] \in Reaping => arg'[c] = c
    /\ Settled(c, frame'[exec[c]], mode'[c])
    /\ left' \in [Task -> Nat] /\ \A t \in Task \ {exec[c]} : Rested(t) => Rested(t)'
    /\ InSleep(frame'[exec[c]]) => Rested(exec[c])'
    /\ frame[exec[c]].at = "s_check" /\ frame'[exec[c]].at = "run" =>
         left[exec[c]] = 0 \/ state[exec[c]] \in {"Dead", "Reaped"}
    /\ \A d \in Cpu, t \in Task : Queued(t, d)' => Queued(t, d) \/ t \in Flight
    /\ \A t \in Task : state'[t] = "Unborn" \/ t \in Flight' => state[t] = "Unborn" \/ t \in Flight
    /\ exec' = exec

\* What such a step keeps.
LEMMA TidyKeeps ==
    ASSUME IInv, J, IInv', NEW c \in Cpu, Tidy(c)
    PROVE  AtHome' /\ Calm' /\ Slept' /\ Honoured
  <1> DEFINE x == exec[c]
  <1>1. /\ x \in Task /\ x \notin Flight /\ state[x] # "Unborn" /\ \A d \in Cpu : exec[d] = x => d = c
        /\ Queued(x, c)
    BY AtWork, Zenon
  <1>2. \A d \in Cpu : exec[d] \in Task
    BY AtWork, Zenon
  <1>3. \A t \in Task \ {x} : /\ frame'[t].at = frame[t].at /\ frame'[t].ret = frame[t].ret
                              /\ frame'[t].ycpu = frame[t].ycpu /\ frame'[t].scpu = frame[t].scpu
    BY Zenon DEF Tidy, Same
  <1>4. \A t \in Task \ {x}, d \in Cpu : HomeOK(d, frame[t]) => HomeOK(d, frame'[t])
    BY <1>3, Zenon DEF HomeOK, InSleep
  <1>5. Settled(c, frame'[x], mode'[c])
    BY Zenon DEF Tidy
  <1>6. AtHome'
    <2>1. \A t \in Task : state'[t] = "Unborn" \/ t \in Flight' => frame'[t].at = "run"
      BY <1>1, <1>3, Zenon DEF Tidy, J, AtHome
    <2>2. \A d \in Cpu : mode'[d] \in {"steal", "select"} => frame'[exec'[d]].ycpu = d
      <3>1. SUFFICES ASSUME NEW d \in Cpu, mode'[d] \in {"steal", "select"}
                     PROVE  frame'[exec[d]].ycpu = d
        BY Zenon DEF Tidy
      <3>2. CASE d = c
        BY <1>5, <3>1, <3>2, Zenon DEF Settled
      <3>3. CASE d # c
        BY <1>1, <1>2, <1>3, <3>1, <3>3, Zenon DEF Tidy, J, AtHome
      <3>4. QED
        BY <3>2, <3>3
    <2>3. \A d \in Cpu, t \in Task : Queued(t, d)' => HomeOK(d, frame'[t])
      <3>1. SUFFICES ASSUME NEW d \in Cpu, NEW t \in Task, Queued(t, d)'
                     PROVE  HomeOK(d, frame'[t])
        OBVIOUS
      <3>2. Queued(t, d) \/ t \in Flight
        BY <3>1, Zenon DEF Tidy
      <3>3. CASE t = x
        <4>1. Queued(x, d)
          BY <1>1, <3>2, <3>3, ZenonT(30)
        <4>2. d = c
          BY <1>1, <4>1 DEF IInv, RQ!IInv, RQ!OneSlot, RQ!Slots, Queued, Slots, RQ!Cpu, Cpu
        <4>3. QED
          BY <1>5, <3>3, <4>2, Zenon DEF Settled
      <3>4. CASE t # x
        <4>1. CASE Queued(t, d)
          BY <1>4, <3>4, <4>1, Zenon DEF J, AtHome, Queued
        <4>2. CASE t \in Flight
          BY <1>3, <3>4, <4>2, Zenon DEF J, AtHome, HomeOK, InSleep
        <4>3. QED
          BY <3>2, <4>1, <4>2, Zenon
      <3>5. QED
        BY <3>3, <3>4, Zenon
    <2>4. \A d \in Cpu : \A i \in Slots(d)' :
            tasks'[d][i] \in Task /\ \A t \in Task : tasks'[d][i] = t => Queued(t, d)'
      <3>1. tasks' \in [Cpu -> Seq(Task)]
        BY Zenon DEF IInv, RQ!IInv, RQ!TypeOK, RQ!Cpu, Cpu
      <3>2. QED
        BY <3>1 DEF Slots, Queued
    <2>5. QED
      BY <2>1, <2>2, <2>3, <2>4, Zenon DEF AtHome
  <1>7. Calm'
    <2>1. \A t \in Task \ {x} : frame'[t].at # "i_insert" /\ (frame'[t].at \in {"k_scan", "k_reap"} => N = 1)
      BY <1>3, Zenon DEF J, Calm
    <2>2. \A d \in Cpu \ {c} : /\ mode'[d] # "insert" /\ (mode'[d] = "steal" => N > 1)
                               /\ mode'[d] \in Reaping => arg'[d] = d
      BY Zenon DEF Tidy, J, Calm
    <2>3. /\ mode'[c] # "insert" /\ (mode'[c] = "steal" => N > 1) /\ (mode'[c] \in Reaping => arg'[c] = c)
          /\ frame'[x].at # "i_insert" /\ (frame'[x].at \in {"k_scan", "k_reap"} => N = 1)
      BY <1>5, Zenon DEF Tidy, Settled
    <2>4. \A d \in Cpu : /\ mode'[d] # "insert" /\ (mode'[d] = "steal" => N > 1)
                         /\ mode'[d] \in Reaping => arg'[d] = d
      BY <2>2, <2>3, Zenon
    <2>5. \A t \in Task : frame'[t].at # "i_insert" /\ (frame'[t].at \in {"k_scan", "k_reap"} => N = 1)
      BY <2>1, <2>3, Zenon
    <2>6. QED
      BY <2>4, <2>5, Zenon DEF Calm
  <1>8. Slept'
    <2>1. \A t \in Task \ {x} : InSleep(frame'[t]) => InSleep(frame[t])
      BY <1>3, Zenon DEF InSleep
    <2>2. \A t \in Task : InSleep(frame'[t]) => Rested(t)'
      BY <2>1, Zenon DEF Tidy, J, Slept
    <2>3. QED
      BY <1>5, <2>2, Zenon DEF Tidy, J, Slept, Settled
  <1>9. Honoured
    BY <1>1, <1>3, Zenon DEF Tidy, Honoured
  <1>10. QED
    BY <1>6, <1>7, <1>8, <1>9

\* A step during which every CPU stays on its stack and every queue on its current task,
\* and no slot that a pending switch will write to moves.
Steady ==
    /\ UNCHANGED <<exec, rsp, pend>>
    /\ \A d \in Cpu : mode'[d] = "switch" <=> mode[d] = "switch"
    /\ \A d \in Cpu : Cur(d)' = Cur(d)
    /\ \A d \in Cpu : mode[d] = "switch" =>
         /\ cap'[d] = cap[d]
         /\ pend[d].idx \in Slots(d) =>
              pend[d].idx \in Slots(d)' /\ tasks'[d][pend[d].idx] = tasks[d][pend[d].idx]

\* What such a step keeps.
LEMMA SteadyKeeps ==
    ASSUME J, Steady, Ages
    PROVE  OnCur' /\ Saved'
  <1>1. OnCur'
    BY ZenonT(30) DEF Steady, J, OnCur, Switching
  <1>2. Saved'
    BY Zenon DEF Steady, J, Saved, Ages
  <1>3. QED
    BY <1>1, <1>2, ZenonT(30)

\* CPU c enters mode m and its context goes on as f says; no queue is touched.
Goes(c, f, m) ==
    /\ UNCHANGED <<tasks, current, cap, exec, rsp, pend>>
    /\ mode[c] # "switch" /\ m # "switch"
    /\ mode' = [mode EXCEPT ![c] = m] \/ (mode' = mode /\ m = mode[c])
    /\ frame' = [frame EXCEPT ![exec[c]] = f] \/ (frame' = frame /\ f = frame[exec[c]])
    /\ \A d \in Cpu \ {c} : arg'[d] = arg[d]
    /\ m \in Reaping => arg'[c] = c
    /\ Settled(c, f, m)
    /\ left' \in [Task -> Nat] /\ \A t \in Task \ {exec[c]} : Rested(t) => Rested(t)'
    /\ InSleep(f) => Rested(exec[c])'
    /\ frame[exec[c]].at = "s_check" /\ f.at = "run" =>
         left[exec[c]] = 0 \/ state[exec[c]] \in {"Dead", "Reaped"}

\* What such a step keeps.
LEMMA GoesKeeps ==
    ASSUME IInv, J, IInv', Ages, NEW c \in Cpu, NEW f, NEW m, Goes(c, f, m)
    PROVE  J' /\ Honoured
  <1>1. exec[c] \in Task
    BY AtWork, Zenon
  <1>2. /\ frame'[exec[c]] = f
        /\ \A t \in Task \ {exec[c]} : Same(frame'[t], frame[t])
    BY <1>1, SameRest, Zenon DEF Goes, IInv
  <1>3. \A t \in Task \ {exec[c]} : frame'[t] = frame[t]
    BY Zenon DEF Goes, IInv, Ctl, Types
  <1>4. mode'[c] = m /\ \A d \in Cpu \ {c} : mode'[d] = mode[d]
    BY Zenon DEF Goes, IInv, Ctl, Types
  <1>5. \A d \in Cpu, t \in Task : Queued(t, d)' => Queued(t, d)
    BY Zenon DEF Goes, Queued, Slots
  <1>6. \A t \in Task : state'[t] = "Unborn" \/ t \in Flight' => state[t] = "Unborn" \/ t \in Flight
    BY Zenon DEF Goes, Ages
  <1>7. \A t \in Task \ {exec[c]} : frame'[t].wait \in Nat
    BY <1>3 DEF J, Slept
  <1>8. Tidy(c)
    BY <1>2, <1>4, <1>5, <1>6, <1>7, Zenon DEF Goes, Tidy
  <1>9. Steady
    BY <1>4, Zenon DEF Goes, Steady, Cur, Slots
  <1>10. Caps'
    BY Zenon DEF Goes, J, Caps
  <1>11. QED
    BY <1>8, <1>9, <1>10, TidyKeeps, SteadyKeeps DEF J

\* A step that takes no sleeper out of its sleep before its time.
Rests == left' \in [Task -> Nat] /\ \A t \in Task : Rested(t) => Rested(t)'

\* No step on times and states alone, no wake-up and no mark does.
LEMMA RestsStill ==
    ASSUME J, UNCHANGED left,
           \A t \in Task : \/ state'[t] = state[t] \/ state'[t] \in {"Sleeping", "Dead", "Reaped"}
                           \/ left[t] = 0
                           \/ state[t] \notin {"Sleeping", "Dead", "Reaped"}
    PROVE  Rests
  BY Zenon DEF J, Slept, Rests, Rested

\* The wake-up loop.
LEMMA RestsWake ==
    ASSUME J, UNCHANGED left, NEW k, WakeDue(k)
    PROVE  Rests
  <1>1. \A t \in Task : state'[t] = state[t] \/ left[t] = 0
    BY Zenon DEF WakeDue
  <1>2. QED
    BY <1>1, RestsStill, Zenon

\* The setting of every step below.
Going(c) == IInv /\ J /\ IInv' /\ Ages /\ c \in Cpu

\* yield_now is called.
LEMMA YieldCallGoes ==
    ASSUME NEW c, Going(c), YieldCall(c)
    PROVE  J' /\ Honoured
  <1> DEFINE t == exec[c]
  <1>1. PICK l \in DOMAIN AfterYield :
          /\ At(c, l)
          /\ frame' = [frame EXCEPT ![t].at = "y_enter", ![t].ret = AfterYield[l],
                                    ![t].ycpu = c,
                                    ![t].masked = IF l = "run" THEN t \in User ELSE @]
    BY Zenon DEF YieldCall
  <1> DEFINE f == [frame[t] EXCEPT !.at = "y_enter", !.ret = AfterYield[l], !.ycpu = c,
                     !.masked = IF l = "run" THEN t \in User ELSE @]
  <1>2. AfterYield[l] = "s_check" => l = "s_loop"
    BY <1>1 DEF AfterYield
  <1>3. /\ frame' = [frame EXCEPT ![t] = f] /\ mode[c] = "task" /\ frame[t].at = l
        /\ UNCHANGED <<tasks, current, cap, exec, rsp, pend, mode, arg, left, state>>
    BY <1>1, ZenonT(60) DEF YieldCall, At, queues, tcbs, cpus
  <1>4. /\ t \in Task /\ FrameOK(t, frame[t]) /\ HomeOK(c, frame[t])
        /\ InSleep(frame[t]) => Rested(t)
        /\ frame[t].wait \in Nat /\ c \in Cpu
    BY AtWork, Zenon DEF Going
  <1>5. /\ f.at = "y_enter" /\ f.ycpu = c /\ f.ret = AfterYield[l] /\ f.scpu = frame[t].scpu
        /\ f.wait = frame[t].wait
    BY <1>4, FieldsAre DEF FrameOK
  <1>6. Rests
    BY <1>3, RestsStill DEF Going
  <1>7. InSleep(f) => InSleep(frame[t])
    BY <1>2, <1>3, <1>5 DEF InSleep
  <1> HIDE DEF f
  <1>8. Settled(c, f, "task") /\ (InSleep(f) => Rested(t)')
    BY <1>3, <1>4, <1>5, <1>6, <1>7, Zenon DEF Settled, HomeOK, Rests
  <1>9. Goes(c, f, "task")
    BY <1>3, <1>4, <1>5, <1>6, <1>8, ZenonT(30) DEF Goes, Reaping, Rests
  <1>10. QED
    BY <1>9, GoesKeeps, ZenonT(30) DEF Going

\* yield_now looks for work.
LEMMA YieldCheckGoes ==
    ASSUME NEW c, Going(c), YieldCheck(c)
    PROVE  J' /\ Honoured
  <1> DEFINE t == exec[c]
             k == frame[t].ycpu
             stealing == ~OtherReady(k) /\ Len(tasks[k]) > 1 /\ N > 1
             m == IF stealing THEN "steal" ELSE "select"
             f == [frame[t] EXCEPT !.at = frame[t].ret,
                                   !.off = IF stealing THEN 1 ELSE @,
                                   !.masked = @ /\ frame[t].ret \notin {"run", "f_hlt"}]
  <1>1. /\ mode[c] = "task" /\ frame[t].at = "y_enter" /\ mode' = [mode EXCEPT ![c] = m]
        /\ frame' = [frame EXCEPT ![t] = f]
        /\ UNCHANGED <<tasks, current, cap, exec, rsp, pend, arg, left, state>>
    BY Zenon DEF YieldCheck, At, Enter, queues, tcbs
  <1>2. /\ t \in Task /\ FrameOK(t, frame[t]) /\ HomeOK(c, frame[t])
        /\ InSleep(frame[t]) => Rested(t)
        /\ frame[t].wait \in Nat /\ c \in Cpu
    BY AtWork, Zenon DEF Going
  <1>3. m \in {"steal", "select"} /\ (m = "steal" => N > 1)
    BY Zenon
  <1> HIDE DEF m, stealing
  <1>4. /\ f.at = frame[t].ret /\ f.ycpu = frame[t].ycpu /\ f.scpu = frame[t].scpu
        /\ f.wait = frame[t].wait
    BY <1>2, FieldsAre, ZenonT(30) DEF FrameOK
  <1>5. Rests
    BY <1>1, RestsStill, ZenonT(30) DEF Going
  <1>6. frame[t].ret \in Back
    BY <1>2, ZenonT(30) DEF FrameOK
  <1> HIDE DEF f
  <1>7. InSleep(f) => InSleep(frame[t])
    BY <1>1, <1>4, <1>6 DEF InSleep, Back
  <1>8. Settled(c, f, m) /\ (InSleep(f) => Rested(t)')
    BY <1>1, <1>2, <1>3, <1>4, <1>5, <1>6, <1>7, ZenonT(30) DEF Settled, HomeOK, Rests, Back
  <1>9. Goes(c, f, m)
    BY <1>1, <1>2, <1>3, <1>4, <1>5, <1>8, ZenonT(30) DEF Goes, Reaping, Rests
  <1>10. QED
    BY <1>9, GoesKeeps, ZenonT(30) DEF Going

\* Nobody has enough to be stolen from.
LEMMA StealGoes ==
    ASSUME NEW c, Going(c), Alone, Steal(c)
    PROVE  J' /\ Honoured
  <1> DEFINE t == exec[c]
             v == (frame[t].ycpu + frame[t].off) % N
             o == frame[t].off + 1
             y == IF mode[c] = "steal" THEN frame[t].ycpu ELSE 0
             l == IF mode[c] = "steal" THEN frame[t].at ELSE "i_hlt"
             m == IF mode[c] = "steal" THEN "select" ELSE "task"
             f1 == [frame[t] EXCEPT !.off = o]
             f2 == [frame[t] EXCEPT !.off = 0, !.ycpu = y, !.at = l]
  <1>1. /\ t \in Task /\ FrameOK(t, frame[t]) /\ HomeOK(c, frame[t])
        /\ InSleep(frame[t]) => Rested(t)
        /\ frame[t].wait \in Nat /\ c \in Cpu /\ frame[t].at # "i_insert"
        /\ frame[t].at \in {"k_scan", "k_reap"} => N = 1
    BY AtWork, Zenon DEF Going
  <1>2. /\ mode[c] # "steal" => mode[c] = "task" /\ frame[t].at = "i_steal"
        /\ mode[c] = "steal" => frame[t].ycpu = c
        /\ N > 1 /\ UNCHANGED <<cap, state, left, rsp, exec, arg, pend>>
    <2>1. /\ mode[c] # "steal" => mode[c] = "task" /\ frame[t].at = "i_steal"
          /\ UNCHANGED <<cap, state, left, rsp, exec, arg, pend>>
      BY Zenon DEF Steal, Stealing, At
    <2>2. N > 1
      BY <1>1, <2>1, Zenon DEF Going, J, Calm, FrameOK, IdlePoints
    <2>3. QED
      BY <1>1, <2>1, <2>2, Zenon DEF Going, J, AtHome
  <1>3. v \in Cpu /\ Len(tasks[v]) \in Nat
    <2>1. v \in Cpu
      BY <1>1, VictimIsCpu, ZenonT(30) DEF FrameOK
    <2>2. QED
      BY <2>1, QFacts, Zenon DEF Going, IInv
  <1>4. ~(Len(tasks[v]) > 2)
    <2> HIDE DEF v
    <2>1. QED
      BY <1>2, <1>3, RunQueuesAssumption, SMTT(30) DEF Alone
  <1>5. /\ UNCHANGED <<tasks, current>>
        /\ \/ frame' = [frame EXCEPT ![t] = f1] /\ mode' = mode
           \/ frame' = [frame EXCEPT ![t] = f2] /\ mode' = [mode EXCEPT ![c] = m]
    <2>1. UNCHANGED <<tasks, current>>
      BY <1>4, Zenon DEF Steal
    <2>2. CASE o < N
      BY <1>4, <2>1, <2>2, ZenonT(30) DEF Steal
    <2>3. CASE ~(o < N)
      <3>1. mode' = [mode EXCEPT ![c] = m]
        BY <1>4, <2>3, Zenon DEF Steal, Enter
      <3>2. frame' = [frame EXCEPT ![t] = f2]
        BY <1>1, <1>4, <2>3, FieldsAre, ZenonT(30) DEF Steal, FrameOK
      <3>3. QED
        BY <2>1, <3>1, <3>2, Zenon
    <2>4. QED
      BY <2>2, <2>3, Zenon
  <1>6. Rests
    BY <1>2, RestsStill, Zenon DEF Going
  <1>7. /\ f1.at = frame[t].at /\ f1.ycpu = frame[t].ycpu /\ f1.scpu = frame[t].scpu
        /\ f1.wait = frame[t].wait /\ f1.ret = frame[t].ret
        /\ f2.at = l /\ f2.ycpu = y /\ f2.scpu = frame[t].scpu
        /\ f2.wait = frame[t].wait /\ f2.ret = frame[t].ret
    BY <1>1, FieldsAre, Zenon DEF FrameOK
  <1> HIDE DEF f1, f2, v, o
  <1>8. CASE frame' = [frame EXCEPT ![t] = f1] /\ mode' = mode
    <2>1. InSleep(f1) <=> InSleep(frame[t])
      BY <1>7, Zenon DEF InSleep
    <2>2. Settled(c, f1, mode[c]) /\ (InSleep(f1) => Rested(t)')
      BY <1>1, <1>2, <1>6, <1>7, <2>1, ZenonT(30) DEF Settled, HomeOK, Rests
    <2>3. Goes(c, f1, mode[c])
      BY <1>1, <1>2, <1>5, <1>6, <1>7, <1>8, <2>2, ZenonT(30) DEF Goes, Reaping, Rests
    <2>4. QED
      BY <1>1, <2>3, GoesKeeps, Zenon DEF Going
  <1>9. CASE frame' = [frame EXCEPT ![t] = f2] /\ mode' = [mode EXCEPT ![c] = m]
    <2>1. mode[c] = "steal" => f2.at \in Back
      BY <1>1, <1>7, Zenon DEF Going, IInv, Ctl, Modes
    <2>2. /\ InSleep(f2) => InSleep(frame[t])
          /\ f2.at \notin {"y_enter", "s_mark", "x_mark", "f_mark"}
          /\ f2.at \in {"s_check", "s_hlt", "s_loop"} => f2.scpu = c
      BY <1>1, <1>7, <2>1, ZenonT(30) DEF InSleep, HomeOK, Back
    <2>3. /\ m \in {"select", "task"} /\ (m = "select" => f2.ycpu = c)
          /\ f2.at # "i_insert" /\ (f2.at \in {"k_scan", "k_reap"} => N = 1)
          /\ f2.at = "run" => frame[t].at = "run"
      BY <1>1, <1>2, <1>7, Zenon
    <2> HIDE DEF m, l, y
    <2>4. Settled(c, f2, m) /\ (InSleep(f2) => Rested(t)')
      BY <1>1, <1>2, <1>6, <1>7, <2>2, <2>3, ZenonT(30) DEF Settled, HomeOK, InSleep, Rests
    <2>5. Goes(c, f2, m)
      BY <1>1, <1>2, <1>5, <1>6, <1>9, <2>3, <2>4, ZenonT(30) DEF Goes, Reaping, Rests
    <2>6. QED
      BY <1>1, <2>5, GoesKeeps, ZenonT(30) DEF Going
  <1>10. QED
    BY <1>5, <1>8, <1>9

\* No steal has succeeded.
LEMMA StealInsertGoes ==
    ASSUME NEW c, Going(c), StealInsert(c)
    PROVE  J' /\ Honoured
  BY AtWork, ZenonT(30) DEF Going, StealInsert, At, J, Calm

\* sleep_ticks is called.
LEMMA SleepCallGoes ==
    ASSUME NEW c, Going(c), SleepCall(c)
    PROVE  J' /\ Honoured
  <1> DEFINE t == exec[c]
             f == [frame[t] EXCEPT !.at = "s_mark", !.scpu = c, !.wait = SleepTicks,
                                   !.masked = t \in User]
  <1>1. /\ mode[c] = "task" /\ frame[t].at = "run" /\ frame' = [frame EXCEPT ![t] = f]
        /\ UNCHANGED <<tasks, current, cap, exec, rsp, pend, mode, arg, left, state>>
    BY Zenon DEF SleepCall, At, queues, tcbs, cpus
  <1>2. t \in Task /\ FrameOK(t, frame[t]) /\ c \in Cpu
    BY AtWork, Zenon DEF Going
  <1>3. f.at = "s_mark" /\ f.scpu = c /\ f.wait = SleepTicks
    BY <1>2, FieldsAre, ZenonT(30) DEF FrameOK
  <1>4. Rests
    BY <1>1, RestsStill, Zenon DEF Going
  <1> HIDE DEF f
  <1>5. Settled(c, f, "task") /\ ~InSleep(f)
    BY <1>3, SizeAssumption DEF Settled, HomeOK, InSleep
  <1>6. Goes(c, f, "task")
    BY <1>1, <1>2, <1>3, <1>4, <1>5, ZenonT(30) DEF Goes, Reaping, Rests
  <1>7. QED
    BY <1>6, GoesKeeps, ZenonT(30) DEF Going

\* What the code of a task finds: it is the current task of its CPU.
LEMMA AtTask ==
    ASSUME NEW c, Going(c), NEW l, At(c, l)
    PROVE  /\ exec[c] \in Task /\ FrameOK(exec[c], frame[exec[c]]) /\ HomeOK(c, frame[exec[c]])
           /\ mode[c] = "task" /\ frame[exec[c]].at = l /\ exec[c] = Cur(c) /\ c \in Cpu
           /\ InSleep(frame[exec[c]]) => Rested(exec[c])
           /\ frame[exec[c]].wait \in Nat
           /\ l \in {"k_scan", "k_reap"} => N = 1
  <1>1. mode[c] = "task" /\ frame[exec[c]].at = l /\ c \in Cpu
    BY Zenon DEF At, Going
  <1>2. exec[c] = Cur(c)
    BY <1>1, ZenonT(30) DEF Going, J, OnCur
  <1>3. QED
    BY <1>1, <1>2, AtWork, Zenon DEF Going

\* sleep_ticks marks its caller.
LEMMA SleepMarkGoes ==
    ASSUME NEW c, Going(c), SleepMark(c)
    PROVE  J' /\ Honoured
  <1> DEFINE t == exec[c]
             f == [frame[t] EXCEPT !.at = "s_loop", !.wait = 0]
  <1>1. /\ t \in Task /\ FrameOK(t, frame[t]) /\ HomeOK(c, frame[t])
        /\ mode[c] = "task" /\ frame[t].at = "s_mark" /\ t = Cur(c) /\ frame[t].wait \in Nat
        /\ c \in Cpu
    BY AtTask DEF SleepMark
  <1>2. frame[t].scpu = c
    BY <1>1, Zenon DEF HomeOK
  <1>3. /\ frame' = [frame EXCEPT ![t] = f]
        /\ UNCHANGED <<tasks, current, cap, exec, rsp, pend, mode, arg>>
        /\ state' = [state EXCEPT ![t] = "Sleeping"]
        /\ left' = [left EXCEPT ![t] = frame[t].wait]
    BY <1>1, <1>2, ZenonT(30) DEF SleepMark, queues, cpus
  <1>4. f.at = "s_loop" /\ f.scpu = c /\ f.wait = 0
    BY <1>1, <1>2, FieldsAre, ZenonT(30) DEF FrameOK
  <1> HIDE DEF f
  <1>5. Rests /\ Rested(t)'
    <2>1. left \in [Task -> Nat] /\ DOMAIN state = Task
      BY QFacts, ZeroCpu, Zenon DEF Going, IInv, J, Slept
    <2>2. left' \in [Task -> Nat]
      BY <1>1, <1>3, <2>1, Zenon
    <2>3. \A s \in Task : (s = t /\ state'[s] = "Sleeping") \/ (state'[s] = state[s] /\ left'[s] = left[s])
      BY <1>1, <1>3, <2>1, Zenon
    <2>4. Rests
      BY <2>2, <2>3, Zenon DEF Rests, Rested
    <2>5. state'[exec'[c]] = "Sleeping"
      BY <1>1, <1>3, <2>1, ZenonT(30)
    <2>6. QED
      BY <2>4, <2>5 DEF Rested
  <1>6. Settled(c, f, "task")
    BY <1>4 DEF Settled, HomeOK, InSleep
  <1>7. Goes(c, f, "task")
    BY <1>1, <1>3, <1>4, <1>5, <1>6, Zenon DEF Goes, Reaping, Rests
  <1>8. QED
    BY <1>1, <1>7, GoesKeeps, ZenonT(30) DEF Going

\* sleep_ticks returns when the wake tick of its caller has come.
LEMMA SleepCheckGoes ==
    ASSUME NEW c, Going(c), SleepCheck(c)
    PROVE  J' /\ Honoured
  <1> DEFINE t == exec[c]
             b == state[t] = "Sleeping" /\ left[t] > 0
             f == IF b THEN [frame[t] EXCEPT !.at = "s_hlt", !.masked = FALSE]
                  ELSE [frame[t] EXCEPT !.at = "run", !.masked = FALSE, !.scpu = 0]
  <1>1. /\ t \in Task /\ FrameOK(t, frame[t]) /\ HomeOK(c, frame[t])
        /\ mode[c] = "task" /\ frame[t].at = "s_check" /\ t = Cur(c) /\ frame[t].wait \in Nat
        /\ (InSleep(frame[t]) => Rested(t)) /\ c \in Cpu
    BY AtTask, ZenonT(30) DEF SleepCheck
  <1>2. frame[t].scpu = c /\ Rested(t)
    BY <1>1, Zenon DEF HomeOK, InSleep
  <1>3. /\ frame' = [frame EXCEPT ![t] = f]
        /\ UNCHANGED <<tasks, current, cap, exec, rsp, pend, mode, arg, left, state>>
    BY <1>1, <1>2, ZenonT(30) DEF SleepCheck, queues, cpus, tcbs
  <1>4. /\ f.at = IF b THEN "s_hlt" ELSE "run"
        /\ b => f.scpu = c
        /\ f.wait = frame[t].wait
    BY <1>1, <1>2, FieldsAre, ZenonT(30) DEF FrameOK
  <1>5. ~b => left[t] = 0 \/ state[t] \in {"Dead", "Reaped"}
    <2>1. left[t] \in Nat
      BY <1>1, Zenon DEF Going, J, Slept
    <2>2. QED
      BY <1>2, <2>1 DEF Rested
  <1> HIDE DEF f, b
  <1>6. Rests
    BY <1>3, RestsStill DEF Going
  <1>7. Settled(c, f, "task")
    BY <1>1, <1>4, Zenon DEF Settled, HomeOK, InSleep
  <1>8. Rested(t)'
    BY <1>1, <1>2, <1>3, <1>6, ZenonT(30) DEF Rests
  <1>9. Goes(c, f, "task")
    BY <1>1, <1>3, <1>4, <1>5, <1>6, <1>7, <1>8, ZenonT(30) DEF Goes, Reaping, Rests
  <1>10. QED
    BY <1>1, <1>9, GoesKeeps, ZenonT(30) DEF Going

\* A task ends, by SYS_EXIT or by a page fault.
LEMMA ExitCallGoes ==
    ASSUME NEW c, Going(c), ExitCall(c)
    PROVE  J' /\ Honoured
  <1> DEFINE t == exec[c]
  <1>1. PICK l \in {"x_mark", "f_mark"} :
          frame' = [frame EXCEPT ![t].at = l, ![t].scpu = c, ![t].masked = t \in User]
    BY Zenon DEF ExitCall
  <1> DEFINE f == [frame[t] EXCEPT !.at = l, !.scpu = c, !.masked = t \in User]
  <1>2. /\ t \in Task /\ FrameOK(t, frame[t]) /\ mode[c] = "task" /\ frame[t].at = "run"
        /\ frame[t].wait \in Nat /\ c \in Cpu
    BY AtTask, ZenonT(30) DEF ExitCall
  <1>3. /\ frame' = [frame EXCEPT ![t] = f]
        /\ UNCHANGED <<tasks, current, cap, exec, rsp, pend, mode, arg, left, state>>
    BY <1>1, ZenonT(30) DEF ExitCall, queues, cpus, tcbs
  <1>4. f.at = l /\ f.scpu = c /\ f.wait = frame[t].wait
    BY <1>2, FieldsAre DEF FrameOK
  <1> HIDE DEF f
  <1>5. Rests
    BY <1>3, RestsStill, ZenonT(30) DEF Going
  <1>6. Settled(c, f, "task") /\ ~InSleep(f)
    BY <1>1, <1>2, <1>4 DEF Settled, HomeOK, InSleep
  <1>7. Goes(c, f, "task")
    BY <1>1, <1>2, <1>3, <1>4, <1>5, <1>6, ZenonT(30) DEF Goes, Reaping, Rests
  <1>8. QED
    BY <1>2, <1>7, GoesKeeps, Zenon DEF Going

\* Its TCB is marked Dead.
LEMMA ExitMarkGoes ==
    ASSUME NEW c, Going(c), ExitMark(c)
    PROVE  J' /\ Honoured
  <1> DEFINE t == exec[c]
             l == IF frame[t].at = "x_mark" THEN "x_yield" ELSE "f_yield"
             f == [frame[t] EXCEPT !.scpu = 0, !.at = l]
  <1>1. /\ t \in Task /\ FrameOK(t, frame[t]) /\ HomeOK(c, frame[t])
        /\ mode[c] = "task" /\ frame[t].at \in {"x_mark", "f_mark"} /\ t = Cur(c)
        /\ frame[t].wait \in Nat /\ c \in Cpu
    BY AtTask, ZenonT(30) DEF ExitMark
  <1>2. frame[t].scpu = c
    BY <1>1, Zenon DEF HomeOK
  <1>3. /\ frame' = [frame EXCEPT ![t] = f]
        /\ UNCHANGED <<tasks, current, cap, exec, rsp, pend, mode, arg, left>>
        /\ state' = [state EXCEPT ![t] = "Dead"]
    BY <1>1, <1>2, FieldsAre, ZenonT(30) DEF ExitMark, queues, cpus, FrameOK
  <1>4. f.at = l /\ f.wait = frame[t].wait /\ l \in {"x_yield", "f_yield"}
    BY <1>1, FieldsAre, ZenonT(30) DEF FrameOK
  <1> HIDE DEF f, l
  <1>5. Rests
    <2>1. \A s \in Task : state'[s] = state[s] \/ state'[s] = "Dead"
      BY <1>3, QFacts, ZeroCpu, Zenon DEF Going, IInv
    <2>2. QED
      BY <1>3, <2>1, RestsStill DEF Going
  <1>6. Settled(c, f, "task") /\ ~InSleep(f)
    BY <1>1, <1>4, Zenon DEF Settled, HomeOK, InSleep
  <1>7. Goes(c, f, "task")
    BY <1>1, <1>3, <1>4, <1>5, <1>6, ZenonT(30) DEF Goes, Reaping, Rests
  <1>8. QED
    BY <1>1, <1>7, GoesKeeps, ZenonT(30) DEF Going

\* SYS_EXIT comes back.
LEMMA ExitReturnGoes ==
    ASSUME NEW c, Going(c), ExitReturn(c)
    PROVE  J' /\ Honoured
  <1> DEFINE t == exec[c]
             f == [frame[t] EXCEPT !.at = "run", !.masked = FALSE]
  <1>1. /\ t \in Task /\ FrameOK(t, frame[t]) /\ mode[c] = "task" /\ frame[t].at = "x_back"
        /\ frame[t].wait \in Nat /\ c \in Cpu
    BY AtTask DEF ExitReturn
  <1>2. /\ frame' = [frame EXCEPT ![t] = f]
        /\ UNCHANGED <<tasks, current, cap, exec, rsp, pend, mode, arg, left, state>>
    BY Zenon DEF ExitReturn, queues, cpus, tcbs
  <1>3. f.at = "run" /\ f.wait = frame[t].wait
    BY <1>1, FieldsAre, ZenonT(30) DEF FrameOK
  <1> HIDE DEF f
  <1>4. Rests
    BY <1>2, RestsStill DEF Going
  <1>5. Settled(c, f, "task") /\ ~InSleep(f)
    BY <1>1, <1>3, ZenonT(30) DEF Settled, HomeOK, InSleep
  <1>6. Goes(c, f, "task")
    BY <1>1, <1>2, <1>3, <1>4, <1>5, ZenonT(30) DEF Goes, Reaping, Rests
  <1>7. QED
    BY <1>1, <1>6, GoesKeeps, ZenonT(30) DEF Going

\* The idle loop of an AP looks for work.
LEMMA IdleCheckGoes ==
    ASSUME NEW c, Going(c), IdleCheck(c)
    PROVE  J' /\ Honoured
  <1> DEFINE t == exec[c]
  <1>1. /\ t \in Task /\ FrameOK(t, frame[t]) /\ mode[c] = "task" /\ frame[t].at = "idle"
        /\ frame[t].wait \in Nat /\ c \in Cpu
    BY AtTask, Zenon DEF IdleCheck
  <1>2. UNCHANGED <<tasks, current, cap, exec, rsp, pend, mode, arg, left, state>>
    BY Zenon DEF IdleCheck, queues, cpus, tcbs
  <1> DEFINE f == IF OtherReady(c) THEN [frame[t] EXCEPT !.at = "i_yield"]
                  ELSE IF Len(tasks[c]) > 1
                       THEN [frame[t] EXCEPT !.at = "i_steal", !.ycpu = c, !.off = 1]
                       ELSE [frame[t] EXCEPT !.at = "i_hlt"]
  <1>3. frame' = [frame EXCEPT ![t] = f]
    BY Zenon DEF IdleCheck, Goto
  <1>4. f.at \in {"i_yield", "i_steal", "i_hlt"} /\ f.wait = frame[t].wait
    BY <1>1, FieldsAre, ZenonT(30) DEF FrameOK
  <1> HIDE DEF f
  <1>5. Rests
    BY <1>2, RestsStill, ZenonT(30) DEF Going
  <1>6. Settled(c, f, "task") /\ ~InSleep(f)
    BY <1>1, <1>4 DEF Settled, HomeOK, InSleep
  <1>7. Goes(c, f, "task")
    BY <1>1, <1>2, <1>3, <1>4, <1>5, <1>6, ZenonT(30) DEF Goes, Reaping, Rests
  <1>8. QED
    BY <1>1, <1>7, GoesKeeps, ZenonT(30) DEF Going

\* Task::new by the shell.
LEMMA SpawnCallGoes ==
    ASSUME NEW c, Going(c), SpawnCall(c)
    PROVE  J' /\ Honoured
  <1> DEFINE t == exec[c]
             l == IF N = 1 THEN "sp_push" ELSE "sp_scan"
  <1>1. PICK x \in Task :
          /\ state[x] = "Unborn" /\ state' = [state EXCEPT ![x] = "Ready"]
          /\ frame' = [frame EXCEPT ![Shell].at = l, ![Shell].hand = x]
    BY Zenon DEF SpawnCall
  <1> DEFINE f == [frame[t] EXCEPT !.at = l, !.hand = x]
  <1>2. /\ t \in Task /\ FrameOK(t, frame[t]) /\ mode[c] = "task" /\ frame[t].at = "run"
        /\ frame[t].wait \in Nat /\ c \in Cpu /\ t = Shell
    BY AtTask DEF SpawnCall
  <1>3. /\ frame' = [frame EXCEPT ![t] = f]
        /\ UNCHANGED <<tasks, current, cap, exec, rsp, pend, mode, arg, left>>
    <2> HIDE DEF l
    <2>1. frame' = [frame EXCEPT ![t] = f]
      BY <1>1, <1>2, Zenon
    <2>2. QED
      BY <2>1, Zenon DEF SpawnCall, queues, cpus
  <1>4. f.at \in {"sp_push", "sp_scan"} /\ f.wait = frame[t].wait
    <2>1. l \in {"sp_push", "sp_scan"}
      BY Zenon
    <2> HIDE DEF l
    <2>2. f.at = l /\ f.wait = frame[t].wait
      BY <1>2, FieldsAre, ZenonT(30) DEF FrameOK
    <2>3. QED
      BY <2>1, <2>2, ZenonT(30)
  <1> HIDE DEF f, l
  <1>5. Rests
    <2>1. \A s \in Task : state'[s] = state[s] \/ state[s] = "Unborn"
      BY <1>1, QFacts, ZeroCpu DEF Going, IInv
    <2>2. QED
      BY <1>3, <2>1, RestsStill, ZenonT(30) DEF Going
  <1>6. Settled(c, f, "task") /\ ~InSleep(f)
    BY <1>2, <1>4, Zenon DEF Settled, HomeOK, InSleep
  <1>7. Goes(c, f, "task")
    BY <1>2, <1>3, <1>4, <1>5, <1>6, ZenonT(30) DEF Goes, Reaping, Rests
  <1>8. QED
    BY <1>2, <1>7, GoesKeeps, ZenonT(30) DEF Going

\* choose_target_cpu.
LEMMA SpawnScanGoes ==
    ASSUME NEW c, Going(c), SpawnScan(c)
    PROVE  J' /\ Honoured
  <1> DEFINE t == exec[c]
             g == frame[Shell]
             f == [g EXCEPT !.best = IF g.off = 0 \/ Len(tasks[g.off]) < g.load THEN g.off ELSE @,
                     !.load = IF g.off = 0 \/ Len(tasks[g.off]) < @ THEN Len(tasks[g.off]) ELSE @,
                     !.off = IF @ + 1 < N THEN @ + 1 ELSE 0,
                     !.at = IF g.off + 1 < N THEN @ ELSE "sp_push"]
  <1>1. /\ t \in Task /\ FrameOK(t, frame[t]) /\ mode[c] = "task" /\ frame[t].at = "sp_scan"
        /\ frame[t].wait \in Nat /\ c \in Cpu
    BY AtTask, ZenonT(30) DEF SpawnScan
  <1>2. t = Shell
    BY <1>1, Zenon DEF FrameOK, ShellPoints
  <1>3. /\ frame' = [frame EXCEPT ![t] = f]
        /\ UNCHANGED <<tasks, current, cap, exec, rsp, pend, mode, arg, left, state>>
    BY <1>1, <1>2, FieldsAre, ZenonT(30) DEF SpawnScan, queues, cpus, tcbs, FrameOK
  <1>4. f.at \in {"sp_push", "sp_scan"} /\ f.wait = frame[t].wait
    BY <1>1, <1>2, FieldsAre DEF FrameOK
  <1> HIDE DEF f
  <1>5. Rests
    BY <1>3, RestsStill DEF Going
  <1>6. Settled(c, f, "task") /\ ~InSleep(f)
    BY <1>1, <1>4 DEF Settled, HomeOK, InSleep
  <1>7. Goes(c, f, "task")
    BY <1>1, <1>3, <1>4, <1>5, <1>6, ZenonT(30) DEF Goes, Reaping, Rests
  <1>8. QED
    BY <1>1, <1>7, GoesKeeps, ZenonT(30) DEF Going

\* The new task joins a queue, perhaps that of a CPU that is about to switch: the buffer
\* does not move, and what is appended moves no slot.
LEMMA SpawnPushGoes ==
    ASSUME NEW c, Going(c), Alone', SpawnPush(c)
    PROVE  J' /\ Honoured
  <1> DEFINE t == exec[c]
             k == frame[t].best
             x == frame[t].hand
             f == Frame0("run")
  <1>1. /\ t \in Task /\ FrameOK(t, frame[t]) /\ mode[c] = "task" /\ frame[t].at = "sp_push"
        /\ frame[t].wait \in Nat /\ c \in Cpu
    BY AtTask, Zenon DEF SpawnPush
  <1>2. t = Shell /\ k \in Cpu /\ x \in Task \cup {NoTask}
    BY <1>1, Zenon DEF FrameOK, ShellPoints
  <1>3. /\ frame' = [frame EXCEPT ![t] = f]
        /\ tasks' = [tasks EXCEPT ![k] = Append(@, x)]
        /\ cap' = [cap EXCEPT ![k] = IF Len(tasks[k]) = @ THEN 2 * @ ELSE @]
        /\ UNCHANGED <<current, exec, rsp, pend, mode, arg, left, state>>
    BY <1>2, ZenonT(30) DEF SpawnPush, Push, cpus, tcbs
  <1>4. f.at = "run" /\ f.wait = 0 /\ f.hand = NoTask
    BY DEF Frame0
  <1>5. /\ tasks \in [Cpu -> Seq(Task)] /\ \A d \in Cpu : current[d] \in Slots(d)
        /\ x # NoTask
    <2>1. x # NoTask
      BY <1>1, InTask, Zenon DEF SpawnPush, Going, IInv, CarryPoints
    <2>2. QED
      BY <2>1, QFacts, Zenon DEF Going, IInv
  <1> HIDE DEF f, x, k
  <1>6. x \in Flight
    BY <1>1, <1>2, <1>5, ZenonT(30) DEF Flight, x
  <1>7. /\ \A d \in Cpu : Slots(d) \subseteq Slots(d)' /\ \A i \in Slots(d) : tasks'[d][i] = tasks[d][i]
        /\ \A d \in Cpu : \A s \in Task : Queued(s, d)' => Queued(s, d) \/ s = x
        /\ Len(tasks[k]) \in Nat /\ Len(tasks'[k]) = Len(tasks[k]) + 1
    <2>1. /\ tasks'[k] = Append(tasks[k], x) /\ \A d \in Cpu \ {k} : tasks'[d] = tasks[d]
          /\ tasks[k] \in Seq(Task) /\ x \in Task
      BY <1>2, <1>3, <1>5, ZenonT(30)
    <2>2. /\ DOMAIN tasks[k] = 1 .. Len(tasks[k]) /\ Len(tasks[k]) \in Nat
          /\ DOMAIN tasks'[k] = 1 .. Len(tasks[k]) + 1 /\ Len(tasks'[k]) = Len(tasks[k]) + 1
          /\ \A i \in 1 .. Len(tasks[k]) : tasks'[k][i] = tasks[k][i]
          /\ tasks'[k][Len(tasks[k]) + 1] = x
      BY <2>1
    <2>3. /\ \A d \in Cpu : Slots(d) \subseteq Slots(d)' /\ \A i \in Slots(d) : tasks'[d][i] = tasks[d][i]
      BY <2>1, <2>2, SMTT(30) DEF Slots
    <2>4. \A d \in Cpu : \A s \in Task : Queued(s, d)' => Queued(s, d) \/ s = x
      <3>1. \A d \in Cpu \ {k} : \A s \in Task : Queued(s, d)' => Queued(s, d)
        BY <2>1, Zenon DEF Queued, Slots
      <3>2. SUFFICES ASSUME NEW d \in Cpu, d = k, NEW s \in Task, Queued(s, d)'
                     PROVE  Queued(s, d) \/ s = x
        BY <3>1, Zenon
      <3> DEFINE n == Len(tasks[d])
      <3>3. /\ n \in Nat /\ DOMAIN tasks[d] = 1 .. n /\ DOMAIN tasks'[d] = 1 .. n + 1
            /\ \A i \in 1 .. n : tasks'[d][i] = tasks[d][i]
            /\ tasks'[d][n + 1] = x
        BY <2>2, <3>2, Zenon
      <3> HIDE DEF n
      <3>4. \E i \in 1 .. n + 1 : tasks'[d][i] = s
        BY <3>2, <3>3, Zenon DEF Queued, Slots
      <3>5. \A i \in 1 .. n + 1 : i \in 1 .. n \/ i = n + 1
        BY <3>3
      <3>6. QED
        BY <3>3, <3>4, <3>5, Zenon DEF Queued, Slots
    <2>5. QED
      BY <2>2, <2>3, <2>4, ZenonT(30)
  <1>8. N > 1 => cap' = cap
    <2>1. SUFFICES ASSUME N > 1 PROVE cap' = cap
      BY Zenon
    <2>2. cap = [d \in Cpu |-> MinCap]
      BY <2>1, Zenon DEF Going, J, Caps
    <2>3. Len(tasks[k]) <= 1
      BY <1>2, <1>7, <2>1, RunQueuesAssumption, SMTT(30) DEF Alone
    <2>4. cap[k] # Len(tasks[k])
      <3>1. cap[k] = MinCap
        BY <1>2, <2>2, Zenon
      <3>2. Len(tasks[k]) \in Nat
        BY <1>7, Zenon
      <3>3. QED
        BY <2>3, <3>1, <3>2, SizeAssumption
    <2>5. QED
      BY <1>3, <2>2, <2>4, Zenon
  <1>9. Flight' \subseteq Flight
    BY <1>1, <1>3, <1>4, ZenonT(30) DEF Flight, Going, IInv, Ctl, Types
  <1>10. Settled(c, f, "task") /\ ~InSleep(f)
    BY <1>4 DEF Settled, HomeOK, InSleep
  <1>11. Rests
    BY <1>3, RestsStill, Zenon DEF Going
  <1>12. Tidy(c)
    <2>1. /\ frame'[t] = f /\ \A s \in Task \ {t} : frame'[s] = frame[s]
      BY <1>1, <1>3, Zenon DEF Going, IInv, Ctl, Types
    <2>2. \A s \in Task \ {t} : Same(frame'[s], frame[s]) /\ frame'[s].wait \in Nat
      BY <2>1, ZenonT(30) DEF Same, Going, J, Slept
    <2>3. \A d \in Cpu, s \in Task : Queued(s, d)' => Queued(s, d) \/ s \in Flight
      BY <1>6, <1>7, ZenonT(30)
    <2>4. \A s \in Task : state'[s] = "Unborn" \/ s \in Flight' => state[s] = "Unborn" \/ s \in Flight
      BY <1>3, <1>9
    <2>5. QED
      BY <1>1, <1>3, <1>10, <1>11, <2>1, <2>2, <2>3, <2>4, ZenonT(30) DEF Tidy, Rests, Reaping
  <1>13. Steady
    <2>1. \A d \in Cpu : Cur(d)' = Cur(d)
      BY <1>3, <1>5, <1>7, ZenonT(30) DEF Cur
    <2>2. \A d \in Cpu : mode[d] = "switch" => cap'[d] = cap[d]
      <3>1. CASE N > 1
        BY <1>8, <3>1, ZenonT(30)
      <3>2. CASE ~(N > 1)
        BY <1>1, <3>2, RunQueuesAssumption DEF Cpu
      <3>3. QED
        BY <3>1, <3>2, ZenonT(30)
    <2>3. QED
      BY <1>3, <1>7, <2>1, <2>2, ZenonT(30) DEF Steady
  <1>14. Caps'
    BY <1>8, Zenon DEF Going, J, Caps
  <1>15. QED
    BY <1>12, <1>13, <1>14, TidyKeeps, SteadyKeeps, SMTT(30) DEF Going, J

\* kill_task is called.
LEMMA KillCallGoes ==
    ASSUME N = 1 \/ Targets = {}, NEW c, Going(c), KillCall(c)
    PROVE  J' /\ Honoured
  <1> DEFINE t == exec[c]
  <1>1. PICK x \in Targets : frame' = [frame EXCEPT ![Shell].at = "k_scan", ![Shell].tid = x]
    BY Zenon DEF KillCall
  <1> DEFINE f == [frame[t] EXCEPT !.at = "k_scan", !.tid = x]
  <1>2. /\ t \in Task /\ FrameOK(t, frame[t]) /\ mode[c] = "task" /\ frame[t].at = "run"
        /\ frame[t].wait \in Nat /\ c \in Cpu /\ t = Shell
    BY AtTask, Zenon DEF KillCall
  <1>3. /\ frame' = [frame EXCEPT ![t] = f] /\ N = 1
        /\ UNCHANGED <<tasks, current, cap, exec, rsp, pend, mode, arg, left, state>>
    BY <1>1, <1>2, ZenonT(30) DEF KillCall, queues, cpus, tcbs
  <1>4. f.at = "k_scan" /\ f.wait = frame[t].wait
    BY <1>2, FieldsAre, Zenon DEF FrameOK
  <1> HIDE DEF f
  <1>5. Rests
    BY <1>3, RestsStill, Zenon DEF Going
  <1>6. Settled(c, f, "task") /\ ~InSleep(f)
    BY <1>2, <1>3, <1>4, Zenon DEF Settled, HomeOK, InSleep
  <1>7. Goes(c, f, "task")
    BY <1>2, <1>3, <1>4, <1>5, <1>6, ZenonT(30) DEF Goes, Reaping, Rests
  <1>8. QED
    BY <1>2, <1>7, GoesKeeps, ZenonT(30) DEF Going

\* kill_task marks its target, or does not find it.
LEMMA KillScanGoes ==
    ASSUME NEW c, Going(c), KillScan(c)
    PROVE  J' /\ Honoured
  <1> DEFINE t == exec[c]
             g == frame[Shell]
             f1 == [g EXCEPT !.at = "k_reap"]
             f2 == IF g.off + 1 < N THEN [g EXCEPT !.off = @ + 1] ELSE Frame0("run")
  <1>1. /\ t \in Task /\ FrameOK(t, frame[t]) /\ mode[c] = "task" /\ frame[t].at = "k_scan"
        /\ frame[t].wait \in Nat /\ c \in Cpu /\ N = 1
    BY AtTask, Zenon DEF KillScan
  <1>2. t = Shell
    BY <1>1, Zenon DEF FrameOK, ShellPoints
  <1>3. UNCHANGED <<tasks, current, cap, exec, rsp, pend, mode, arg, left>>
    BY Zenon DEF KillScan, queues, cpus
  <1>4. /\ f1.at = "k_reap" /\ f1.wait = frame[t].wait
        /\ f2.at \in {"k_scan", "run"} /\ f2.wait \in Nat
    <2>1. Frame0("run").at = "run" /\ Frame0("run").wait = 0
      BY Zenon DEF Frame0
    <2>2. QED
      BY <1>1, <1>2, <2>1, FieldsAre, SMTT(30) DEF FrameOK
  <1>5. \/ state' = [state EXCEPT ![g.tid] = "Dead"] /\ frame' = [frame EXCEPT ![t] = f1]
        \/ state' = state /\ frame' = [frame EXCEPT ![t] = f2]
    BY <1>2, Zenon DEF KillScan, Goto
  <1>6. PICK f \in {f1, f2} : frame' = [frame EXCEPT ![t] = f]
    BY <1>5, Zenon
  <1>7. f.at \in {"k_scan", "k_reap", "run"} /\ f.wait \in Nat
    BY <1>1, <1>4, <1>6, Zenon
  <1> HIDE DEF f1, f2
  <1>8. Rests
    <2>1. \A s \in Task : state'[s] = state[s] \/ state'[s] = "Dead"
      BY <1>5, QFacts, ZeroCpu, ZenonT(30) DEF Going, IInv
    <2>2. QED
      BY <1>3, <2>1, RestsStill, ZenonT(30) DEF Going
  <1>9. Settled(c, f, "task") /\ ~InSleep(f)
    BY <1>1, <1>7, Zenon DEF Settled, HomeOK, InSleep
  <1>10. Goes(c, f, "task")
    BY <1>1, <1>3, <1>6, <1>7, <1>8, <1>9, ZenonT(30) DEF Goes, Reaping, Rests
  <1>11. QED
    BY <1>1, <1>10, GoesKeeps, ZenonT(30) DEF Going

\* kill_task locks the queue it found its target in: there is only one.
LEMMA KillReapGoes ==
    ASSUME NEW c, Going(c), KillReap(c)
    PROVE  J' /\ Honoured
  <1> DEFINE t == exec[c]
             f == Frame0("run")
  <1>1. /\ t \in Task /\ FrameOK(t, frame[t]) /\ mode[c] = "task" /\ frame[t].at = "k_reap"
        /\ c \in Cpu /\ N = 1
    BY AtTask, ZenonT(30) DEF KillReap
  <1>2. t = Shell /\ frame[t].off = c
    <2>1. frame[t].off \in Cpu /\ t = Shell
      BY <1>1, Zenon DEF FrameOK, ShellPoints
    <2>2. QED
      BY <1>1, <2>1 DEF Cpu
  <1>3. /\ frame' = [frame EXCEPT ![t] = f] /\ mode' = [mode EXCEPT ![c] = "kreap"]
        /\ arg' = [arg EXCEPT ![c] = c]
        /\ UNCHANGED <<tasks, current, cap, exec, rsp, pend, left, state>>
    BY <1>2, ZenonT(30) DEF KillReap, Enter, queues, tcbs
  <1>4. f.at = "run" /\ f.wait = 0
    BY Zenon DEF Frame0
  <1> HIDE DEF f
  <1>5. Rests
    BY <1>3, RestsStill, ZenonT(30) DEF Going
  <1>6. Settled(c, f, "kreap") /\ ~InSleep(f)
    BY <1>4 DEF Settled, HomeOK, InSleep
  <1>7. arg'[c] = c /\ \A d \in Cpu \ {c} : arg'[d] = arg[d]
    BY <1>1, <1>3, ZenonT(30) DEF Going, IInv, Ctl, Types
  <1>8. Goes(c, f, "kreap")
    BY <1>1, <1>3, <1>4, <1>5, <1>6, <1>7, ZenonT(30) DEF Goes, Rests
  <1>9. QED
    BY <1>1, <1>8, GoesKeeps, ZenonT(30) DEF Going

\* The local timer locks its own queue.
LEMMA TimerReapGoes ==
    ASSUME NEW c, Going(c), TimerReap(c)
    PROVE  J' /\ Honoured
  <1> DEFINE t == exec[c]
  <1>1. /\ mode[c] = "reap0" /\ frame' = frame /\ mode' = [mode EXCEPT ![c] = "reap"]
        /\ arg' = [arg EXCEPT ![c] = c]
        /\ UNCHANGED <<tasks, current, cap, exec, rsp, pend, left, state>>
    BY DEF TimerReap, Enter, queues, tcbs
  <1>2. Settled(c, frame[t], "reap") /\ (InSleep(frame[t]) => Rested(t)) /\ t \in Task /\ c \in Cpu
    BY AtWork, Zenon DEF Going, Settled
  <1>3. Rests
    BY <1>1, RestsStill, Zenon DEF Going
  <1>4. arg'[c] = c /\ \A d \in Cpu \ {c} : arg'[d] = arg[d]
    BY <1>1, <1>2, Zenon DEF Going, IInv, Ctl, Types
  <1>5. InSleep(frame[t]) => Rested(t)'
    BY <1>1, <1>2, <1>3, ZenonT(30) DEF Rests
  <1>6. Goes(c, frame[t], "reap")
    BY <1>1, <1>2, <1>3, <1>4, <1>5, ZenonT(30) DEF Goes, Rests
  <1>7. QED
    BY <1>2, <1>6, GoesKeeps, ZenonT(30) DEF Going

\* An interrupt ends hlt, and nothing else in a context.
LEMMA ResumeHome ==
    ASSUME NEW t, NEW f, FrameOK(t, f), NEW c, NEW m, Settled(c, f, "task"),
           m \in {"reap0", "preempt", "pit"}
    PROVE  /\ Settled(c, [f EXCEPT !.at = Resume(f.at)], m)
           /\ InSleep([f EXCEPT !.at = Resume(f.at)]) => InSleep(f)
           /\ [f EXCEPT !.at = Resume(f.at)].at = "run" => f.at = "run"
  <1> DEFINE l == Resume(f.at)
             g == [f EXCEPT !.at = Resume(f.at)]
  <1>1. g.at = l /\ g.ret = f.ret /\ g.ycpu = f.ycpu /\ g.scpu = f.scpu /\ g.wait = f.wait
    BY FieldsAre, Zenon DEF FrameOK
  <1>2. l = f.at \/ (f.at = "s_hlt" /\ l = "s_loop") \/ (f.at = "i_hlt" /\ l = "idle")
    BY Zenon DEF Resume
  <1> HIDE DEF l, g
  <1>3. InSleep(g) <=> InSleep(f)
    BY <1>1, <1>2, ZenonT(30) DEF InSleep
  <1>4. Settled(c, g, m)
    BY <1>1, <1>2, <1>3, ZenonT(30) DEF Settled, HomeOK
  <1>5. g.at = "run" => f.at = "run"
    BY <1>1, <1>2, ZenonT(30)
  <1>6. QED
    BY <1>3, <1>4, <1>5, ZenonT(30) DEF g

\* The local timer interrupt.
LEMMA LapicTickGoes ==
    ASSUME NEW c, Going(c), LapicTick(c)
    PROVE  J' /\ Honoured
  <1> DEFINE t == exec[c]
             f == [frame[t] EXCEPT !.at = Resume(frame[t].at)]
             m == IF clock = 0 THEN "reap0" ELSE "preempt"
  <1>1. /\ mode[c] = "task" /\ WakeDue(c)
        /\ frame' = [frame EXCEPT ![t] = f] /\ mode' = [mode EXCEPT ![c] = m]
        /\ UNCHANGED <<tasks, current, cap, rsp, exec, arg, pend, left>>
    BY DEF LapicTick, Interruptible, Goto, Enter, queues
  <1>2. /\ Settled(c, frame[t], "task") /\ (InSleep(frame[t]) => Rested(t)) /\ t \in Task
        /\ c \in Cpu /\ FrameOK(t, frame[t])
    BY AtWork, Zenon DEF Going, Settled
  <1>3. m \in {"reap0", "preempt", "pit"}
    OBVIOUS
  <1> HIDE DEF m
  <1>4. Settled(c, f, m) /\ (InSleep(f) => InSleep(frame[t])) /\ (f.at = "run" => frame[t].at = "run")
    BY <1>2, <1>3, ResumeHome, ZenonT(30)
  <1> HIDE DEF f
  <1>5. Rests
    BY <1>1, RestsWake, ZenonT(30) DEF Going
  <1>6. InSleep(f) => Rested(t)'
    BY <1>1, <1>2, <1>4, <1>5, ZenonT(30) DEF Rests
  <1>7. Goes(c, f, m)
    BY <1>1, <1>2, <1>3, <1>4, <1>5, <1>6, ZenonT(30) DEF Goes, Rests, Reaping
  <1>8. QED
    BY <1>2, <1>7, GoesKeeps, ZenonT(30) DEF Going

\* The wake-up loop of the global timer, over the queues of all CPUs.
LEMMA PitWakeGoes ==
    ASSUME Going(0), PitWake
    PROVE  J' /\ Honoured
  <1> DEFINE t == exec[0]
  <1>1. /\ mode[0] = "pit" /\ frame' = frame
        /\ UNCHANGED <<tasks, current, cap, exec, rsp, pend, left>>
        /\ \E a : arg' = [arg EXCEPT ![0] = a]
    BY DEF PitWake, queues
  <1>2. /\ \A m : m \in {"pit", "preempt"} => Settled(0, frame[t], m)
        /\ InSleep(frame[t]) => Rested(t)
        /\ t \in Task /\ 0 \in Cpu
    BY AtWork, Zenon DEF Going, Settled
  <1>3. Rests
    <2>1. CASE WakeDue(arg[0])
      BY <1>1, <2>1, RestsWake, ZenonT(30) DEF Going
    <2>2. CASE state' = state
      BY <1>1, <2>2, RestsStill, ZenonT(30) DEF Going
    <2>3. QED
      BY <2>1, <2>2, ZenonT(30) DEF PitWake
  <1>4. \A d \in Cpu \ {0} : arg'[d] = arg[d]
    BY <1>1, ZenonT(30) DEF Going, IInv, Ctl, Types
  <1>5. InSleep(frame[t]) => Rested(t)'
    BY <1>1, <1>2, <1>3, ZenonT(30) DEF Rests
  <1>6. CASE mode' = mode
    <2>1. Goes(0, frame[t], "pit")
      BY <1>1, <1>2, <1>3, <1>4, <1>5, <1>6, ZenonT(30) DEF Goes, Rests, Reaping
    <2>2. QED
      BY <1>2, <2>1, GoesKeeps, ZenonT(30) DEF Going
  <1>7. CASE mode' = [mode EXCEPT ![0] = "preempt"]
    <2>1. Goes(0, frame[t], "preempt")
      BY <1>1, <1>2, <1>3, <1>4, <1>5, <1>7, ZenonT(30) DEF Goes, Rests, Reaping
    <2>2. QED
      BY <1>2, <2>1, GoesKeeps, ZenonT(30) DEF Going
  <1>8. QED
    BY <1>6, <1>7, ZenonT(30) DEF PitWake, Enter

\* The tick of the global timer: every wake tick comes one tick closer.
LEMMA PitTickGoes ==
    ASSUME Going(0), PitTick
    PROVE  J' /\ Honoured
  <1> DEFINE t == exec[0]
             f == [frame[t] EXCEPT !.at = Resume(frame[t].at)]
             g(s) == [frame[s] EXCEPT !.wait = Passed(frame[s].wait),
                        !.at = IF s = t THEN Resume(frame[s].at) ELSE frame[s].at]
  <1>1. /\ mode[0] = "task" /\ mode' = [mode EXCEPT ![0] = "pit"]
        /\ frame' = [s \in Task |-> g(s)]
        /\ left' = [s \in Task |-> Passed(left[s])]
        /\ UNCHANGED <<tasks, current, cap, exec, rsp, pend, arg, state>>
    BY Zenon DEF PitTick, Interruptible, Enter, queues
  <1>2. /\ Settled(0, frame[t], "task") /\ (InSleep(frame[t]) => Rested(t)) /\ t \in Task
        /\ 0 \in Cpu /\ FrameOK(t, frame[t])
    BY AtWork, Zenon DEF Going, Settled
  <1>3. /\ Settled(0, f, "pit") /\ (InSleep(f) => InSleep(frame[t]))
        /\ f.at = "run" => frame[t].at = "run"
    BY <1>2, ResumeHome, ZenonT(30)
  <1>4. \A n \in Nat : Passed(n) \in Nat /\ (n = 0 => Passed(n) = 0)
    BY DEF Passed
  <1>5. \A s \in Task : FrameOK(s, frame[s]) /\ frame[s].wait \in Nat /\ left[s] \in Nat
    BY Zenon DEF Going, IInv, Ctl, Types, J, Slept
  <1>6. \A s \in Task \ {t} : Same(frame'[s], frame[s]) /\ frame'[s].wait \in Nat
    <2>1. SUFFICES ASSUME NEW s \in Task \ {t} PROVE Same(g(s), frame[s]) /\ g(s).wait \in Nat
      BY <1>1, Zenon
    <2>2. QED
      BY <1>4, <1>5, <2>1, FieldsAre, ZenonT(30) DEF Same, FrameOK
  <1>7. Settled(0, frame'[t], "pit") /\ (InSleep(frame'[t]) => InSleep(frame[t]))
        /\ (frame'[t].at = "run" => frame[t].at = "run")
    <2>1. Same(g(t), f) /\ g(t).wait \in Nat
      BY <1>2, <1>4, <1>5, FieldsAre, ZenonT(30) DEF Same, FrameOK
    <2>2. frame'[t] = g(t)
      BY <1>1, <1>2, ZenonT(30)
    <2> HIDE DEF f, g
    <2>3. QED
      BY <1>3, <2>1, <2>2, ZenonT(30) DEF Same, Settled, HomeOK, InSleep
  <1> HIDE DEF f, g
  <1>8. left' \in [Task -> Nat] /\ \A s \in Task : Rested(s) => Rested(s)'
    BY <1>1, <1>4, <1>5 DEF Rested
  <1>9. /\ mode'[0] = "pit" /\ \A d \in Cpu \ {0} : mode'[d] = mode[d]
    BY <1>1, <1>2, Zenon DEF Going, IInv, Ctl, Types
  <1>10. Tidy(0)
    <2>1. \A d \in Cpu, s \in Task : Queued(s, d)' => Queued(s, d)
      BY <1>1, Zenon DEF Queued, Slots
    <2>2. \A s \in Task : state'[s] = "Unborn" \/ s \in Flight' => state[s] = "Unborn" \/ s \in Flight
      BY <1>1, Zenon DEF Going, Ages
    <2>3. InSleep(frame'[t]) => Rested(t)'
      BY <1>1, <1>2, <1>7, <1>8, ZenonT(30)
    <2>4. QED
      BY <1>1, <1>6, <1>7, <1>8, <1>9, <2>1, <2>2, <2>3, ZenonT(30) DEF Tidy, Reaping
  <1>11. Steady
    BY <1>1, <1>9, ZenonT(30) DEF Steady, Cur, Slots
  <1>12. Caps'
    BY <1>1, Zenon DEF Going, J, Caps
  <1>13. QED
    BY <1>10, <1>11, <1>12, TidyKeeps, SteadyKeeps, ZenonT(30) DEF Going, J

\* No task is current on two CPUs, and no slot but the current one holds the current task.
LEMMA OneCur ==
    ASSUME RQ!IInv, NEW c \in Cpu, NEW i \in Slots(c), NEW d \in Cpu, NEW t, Queued(t, d),
           tasks[c][i] = t
    PROVE  d = c /\ \A j \in Slots(c) : tasks[c][j] = t => j = i
  BY ZenonT(30) DEF RQ!IInv, RQ!OneSlot, RQ!Slots, Queued, Slots, RQ!Cpu, Cpu

\* switch_context: the old pointer goes to the slot of the task that executed, the new one
\* is the one the current task saved.
LEMMA SwitchContextGoes ==
    ASSUME NEW c, Going(c), SwitchContext(c)
    PROVE  J' /\ Honoured
  <1> DEFINE x == exec[c]
             y == Cur(c)
             p == pend[c]
             saved == IF p.cap = cap[p.cpu] /\ p.idx \in Slots(p.cpu)
                      THEN [rsp EXCEPT ![tasks[p.cpu][p.idx]] = exec[c]] ELSE rsp
  <1>1. /\ mode[c] = "switch" /\ c \in Cpu
        /\ UNCHANGED <<tasks, current, cap, state, left, arg, frame>>
        /\ mode' = [mode EXCEPT ![c] = "task"]
        /\ exec' = [exec EXCEPT ![c] = IF p.new = Stale THEN Wild ELSE p.new]
        /\ rsp' = [t \in Task |-> IF saved[t] = p.new THEN Stale ELSE saved[t]]
        /\ pend' = [d \in Cpu |->
                      IF d = c THEN NoSwitch
                      ELSE IF pend[d].new = p.new THEN [pend[d] EXCEPT !.new = Stale]
                      ELSE pend[d]]
    BY Zenon DEF SwitchContext, Enter, queues, Going
  <1>2. Switching(c) /\ RQ!IInv
    BY <1>1, Zenon DEF Going, J, OnCur, IInv
  <1>3. /\ p.new = y /\ y \in Task /\ y # Stale /\ x \in Task /\ x # y
    <2>1. y \in Task
      BY <1>1, <1>2, QFacts, Zenon DEF Cur
    <2>2. x \in Task
      BY <1>1, AtWork, Zenon DEF Going
    <2>3. QED
      BY <1>1, <1>2, <2>1, <2>2, SchedulerAssumption, SMTT(30) DEF Switching, Going, IInv, Ctl, Stacks
  <1>4. saved = [rsp EXCEPT ![x] = x]
    BY <1>2, ZenonT(30) DEF Switching
  <1> HIDE DEF saved
  <1>5. /\ exec'[c] = y /\ \A d \in Cpu \ {c} : exec'[d] = exec[d]
        /\ mode'[c] = "task" /\ \A d \in Cpu \ {c} : mode'[d] = mode[d]
        /\ \A t \in Task : saved[t] = IF t = x THEN x ELSE rsp[t]
    BY <1>1, <1>3, <1>4, ZenonT(30) DEF Going, IInv, Ctl, Types
  <1>6. Saved'
    <2>1. SUFFICES ASSUME NEW t \in Task, state[t] # "Reaped", \A d \in Cpu : exec'[d] # t
                   PROVE  rsp'[t] = t
      BY <1>1, ZenonT(30) DEF Saved
    <2>2. t # y
      BY <1>1, <1>5, <2>1
    <2>3. saved[t] = t
      BY <1>5, <2>1, ZenonT(30) DEF Going, J, Saved
    <2>4. QED
      BY <1>1, <1>3, <2>2, <2>3, ZenonT(30)
  <1>7. OnCur'
    <2>1. \A d \in Cpu : Cur(d)' = Cur(d)
      BY <1>1 DEF Cur
    <2>2. SUFFICES ASSUME NEW d \in Cpu \ {c}, mode[d] = "switch" PROVE Switching(d)'
      BY <1>5, <2>1, ZenonT(30) DEF OnCur, Going, J
    <2>3. Switching(d)
      BY <2>2, Zenon DEF Going, J, OnCur
    <2>4. Cur(d) # y
      <3>1. /\ current[c] \in Slots(c) /\ tasks[c][current[c]] = y
            /\ current[d] \in Slots(d) /\ tasks[d][current[d]] = Cur(d)
        BY <1>1, <1>2, QFacts, Zenon DEF Cur
      <3>2. QED
        BY <1>1, <1>2, <2>2, <3>1, OneCur, SMTT(30) DEF Queued
    <2>5. pend'[d] = pend[d]
      BY <1>1, <1>3, <2>3, <2>4, Zenon DEF Switching
    <2>6. QED
      BY <1>1, <1>5, <2>1, <2>3, <2>5, Zenon DEF Switching, Slots
  <1>8. AtHome'
    <2>1. \A d \in Cpu : mode'[d] \in {"steal", "select"} => frame'[exec'[d]].ycpu = d
      BY <1>1, <1>5, Zenon DEF Going, J, AtHome
    <2>2. Flight' = Flight
      BY <1>1, Zenon DEF Flight
    <2>3. QED
      BY <1>1, <2>1, <2>2, Zenon DEF Going, J, AtHome, Slots
  <1>9. Calm' /\ Caps'
    BY <1>1, <1>5, ZenonT(30) DEF Going, J, Calm, Caps, Reaping
  <1>10. Slept' /\ Honoured
    BY <1>1, Zenon DEF Going, J, Slept, Rested, Honoured
  <1>11. QED
    BY <1>6, <1>7, <1>8, <1>9, <1>10, Zenon DEF J
=============================================================================
