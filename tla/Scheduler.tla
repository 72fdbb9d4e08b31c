----------------------------- MODULE Scheduler -----------------------------
(***************************************************************************)
(* Execution of tasks on CPUs (src/task/mod.rs with its interrupt and      *)
(* system-call callers).  Each function that takes more than one lock, or  *)
(* that can be interrupted, is split at exactly those points; each step    *)
(* below is one critical section or one stretch without shared state.      *)
(*                                                                         *)
(* A context is the stack of a task.  exec[c] is the context CPU c is on.  *)
(* frame[t] holds the program point and locals of context t; they survive  *)
(* preemption.  mode[c], arg[c] and pend[c] hold the locals of code that   *)
(* runs with interrupts off (yield_now after cli, the timer handlers).     *)
(*                                                                         *)
(* rsp[t] is the context that the saved stack pointer of TCB t leads to:   *)
(* the last suspension of that context, or Stale once it has resumed; the  *)
(* copy a CPU has made for its switch goes stale with it.                  *)
(* Loading a Stale pointer puts the CPU on a stack in use elsewhere; what  *)
(* it then executes is undefined, exec[c] = Wild, and c takes no further   *)
(* step of this specification.                                             *)
(***************************************************************************)
EXTENDS Tasks, Sequences, FiniteSetsExt

CONSTANTS NoTask, Stale, Wild,
          Quantum,       \* DEFAULT_QUANTUM
          ReapPeriod,    \* the 25 of smp_timer_tick
          MinCap,        \* capacity a Vec<Task> gets on its first push
          SleepTicks,    \* the argument of sleep_ticks
          Yielders, Sleepers, Exiters,     \* which tasks call what
          Targets        \* the TIDs the shell may pass to kill_task

ASSUME SchedulerAssumption ==
    /\ NoTask \notin Task /\ Stale \notin Task /\ Wild \notin Task
    /\ Stale # NoTask /\ Wild # NoTask /\ Stale # Wild

\* CPU 0 starts with two tasks in its first buffer.
ASSUME SizeAssumption == MinCap \in Nat \ {0, 1} /\ SleepTicks \in Nat

Shell == Root[0]

VARIABLES tasks, current, cap,             \* CPU_SCHEDULERS[c]; cap identifies the Vec's buffer
          state, left, quantum, rsp,       \* Task; left is the wake tick minus TICKS
          exec, mode, arg, pend,           \* what each CPU is doing
          frame,                           \* [Task -> locals of the context]
          clock                            \* TICKS modulo ReapPeriod

queues == <<tasks, current, cap>>
tcbs == <<state, left, quantum, rsp>>
cpus == <<exec, mode, arg, pend>>
vars == <<tasks, current, cap, state, left, quantum, rsp,
          exec, mode, arg, pend, frame, clock>>

NoSwitch == [cpu |-> 0, cap |-> 0, idx |-> 0, new |-> NoTask]
Frame0(l) == [at |-> l, masked |-> FALSE, ret |-> "run", ycpu |-> 0, scpu |-> 0, off |-> 0,
              hand |-> NoTask, tid |-> NoTask, best |-> 0, load |-> 0, wait |-> 0]

Cur(k) == tasks[k][current[k]]
Slots(k) == DOMAIN tasks[k]
Queued(t, k) == \E i \in Slots(k) : tasks[k][i] = t

\* A reaping loop holds CPU_SCHEDULERS[k].
Locked(k) == \E c \in Cpu : mode[c] \in {"reap", "kreap"} /\ arg[c] = k

\* CPU c executes code of its context at program point l.
At(c, l) == mode[c] = "task" /\ exec[c] # Wild /\ frame[exec[c]].at = l

Goto(t, l) == frame' = [frame EXCEPT ![t].at = l]
Enter(c, m) == mode' = [mode EXCEPT ![c] = m]

OtherReady(k) == \E i \in Slots(k) \ {current[k]} : state[tasks[k][i]] = "Ready"

Init ==
    /\ tasks = [c \in Cpu |-> IF c = 0 THEN <<Root[0], Sentinel>> ELSE <<Root[c]>>]
    /\ current = [c \in Cpu |-> 1]
    /\ cap = [c \in Cpu |-> MinCap]
    /\ state = [t \in Task |-> IF \E c \in Cpu : t = Root[c] THEN "Running"
                               ELSE IF t = Sentinel THEN "Ready" ELSE "Unborn"]
    /\ left = [t \in Task |-> 0]
    /\ quantum = [t \in Task |-> Quantum]
    /\ rsp = [t \in Task |-> IF \E c \in Cpu : t = Root[c] THEN Stale ELSE t]
    /\ exec = [c \in Cpu |-> Root[c]]
    /\ mode = [c \in Cpu |-> "task"]
    /\ arg = [c \in Cpu |-> 0]
    /\ pend = [c \in Cpu |-> NoSwitch]
    /\ frame = [t \in Task |-> IF \E c \in Cpu \ {0} : t = Root[c]
                               THEN Frame0("idle") ELSE Frame0("run")]
    /\ clock = 1 % ReapPeriod

-----------------------------------------------------------------------------
\* Queue primitives.

\* Vec::push: a full vector moves to a buffer of twice the capacity.
Push(k, t) ==
    /\ tasks' = [tasks EXCEPT ![k] = Append(@, t)]
    /\ cap' = [cap EXCEPT ![k] = IF Len(tasks[k]) = @ THEN 2 * @ ELSE @]

\* Vec::remove with the adjustment of `current` that steal and reap make.
Remove(k, i) ==
    /\ tasks' = [tasks EXCEPT ![k] =
                   [j \in 1 .. Len(@) - 1 |-> IF j < i THEN @[j] ELSE @[j + 1]]]
    /\ current' = [current EXCEPT ![k] = IF i < @ THEN @ - 1 ELSE @]

\* Variant: the search always starts at slot 0.
PickFirst(k) ==
    LET ready == {i \in Slots(k) : state[tasks[k][i]] = "Ready"}
    IN  IF ready # {} THEN Min(ready)
        ELSE IF state[Cur(k)] = "Running" THEN current[k] ELSE 0

\* pick_next: the first Ready task after the current one, in circular order and
\* the current one last; else the current one if it may run on; else 0 (None).
PickNext(k) ==
    LET n == Len(tasks[k])
        Nth(i) == ((current[k] - 1 + i) % n) + 1
        ready == {i \in 1 .. n : state[tasks[k][Nth(i)]] = "Ready"}
    IN  IF ready # {} THEN Nth(Min(ready))
        ELSE IF state[Cur(k)] = "Running" THEN current[k] ELSE 0

\* The locals of yield_now for switch_context: where the old pointer is saved
\* (the address of a slot) and which pointer is loaded.
Elected(c, k, nx, slot) ==
    /\ pend' = [pend EXCEPT ![c] = [cpu |-> k, cap |-> cap[k], idx |-> slot,
                                    new |-> rsp[tasks[k][nx]]]]
    /\ Enter(c, "switch")
    /\ UNCHANGED <<tasks, cap, left, rsp, exec, arg>>

\* Variants: the slot is taken after `current` has moved; `current` does not move.
ElectLate(c, k, nx) ==
    /\ state' = [state EXCEPT ![Cur(k)] = IF @ = "Running" THEN "Ready" ELSE @,
                              ![tasks[k][nx]] = "Running"]
    /\ current' = [current EXCEPT ![k] = nx]
    /\ Elected(c, k, nx, nx)

ElectInPlace(c, k, nx) ==
    /\ state' = [state EXCEPT ![Cur(k)] = IF @ = "Running" THEN "Ready" ELSE @,
                              ![tasks[k][nx]] = "Running"]
    /\ UNCHANGED current
    /\ Elected(c, k, nx, current[k])

\* The common tail of yield_now and preempt_schedule_on_cpu: CPU c makes nx the
\* current task of queue k, and keeps a raw pointer to the old TCB's rsp field.
Elect(c, k, nx) ==
    /\ state' = [state EXCEPT ![Cur(k)] = IF @ = "Running" THEN "Ready" ELSE @,
                              ![tasks[k][nx]] = "Running"]
    /\ current' = [current EXCEPT ![k] = nx]
    /\ Elected(c, k, nx, current[k])

\* switch_context, after the lock is gone: *old_rsp := rsp through the raw
\* pointer, then onto the new stack.
SwitchContext(c) ==
    LET p == pend[c]
        saved == IF p.cap = cap[p.cpu] /\ p.idx \in Slots(p.cpu)
                 THEN [rsp EXCEPT ![tasks[p.cpu][p.idx]] = exec[c]] ELSE rsp
    IN  /\ mode[c] = "switch"
        /\ rsp' = [t \in Task |-> IF saved[t] = p.new THEN Stale ELSE saved[t]]
        /\ exec' = [exec EXCEPT ![c] = IF p.new = Stale THEN Wild ELSE p.new]
        /\ pend' = [d \in Cpu |->
                      IF d = c THEN NoSwitch
                      ELSE IF pend[d].new = p.new THEN [pend[d] EXCEPT !.new = Stale]
                      ELSE pend[d]]
        /\ Enter(c, "task")
        /\ UNCHANGED <<queues, state, left, quantum, arg, frame, clock>>

-----------------------------------------------------------------------------
\* yield_now.  The CPU number is read before interrupts are disabled; from the
\* first lock on, the context cannot be interrupted.  AfterYield is where the
\* caller continues.
AfterYield == [run |-> "run", s_loop |-> "s_check", x_yield |-> "x_back",
               f_yield |-> "f_hlt", i_yield |-> "idle"]

YieldCall(c) ==
    LET t == exec[c] IN
    /\ \E l \in DOMAIN AfterYield :
         /\ At(c, l)
         /\ l = "run" => t \in Yielders
         /\ frame' = [frame EXCEPT ![t].at = "y_enter", ![t].ret = AfterYield[l],
                                   ![t].ycpu = c,
                                   ![t].masked = IF l = "run" THEN t \in User ELSE @]
    /\ UNCHANGED <<queues, tcbs, cpus, clock>>

\* cli; look for work; the context will resume at its return point.
YieldCheck(c) ==
    LET t == exec[c]
        k == frame[t].ycpu
        stealing == ~OtherReady(k) /\ Len(tasks[k]) > 1 /\ N > 1
    IN  /\ At(c, "y_enter")
        /\ ~Locked(k)
        /\ Enter(c, IF stealing THEN "steal" ELSE "select")
        /\ frame' = [frame EXCEPT ![t].at = frame[t].ret,
                                  ![t].off = IF stealing THEN 1 ELSE @,
                                  ![t].masked = @ /\ frame[t].ret \notin {"run", "f_hlt"}]
        /\ UNCHANGED <<queues, tcbs, exec, arg, pend, clock>>

\* Variant: user tasks are stolen too.
LootUsers(v) == {i \in Slots(v) \ {1, current[v]} : state[tasks[v][i]] = "Ready"}

\* The slot try_steal_task would take from queue v.
Loot(v) == {i \in Slots(v) \ {1, current[v]} :
               state[tasks[v][i]] = "Ready" /\ tasks[v][i] \notin User}

\* try_steal_task, one victim per step; called by yield_now (interrupts off) and
\* by the idle loop (interrupts on).
Stealing(c) == mode[c] = "steal" \/ At(c, "i_steal")

Steal(c) ==
    LET t == exec[c]
        v == (frame[t].ycpu + frame[t].off) % N
    IN  /\ Stealing(c)
        /\ ~Locked(v)
        /\ IF Len(tasks[v]) > 2 /\ Loot(v) # {}
           THEN LET i == Min(Loot(v)) IN
                /\ Remove(v, i)
                /\ quantum' = [quantum EXCEPT ![tasks[v][i]] = Quantum]
                /\ frame' = [frame EXCEPT ![t].hand = tasks[v][i], ![t].off = 0,
                        ![t].at = IF mode[c] = "steal" THEN @ ELSE "i_insert"]
                /\ Enter(c, IF mode[c] = "steal" THEN "insert" ELSE "task")
           ELSE /\ UNCHANGED <<tasks, current, quantum>>
                /\ IF frame[t].off + 1 < N
                   THEN frame' = [frame EXCEPT ![t].off = @ + 1] /\ UNCHANGED mode
                   ELSE /\ frame' = [frame EXCEPT ![t].off = 0,
                                ![t].ycpu = IF mode[c] = "steal" THEN @ ELSE 0,
                                ![t].at = IF mode[c] = "steal" THEN @ ELSE "i_hlt"]
                        /\ Enter(c, IF mode[c] = "steal" THEN "select" ELSE "task")
        /\ UNCHANGED <<cap, state, left, rsp, exec, arg, pend, clock>>

\* Variant: the stolen task is not pushed.
StealInsertDrops(c) ==
    LET t == exec[c] IN
    /\ mode[c] = "insert" \/ At(c, "i_insert")
    /\ ~Locked(frame[t].ycpu)
    /\ frame' = [frame EXCEPT ![t].hand = NoTask, ![t].ycpu = 0,
                              ![t].at = IF mode[c] = "insert" THEN @ ELSE "i_hlt"]
    /\ Enter(c, IF mode[c] = "insert" THEN "select" ELSE "task")
    /\ UNCHANGED <<queues, tcbs, exec, arg, pend, clock>>

StealInsert(c) ==
    LET t == exec[c]
        k == frame[t].ycpu
    IN  /\ mode[c] = "insert" \/ At(c, "i_insert")
        /\ ~Locked(k)
        /\ Push(k, frame[t].hand)
        /\ frame' = [frame EXCEPT ![t].hand = NoTask,
                                  ![t].ycpu = IF mode[c] = "insert" THEN @ ELSE 0,
                                  ![t].at = IF mode[c] = "insert" THEN @ ELSE "i_hlt"]
        /\ Enter(c, IF mode[c] = "insert" THEN "select" ELSE "task")
        /\ UNCHANGED <<current, tcbs, exec, arg, pend, clock>>

YieldSelect(c) ==
    LET k == frame[exec[c]].ycpu
        nx == PickNext(k)
    IN  /\ mode[c] = "select"
        /\ ~Locked(k)
        /\ frame' = [frame EXCEPT ![exec[c]].ycpu = 0, ![exec[c]].ret = "run"]
        /\ IF Len(tasks[k]) < 2 \/ nx \in {0, current[k]}
           THEN Enter(c, "task") /\ UNCHANGED <<queues, state, left, rsp, exec, arg, pend>>
           ELSE Elect(c, k, nx)
        /\ UNCHANGED <<quantum, clock>>

-----------------------------------------------------------------------------
\* sleep_ticks.  The CPU number and the wake tick are read before the lock.
SleepCall(c) ==
    /\ At(c, "run") /\ exec[c] \in Sleepers
    /\ frame' = [frame EXCEPT ![exec[c]].at = "s_mark", ![exec[c]].scpu = c,
                              ![exec[c]].wait = SleepTicks,
                              ![exec[c]].masked = exec[c] \in User]
    /\ UNCHANGED <<queues, tcbs, cpus, clock>>

SleepMark(c) ==
    LET t == exec[c]
        k == frame[t].scpu
    IN  /\ At(c, "s_mark")
        /\ ~Locked(k)
        /\ state' = [state EXCEPT ![Cur(k)] = "Sleeping"]
        /\ left' = [left EXCEPT ![Cur(k)] = frame[t].wait]
        /\ frame' = [frame EXCEPT ![t].at = "s_loop", ![t].wait = 0]
        /\ UNCHANGED <<queues, quantum, rsp, cpus, clock>>

SleepCheck(c) ==
    LET t == exec[c]
        k == frame[t].scpu
    IN  /\ At(c, "s_check")
        /\ ~Locked(k)
        /\ IF state[Cur(k)] = "Sleeping" /\ left[Cur(k)] > 0
           THEN frame' = [frame EXCEPT ![t].at = "s_hlt", ![t].masked = FALSE]
           ELSE frame' = [frame EXCEPT ![t].at = "run", ![t].masked = FALSE, ![t].scpu = 0]
        /\ UNCHANGED <<queues, tcbs, cpus, clock>>

\* The end of demo_worker_entry and SYS_EXIT ("x"), and the termination of a
\* user task by page_fault_handler ("f").
ExitCall(c) ==
    /\ At(c, "run") /\ exec[c] \in Exiters
    /\ \E l \in {"x_mark", "f_mark"} :
         /\ l = "f_mark" => exec[c] \in User
         /\ frame' = [frame EXCEPT ![exec[c]].at = l, ![exec[c]].scpu = c,
                                   ![exec[c]].masked = exec[c] \in User]
    /\ UNCHANGED <<queues, tcbs, cpus, clock>>

ExitMark(c) ==
    LET t == exec[c]
        k == frame[t].scpu
    IN  /\ At(c, "x_mark") \/ At(c, "f_mark")
        /\ ~Locked(k)
        /\ state' = [state EXCEPT ![Cur(k)] = "Dead"]
        /\ frame' = [frame EXCEPT ![t].scpu = 0,
                        ![t].at = IF @ = "x_mark" THEN "x_yield" ELSE "f_yield"]
        /\ UNCHANGED <<queues, left, quantum, rsp, cpus, clock>>

\* SYS_EXIT returns 0 to the program if yield_now returns.
ExitReturn(c) ==
    /\ At(c, "x_back") /\ exec[c] \in User
    /\ frame' = [frame EXCEPT ![exec[c]].at = "run", ![exec[c]].masked = FALSE]
    /\ UNCHANGED <<queues, tcbs, cpus, clock>>

\* ap_idle_loop, run by the root task of an AP on its own CPU.
IdleCheck(c) ==
    LET t == exec[c] IN
    /\ At(c, "idle")
    /\ ~Locked(c)
    /\ IF OtherReady(c) THEN Goto(t, "i_yield")
       ELSE IF Len(tasks[c]) > 1
            THEN frame' = [frame EXCEPT ![t].at = "i_steal", ![t].ycpu = c, ![t].off = 1]
            ELSE Goto(t, "i_hlt")
    /\ UNCHANGED <<queues, tcbs, cpus, clock>>

-----------------------------------------------------------------------------
\* spawn: Task::new, then choose_target_cpu one queue at a time, then push.
SpawnCall(c) ==
    /\ At(c, "run") /\ exec[c] = Shell
    /\ \E t \in Task :
         /\ state[t] = "Unborn"
         /\ state' = [state EXCEPT ![t] = "Ready"]
         /\ frame' = [frame EXCEPT ![Shell].at = IF N = 1 THEN "sp_push" ELSE "sp_scan",
                                   ![Shell].hand = t]
    /\ UNCHANGED <<queues, left, quantum, rsp, cpus, clock>>

SpawnScan(c) ==
    LET f == frame[Shell] IN
    /\ At(c, "sp_scan") /\ ~Locked(f.off)
    /\ frame' = [frame EXCEPT
          ![Shell].best = IF f.off = 0 \/ Len(tasks[f.off]) < f.load THEN f.off ELSE @,
          ![Shell].load = IF f.off = 0 \/ Len(tasks[f.off]) < @ THEN Len(tasks[f.off]) ELSE @,
          ![Shell].off = IF @ + 1 < N THEN @ + 1 ELSE 0,
          ![Shell].at = IF f.off + 1 < N THEN @ ELSE "sp_push"]
    /\ UNCHANGED <<queues, tcbs, cpus, clock>>

SpawnPush(c) ==
    LET f == frame[Shell] IN
    /\ At(c, "sp_push") /\ ~Locked(f.best)
    /\ Push(f.best, f.hand)
    /\ frame' = [frame EXCEPT ![Shell] = Frame0("run")]
    /\ UNCHANGED <<current, tcbs, cpus, clock>>

\* kill_task: scan the queues one lock at a time, then reap where it was found.
KillCall(c) ==
    /\ At(c, "run") /\ exec[c] = Shell
    /\ \E t \in Targets :
         frame' = [frame EXCEPT ![Shell].at = "k_scan", ![Shell].tid = t]
    /\ UNCHANGED <<queues, tcbs, cpus, clock>>

KillScan(c) ==
    LET f == frame[Shell] IN
    /\ At(c, "k_scan") /\ ~Locked(f.off)
    /\ IF Queued(f.tid, f.off)
       THEN /\ state' = [state EXCEPT ![f.tid] = "Dead"]
            /\ Goto(Shell, "k_reap")
       ELSE /\ UNCHANGED state
            /\ frame' = [frame EXCEPT ![Shell] =
                  IF f.off + 1 < N THEN [f EXCEPT !.off = @ + 1] ELSE Frame0("run")]
    /\ UNCHANGED <<queues, left, quantum, rsp, cpus, clock>>

\* reap_dead_tasks_on_cpu(arg[c]), called by kill_task ("kreap") and by the
\* local timer ("reap"): lock, remove every dead task but the current, unlock.
KillReap(c) ==
    /\ At(c, "k_reap") /\ ~Locked(frame[Shell].off)
    /\ Enter(c, "kreap")
    /\ arg' = [arg EXCEPT ![c] = frame[Shell].off]
    /\ frame' = [frame EXCEPT ![Shell] = Frame0("run")]
    /\ UNCHANGED <<queues, tcbs, exec, pend, clock>>

TimerReap(c) ==
    /\ mode[c] = "reap0" /\ ~Locked(c)
    /\ Enter(c, "reap")
    /\ arg' = [arg EXCEPT ![c] = c]
    /\ UNCHANGED <<queues, tcbs, exec, pend, frame, clock>>

\* Variant: the current task is not skipped.
CorpsesAll(k) == {i \in Slots(k) : state[tasks[k][i]] = "Dead"}

Corpses(k) == {i \in Slots(k) \ {current[k]} : state[tasks[k][i]] = "Dead"}

ReapStep(c) ==
    LET k == arg[c] IN
    /\ mode[c] \in {"reap", "kreap"}
    /\ IF Corpses(k) # {}
       THEN LET i == Min(Corpses(k)) IN
            /\ Remove(k, i)
            /\ state' = [state EXCEPT ![tasks[k][i]] = "Reaped"]
            /\ UNCHANGED <<mode, arg>>
       ELSE /\ Enter(c, IF mode[c] = "reap" THEN "preempt" ELSE "task")
            /\ arg' = [arg EXCEPT ![c] = 0]
            /\ UNCHANGED <<tasks, current, state>>
    /\ UNCHANGED <<cap, left, quantum, rsp, exec, pend, frame, clock>>

-----------------------------------------------------------------------------
\* Timer interrupts.  They are taken when IF is set: not in the handlers, not in
\* yield_now, not in a system call or page fault of a user task before its first
\* sti, and not once a kernel context has crashed.
Interruptible(c) ==
    /\ mode[c] = "task" /\ exec[c] # Wild
    /\ frame[exec[c]].at # "x_back"
    /\ ~frame[exec[c]].masked

\* Any interrupt ends hlt.
Resume(l) == CASE l = "s_hlt" -> "s_loop" [] l = "i_hlt" -> "idle" [] OTHER -> l

UseQuantum(t) == quantum' = [quantum EXCEPT ![t] = IF @ > 0 THEN @ - 1 ELSE 0]

\* Variants: the wake tick is not compared; only the current task is looked at.
WakeEarly(k) ==
    state' = [t \in Task |-> IF Queued(t, k) /\ state[t] = "Sleeping"
                             THEN "Ready" ELSE state[t]]

WakeCurrent(k) ==
    state' = [t \in Task |-> IF t = Cur(k) /\ state[t] = "Sleeping" /\ left[t] = 0
                             THEN "Ready" ELSE state[t]]

\* The tasks of CPU k whose wake tick has come are made Ready.
WakeDue(k) ==
    state' = [t \in Task |-> IF Queued(t, k) /\ state[t] = "Sleeping" /\ left[t] = 0
                             THEN "Ready" ELSE state[t]]

\* lapic_timer_handler: the first critical section of smp_timer_tick.
LapicTick(c) ==
    /\ Interruptible(c) /\ ~Locked(c)
    /\ UseQuantum(Cur(c))
    /\ WakeDue(c)
    /\ Goto(exec[c], Resume(frame[exec[c]].at))
    /\ Enter(c, IF clock = 0 THEN "reap0" ELSE "preempt")
    /\ UNCHANGED <<queues, left, rsp, exec, arg, pend, clock>>

\* A wake tick that is past stays past.
Passed(n) == IF n > 0 THEN n - 1 ELSE 0

\* timer_handler on CPU 0: TICKS advances, then timer_tick wakes queue by queue.
PitTick ==
    /\ Interruptible(0)
    /\ clock' = (clock + 1) % ReapPeriod
    /\ left' = [t \in Task |-> Passed(left[t])]
    /\ frame' = [t \in Task |-> [frame[t] EXCEPT !.wait = Passed(@),
                                  !.at = IF t = exec[0] THEN Resume(@) ELSE @]]
    /\ Enter(0, "pit")
    /\ UNCHANGED <<queues, state, quantum, rsp, exec, arg, pend>>

PitWake ==
    /\ mode[0] = "pit"
    /\ \/ /\ arg[0] < N /\ ~Locked(arg[0])
          /\ WakeDue(arg[0])
          /\ arg' = [arg EXCEPT ![0] = @ + 1]
          /\ UNCHANGED <<quantum, mode>>
       \/ /\ arg[0] = N /\ ~Locked(0)
          /\ UseQuantum(Cur(0))
          /\ arg' = [arg EXCEPT ![0] = 0]
          /\ Enter(0, "preempt")
          /\ UNCHANGED state
    /\ UNCHANGED <<queues, left, rsp, exec, pend, frame, clock>>

\* preempt_schedule_on_cpu, the end of both handlers.
Preempt(c) ==
    LET nx == PickNext(c)
        expired == Len(tasks[c]) >= 2 /\ quantum[Cur(c)] = 0
    IN  /\ mode[c] = "preempt" /\ ~Locked(c)
        /\ IF ~expired \/ nx \in {0, current[c]}
           THEN /\ quantum' = [quantum EXCEPT ![Cur(c)] = IF expired THEN Quantum ELSE @]
                /\ Enter(c, "task")
                /\ UNCHANGED <<queues, state, left, rsp, exec, arg, pend>>
           ELSE /\ quantum' = [quantum EXCEPT ![Cur(c)] = Quantum,
                                              ![tasks[c][nx]] = Quantum]
                /\ Elect(c, c, nx)
        /\ UNCHANGED <<frame, clock>>

-----------------------------------------------------------------------------
\* What a task may choose to call, and what must follow once it has called.
Call(c) == SleepCall(c) \/ ExitCall(c) \/ SpawnCall(c) \/ KillCall(c)
           \/ (At(c, "run") /\ YieldCall(c))

Proceed(c) ==
    \/ ~At(c, "run") /\ YieldCall(c)
    \/ YieldCheck(c) \/ Steal(c) \/ StealInsert(c) \/ YieldSelect(c) \/ SwitchContext(c)
    \/ SleepMark(c) \/ SleepCheck(c) \/ ExitMark(c) \/ ExitReturn(c) \/ IdleCheck(c)
    \/ SpawnScan(c) \/ SpawnPush(c) \/ KillScan(c) \/ KillReap(c)
    \/ TimerReap(c) \/ ReapStep(c) \/ Preempt(c)

Next == PitTick \/ PitWake \/ \E c \in Cpu : Call(c) \/ Proceed(c) \/ LapicTick(c)

Spec == Init /\ [][Next]_vars

\* A CPU executes its instructions, so a context that keeps being scheduled gets
\* on: a quantum is many instructions long.  A pending timer interrupt is latched
\* by the interrupt controller and taken when IF is set, so it is not missed for
\* ever.
Fairness ==
    /\ \A c \in Cpu : WF_vars(Proceed(c)) /\ SF_vars(LapicTick(c))
    /\ \A c \in Cpu, t \in Task : SF_vars(exec[c] = t /\ mode[c] = "task" /\ Proceed(c))
    /\ SF_vars(PitTick) /\ WF_vars(PitWake)

FairSpec == Spec /\ Fairness

-----------------------------------------------------------------------------
Points == {"run", "y_enter", "s_mark", "s_loop", "s_check", "s_hlt", "x_mark", "x_yield",
           "x_back", "f_mark", "f_yield", "f_hlt", "idle", "i_yield", "i_steal",
           "i_insert", "i_hlt", "sp_scan", "sp_push", "k_scan", "k_reap"}

TypeOK ==
    /\ \A c \in Cpu : /\ \A i \in Slots(c) : tasks[c][i] \in Task
                      /\ Len(tasks[c]) <= cap[c]
                      /\ current[c] \in Nat /\ exec[c] \in Task \cup {Wild}
                      /\ mode[c] \in {"task", "steal", "insert", "select", "switch", "pit",
                                      "reap0", "reap", "kreap", "preempt"}
                      /\ arg[c] \in 0 .. N
    /\ \A t \in Task : /\ state[t] \in {"Unborn", "Ready", "Running", "Sleeping", "Dead", "Reaped"}
                       /\ left[t] \in 0 .. SleepTicks /\ quantum[t] \in 0 .. Quantum
                       /\ rsp[t] \in Task \cup {Stale}
                       /\ frame[t].at \in Points /\ frame[t].hand \in Task \cup {NoTask}
    /\ clock \in 0 .. ReapPeriod - 1

\* The tasks in the hands of a spawn or a steal, and the queues a reap holds.
Flight == {frame[t].hand : t \in Task} \ {NoTask}
Locks == [c \in Cpu |-> Locked(c)]

\* The schedulers of all CPUs, whatever executes on them, implement RunQueues:
\* every step of every function is one of its critical sections.
RQ == INSTANCE RunQueues WITH flight <- Flight, locked <- Locks

ImplementsRunQueues == RQ!Spec

\* Tasks are conserved: the ones that exist are exactly the ones in a run queue
\* or in the hands of a spawn or a steal, never both, although try_steal_task
\* releases the victim's lock before its caller takes the thief's.
Conserved == RQ!Conserved

\* Outside the window between election and switch_context, a CPU executes the
\* very task its scheduler calls current: what sleep_ticks, exit, page_fault_handler
\* and brk do to tasks[current] they do to the task that called.
ExecIsCurrent ==
    \A c \in Cpu : mode[c] # "switch" /\ exec[c] # Wild => exec[c] = Cur(c)

\* The stack pointer a switch loads is the one its task saved when it was last
\* suspended.
FreshContext ==
    \A c \in Cpu : mode[c] = "switch" => pend[c].new = Cur(pend[c].cpu)

\* No CPU executes on the stack of a task that has been reaped (freed).  False on
\* several CPUs as soon as one may kill a task of another.
StackAlive == \A c \in Cpu : exec[c] # Wild => state[exec[c]] # "Reaped"

\* reap_dead_tasks_on_cpu, called from another CPU by kill_task, frees a stack
\* that is in use in one window only: its CPU has elected the next task and not
\* yet switched to it.  A killed task that is current keeps its stack, and no CPU
\* comes back to a stack that was freed.
FreedInWindow ==
    \A c \in Cpu : exec[c] # Wild /\ state[exec[c]] = "Reaped" => mode[c] = "switch"

\* A task that has marked itself Dead never executes past its final yield_now.
DeadNeverResumes == \A c \in Cpu : ~At(c, "x_back")

\* sleep_ticks returns to its caller only once the wake tick has come, unless
\* the caller has been killed meanwhile.
SleepHonoured ==
    [][\A t \in Task : frame[t].at = "s_check" /\ frame'[t].at = "run" =>
          left[t] = 0 \/ state[t] \in {"Dead", "Reaped"}]_vars

\* "Puts the calling task to sleep": the critical section of sleep_ticks changes
\* the state of no task but its caller.
SleepMarksCaller ==
    [][\A t \in Task : frame[t].at = "s_mark" /\ frame'[t].at = "s_loop" =>
          \A x \in Task \ {t} : state'[x] = state[x]]_vars

\* A task once marked for termination is never scheduled again.
DeadStaysDead ==
    [][\A t \in Task : state[t] = "Dead" => state'[t] \in {"Dead", "Reaped"}]_vars

\* A steal takes no task that a CPU is executing.
StealsOnlyIdle ==
    \A t \in Task : frame[t].hand # NoTask => \A c \in Cpu : exec[c] # frame[t].hand

\* kill refuses the root shell.
ShellSurvivesKill == state[Shell] # "Dead"

\* kill_task fails only for a task that does not exist: a scan that ends without
\* a match was for a task that is not alive.
KillFinds ==
    [][\A c \in Cpu :
         At(c, "k_scan") /\ frame'[Shell].at = "run" =>
            state[frame[Shell].tid] \in {"Unborn", "Dead", "Reaped"}]_vars

\* A ready task is executed eventually (or killed while it waits).
NoStarvation ==
    \A t \in Task : state[t] = "Ready" ~>
        (\E c \in Cpu : exec[c] = t) \/ state[t] \in {"Dead", "Reaped"}

\* sleep_ticks returns.
SleepReturns ==
    \A t \in Task : frame[t].at = "s_loop" ~>
        frame[t].at = "run" \/ state[t] \in {"Dead", "Reaped"}
=============================================================================
