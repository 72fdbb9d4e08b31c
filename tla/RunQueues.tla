----------------------------- MODULE RunQueues -----------------------------
(***************************************************************************)
(* The run queues of AuraOS (src/task/mod.rs), seen only through what the  *)
(* per-CPU spinlocks make atomic: CPU_SCHEDULERS[c] is a vector of tasks   *)
(* and the index of the current one, and every critical section on it is   *)
(* one action here.  Which code calls which section, when, and on whose    *)
(* stack is left open: any CPU may run any section at any time.  What is   *)
(* proved here therefore holds for every task body, every interrupt        *)
(* pattern and every number of CPUs; module Scheduler adds the execution   *)
(* and implements this specification.                                      *)
(*                                                                         *)
(* Vec indices start at 0, sequences at 1: index i is tasks[c][i + 1].     *)
(***************************************************************************)
EXTENDS Tasks, Sequences

VARIABLES tasks,    \* [Cpu -> Seq(Task)]   CpuScheduler::tasks
          current,  \* [Cpu -> Nat]         CpuScheduler::current, plus one
          state,    \* [Task -> TaskState]  Task::state
          flight,   \* SUBSET Task          tasks in a caller's hands: being spawned or stolen
          locked    \* [Cpu -> BOOLEAN]     a reaping loop holds CPU_SCHEDULERS[c]

vars == <<tasks, current, state, flight, locked>>

TaskState == {"Unborn", "Ready", "Running", "Sleeping", "Dead", "Reaped"}

RootOf(t) == \E c \in Cpu : t = Root[c]

Slots(c) == DOMAIN tasks[c]

Queued(t, c) == \E i \in Slots(c) : tasks[c][i] = t

\* The task CPU c is on, as its scheduler records it.
Cur(c) == tasks[c][current[c]]

\* Vec::remove: the later elements move one slot down.
RemoveSlot(q, i) ==
    [j \in 1 .. Len(q) - 1 |-> IF j < i THEN q[j] ELSE q[j + 1]]

-----------------------------------------------------------------------------
Init ==
    /\ tasks = [c \in Cpu |-> IF c = 0 THEN <<Root[0], Sentinel>> ELSE <<Root[c]>>]
    /\ current = [c \in Cpu |-> 1]
    /\ state = [t \in Task |-> IF RootOf(t) THEN "Running"
                               ELSE IF t = Sentinel THEN "Ready" ELSE "Unborn"]
    /\ flight = {}
    /\ locked = [c \in Cpu |-> FALSE]

\* Task::new: the task exists, but is in no run queue yet.
Create(t) ==
    /\ state[t] = "Unborn"
    /\ state' = [state EXCEPT ![t] = "Ready"]
    /\ flight' = flight \cup {t}
    /\ UNCHANGED <<tasks, current, locked>>

\* tasks.push under the destination's lock: the end of a spawn or of a steal.
Insert(t, c) ==
    /\ t \in flight
    /\ ~locked[c]
    /\ tasks' = [tasks EXCEPT ![c] = Append(@, t)]
    /\ flight' = flight \ {t}
    /\ UNCHANGED <<current, state, locked>>

\* Removal of slot i by steal or reap keeps `current` on the same task.
TakeOut(v, i) ==
    /\ tasks' = [tasks EXCEPT ![v] = RemoveSlot(@, i)]
    /\ current' = [current EXCEPT ![v] = IF i < @ THEN @ - 1 ELSE @]

\* The victim's half of try_steal_task.
Steal(v, i) ==
    /\ ~locked[v]
    /\ i \in Slots(v) \ {1, current[v]}
    /\ state[tasks[v][i]] = "Ready"
    /\ tasks[v][i] \notin User
    /\ TakeOut(v, i)
    /\ flight' = flight \cup {tasks[v][i]}
    /\ UNCHANGED <<state, locked>>

\* yield_now and preempt_schedule_on_cpu: hand the CPU to another ready task.
Switch(c, i) ==
    /\ ~locked[c]
    /\ i \in Slots(c) \ {current[c]}
    /\ state[tasks[c][i]] = "Ready"
    /\ state' = [state EXCEPT ![Cur(c)] = IF @ = "Running" THEN "Ready" ELSE @,
                              ![tasks[c][i]] = "Running"]
    /\ current' = [current EXCEPT ![c] = i]
    /\ UNCHANGED <<tasks, flight, locked>>

\* sleep_ticks and the exit paths write the state of the recorded current task.
MarkCurrent(c, s) ==
    /\ ~locked[c]
    /\ state' = [state EXCEPT ![Cur(c)] = s]
    /\ UNCHANGED <<tasks, current, flight, locked>>

\* The wake-up loops of the two timer handlers.
Wake(c, W) ==
    /\ ~locked[c]
    /\ \A t \in W : Queued(t, c) /\ state[t] = "Sleeping"
    /\ state' = [t \in Task |-> IF t \in W THEN "Ready" ELSE state[t]]
    /\ UNCHANGED <<tasks, current, flight, locked>>

\* kill_task marks a queued task, whatever its state and whoever it is.
Kill(t, c) ==
    /\ ~locked[c]
    /\ Queued(t, c)
    /\ state' = [state EXCEPT ![t] = "Dead"]
    /\ UNCHANGED <<tasks, current, flight, locked>>

\* reap_dead_tasks_on_cpu: one removal per turn of its loop, the lock held throughout.
ReapLock(c) ==
    /\ ~locked[c]
    /\ locked' = [locked EXCEPT ![c] = TRUE]
    /\ UNCHANGED <<tasks, current, state, flight>>

ReapOne(c, i) ==
    /\ locked[c]
    /\ i \in Slots(c) \ {current[c]}
    /\ state[tasks[c][i]] = "Dead"
    /\ TakeOut(c, i)
    /\ state' = [state EXCEPT ![tasks[c][i]] = "Reaped"]
    /\ UNCHANGED <<flight, locked>>

ReapUnlock(c) ==
    /\ locked[c]
    /\ locked' = [locked EXCEPT ![c] = FALSE]
    /\ UNCHANGED <<tasks, current, state, flight>>

Next ==
    \/ \E t \in Task : Create(t)
    \/ \E t \in Task, c \in Cpu : Insert(t, c) \/ Kill(t, c)
    \/ \E c \in Cpu : \E i \in Slots(c) : Steal(c, i) \/ Switch(c, i) \/ ReapOne(c, i)
    \/ \E c \in Cpu : \E s \in {"Sleeping", "Dead"} : MarkCurrent(c, s)
    \/ \E c \in Cpu : \E W \in SUBSET Task : Wake(c, W)
    \/ \E c \in Cpu : ReapLock(c) \/ ReapUnlock(c)

Spec == Init /\ [][Next]_vars

-----------------------------------------------------------------------------
TypeOK ==
    /\ tasks \in [Cpu -> Seq(Task)]
    /\ current \in [Cpu -> Nat \ {0}]
    /\ state \in [Task -> TaskState]
    /\ flight \in SUBSET Task
    /\ locked \in [Cpu -> BOOLEAN]

\* `current` always indexes an element of its queue, although steals and reaps by
\* other CPUs shrink the vector and shift it: tasks[current] never panics and no
\* queue is ever emptied.
CurrentInRange == \A c \in Cpu : current[c] \in Slots(c)

\* A task is in at most one slot of at most one run queue.
OneSlot ==
    \A c, d \in Cpu : \A i \in Slots(c), j \in Slots(d) :
        tasks[c][i] = tasks[d][j] => c = d /\ i = j

\* Tasks are conserved: the ones that exist are exactly the ones in a run queue
\* or in the hands of a spawn or a steal, never both, so a steal interrupted
\* between its two locks neither loses nor duplicates a task.
Conserved ==
    \A t \in Task :
        /\ (\E c \in Cpu : Queued(t, c)) <=>
                state[t] \notin {"Unborn", "Reaped"} /\ t \notin flight
        /\ t \in flight => state[t] = "Ready"

\* A task marked Running is the recorded current task of its queue, so at most
\* one task per CPU is Running and a steal never takes one that is.
RunningIsCurrent ==
    \A c \in Cpu : \A i \in Slots(c) :
        state[tasks[c][i]] = "Running" => i = current[c]

\* A root task is only ever in slot 0 of its own CPU, which is what makes
\* `i != 0` in try_steal_task protect it.
RootsPinned ==
    \A c, d \in Cpu : \A i \in Slots(d) :
        tasks[d][i] = Root[c] => d = c /\ i = 1

\* The strengthening that makes the above inductive: a root task is never in
\* anyone's hands, so no insertion can put it in another slot.
RootsHeld == \A c \in Cpu : Root[c] \notin flight /\ state[Root[c]] # "Unborn"

IInv ==
    /\ TypeOK /\ CurrentInRange /\ OneSlot /\ Conserved
    /\ RunningIsCurrent /\ RootsPinned /\ RootsHeld

\* Only a switch changes which task a CPU is on: a steal, reap or insertion made
\* by any CPU leaves every `current` on the same task.
CurrentKept ==
    [][\A c \in Cpu :
         Cur(c)' # Cur(c) =>
            /\ state[Cur(c)'] = "Ready" /\ state'[Cur(c)'] = "Running"
            /\ tasks' = tasks]_vars

\* A user task leaves its run queue only by being reaped: it is never migrated.
UsersStay ==
    [][\A t \in User, c \in Cpu :
         Queued(t, c) => Queued(t, c)' \/ state'[t] = "Reaped"]_vars

\* The current task of a CPU is never freed by a step of any CPU; a reaped task
\* was Dead and not current.
ReapOnlyIdleDead ==
    [][\A t \in Task :
         state[t] # "Reaped" /\ state'[t] = "Reaped" =>
            state[t] = "Dead" /\ \A c \in Cpu : t # Cur(c)]_vars
=============================================================================
