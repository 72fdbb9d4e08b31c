------------------------------- MODULE Tasks -------------------------------
(* The CPUs and the tasks, shared by RunQueues and Scheduler. *)
EXTENDS Integers

CONSTANTS N,         \* number of online CPUs (smp::cpu_count)
          Task,      \* every task that ever exists, root tasks included
          Root,      \* [0..N-1 -> Task]: boot thread of CPU 0, idle task of an AP
          Sentinel,  \* the background task init() creates on CPU 0
          User       \* tasks with is_user set

Cpu == 0 .. N - 1

ASSUME RunQueuesAssumption ==
    /\ N \in Nat \ {0}
    /\ Root \in [Cpu -> Task]
    /\ \A c, d \in Cpu : Root[c] = Root[d] => c = d
    /\ Sentinel \in Task
    /\ User \subseteq Task
    /\ \A c \in Cpu : Root[c] # Sentinel /\ Root[c] \notin User
    /\ Sentinel \notin User
=============================================================================
