------------------------------ MODULE Syscall ------------------------------
(***************************************************************************)
(* System calls of user tasks: the entry stub and the dispatcher of        *)
(* src/arch/syscall.rs, down to the message router they share with the     *)
(* shell's ipc command.  The stub hands the user stack pointer, the kernel *)
(* stack and the call number on through three static words.  FMASK clears  *)
(* IF, so nothing else runs on the CPU until the call switches tasks or    *)
(* returns; other CPUs go on between any two instructions.                 *)
(*                                                                         *)
(* A stack is named by the task it belongs to.  A user task stays on its   *)
(* CPU (UsersStay of module RunQueues), and a switch of tasks, which runs  *)
(* with interrupts off, is one step.                                       *)
(***************************************************************************)
EXTENDS Ipc

CONSTANTS Cpu,
          Home,        \* [Pid -> Cpu]: the CPU whose queue holds the task
          Root         \* [Cpu -> Pid]: the kernel task of each CPU

ASSUME SyscallAssumption == /\ Home \in [Pid -> Cpu] /\ Root \in [Cpu -> Pid]
                            /\ \A c \in Cpu : Home[Root[c]] = c

User == {p \in Pid : p # Root[Home[p]]}
Number == {"send", "recv", "yield", "exit", "other"}
Unset == "unset"       \* a static word before its first use
Done == "done"         \* a result

VARIABLES current,     \* CPU -> the task it runs
          userRsp,     \* USER_RSP_SCRATCH
          kernelRsp,   \* KERNEL_RSP_SCRATCH
          nr,          \* SYSCALL_NR_SCRATCH
          at,          \* task -> where it is
          rax,         \* task -> the call it asked for, or Done
          rsp,         \* task -> the kernel stack it runs on
          frame        \* kernel stack -> the user stack pointer pushed on it

router == <<mailboxes, total_sent, total_delivered, accepted, popped>>
all == <<router, current, userRsp, kernelRsp, nr, at, rax, rsp, frame>>

Boot == /\ Init
        /\ current = Root
        /\ userRsp = Unset /\ kernelRsp = Unset /\ nr = Unset
        /\ at = [p \in Pid |-> "running"]
        /\ rax = [p \in User |-> Done]
        /\ rsp = [p \in User |-> p] /\ frame = rsp

\* The CPU of task p executes it, and p is at the label l.
At(p, l) == current[Home[p]] = p /\ at[p] = l
Goto(p, l) == at' = [at EXCEPT ![p] = l]

\* Variant: the kernel stack is left to the task that ran before.
SwitchToKeep(q) == current' = [current EXCEPT ![Home[q]] = q] /\ UNCHANGED kernelRsp

\* on_context_switch and switch_context, to task q.
SwitchTo(q) == /\ current' = [current EXCEPT ![Home[q]] = q]
               /\ kernelRsp' = IF q \in User THEN q ELSE kernelRsp

\* yield_now of task p: to another task of the CPU that is not dead, or nowhere
\* when the others are asleep (their wake-up is left open here).
Others(p) == {q \in Pid \ {p} : Home[q] = Home[p] /\ at[q] # "dead"}
Leave(p) == \E q \in Others(p) : SwitchTo(q)
Stay == UNCHANGED <<current, kernelRsp>>

-----------------------------------------------------------------------------
\* syscall_entry, instruction by instruction.

\* The syscall instruction, and the user stack pointer goes to its word.
Enter(p) == /\ At(p, "running") /\ p \in User
            /\ \E n \in Number : rax' = [rax EXCEPT ![p] = n]
            /\ userRsp' = p
            /\ Goto(p, "stack")
            /\ UNCHANGED <<router, current, kernelRsp, nr, rsp, frame>>

\* mov rsp, [kernel_rsp].
LoadStack(p) == /\ At(p, "stack")
                /\ rsp' = [rsp EXCEPT ![p] = kernelRsp]
                /\ Goto(p, "push")
                /\ UNCHANGED <<router, current, kernelRsp, userRsp, nr, rax, frame>>

\* push [user_rsp], and the registers behind it.
PushUser(p) == /\ At(p, "push")
               /\ frame' = [frame EXCEPT ![rsp[p]] = userRsp]
               /\ Goto(p, "number")
               /\ UNCHANGED <<router, current, kernelRsp, userRsp, nr, rax, rsp>>

\* mov [nr], rax.
SaveNumber(p) == /\ At(p, "number")
                 /\ nr' = rax[p]
                 /\ Goto(p, "dispatch")
                 /\ UNCHANGED <<router, current, kernelRsp, userRsp, rax, rsp, frame>>

-----------------------------------------------------------------------------
\* The calls of syscall_dispatch.

\* SYS_SEND and SYS_RECV, on behalf of the current task.
SysSend(p) == \E t \in Pid, data \in Data : Send(p, t, data)
SysRecv(p) == Receive(p) \/ ReceiveNone(p)

\* syscall_dispatch reads the number back and serves the call; its result goes to
\* rax.  "yield" stands for SYS_SLEEP too, which yields until it is over; a task
\* that exits and finds nobody to switch to returns from the call.
Serve(p) ==
    /\ At(p, "dispatch")
    /\ \/ nr = "send" /\ SysSend(p) /\ Stay /\ Goto(p, "return")
       \/ nr = "recv" /\ SysRecv(p) /\ Stay /\ Goto(p, "return")
       \/ /\ nr \notin {"send", "recv"} /\ UNCHANGED router
          /\ \/ nr = "yield" /\ Leave(p) /\ Goto(p, "return")
             \/ nr = "exit" /\ Leave(p) /\ Goto(p, "dead")
             \/ Stay /\ Goto(p, "return")
    /\ rax' = [rax EXCEPT ![p] = Done]
    /\ UNCHANGED <<userRsp, nr, rsp, frame>>

\* The registers are popped, the user stack pointer last; sysretq.
SysRet(p) == /\ At(p, "return")
             /\ Goto(p, "running")
             /\ UNCHANGED <<router, current, kernelRsp, userRsp, nr, rax, rsp, frame>>

\* The timer interrupt preempts a task that runs with interrupts enabled.
Preempt(p) == /\ At(p, "running") /\ Leave(p)
              /\ UNCHANGED <<router, at, userRsp, nr, rax, rsp, frame>>

\* The shell's ipc command, in a kernel task.
ShellIpc(p) == /\ At(p, "running") /\ p \notin User
               /\ SysSend(p) \/ SysRecv(p)
               /\ Stay
               /\ UNCHANGED <<at, userRsp, nr, rax, rsp, frame>>

Step == \E p \in Pid : \/ Enter(p) \/ LoadStack(p) \/ PushUser(p) \/ SaveNumber(p)
                       \/ Serve(p) \/ SysRet(p) \/ Preempt(p) \/ ShellIpc(p)

Behaviour == Boot /\ [][Step]_all

-----------------------------------------------------------------------------
\* The static words carry each call through: a task runs on its own kernel stack,
\* the dispatcher serves the call it asked for, and it returns to its own user
\* stack, also when it yielded in between and others made calls.
CallIntact ==
    \A p \in User :
      /\ at[p] \in {"push", "number", "dispatch", "return"} => rsp[p] = p
      /\ at[p] \in {"number", "dispatch", "return"} => frame[rsp[p]] = p
      /\ at[p] = "dispatch" => nr = rax[p]
=============================================================================
