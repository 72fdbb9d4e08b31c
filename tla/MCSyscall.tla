----------------------------- MODULE MCSyscall -----------------------------
(* The shell and two user tasks on one CPU, mailboxes of two one-byte       *)
(* messages: queues fill up, refuse and drain; payloads get cut; a task     *)
(* yields in a call and another one makes its own.                          *)
EXTENDS Syscall, TLC

CONSTANTS c, k

MCHome == [p \in Pid |-> c]
MCRoot == [x \in Cpu |-> k]
UsersAlike == Permutations(User)
=============================================================================
