------------------------------- MODULE LossyFifo -------------------------------
(***************************************************************************)
(* What the per-CPU serial rings (src/drivers/serial.rs) promise: each is  *)
(* a queue of at most Capacity bytes.  A byte offered to a full queue is   *)
(* lost; every other byte is sent once, in the order it was accepted.      *)
(***************************************************************************)
EXTENDS Naturals, Sequences

CONSTANTS Ring, Byte, Capacity

VARIABLES
  queue,  \* accepted and not yet sent
  sent,   \* the bytes sent
  lost    \* the bytes refused

vars == <<queue, sent, lost>>

Init ==
  /\ queue = [r \in Ring |-> <<>>]
  /\ sent = [r \in Ring |-> {}]
  /\ lost = [r \in Ring |-> {}]

Accept(r, b) ==
  /\ Len(queue[r]) < Capacity
  /\ queue' = [queue EXCEPT ![r] = Append(@, b)]
  /\ UNCHANGED <<sent, lost>>

Refuse(r, b) ==
  /\ Len(queue[r]) = Capacity
  /\ lost' = [lost EXCEPT ![r] = @ \union {b}]
  /\ UNCHANGED <<queue, sent>>

Take(r) ==
  /\ queue[r] # <<>>
  /\ sent' = [sent EXCEPT ![r] = @ \union {Head(queue[r])}]
  /\ queue' = [queue EXCEPT ![r] = Tail(@)]
  /\ UNCHANGED lost

Next == \E r \in Ring : (\E b \in Byte : Accept(r, b) \/ Refuse(r, b)) \/ Take(r)

Spec == Init /\ [][Next]_vars
=============================================================================
