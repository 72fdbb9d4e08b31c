------------------------------ MODULE FramePool ------------------------------
(***************************************************************************)
(* What src/memory/pmm.rs promises the address spaces: a frame has at most *)
(* one owner, it changes owner only by way of the pool, and the bitmap is  *)
(* exactly what is owned.  One operation of an owner may both take and     *)
(* return frames; an owner that forgets frames leaves them to nobody.      *)
(***************************************************************************)
CONSTANTS
  Owner,  \* the address spaces
  Frame   \* the frames of the window [PMM_BASE, PMM_END)

VARIABLES
  used,   \* the frames whose bit is set
  owned,  \* owned[o]: the frames o will give back
  lost    \* frames nobody will give back

vars == <<used, owned, lost>>

Init ==
  /\ used = {}
  /\ owned = [o \in Owner |-> {}]
  /\ lost = {}

\* One operation of o: what it lists afterwards it listed before or took from
\* the pool, and what it no longer lists is free again.
Trade(o) ==
  /\ owned' \in [Owner -> SUBSET Frame]
  /\ \A p \in Owner \ {o} : owned'[p] = owned[p]
  /\ owned'[o] \subseteq owned[o] \cup (Frame \ used)
  /\ used' = (used \ owned[o]) \cup owned'[o]
  /\ lost' = lost

\* Free frames are taken and forgotten.
Forget ==
  /\ lost' \in SUBSET Frame
  /\ lost \subseteq lost'
  /\ lost' \ lost \subseteq Frame \ used
  /\ used' = used \cup lost'
  /\ owned' = owned

Next == Forget \/ \E o \in Owner : Trade(o)

Spec == Init /\ [][Next]_vars
=============================================================================
