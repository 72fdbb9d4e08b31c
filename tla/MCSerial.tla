------------------------------- MODULE MCSerial -------------------------------
(* Two CPUs, the shell and one or two migrating workers; rings of Size - 1  *)
(* bytes, shorter than what is printed, so that they fill and wrap.         *)
EXTENDS Serial

MCOneMsg == [x \in Printer |-> 1]
=============================================================================
