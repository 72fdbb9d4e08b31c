---------------------------- MODULE MCScheduler ----------------------------
(* Values for the constants of Scheduler: root tasks r0 (the shell) and r1  *)
(* (the idle task of an AP), the sentinel s, kernel workers k and k2, a     *)
(* user task u.                                                             *)
EXTENDS Scheduler, TLC

CONSTANTS r0, r1

MCRoot == IF N = 1 THEN 0 :> r0 ELSE 0 :> r0 @@ 1 :> r1
=============================================================================
