------------------------------- MODULE MCMemory -------------------------------
(***************************************************************************)
(* Instances of Memory: pages of two units; code on page 2, bss on page 4, *)
(* the heap from 6, mappings from 10 to 16, a guard page at 16 and a       *)
(* stack page at 18.  A behaviour is either that of one process alone,     *)
(* which calls mmap, munmap and brk with many arguments, or of processes   *)
(* that compete for the frames and use few.                                *)
(***************************************************************************)
EXTENDS Memory

VARIABLE alone          \* the process that is alone, if any, or None

CONSTANTS s1, None

MCTable == {"pd", "pt0", "pt1"}

\* Code that may not be written, and data that is all bss.
MCSegments == <<[vaddr |-> 3, filesz |-> 1, memsz |-> 1, prot |-> "ro"],
                [vaddr |-> 4, filesz |-> 0, memsz |-> 2, prot |-> "rw"]>>

\* Every area in the reach of one page table.
OnePt == [p \in Page |-> <<"pt0">>]

\* The mappings behind a page table of their own, as at their real addresses.
TwoPts == [p \in Page |-> <<"pd", IF p \in MmapStart .. MmapEnd - 1 THEN "pt1" ELSE "pt0">>]

Request(hint, fixed, len, prot, populate) ==
  [hint |-> hint, fixed |-> fixed, len |-> len, prot |-> prot, populate |-> populate]

AreaMmaps ==
  {Request(0, FALSE, 5, "rw", FALSE), Request(12, FALSE, 2, "ro", TRUE),
   Request(8, TRUE, 2, "rw", TRUE), Request(14, TRUE, 2, "none", TRUE)}

FrameMmaps == {Request(0, FALSE, 5, "rw", TRUE)}

OneMmap == {Request(0, FALSE, 2, "rw", TRUE)}

AreaMunmaps == {<<12, 2>>, <<10, 3>>, <<2, 2>>, <<12, 0>>, <<11, 2>>, <<6, 2>>, <<8, 1>>}

FrameMunmaps == {<<12, 3>>}

MCMmaps == AreaMmaps \cup FrameMmaps
MCMunmaps == AreaMunmaps \cup FrameMunmaps
AreaBrks == {6, 7, 9, 10, 11}
FrameBrks == {8}
AreaTouched == {8, 12, 14, 16}
FrameTouched == {4}

Calls(s, mmaps, munmaps, brks, touched) ==
  \/ \E r \in mmaps : SysMmap(s, r)
  \/ \E r \in munmaps : SysMunmap(s, r)
  \/ \E brk \in brks : SysBrk(s, brk)
  \/ \E p \in touched, write \in BOOLEAN : PageFault(s, p, write)

MCInit == Init /\ alone \in {s1, None}

MCNext ==
  /\ UNCHANGED alone
  /\ \/ \E s \in Space :
          /\ alone \in {s, None}
          /\ Load(s) \/ LoadFails(s) \/ NewFails(s) \/ Die(s) \/ Reap(s)
          /\ alone = s => loads' <= 2
     \/ \E s \in Space : alone = s /\ Calls(s, AreaMmaps, AreaMunmaps, AreaBrks, AreaTouched)
     \/ \E s \in Space : alone = None /\ Calls(s, FrameMmaps, FrameMunmaps, FrameBrks, FrameTouched)
     \/ alone = None /\ UserDemo

MCSpec == MCInit /\ [][MCNext]_<<vars, alone>>

\* Processes that compete, with the arguments the constants give.
CompeteSpec == Init /\ alone = None /\ [][Next /\ UNCHANGED alone]_<<vars, alone>>
=============================================================================
