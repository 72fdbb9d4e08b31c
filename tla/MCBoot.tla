------------------------------- MODULE MCBoot -------------------------------
(***************************************************************************)
(* Boot for TLC, on the core lists that Acpi reads from a set of firmwares *)
(* describing the same machine in different ways.                          *)
(***************************************************************************)
EXTENDS Acpi, Boot

VARIABLE fw            \* the firmware of this machine

\* The machine: the boot processor second in the table, an entry that is too
\* short, a core that is only online capable, a disabled one, and one core more
\* than there are blocks for.
Lapic(apic, flags) == [type |-> 0, len |-> "full", apic |-> apic, flags |-> flags]
IoApic == [type |-> 1, len |-> "full"]
Cut(len) == [type |-> 0, len |-> len]
Machine == <<Lapic(3, {0}), Lapic(2, {0}), IoApic, Cut("short"), Lapic(0, {1}), Lapic(4, {}),
             Lapic(1, {0, 1}), Lapic(5, {0})>>
Declared == {0, 1, 3, 5}

Madt(entries) == [sig |-> "APIC", sane |-> TRUE, entries |-> entries]
Fadt == [sig |-> "FACP"]
Root(entries) == [sane |-> TRUE, entries |-> entries]
Good == Root(<<Fadt, None, Madt(Machine)>>)
Empty == Root(<<None>>)
Absurd == [sane |-> FALSE, entries |-> <<None>>]

RsdpAt(sum1, revision, longEnough, sum2, xsdt, rsdt) ==
    [sum1 |-> sum1, revision |-> revision, longEnough |-> longEnough, sum2 |-> sum2,
     xsdt |-> xsdt, rsdt |-> rsdt]

Good1 == RsdpAt(TRUE, 0, FALSE, FALSE, None, Good)
Good2 == RsdpAt(TRUE, 2, TRUE, TRUE, Good, None)
Bad == RsdpAt(FALSE, 2, TRUE, TRUE, Empty, Empty)

\* Firmwares that describe the whole machine.
Complete == {[override |-> None, regions |-> <<<<Bad>>, <<>>, <<Good1>>>>],
             [override |-> Bad, regions |-> <<<<Good2>>, <<Good1>>, <<>>>>],
             [override |-> Good2, regions |-> <<<<>>, <<>>, <<>>>>],
             [override |-> RsdpAt(TRUE, 2, TRUE, TRUE, Empty, Good), regions |-> <<<<>>, <<>>, <<>>>>],
             [override |-> RsdpAt(TRUE, 2, TRUE, TRUE, Absurd, Good), regions |-> <<<<>>, <<>>, <<>>>>],
             [override |-> RsdpAt(TRUE, 2, TRUE, FALSE, Empty, Good), regions |-> <<<<>>, <<>>, <<>>>>]}

\* Firmwares with no valid RSDP, and with no MADT.
Bare == {[override |-> Bad, regions |-> <<<<>>, <<>>, <<>>>>],
         [override |-> RsdpAt(TRUE, 0, FALSE, FALSE, None, Root(<<Fadt>>)),
          regions |-> <<<<>>, <<>>, <<>>>>]}

\* A firmware whose MADT breaks off after two cores, of which one is the BSP.
BrokenOff == [override |-> RsdpAt(TRUE, 0, FALSE, FALSE, None,
                                  Root(<<Madt(SubSeq(Machine, 1, 2) \o <<Cut("absurd")>> \o Machine)>>)),
              regions |-> <<<<>>, <<>>, <<>>>>]

Firmware == Complete \cup Bare \cup {BrokenOff}

\* The usable cores a firmware describes before it breaks off.
Described(f) == IF f \in Complete THEN Declared ELSE IF f = BrokenOff THEN {3} ELSE {}

MCCoreLists == {CoreList(f) : f \in Firmware}

MCInit == /\ fw \in Firmware
          /\ Init /\ cores = CoreList(fw)

MCSpec == /\ MCInit /\ [][Next /\ UNCHANGED fw]_<<vars, fw>>
          /\ WF_vars(BspStep) /\ \A c \in Ap : WF_vars(ApStep(c))

\* However the firmware describes the machine, every core it declares usable
\* is woken, as far as there are per-CPU blocks, and no other: an RSDP that was
\* passed and is bad, one with a bad extension, and an XSDT that leads nowhere
\* all fall back to the next source, an entry that is too short hides no other,
\* and what stands before the break in a MADT still counts.
AllWoken == pc = "done" =>
               /\ cpuIdx - 1 = Min({MaxCpus - 1, Cardinality(Described(fw))})
               /\ \A c \in Ap \ Described(fw) : at[c] = "off"
=============================================================================
