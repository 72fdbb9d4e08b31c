-------------------------------- MODULE Acpi --------------------------------
(***************************************************************************)
(* How acpi::init_with_rsdp (src/arch/acpi.rs) finds the processors in the *)
(* tables the firmware left in memory.  The firmware is a record: the RSDP *)
(* the boot loader passed (or None), and the places with an RSDP signature *)
(* in the three regions that are scanned, in address order.  An RSDP names *)
(* its two root tables, a root table lists tables, and a MADT is a         *)
(* sequence of entries.  Checksums and lengths are kept as what the code   *)
(* decides from them: an entry's length is "absurd" below two bytes or     *)
(* past the end of its table, and "short" when its type needs more.        *)
(***************************************************************************)
EXTENDS Integers, Sequences, SequencesExt, FiniteSetsExt

CONSTANT None

\* The fields init_with_rsdp uses of an RSDP that passed parse_rsdp_at: the
\* XSDT counts only from revision 2 on, with a length and a checksum that hold.
Checked(r) == [rsdt |-> r.rsdt,
               xsdt |-> IF r.revision >= 2 /\ r.longEnough /\ r.sum2 THEN r.xsdt ELSE None]

\* parse_rsdp_at: None unless the first checksum holds.
ParseRsdpAt(r) == IF r = None \/ ~r.sum1 THEN None ELSE Checked(r)

\* scan_region_for_rsdp over the regions in find_rsdp's order: the first place
\* whose first checksum holds.
FindRsdp(regions) ==
    LET places == SelectSeq(FlattenSeq(regions), LAMBDA r : r.sum1)
    IN  IF places = <<>> THEN None ELSE Checked(Head(places))

\* The RSDP used: the one passed, or else the one found.
Rsdp(fw) == LET given == ParseRsdpAt(fw.override)
            IN  IF given # None THEN given ELSE FindRsdp(fw.regions)

\* The entries of a root table that are not null; none if its length is absurd.
Listed(root) == IF root = None \/ ~root.sane THEN <<>>
                ELSE SelectSeq(root.entries, LAMBDA t : t # None)

\* Variant: the RSDT is not tried after an empty XSDT.
TablesXsdtOnly(rsdp) == IF rsdp.xsdt # None THEN Listed(rsdp.xsdt) ELSE Listed(rsdp.rsdt)

\* The tables inspected: those of the XSDT, or of the RSDT if that gave none.
Tables(rsdp) == IF Listed(rsdp.xsdt) # <<>> THEN Listed(rsdp.xsdt) ELSE Listed(rsdp.rsdt)

\* parse_madt: the local APIC entries up to the first entry whose length is
\* absurd, without the ones that are too short; a core counts as enabled when it is, or can be, brought online.
ParseMadt(madt) ==
    LET bad == {i \in DOMAIN madt.entries : madt.entries[i].len = "absurd"}
        n == IF bad = {} THEN Len(madt.entries) ELSE Min(bad) - 1
        found == SelectSeq(SubSeq(madt.entries, 1, n), LAMBDA e : e.type = 0 /\ e.len = "full")
    IN  IF ~madt.sane THEN <<>>
        ELSE [i \in DOMAIN found |-> [apic |-> found[i].apic, enabled |-> found[i].flags # {}]]

\* init_with_rsdp: the core list it leaves, empty if it failed.  The last MADT
\* listed is the one parsed; without cores the boot processor is core 0.
CoreList(fw) ==
    LET rsdp == Rsdp(fw)
        madts == SelectSeq(Tables(rsdp), LAMBDA t : t.sig = "APIC")
        cores == IF madts = <<>> THEN <<>> ELSE ParseMadt(Last(madts))
    IN  IF rsdp = None THEN <<>>
        ELSE IF cores = <<>> THEN <<[apic |-> 0, enabled |-> TRUE]>> ELSE cores
=============================================================================
