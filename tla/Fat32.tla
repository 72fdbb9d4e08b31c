------------------------------- MODULE Fat32 -------------------------------
(***************************************************************************)
(* The FAT32 driver (src/fs/fat32.rs) on an ATA disk (src/drivers/ata.rs), *)
(* driven by the shell.                                                    *)
(*                                                                         *)
(* Only the shell uses the volume, and holds FAT32_FS while it does, so    *)
(* what an operation reads between two of its writes is what it wrote      *)
(* itself: an operation is a plan, the sequence of its sector writes.      *)
(* Each write is a step (write_sector_drive returns after a cache flush);  *)
(* between two of them the drive may report an error, which abandons the   *)
(* rest of the operation (every call ends in `?`), or the power may fail.  *)
(* A sector is written whole or not at all.                                *)
(***************************************************************************)
EXTENDS Integers, Sequences, SequencesExt

CONSTANTS Total,       \* total_clusters
          PerSector,   \* directory entries per sector: SECTOR_SIZE / 32
          FatSplit,    \* first cluster whose FAT entry lies in the second sector of a FAT
          Paths, Content,
          Name,        \* the names paths are made of
          Short,       \* to_short_name, as a function on Name
          Writes,      \* the <<path, content>> pairs given to fatwrite
          Dirs,        \* the paths given to fatmkdir
          Removes,     \* the paths given to fatrm
          MaxFaults    \* bound on drive errors and power failures

FREE == 0
EOC == Total + 1       \* FAT_EOC: no cluster number is as large
ROOT == 2              \* bpb.root_cluster
Cluster == ROOT .. Total - 1
NoName == "-"

VARIABLES disk,        \* [boot, fat, sec]: BPB sector valid; both FATs; the sector of each cluster
          mounted,     \* FAT32_FS is Some
          todo,        \* the writes the operation in progress still has to make
          op,          \* that operation, "idle" when there is none
          faults,
          damaged,     \* an operation was abandoned where it leaves the volume damaged
          seen         \* the tree when no operation was in progress last

vars == <<disk, mounted, todo, op, faults, damaged, seen>>

Entry(k, n, c, s) == [k |-> k, name |-> n, at |-> c, size |-> s]
Zero == Entry("zero", NoName, 0, 0)
Gone == Entry("gone", NoName, 0, 0)              \* first byte 0xE5
Label == Entry("label", NoName, 0, 0)            \* ATTR_VOLUME_ID
ZeroSector == [i \in 1 .. PerSector |-> Zero]

\* A sector of file data; read as a directory its text is an occupied slot of no name.
DataSector(v) == [ZeroSector EXCEPT ![1] = Entry("data", NoName, 0, v)]

\* The sector create_dir writes: "." and ".." (cluster 0 stands for the root).
DotSector(c, parent) ==
    [ZeroSector EXCEPT ![1] = Entry("dir", ".", c, 0),
                       ![2] = Entry("dir", "..", IF parent = ROOT THEN 0 ELSE parent, 0)]

InUse(c) == c >= 2 /\ c < EOC

-----------------------------------------------------------------------------
\* Reading a disk d.

\* read_fat_entry: only the first FAT is read.
ReadFatEntry(d, c) == d.fat[1][c]

\* The clusters visited by the loops `while cluster >= 2 && cluster < 0x0FFF_FFF7`.
\* A cycle would keep them going for ever; here it is cut off after Total clusters.
Chain(d, c) ==
    LET from[x \in 0 .. EOC, n \in 0 .. Total] ==
          IF n = 0 \/ ~InUse(x) THEN <<>> ELSE <<x>> \o from[ReadFatEntry(d, x), n - 1]
    IN  from[c, Total]

\* The slots of a directory in the order they are scanned, as <<cluster, index>>.
SlotsOf(d, c) ==
    LET ch == Chain(d, c)
    IN  [n \in 1 .. Len(ch) * PerSector |-> <<ch[((n - 1) \div PerSector) + 1], ((n - 1) % PerSector) + 1>>]

At(d, s) == d.sec[s[1]][s[2]]

\* list_directory_cluster: the entries up to the first zero byte, without deleted
\* ones and volume labels; each as its place in SlotsOf.
Listed(d, c) ==
    LET ss == SlotsOf(d, c)
    IN  {n \in DOMAIN ss : /\ At(d, ss[n]).k \in {"file", "dir"}
                          /\ \A m \in 1 .. n : At(d, ss[m]).k # "zero"}

\* find_entry_in_dir: the slot of the first entry of that name; <<>> is None.
Find(d, c, name) ==
    LET hits == {n \in Listed(d, c) : At(d, SlotsOf(d, c)[n]).name = name}
    IN  IF hits = {} THEN <<>> ELSE SlotsOf(d, c)[Min(hits)]

RootEntry == Entry("dir", NoName, ROOT, 0)
None == Entry("none", NoName, 0, 0)
BadPath == Entry("bad", NoName, 0, 0)

\* resolve_path: the entry, None, or an error when the way there is missing or a file.
Resolve(d, path) ==
    LET walk[n \in 0 .. Len(path)] ==
          IF n = 0 THEN RootEntry
          ELSE LET e == walk[n - 1]
                   s == Find(d, e.at, path[n])
               IN  IF e.k # "dir" THEN BadPath ELSE IF s = <<>> THEN None ELSE At(d, s)
    IN  walk[Len(path)]

\* read_file: as many sectors as the size says and the chain has.
ReadFile(d, e) ==
    LET ch == Chain(d, e.at)
    IN  [n \in 1 .. Min({e.size, Len(ch)}) |-> d.sec[ch[n]][1].size]

\* fs_info.
FreeClusters(d) == {c \in Cluster : ReadFatEntry(d, c) = FREE}

-----------------------------------------------------------------------------
\* Plans.  d is the disk after the writes w; c is the cluster allocated last.  A
\* write is marked as a risk when stopping before it leaves the volume damaged: an
\* entry whose chain is (partly) freed, a directory with a sector not yet cleared.

Plan0 == [d |-> disk, w |-> <<>>, c |-> 0, ok |-> TRUE]
Failed(p) == [p EXCEPT !.ok = FALSE]

ToBoot == [to |-> "boot", n |-> 0, val |-> ZeroSector, risk |-> FALSE]
ToFat(copy, entries, risk) == [to |-> "fat", n |-> copy, val |-> entries, risk |-> risk]
ToSector(c, s, risk) == [to |-> "sec", n |-> c, val |-> s, risk |-> risk]

Apply(d, w) ==
    CASE w.to = "boot" -> [d EXCEPT !.boot = TRUE]
      [] w.to = "fat" -> [d EXCEPT !.fat[w.n] =
                            [c \in Cluster |-> IF c \in DOMAIN w.val THEN w.val[c] ELSE @[c]]]
      [] w.to = "sec" -> [d EXCEPT !.sec[w.n] = w.val]

\* The plan p, and then the writes ws.
Do(p, ws) == IF p.ok THEN [p EXCEPT !.d = FoldLeft(Apply, @, ws), !.w = @ \o ws] ELSE p

\* write_fat_entry: read, change and write back the sector in each FAT.
WriteFatEntry(c, v, before, between) ==
    <<ToFat(1, [x \in {c} |-> v], before), ToFat(2, [x \in {c} |-> v], between)>>

\* allocate_cluster: take the first free cluster, link it to prev (0 is None), and
\* only then clear it.  live: prev belongs to a directory in use.
AllocateCluster(p, prev, live) ==
    LET free == {c \in 3 .. Total - 1 : ReadFatEntry(p.d, c) = FREE}
        c == Min(free)
        marked == WriteFatEntry(c, EOC, FALSE, FALSE)
        linked == IF prev = 0 THEN <<>> ELSE WriteFatEntry(prev, c, FALSE, live)
    IN  IF ~p.ok \/ free = {} THEN Failed(p)
        ELSE [Do(p, marked \o linked \o <<ToSector(c, ZeroSector, live)>>) EXCEPT !.c = c]

\* free_cluster_chain, of a chain that an entry still names: its writes.
FreeClusterChain(d, c) ==
    LET ch == Chain(d, c)
    IN  FlattenSeq([n \in DOMAIN ch |-> WriteFatEntry(ch[n], FREE, n > 1, TRUE)])

\* The entry at slot s is replaced, in one write of its sector.
SetSlot(p, s, e, risk) ==
    Do(p, <<ToSector(s[1], [p.d.sec[s[1]] EXCEPT ![s[2]] = e], risk)>>)

\* insert_dir_entry: the first zero or deleted slot; else, after an end-of-chain
\* mark, a further cluster.
InsertDirEntry(p, dir, e) ==
    LET ss == SlotsOf(p.d, dir)
        free == {n \in DOMAIN ss : At(p.d, ss[n]).k \in {"zero", "gone"}}
        ch == Chain(p.d, dir)
        grown == AllocateCluster(p, ch[Len(ch)], TRUE)
    IN  IF ~p.ok \/ ch = <<>> THEN Failed(p)
        ELSE IF free # {} THEN SetSlot(p, ss[Min(free)], e, FALSE)
        ELSE IF ReadFatEntry(p.d, ch[Len(ch)]) # EOC THEN Failed(p)
        ELSE Do(grown, <<ToSector(grown.c, [ZeroSector EXCEPT ![1] = e], FALSE)>>)

-----------------------------------------------------------------------------
\* The operations, as plans.

Parent(path) == SubSeq(path, 1, Len(path) - 1)

\* The clusters of write_file's first loop: at least one, linked one to the other.
AllocateAll(p, count) ==
    LET got[n \in 0 .. count] ==
          IF n = 0 THEN p ELSE AllocateCluster(got[n - 1], got[n - 1].c, FALSE)
    IN  got[count]

WriteData(p, first, data) ==
    LET ch == Chain(p.d, first)
    IN  Do(p, [n \in DOMAIN data |-> ToSector(ch[n], DataSector(data[n]), FALSE)])

\* Variant: the old clusters are freed before the new ones are allocated.
WriteFileFreeFirst(path, data) ==
    LET parent == Resolve(disk, Parent(path))
        old == Find(disk, parent.at, Last(path))
        p0 == IF parent.k = "dir" /\ old # <<>>
              THEN Do(Plan0, FreeClusterChain(disk, At(disk, old).at)) ELSE Plan0
        first == AllocateCluster(p0, 0, FALSE)
        got == AllocateAll(p0, IF data = <<>> THEN 1 ELSE Len(data))
        filled == WriteData(got, first.c, data)
    IN  IF parent.k # "dir" THEN Failed(Plan0)
        ELSE IF ~got.ok THEN got
        ELSE IF old # <<>>
        THEN SetSlot(filled, old, [At(disk, old) EXCEPT !.at = first.c, !.size = Len(data)], FALSE)
        ELSE InsertDirEntry(filled, parent.at,
                            Entry("file", Short[Last(path)], first.c, Len(data)))

\* write_file: allocate and fill the new chain, then free the old one, then point
\* the entry to the new one; or insert an entry.
WriteFile(path, data) ==
    LET parent == Resolve(disk, Parent(path))
        old == Find(disk, parent.at, Last(path))
        first == AllocateCluster(Plan0, 0, FALSE)
        got == AllocateAll(Plan0, IF data = <<>> THEN 1 ELSE Len(data))
        filled == WriteData(got, first.c, data)
    IN  IF parent.k # "dir" THEN Failed(Plan0)
        ELSE IF ~got.ok THEN got
        ELSE IF old # <<>>
        THEN SetSlot(Do(filled, FreeClusterChain(filled.d, At(disk, old).at)), old,
                     [At(disk, old) EXCEPT !.at = first.c, !.size = Len(data)], TRUE)
        ELSE InsertDirEntry(filled, parent.at,
                            Entry("file", Short[Last(path)], first.c, Len(data)))

\* create_dir.
CreateDir(path) ==
    LET parent == Resolve(disk, Parent(path))
        got == AllocateCluster(Plan0, 0, FALSE)
        filled == Do(got, <<ToSector(got.c, DotSector(got.c, parent.at), FALSE)>>)
    IN  IF parent.k # "dir" \/ Find(disk, parent.at, Last(path)) # <<>> \/ ~got.ok
        THEN Failed(Plan0)
        ELSE InsertDirEntry(filled, parent.at, Entry("dir", Short[Last(path)], got.c, 0))

\* Variant: the chain is freed, the entry stays.
DeleteNoMark(path) ==
    LET parent == Resolve(disk, Parent(path))
        s == Find(disk, parent.at, Last(path))
    IN  IF parent.k # "dir" \/ s = <<>> THEN Failed(Plan0)
        ELSE Do(Plan0, FreeClusterChain(disk, At(disk, s).at))

\* delete_entry: a directory is deleted with what it holds, and only its own
\* chain is freed.
DeleteEntry(path) ==
    LET parent == Resolve(disk, Parent(path))
        s == Find(disk, parent.at, Last(path))
    IN  IF parent.k # "dir" \/ s = <<>> THEN Failed(Plan0)
        ELSE SetSlot(Do(Plan0, FreeClusterChain(disk, At(disk, s).at)), s, Gone, TRUE)

\* format: BPB (FSInfo is never read back), both FATs sector by sector, the root.
FormatPlan ==
    LET Fresh(c) == IF c = ROOT THEN EOC ELSE FREE
        low == [c \in {c \in Cluster : c < FatSplit} |-> Fresh(c)]
        high == [c \in {c \in Cluster : c >= FatSplit} |-> Fresh(c)]
    IN  Do(Plan0, <<ToBoot, ToFat(1, low, TRUE), ToFat(2, low, TRUE),
                    ToFat(1, high, TRUE), ToFat(2, high, TRUE),
                    ToSector(ROOT, [ZeroSector EXCEPT ![1] = Label], TRUE)>>)

-----------------------------------------------------------------------------
\* The tree a user sees: what resolve_path and read_file return.
Exists(d, p) == Resolve(d, p).k \in {"file", "dir"}

Tree(d) ==
    [p \in {q \in Paths : d.boot /\ Exists(d, q)} |->
        LET e == Resolve(d, p)
        IN  [dir |-> e.k = "dir", data |-> IF e.k = "dir" THEN <<>> ELSE ReadFile(d, e)]]

Init ==
    /\ disk = [boot |-> FALSE, fat |-> [i \in 1 .. 2 |-> [c \in Cluster |-> FREE]],
               sec |-> [c \in Cluster |-> ZeroSector]]
    /\ mounted = FALSE
    /\ todo = <<>> /\ op = "idle"
    /\ faults = 0 /\ damaged = FALSE
    /\ seen = Tree(disk)

\* A shell command starts; one that fails before its first write changes nothing.
Begin(name, plan) ==
    /\ op = "idle" /\ plan.w # <<>>
    /\ todo' = plan.w
    /\ op' = name
    /\ UNCHANGED <<disk, mounted, faults, damaged, seen>>

\* The shell commands.
FormatFat == Begin("format", FormatPlan)
FatWrite == mounted /\ \E x \in Writes : Begin("write", WriteFile(x[1], x[2]))
FatMkdir == mounted /\ \E p \in Dirs : Begin("mkdir", CreateDir(p))
FatRm == mounted /\ \E p \in Removes : Begin("rm", DeleteEntry(p))

\* mount, after the checks of the boot sector.
MountFat ==
    /\ op = "idle" /\ disk.boot
    /\ mounted' = TRUE
    /\ UNCHANGED <<disk, todo, op, faults, damaged, seen>>

Idle == todo' = <<>> /\ op' = "idle" /\ seen' = Tree(disk')

\* write_sector_drive succeeds; after its last write the command is done.
WriteSector ==
    /\ op # "idle"
    /\ disk' = Apply(disk, Head(todo))
    /\ IF Len(todo) = 1
       THEN Idle /\ mounted' = (mounted \/ op = "format")
       ELSE todo' = Tail(todo) /\ UNCHANGED <<op, seen, mounted>>
    /\ UNCHANGED <<faults, damaged>>

Exposed == op # "idle" /\ Head(todo).risk

Abandon ==
    /\ faults < MaxFaults
    /\ faults' = faults + 1
    /\ damaged' = (damaged \/ Exposed)
    /\ UNCHANGED disk
    /\ Idle

\* A wait for the drive ends in an error or a time-out, in a read or a write.
DriveError == op # "idle" /\ Abandon /\ UNCHANGED mounted

\* The power fails; the machine boots again with nothing mounted.
PowerFailure == Abandon /\ mounted' = FALSE

Next == FormatFat \/ MountFat \/ FatWrite \/ FatMkdir \/ FatRm
        \/ WriteSector \/ DriveError \/ PowerFailure

Spec == Init /\ [][Next]_vars

-----------------------------------------------------------------------------
Sector == [1 .. PerSector -> [k : {"zero", "gone", "label", "data", "file", "dir"},
                              name : Name \cup {NoName, ".", ".."}, at : 0 .. Total - 1, size : Nat]]

TypeOK ==
    /\ disk.boot \in BOOLEAN
    /\ disk.fat \in [1 .. 2 -> [Cluster -> 0 .. EOC]]
    /\ \A c \in Cluster : disk.sec[c] \in Sector
    /\ mounted \in BOOLEAN /\ damaged \in BOOLEAN /\ faults \in 0 .. MaxFaults
    /\ op \in {"idle", "format", "write", "mkdir", "rm"} /\ (op = "idle" <=> todo = <<>>)

Clusters(d, p) == LET ch == Chain(d, Resolve(d, p).at) IN {ch[n] : n \in DOMAIN ch}
Known(d) == {<<>>} \cup DOMAIN Tree(d)

\* The loops that follow a chain end: the first FAT has no cycle, whatever was
\* interrupted and however damaged the volume is.
NoCycle == \A c \in Cluster : Len(Chain(disk, c)) <= Cardinality(Cluster)

\* Every file and directory that can be reached owns a chain of its own: it is not
\* empty, ends in an end-of-chain mark, and shares no cluster with another.  It holds
\* between commands and at every write where stopping does no damage; and no damage
\* ever closes a chain to a cycle.
ChainsSound ==
    /\ NoCycle
    /\ disk.boot /\ ~damaged /\ ~Exposed =>
         \A p \in Known(disk) :
           LET ch == Chain(disk, Resolve(disk, p).at) IN
           /\ ch # <<>> /\ ReadFatEntry(disk, ch[Len(ch)]) = EOC
           /\ \A q \in Known(disk) \ {p} : Clusters(disk, p) \cap Clusters(disk, q) = {}

\* write_fat_entry mirrors: an interruption leaves at most one entry different in
\* the two FATs.
Mirrored ==
    ~damaged /\ op # "format" =>
       Cardinality({c \in Cluster : disk.fat[1][c] # disk.fat[2][c]})
          <= faults + (IF op = "idle" THEN 0 ELSE 1)

\* A command takes effect as a whole or not at all: also when the disk is full,
\* the drive fails or the power does, outside the stretches marked as risks.
T == INSTANCE FsTree WITH tree <- seen, NoData <- <<>>, Start <- [p \in {} |-> {}]
ImplementsTree == T!Spec

\* A directory holds no two entries of one name.
NamesUnique ==
    disk.boot /\ op = "idle" /\ ~damaged =>
      LET ss == SlotsOf(disk, ROOT) IN
      \A i, j \in Listed(disk, ROOT) : At(disk, ss[i]).name = At(disk, ss[j]).name => i = j

\* Every cluster that is not free belongs to a file or directory that can be reached.
NoLostClusters ==
    disk.boot /\ op = "idle" /\ faults = 0 =>
      Cluster \ FreeClusters(disk) \subseteq UNION {Clusters(disk, p) : p \in Known(disk)}
=============================================================================
