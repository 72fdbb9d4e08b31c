-------------------------------- MODULE Vfs --------------------------------
(***************************************************************************)
(* The in-memory file system (src/fs/mod.rs) with the shell commands that  *)
(* use it.  Each wrapper holds the topology lock throughout, and only the  *)
(* shell task calls them, so a command is one step.                        *)
(*                                                                         *)
(* An inode is reached by its number: parents, children lists, the list of *)
(* free inodes and the current directory all hold numbers, and a number is *)
(* reused once its inode has been removed.                                 *)
(***************************************************************************)
EXTENDS Integers, Sequences, FiniteSetsExt

CONSTANTS Name,        \* names given to touch, write and mkdir
          Content,     \* contents given to write; "" is the content of an empty file
          Walks,       \* arguments of cd and rm: records [abs, segs]
          MaxInodes,   \* bound on the inode table
          MaxDepth     \* bound on the depth of the tree, for the paths of FsTree

VARIABLES inodes,      \* [0 .. n - 1 -> Inode]
          current,     \* current_inode
          free,        \* free_inodes, the last element popped first
          home,        \* the path of the directory last chosen by cd
          seen         \* Tree(inodes)

vars == <<inodes, current, free, home, seen>>

Size == Cardinality(DOMAIN inodes)
Inode(k, p, n, x) == [kind |-> k, parent |-> p, name |-> n, data |-> x, children |-> <<>>]
Tombstone == Inode("tomb", 0, "", "")

\* is_dir.
IsDir(i) == inodes[i].kind = "dir"

Live == {i \in DOMAIN inodes : inodes[i].kind # "tomb"}

\* get_path: the names on the way up to the root.
RECURSIVE PathOf(_, _)
PathOf(t, i) == IF i = 0 THEN <<>> ELSE Append(PathOf(t, t[i].parent), t[i].name)

\* The paths and contents a user sees.
Tree(t) ==
    LET live == {i \in DOMAIN t \ {0} : t[i].kind # "tomb"}
    IN  [p \in {PathOf(t, i) : i \in live} |->
            LET i == CHOOSE j \in live : PathOf(t, j) = p
            IN  [dir |-> t[i].kind = "dir", data |-> t[i].data]]

\* Vfs::init, cut down to one directory with one file, one pseudo-file (the /proc
\* and /dev entries, whose content is generated when they are read).
Table0 ==
    [i \in 0 .. 3 |->
        CASE i = 0 -> [Inode("dir", 0, "/", "") EXCEPT !.children = <<1>>]
          [] i = 1 -> [Inode("dir", 0, "etc", "") EXCEPT !.children = <<2, 3>>]
          [] i = 2 -> Inode("file", 1, "motd", "")
          [] i = 3 -> Inode("pseudo", 1, "null", "")]

Init ==
    /\ inodes = Table0
    /\ current = 0 /\ home = <<>>
    /\ free = <<>>
    /\ seen = Tree(inodes)

-----------------------------------------------------------------------------
\* The children of i called n: none or one.
Child(i, n) == {j \in DOMAIN inodes :
                  /\ \E k \in DOMAIN inodes[i].children : inodes[i].children[k] = j
                  /\ inodes[j].name = n}

Nowhere == -1

\* One segment of resolve_path; Nowhere stands for its errors.
Step(i, seg) ==
    CASE i = Nowhere -> Nowhere
      [] i # Nowhere /\ seg = "." -> i
      [] i # Nowhere /\ seg = ".." -> inodes[i].parent
      [] OTHER -> IF IsDir(i) /\ Child(i, seg) # {} THEN Min(Child(i, seg)) ELSE Nowhere

\* resolve_path, from the root or the current directory.
Resolve(w) ==
    LET walk[n \in 0 .. Len(w.segs)] ==
          IF n = 0 THEN IF w.abs THEN 0 ELSE current ELSE Step(walk[n - 1], w.segs[n])
    IN  walk[Len(w.segs)]

\* allocate_inode, and the push into the parent's children that follows it.
Allocate(dir, n, k, x) ==
    LET new == IF free # <<>> THEN free[Len(free)] ELSE Size
    IN  /\ new < MaxInodes
        /\ inodes' = [i \in DOMAIN inodes \cup {new} |->
              IF i = new THEN Inode(k, dir, n, x)
              ELSE IF i = dir THEN [inodes[i] EXCEPT !.children = Append(@, new)]
              ELSE inodes[i]]
        /\ free' = IF free # <<>> THEN SubSeq(free, 1, Len(free) - 1) ELSE free

\* Variant: the duplicate check is missing.
MkdirAtAny(dir, n) == IsDir(dir) /\ Allocate(dir, n, "dir", "")

\* Variant: the directory is made in the root.
MkdirAtRoot(dir, n) == Child(0, n) = {} /\ Allocate(0, n, "dir", "")

\* mkdir_at.
MkdirAt(dir, n) == IsDir(dir) /\ Child(dir, n) = {} /\ Allocate(dir, n, "dir", "")

\* create_file_at: overwrite a file of that name, refuse anything else of that
\* name, or make a new inode.
CreateFileAt(dir, n, x) ==
    /\ IsDir(dir)
    /\ IF Child(dir, n) = {} THEN Allocate(dir, n, "file", x)
       ELSE \E i \in Child(dir, n) :
              /\ inodes[i].kind = "file"
              /\ inodes' = [inodes EXCEPT ![i].data = x]
              /\ UNCHANGED free

\* collect_descendants: each child followed by its own descendants.
RECURSIVE Collect(_, _)
Collect(i, n) ==
    IF n > Len(inodes[i].children) THEN <<>>
    ELSE LET c == inodes[i].children[n] IN <<c>> \o Collect(c, 1) \o Collect(i, n + 1)

\* Variant: only the entry itself is cleaned up.
CleanSelf(i) == <<i>>

\* What remove_entry cleans up, in its order.
Clean(i) == Append(Collect(i, 1), i)

\* remove_entry.  The root is protected, and so is what is not in its parent's
\* list (a removed directory that is still the current one).
RemoveEntry(i) ==
    LET dead == Clean(i)
        up == inodes[i].parent
    IN  /\ i # 0
        /\ \E k \in DOMAIN inodes[up].children : inodes[up].children[k] = i
        /\ inodes' = [j \in DOMAIN inodes |->
              IF \E k \in DOMAIN dead : dead[k] = j THEN Tombstone
              ELSE IF j = up THEN [inodes[j] EXCEPT !.children = SelectSeq(@, LAMBDA c : c # i)]
              ELSE inodes[j]]
        /\ free' = free \o dead

-----------------------------------------------------------------------------
\* The shell commands that change something; an error changes nothing.

Touch == \E n \in Name : CreateFileAt(current, n, "") /\ UNCHANGED <<current, home>>
Write == \E n \in Name, x \in Content : CreateFileAt(current, n, x) /\ UNCHANGED <<current, home>>
Mkdir == \E n \in Name : /\ Len(PathOf(inodes, current)) < MaxDepth
                         /\ MkdirAt(current, n)
                         /\ UNCHANGED <<current, home>>
Rm == \E w \in Walks : /\ Resolve(w) # Nowhere /\ RemoveEntry(Resolve(w))
                       /\ UNCHANGED <<current, home>>

Cd ==
    \E w \in Walks :
      LET i == Resolve(w) IN
      /\ i # Nowhere /\ IsDir(i)
      /\ current' = i
      /\ home' = PathOf(inodes, i)
      /\ UNCHANGED <<inodes, free>>

Next == (Touch \/ Write \/ Mkdir \/ Rm \/ Cd) /\ seen' = Tree(inodes')

Spec == Init /\ [][Next]_vars

-----------------------------------------------------------------------------
TypeOK ==
    /\ DOMAIN inodes = 0 .. Size - 1 /\ Size <= MaxInodes
    /\ \A i \in DOMAIN inodes :
         /\ inodes[i].kind \in {"dir", "file", "pseudo", "tomb"}
         /\ inodes[i].parent \in DOMAIN inodes
         /\ \A k \in DOMAIN inodes[i].children : inodes[i].children[k] \in DOMAIN inodes
    /\ current \in DOMAIN inodes

Listings(i) == {<<d, k>> \in (DOMAIN inodes) \X (1 .. MaxInodes) :
                k <= Len(inodes[d].children) /\ inodes[d].children[k] = i}

\* The free list holds the removed inodes, each once: no number is handed out twice,
\* none is lost.
FreeListExact ==
    /\ \A i, j \in DOMAIN free : free[i] = free[j] => i = j
    /\ {free[i] : i \in DOMAIN free} = DOMAIN inodes \ Live

\* The inode table is a tree and its free list: a live inode other than the root is
\* in one children list, once, that of its parent, a live directory; a removed one is
\* in none, and is on the free list; no directory has two children of one name.
TreeWellFormed ==
    /\ \A i \in Live \ {0} : /\ IsDir(inodes[i].parent)
                             /\ Cardinality(Listings(i)) = 1
                             /\ \A s \in Listings(i) : s[1] = inodes[i].parent
    /\ \A i \in DOMAIN inodes \ Live : Listings(i) = {}
    /\ \A i, j \in Live \ {0} :
         inodes[i].parent = inodes[j].parent /\ inodes[i].name = inodes[j].name => i = j
    /\ FreeListExact

\* Removing the current directory, or one above it, leaves a number that may be
\* reused; as long as the user does not `cd`, it never becomes another directory.
CwdNeverReaimed == current \in Live => PathOf(inodes, current) = home

\* Each command does to the tree of paths what it says, or nothing.
T == INSTANCE FsTree WITH tree <- seen, damaged <- FALSE, NoData <- "", Start <- Tree(Table0),
        Name <- Name \cup {"etc", "motd", "null"}, Content <- Content \cup {""}
ImplementsTree == T!Spec
=============================================================================
