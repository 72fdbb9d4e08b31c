------------------------------- MODULE FsTree -------------------------------
(***************************************************************************)
(* What a file system of AuraOS promises its user: a tree of directories   *)
(* and files in which each command either takes effect as a whole or not   *)
(* at all, also when it is interrupted.  `damaged` is the exception clause *)
(* of the promise: a detailed specification says when it may be set, and   *)
(* nothing is promised afterwards.                                         *)
(***************************************************************************)
EXTENDS Integers, Sequences

CONSTANTS Name,      \* of files and directories
          Content,   \* of files
          NoData,    \* the content of a directory
          Start      \* the tree before the first command

VARIABLES tree,      \* [the paths that exist -> nodes]
          damaged

Path == Seq(Name) \ {<<>>}

Folder == [dir |-> TRUE, data |-> NoData]
File(x) == [dir |-> FALSE, data |-> x]

Parent(p) == SubSeq(p, 1, Len(p) - 1)
IsFolder(t, p) == p = <<>> \/ (p \in DOMAIN t /\ t[p].dir)
Above(p, q) == Len(p) <= Len(q) /\ SubSeq(q, 1, Len(p)) = p

With(t, p, n) == [q \in DOMAIN t \cup {p} |-> IF q = p THEN n ELSE t[q]]
Without(t, p) == [q \in {r \in DOMAIN t : ~Above(p, r)} |-> t[q]]
Empty == [p \in {} |-> Folder]

Init == tree = Start /\ damaged = FALSE

Write(p, x) ==
    /\ IsFolder(tree, Parent(p))
    /\ p \in DOMAIN tree => ~tree[p].dir
    /\ tree' = With(tree, p, File(x))

MkDir(p) == IsFolder(tree, Parent(p)) /\ p \notin DOMAIN tree /\ tree' = With(tree, p, Folder)

Remove(p) == p \in DOMAIN tree /\ tree' = Without(tree, p)

Format == tree' = Empty

Command ==
    \/ \E p \in {q \in DOMAIN tree' : q \in Path} : MkDir(p) \/ \E x \in Content : Write(p, x)
    \/ \E p \in DOMAIN tree : Remove(p)
    \/ Format

Next == (~damaged /\ ~damaged' /\ Command) \/ damaged'

Spec == Init /\ [][Next]_<<tree, damaged>>

-----------------------------------------------------------------------------
\* What exists is reached through directories that exist: no command, and no command
\* cut short, leaves a file behind in a directory that is gone.
Rooted == ~damaged => \A p \in DOMAIN tree : IsFolder(tree, Parent(p))
=============================================================================
