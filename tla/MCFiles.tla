------------------------------ MODULE MCFiles ------------------------------
(* The two file systems of the shell.  They share no state, so a behaviour  *)
(* of this module is one of either and the other stands still: interleaving *)
(* them would add states and no case.                                       *)
(*                                                                          *)
(* In memory: walks into a directory and out of it, relative and absolute.  *)
(* On disk: a file a in the root, a directory D with a file a.              *)
EXTENDS Integers, Sequences

CONSTANTS Name, Content, Walks, MaxInodes, MaxDepth,
          Total, PerSector, FatSplit, Paths, FatName, Short, FatContent,
          Writes, Dirs, Removes, MaxFaults

VARIABLES inodes, current, free, home, listed,
          disk, mounted, todo, op, faults, damaged, seen,
          which

V == INSTANCE Vfs WITH seen <- listed
F == INSTANCE Fat32 WITH Name <- FatName, Content <- FatContent

To(segs) == [abs |-> TRUE, segs |-> segs]
From(segs) == [abs |-> FALSE, segs |-> segs]

MCWalks == {To(<<>>), To(<<"etc">>), To(<<"a">>), From(<<"a">>), From(<<"b">>),
            From(<<".">>), From(<<"..">>), From(<<"..", "a">>)}

A == <<"a">>
D == <<"D">>
DA == <<"D", "a">>

MCPath == {A, D, DA}
MCShort == [n \in FatName |-> n]
MCContent == {<<>>, <<1>>, <<2, 2>>}
MCWrites == {<<A, <<1>>>>, <<A, <<2, 2>>>>, <<DA, <<1>>>>}
MCDirs == {D}
MCRemoves == {A, D}

vfs == <<inodes, current, free, home, listed>>
fat == <<disk, mounted, todo, op, faults, damaged, seen>>

MCInit == V!Init /\ F!Init /\ which \in {"vfs", "fat32"}

MCNext ==
  /\ UNCHANGED which
  /\ \/ which = "vfs" /\ V!Next /\ UNCHANGED fat
     \/ which = "fat32" /\ F!Next /\ UNCHANGED vfs

MCSpec == MCInit /\ [][MCNext]_<<vfs, fat, which>>

-----------------------------------------------------------------------------
\* The inode table is a tree and its free list: a live inode other than the root is
\* in one children list, once, that of its parent, a live directory; a removed one is
\* in none, and is on the free list; no directory has two children of one name.
TreeWellFormed == V!TreeWellFormed

\* Removing the current directory, or one above it, leaves a number that may be
\* reused; as long as the user does not `cd`, it never becomes another directory.
CwdNeverReaimed == V!CwdNeverReaimed

\* Each command on the VFS does to the tree of paths what it says, or nothing.
VfsImplementsTree == V!ImplementsTree

\* Every file and directory of the FAT32 volume that can be reached owns a chain
\* of its own, between commands and at every write where stopping does no damage;
\* no damage ever closes a chain to a cycle; and an interruption leaves at most one
\* entry different in the two FATs that write_fat_entry mirrors.
VolumeSound == F!ChainsSound /\ F!Mirrored

\* A command on the volume takes effect as a whole or not at all: also when the
\* disk is full, the drive fails or the power does, outside the stretches marked
\* as risks.
FatImplementsTree == F!ImplementsTree
=============================================================================
