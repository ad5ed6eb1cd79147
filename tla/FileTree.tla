------------------------------ MODULE FileTree ------------------------------
(***************************************************************************)
(* The directory tree the TotalFileSize programs walk (external: the file  *)
(* system, seen through java.io.File).                                     *)
(*                                                                         *)
(* A Dir is anything File.isFile() is false for: the programs descend into *)
(* those and add up the lengths of the regular files lying directly in     *)
(* them.  Only the tree of directories matters: the files of a directory   *)
(* are one amount, its "direct size", and a sum of direct sizes is         *)
(* represented by how often each directory's direct size was added to it   *)
(* (a function in [Dir -> Nat]), so that losing a directory cannot be      *)
(* hidden by counting another one twice.  A directory listFiles() returns  *)
(* null for is one without subdirectories and with direct size 0.          *)
(***************************************************************************)
EXTENDS Naturals, FiniteSets

CONSTANTS Dir,   \* the directories below and including the root
          Root   \* the directory the program is asked about

ASSUME TreeAssumption == Root \in Dir /\ IsFiniteSet(Dir)

\* S contains the root and, with every directory, its subdirectories.
ClosedFromRoot(sub, S) ==
    /\ Root \in S
    /\ \A d \in S : sub[d] \subseteq S

\* The subdirectories of each directory, when parent gives the directory
\* every directory but the root lies in.
SubDirs(parent) == [d \in Dir |-> {c \in Dir \ {Root} : parent[c] = d}]

\* listFiles() restricted to the directories, for every tree with root Root
\* whose directories are exactly Dir: all of Dir is reached from the root.
Trees ==
    {sub \in {SubDirs(parent) : parent \in [Dir \ {Root} -> Dir]} :
        \A S \in SUBSET Dir : ClosedFromRoot(sub, S) => S = Dir}

\* A sum of direct sizes: nothing added yet, and every directory added once,
\* which is what TotalFileSizeSequential returns.
Nothing == [d \in Dir |-> 0]
ExactSize == [d \in Dir |-> 1]
Add(size, d) == [size EXCEPT ![d] = @ + 1]
=============================================================================
