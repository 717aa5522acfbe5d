------------------------------ MODULE MCCursor ------------------------------
(***************************************************************************)
(* Small instances of the cursor for TLC: three positions, a fault and two *)
(* process ends or more, with and without the second committer.            *)
(***************************************************************************)
EXTENDS Cursor, TLC

CONSTANTS i1, i2, i3, i4

ThreeInodes    == {i1, i2, i3}
FourInodes     == {i1, i2, i3, i4}
OneCommitter   == {"maintenance"}
BothCommitters == {"maintenance", "main"}

\* Which inode a file gets does not matter.
InodeSymmetry == Permutations(Inodes)
=============================================================================
