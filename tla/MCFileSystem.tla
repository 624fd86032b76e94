---------------------------- MODULE MCFileSystem ----------------------------
(* FileSystem.tla for TLC: the names a user gives can be exchanged. *)
EXTENDS FileSystem, TLC

MCSymmetry == Permutations(Names) \cup Permutations(Data)
=============================================================================
