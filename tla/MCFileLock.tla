------------------------------ MODULE MCFileLock ------------------------------
(***************************************************************************)
(* A small instance of FileLock: three threads and two sites, with as many *)
(* inodes as can be in use at once.                                        *)
(***************************************************************************)
EXTENDS FileLock

\* Names of distinct lock files plus descriptors on files that lost theirs.
ASSUME EnoughInodes == Cardinality(Inodes) >= Cardinality(Threads) + Cardinality(Paths) - 1
=============================================================================
