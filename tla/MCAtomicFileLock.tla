--------------------------- MODULE MCAtomicFileLock ---------------------------
(* Two writers of the same lock.                                             *)
EXTENDS AtomicFileLock

CONSTANTS w1, w2

MCWriters == {w1, w2}
===============================================================================
