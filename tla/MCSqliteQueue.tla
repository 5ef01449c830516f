--------------------------- MODULE MCSqliteQueue ---------------------------
(* Values for model checking SqliteQueue. *)
EXTENDS SqliteQueue, TLC

\* Processes are interchangeable, and so are keys: no definition tells one from
\* another.
Symmetry == Permutations(Process) \cup Permutations(Key)
=============================================================================
