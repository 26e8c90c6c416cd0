---------------------------- MODULE MCShareDaemon ----------------------------
(* Small instances of ShareDaemon for TLC. *)
EXTENDS ShareDaemon, TLC

CONSTANTS f1, f2

Files == {f1, f2}

\* Unset (the default is one second in the runs), or one second: both end while
\* the clock still runs.
MCSeconds == {0, 1}

AllFaults == {"copy", "insert", "lock", "sweep"}
RowFaults == {"copy", "insert", "lock"}

Symmetric == Permutations(Ids) \cup Permutations(Requests) \cup Permutations(Files)

=============================================================================
