------------------------------ MODULE MCLevelDB ------------------------------
(* Small stores: each initial state is a scenario with its own budget.     *)
EXTENDS DBImpl

Put1 == <<[key |-> 1, put |-> TRUE]>>
Del1 == <<[key |-> 1, put |-> FALSE]>>
Both == <<[key |-> 1, put |-> TRUE], [key |-> 2, put |-> TRUE]>>

MCBatches == {Both, Del1}

MCRanges == {<<0, Beyond>>}

CONSTANTS w1, w2

Budget(w, s, r, k, m, c, x, e) ==
    [writes |-> w, snapshots |-> s, reads |-> r, seeks |-> k, manual |-> m,
     closes |-> c, crashes |-> x, errors |-> e, threads |-> {w1, w2}, syncs |-> BOOLEAN]
\* One thread that never asks for a sync.
Alone(b) == [b EXCEPT !.threads = {w1}, !.syncs = {FALSE}]

MCBudgets ==
    {Alone(Budget(4, 0, 0, 0, 0, 0, 0, 0)),     \* a flush inside a compaction
     [Alone(Budget(3, 0, 0, 0, 1, 0, 0, 1)) EXCEPT !.syncs = {TRUE}],
                                                \* a manual compaction, and a failure
     Alone(Budget(3, 0, 1, 1, 0, 0, 0, 0)),     \* a read that is charged to a file
     Alone(Budget(3, 1, 0, 0, 0, 0, 0, 0)),     \* a snapshot while tables are merged
     Alone(Budget(2, 1, 1, 0, 0, 0, 0, 0)),     \* and a read at it
     Budget(2, 0, 0, 0, 0, 1, 1, 1)}            \* closing, a crash and a failure

\* A snapshot while two versions of a key go to different files.
MCHopBudgets == {Alone(Budget(3, 1, 0, 0, 0, 0, 0, 0))}
=============================================================================
