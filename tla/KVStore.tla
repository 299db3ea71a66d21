------------------------------ MODULE KVStore -------------------------------
(***************************************************************************)
(* What the store promises its callers, whatever it does with its files:   *)
(* batches take effect all at once and in one order; a read or a snapshot  *)
(* shows the store as it was at one moment; what was forced to disk is     *)
(* never lost, and no end of the process leaves a part of a batch.  A      *)
(* batch that never took effect, its write having failed, is not promised: *)
(* it may be found when the store is opened again, or not.                 *)
(***************************************************************************)
EXTENDS Integers, Sequences, SequencesExt

CONSTANTS Keys, Readers, NoRead

VARIABLES
    batches,     \* the batches written, in order: [id, ops, durable, applied]
    open,        \* is the store open?
    view,        \* what it shows: a value for every key, 0 for none
    snapshots,   \* the views of the live snapshots
    reads        \* for each reader, what its read in progress will return

vars == <<batches, open, view, snapshots, reads>>

\* What a sequence of batches makes of an empty store.
Nothing == [k \in Keys |-> 0]
Replay(bs) ==
    FoldLeft(LAMBDA v, op : [v EXCEPT ![op.key] = op.val], Nothing,
             FlattenSeq([i \in DOMAIN bs |-> bs[i].ops]))

Applied(bs) == SelectSeq(bs, LAMBDA b : b.applied)
Grown(b, c) == c \in {b, [b EXCEPT !.durable = TRUE]}

Init ==
    /\ batches = <<>> /\ open = FALSE /\ view = Nothing
    /\ snapshots = <<>> /\ reads = [r \in Readers |-> NoRead]

\* A group of batches reaches the log, and may force it to disk.
Log ==
    /\ open /\ Len(batches') > Len(batches)
    /\ \A i \in DOMAIN batches' \ DOMAIN batches : ~batches'[i].applied
    /\ \A i \in DOMAIN batches : Grown(batches[i], batches'[i])
    /\ UNCHANGED <<open, view, snapshots, reads>>

\* The batches of a group take effect together.
Commit ==
    /\ open
    /\ \E n \in DOMAIN batches :
           batches' = [i \in DOMAIN batches |-> IF i >= n THEN [batches[i] EXCEPT !.applied = TRUE]
                                                ELSE batches[i]]
    /\ batches' # batches
    /\ view' = Replay(Applied(batches'))
    /\ UNCHANGED <<open, snapshots, reads>>

\* Batches get to disk on their own, too.
Harden ==
    /\ DOMAIN batches' = DOMAIN batches /\ batches' # batches
    /\ \A i \in DOMAIN batches : Grown(batches[i], batches'[i])
    /\ UNCHANGED <<open, view, snapshots, reads>>

BeginRead(r) ==
    /\ open /\ reads[r] = NoRead /\ reads'[r] # NoRead
    /\ \E shown \in {view} \cup ToSet(snapshots) : \E ks \in SUBSET Keys :
           reads' = [reads EXCEPT ![r] = [k \in ks |-> shown[k]]]
    /\ UNCHANGED <<batches, open, view, snapshots>>

EndRead(r) ==
    /\ reads[r] # NoRead /\ reads' = [reads EXCEPT ![r] = NoRead]
    /\ UNCHANGED <<batches, open, view, snapshots>>

GetSnapshot ==
    /\ Len(snapshots') > Len(snapshots)
    /\ snapshots' = Append(snapshots, view)
    /\ UNCHANGED <<batches, open, view, reads>>

ReleaseSnapshot ==
    /\ Len(snapshots') < Len(snapshots)
    /\ \E i \in DOMAIN snapshots : snapshots' = RemoveAt(snapshots, i)
    /\ UNCHANGED <<batches, open, view, reads>>

\* The process ends, and with it what it had in memory.  What was forced to disk
\* is kept, but for the batches of failed writes, and any of the rest.
End ==
    /\ ~open'
    /\ LET kept == {batches'[i].id : i \in DOMAIN batches'}
       IN /\ batches' = SelectSeq(batches, LAMBDA b : b.id \in kept)
          /\ \A i \in DOMAIN batches :
                 batches[i].durable => batches[i].id \in kept \/ (open /\ ~batches[i].applied)
    /\ view' = Nothing /\ snapshots' = <<>> /\ reads' = [r \in Readers |-> NoRead]

\* Opening shows every batch that was kept, whole.
Open ==
    /\ ~open /\ open'
    /\ batches' = [i \in DOMAIN batches |-> [batches[i] EXCEPT !.applied = TRUE]]
    /\ view' = Replay(batches)
    /\ UNCHANGED <<snapshots, reads>>

Next ==
    \/ Log \/ Commit \/ Harden
    \/ \E r \in Readers : BeginRead(r) \/ EndRead(r)
    \/ GetSnapshot \/ ReleaseSnapshot
    \/ End \/ Open

Spec == Init /\ [][Next]_vars
=============================================================================
