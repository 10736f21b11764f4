--------------------------- MODULE AppendOnlyLog ---------------------------
(***************************************************************************)
(* What the ledger promises the readers of a stream: a track record is a   *)
(* list of events that is never rewritten, shortened or reordered.  It     *)
(* only grows, one stream at a time, at its end, by the events of one      *)
(* transaction.                                                            *)
(***************************************************************************)
EXTENDS Sequences, Naturals

CONSTANTS
    Keys,       \* the streams, each of one tenant
    Events

VARIABLE log    \* the events of each stream, oldest first

Init == log = [k \in Keys |-> << >>]

ExtendedBy(old, new) ==
    /\ Len(old) < Len(new)
    /\ SubSeq(new, 1, Len(old)) = old

AppendBatch(k) ==
    /\ log'[k] \in Seq(Events)
    /\ ExtendedBy(log[k], log'[k])
    /\ log' = [log EXCEPT ![k] = log'[k]]

Next == \E k \in Keys : AppendBatch(k)

Spec == Init /\ [][Next]_log
=============================================================================
