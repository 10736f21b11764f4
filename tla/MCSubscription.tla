--------------------------- MODULE MCSubscription ---------------------------
(* An instance of Subscription for TLC, with a history of the listings
   whose stream two requests were filling at once. *)
EXTENDS Subscription

\* Two versions, of two signals and one.
TwoVersions == <<2, 1>>

VARIABLE overlapped

mcVars == <<vars, overlapped>>

\* Requests that have found stream s without signals and are filling it.
Filling(s) == {t \in Tasks : /\ task[t].stream = s
                             /\ task[t].at \in {"append", "flush"} \/ task[t].holds}

\* The listings whose stream two requests are filling.
Overlapping == {s \in Listings : \E t, o \in Filling(s) : t # o}

\* A version is published on a listing after the first one.
Republished == {l \in Listings : listings[l].version # 1}

MCInit == Init /\ overlapped = {}

MCNext ==
    /\ Next
    /\ overlapped' = overlapped \cup Overlapping'

MCSpec == MCInit /\ [][MCNext]_mcVars /\ Fairness

\* A stream consists of whole histories, whatever fails or overlaps.
\* A bot's is materialized once (subscription/service.py 164, "once ...
\* (idempotent)") unless two requests filled it at the same time, and what a
\* subscriber then reads is the history of its own version unless the
\* designer has published another one on the listing.
StreamsSound ==
    /\ WholeHistories
    /\ \A s \in Listings \ overlapped :
        streams[s] = << >> \/ \E v \in Versions : streams[s] = History(v)
    /\ \A r \in subs :
        r.listing \notin overlapped \cup Republished =>
            streams[r.listing] = History(r.version)
=============================================================================
