----------------------------- MODULE Subscription -----------------------------
(***************************************************************************)
(* M11: subscriptions, their billing entries and the signal streams they   *)
(* read (subscription/service.py, router.py, models.py), and the replay    *)
(* websocket that shares the materialization (realtime/router.py).         *)
(*                                                                         *)
(* A subscribe request is one transaction: it inserts the subscription and *)
(* its charge, checks whether the bot's stream has signals and, if not,    *)
(* appends the signals of the version it loaded.  Inserts of one           *)
(* (subscriber, listing) wait for each other on the unique constraint, and *)
(* appends to one stream wait for each other as EventLedger describes:     *)
(* whoever has flushed entry number `tail` first holds the stream until    *)
(* its transaction ends.  Listings are what Marketplace makes of them,     *)
(* one per bot and republished in place.                                   *)
(***************************************************************************)
EXTENDS Integers, Sequences, FiniteSets

CONSTANTS
    Users,
    Listings,
    Demo,           \* the stream `bot:demo:SYMBOL` of the replay websocket
    Tasks,          \* requests served concurrently
    Prices,         \* price_cents
    SignalCount,    \* how many signals each version emits over the history
    MaxSubs         \* bound: subscriptions ever inserted

ASSUME SubscriptionAssumption ==
    /\ Demo \notin Listings
    /\ Prices \subseteq Nat
    /\ DOMAIN SignalCount = 1..Len(SignalCount)
    /\ 1 \in DOMAIN SignalCount
    /\ \A v \in DOMAIN SignalCount : SignalCount[v] \in Nat
    /\ MaxSubs \in Nat
    /\ IsFiniteSet(Tasks)

VARIABLES
    listings,   \* table listings: version, price and status
    subs,       \* table subscriptions
    billing,    \* table billing_entries
    streams,    \* the SIGNAL events of each bot's stream
    issued,     \* number of subscription ids given out
    task        \* what each request is doing, has read and has inserted

vars == <<listings, subs, billing, streams, issued, task>>

-----------------------------------------------------------------------------
(* Rows. *)

Versions == DOMAIN SignalCount
Streams == Listings \cup {Demo}
Ids == 1..MaxSubs
\* subscribe tells active from the rest; paused stands for withdrawn, too.
Status == {"active", "paused"}
ListingRows == [version: Versions, price: Prices, status: Status]

\* version stands for the symbol and strategy_id copied from the listing.
SubRows == [id: Ids, user: Users, listing: Listings, version: Versions]
BillingRows == [sub: Ids, user: Users, listing: Listings, gross: Prices]

\* The signals of a version, as SignalEngine emits them over the bars.
Signals == {s \in Versions \X (Nat \ {0}) : s[2] <= SignalCount[s[1]]}
History(v) == [k \in 1..SignalCount[v] |-> <<v, k>>]

\* A request: its stream and the version it would materialize, the price it
\* has loaded, the rows it has inserted and not committed, the tail it has
\* read, and whether it holds the stream.
None == [none |-> TRUE]
Stages == {"idle", "find", "insert", "check", "append", "flush", "commit"}
TaskStates ==
    [at: Stages, user: Users \cup {None}, stream: Streams \cup {None},
     version: Versions \cup {0}, price: Prices \cup {0},
     sub: SubRows \cup {None}, tail: Nat, holds: BOOLEAN]
Idle == [at |-> "idle", user |-> None, stream |-> None, version |-> 0,
         price |-> 0, sub |-> None, tail |-> 0, holds |-> FALSE]

-----------------------------------------------------------------------------
(* The marketplace and the subscribers' other requests. *)

Init ==
    /\ listings \in [Listings -> {r \in ListingRows : /\ r.version = 1
                                                      /\ r.status = "active"}]
    /\ subs = {} /\ billing = {} /\ issued = 0
    /\ streams = [s \in Streams |-> << >>]
    /\ task = [t \in Tasks |-> Idle]

\* The designer publishes a later version of the bot on the same listing, the
\* next or one more versions on.
Republish(l, price) ==
    /\ \E v \in Versions :
        /\ v > listings[l].version
        /\ listings' = [listings EXCEPT ![l] = [version |-> v, price |-> price,
                                                status |-> "active"]]
    /\ UNCHANGED <<subs, billing, streams, issued, task>>

SetStatus(l, status) ==
    /\ listings' = [listings EXCEPT ![l].status = status]
    /\ UNCHANGED <<subs, billing, streams, issued, task>>

\* DELETE /subscriptions/{id}: the row goes, the charge stays.
Unsubscribe(s) ==
    /\ s \in subs
    /\ subs' = subs \ {s}
    /\ UNCHANGED <<listings, billing, streams, issued, task>>

-----------------------------------------------------------------------------
(* POST /subscriptions, step by step. *)

Own == <<listings, subs, billing, streams, issued>>

\* Another subscription fits the bound, whatever the open requests do.
IdsLeft ==
    issued + Cardinality({t \in Tasks : task[t].at \in {"find", "insert"}})
        < MaxSubs

\* The listing, if active, and the definition of the version it points to.
SubscribeLoadListing(t, u, l) ==
    /\ task[t].at = "idle"
    /\ listings[l].status = "active"
    /\ IdsLeft
    /\ task' = [task EXCEPT
            ![t] = [Idle EXCEPT !.at = "find", !.user = u, !.stream = l,
                                !.version = listings[l].version,
                                !.price = listings[l].price]]
    /\ UNCHANGED Own

\* /ws/replay materializes the demo stream with a fixed definition.
ReplayStream(t) ==
    /\ task[t].at = "idle"
    /\ task' = [task EXCEPT ![t] = [Idle EXCEPT !.at = "check",
                                               !.stream = Demo, !.version = 1]]
    /\ UNCHANGED Own

\* Committed rows of the request's subscriber and listing.
Existing(t) == {s \in subs : s.user = task[t].user /\ s.listing = task[t].stream}

\* _find: an existing subscription is neither inserted nor charged again.
SubscribeFind(t) ==
    /\ task[t].at = "find"
    /\ task' = [task EXCEPT ![t].at = IF Existing(t) = {} THEN "insert"
                                      ELSE "check"]
    /\ UNCHANGED Own

\* Another open transaction has inserted the same key.
KeyHeld(t) ==
    \E o \in Tasks \ {t} : /\ task[o].sub # None
                           /\ task[o].sub.user = task[t].user
                           /\ task[o].sub.listing = task[t].stream

\* Mutant: no unique constraint.
KeyFreeAlways(t) == TRUE

\* uq_subscription_tenant_subscriber_listing.
KeyFree(t) == ~KeyHeld(t) /\ Existing(t) = {}

\* The INSERT of the subscription, and of its charge if it costs anything.
SubscribeInsert(t) ==
    /\ task[t].at = "insert"
    /\ KeyFree(t)
    /\ issued' = issued + 1
    /\ task' = [task EXCEPT
            ![t].at = "check",
            ![t].sub = [id |-> issued + 1, user |-> task[t].user,
                        listing |-> task[t].stream, version |-> task[t].version]]
    /\ UNCHANGED <<listings, subs, billing, streams>>

\* The transaction rolls back and everything it inserted goes.
Rollback(t) ==
    /\ task' = [task EXCEPT ![t] = Idle]
    /\ UNCHANGED Own

SubscribeDuplicate(t) ==
    /\ task[t].at = "insert"
    /\ ~KeyHeld(t) /\ Existing(t) # {}
    /\ Rollback(t)

\* Mutant: every subscriber's request runs the bot over the history.
MaterializedNever(s) == FALSE

\* A stream with signals is not materialized again.
Materialized(s) == streams[s] # << >>

\* _materialize: the check, and the run over the history if it has to be.
Check(t) ==
    /\ task[t].at = "check"
    /\ task' = [task EXCEPT ![t].at =
            IF Materialized(task[t].stream) \/ SignalCount[task[t].version] = 0
            THEN "commit" ELSE "append"]
    /\ UNCHANGED Own

\* The first append reads the tail of the stream ...
ReadTail(t) ==
    /\ task[t].at = "append"
    /\ task' = [task EXCEPT ![t].at = "flush",
                            ![t].tail = Len(streams[task[t].stream])]
    /\ UNCHANGED Own

StreamHeld(t) ==
    \E o \in Tasks \ {t} : task[o].holds /\ task[o].stream = task[t].stream

\* ... and inserts the next entry; the others then follow unopposed.
Flush(t) ==
    /\ task[t].at = "flush"
    /\ ~StreamHeld(t)
    /\ Len(streams[task[t].stream]) = task[t].tail
    /\ task' = [task EXCEPT ![t].at = "commit", ![t].holds = TRUE]
    /\ UNCHANGED Own

\* Mutant: a refused append is tried again from the tail it has read.
FlushConflictRetried(t) ==
    /\ task[t].at = "flush"
    /\ Len(streams[task[t].stream]) > task[t].tail
    /\ UNCHANGED vars

\* The entry exists by now.
FlushConflict(t) ==
    /\ task[t].at = "flush"
    /\ Len(streams[task[t].stream]) > task[t].tail
    /\ Rollback(t)

\* Mutant: the charge is not tied to a new subscription.
ChargeAlways(t) ==
    IF task[t].price = 0 \/ Existing(t) \cup ({task[t].sub} \ {None}) = {}
    THEN {}
    ELSE LET s == CHOOSE x \in Existing(t) \cup ({task[t].sub} \ {None}) : TRUE
         IN  {[sub |-> s.id, user |-> s.user, listing |-> s.listing,
               gross |-> task[t].price]}

\* _charge, for a new subscription to a paid listing.
Charge(t) ==
    IF task[t].sub = None \/ task[t].price = 0 THEN {}
    ELSE {[sub |-> task[t].sub.id, user |-> task[t].sub.user,
           listing |-> task[t].sub.listing, gross |-> task[t].price]}

Commit(t) ==
    /\ task[t].at = "commit"
    /\ subs' = subs \cup ({task[t].sub} \ {None})
    /\ billing' = billing \cup Charge(t)
    /\ streams' = IF task[t].holds
                  THEN [streams EXCEPT
                            ![task[t].stream] = @ \o History(task[t].version)]
                  ELSE streams
    /\ task' = [task EXCEPT ![t] = Idle]
    /\ UNCHANGED <<listings, issued>>

\* The client disconnects or the process fails.
Abandon(t) == task[t].at # "idle" /\ Rollback(t)

Step(t) ==
    \/ SubscribeFind(t) \/ SubscribeInsert(t) \/ SubscribeDuplicate(t)
    \/ Check(t) \/ ReadTail(t) \/ Flush(t) \/ FlushConflict(t) \/ Commit(t)

Next ==
    \/ \E l \in Listings, price \in Prices : Republish(l, price)
    \/ \E l \in Listings, status \in Status : SetStatus(l, status)
    \/ \E s \in subs : Unsubscribe(s)
    \/ \E t \in Tasks :
        \/ \E u \in Users, l \in Listings : SubscribeLoadListing(t, u, l)
        \/ ReplayStream(t)
        \/ Step(t)
        \/ Abandon(t)

Spec == Init /\ [][Next]_vars

\* A request that can go on does, and the database serves those that wait
\* for a key in turn.
Fairness == \A t \in Tasks :
                /\ WF_vars(Step(t))
                /\ SF_vars(SubscribeInsert(t))
                /\ SF_vars(Flush(t))

FairSpec == Spec /\ Fairness

-----------------------------------------------------------------------------
(* Properties. *)

TypeOK ==
    /\ listings \in [Listings -> ListingRows]
    /\ subs \subseteq SubRows
    /\ billing \subseteq BillingRows
    /\ DOMAIN streams = Streams
    /\ \A s \in Streams : streams[s] \in Seq(Signals)
    /\ issued \in 0..MaxSubs
    /\ task \in [Tasks -> TaskStates]

\* A user has one live subscription per listing, however requests overlap
\* (subscription/models.py 15-20).
OneSubscriptionEach ==
    \A r, s \in subs : (r.user = s.user /\ r.listing = s.listing) => r = s

\* Whoever has a subscription finds the bot's signals on the ledger: the
\* stream was materialized before or with the subscription.
SubscribersHaveSignals ==
    \A s \in subs : SignalCount[s.version] > 0 => streams[s.listing] # << >>

\* What the tables keep at every commit, however requests overlap or fail.
SubscriptionsSound == TypeOK /\ OneSubscriptionEach /\ SubscribersHaveSignals

\* The charge is part of joining: charges appear only together with the
\* subscription they are for, once, at the price its request was shown, and
\* are never withdrawn or changed; what is free is not charged.
BilledOnJoining ==
    [][/\ billing \subseteq billing'
       /\ \A e \in billing' \ billing :
            \E s \in subs' \ subs : s.id = e.sub
       /\ \A s \in subs' \ subs :
            LET due == CHOOSE p \in Prices :
                         \E t \in Tasks : task[t].sub = s /\ task[t].price = p
            IN  {e \in billing' : e.sub = s.id}
                    = IF due = 0 THEN {}
                      ELSE {[sub |-> s.id, user |-> s.user,
                             listing |-> s.listing, gross |-> due]}]_vars

\* A stream consists of whole histories: a failed or abandoned
\* materialization leaves no part of one, and two never interleave.
WholeHistories ==
    \A s \in Streams : \A i \in DOMAIN streams[s] :
        LET x == streams[s][i]
        IN  /\ x[2] > 1 => i > 1 /\ streams[s][i - 1] = <<x[1], x[2] - 1>>
            /\ x[2] < SignalCount[x[1]] =>
                i < Len(streams[s]) /\ streams[s][i + 1] = <<x[1], x[2] + 1>>

\* Requests end, the waiting ones too: no two transactions wait for each
\* other, on a subscription key and on a stream.
RequestsEnd == \A t \in Tasks : task[t].at # "idle" ~> task[t].at = "idle"
=============================================================================
