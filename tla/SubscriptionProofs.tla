-------------------------- MODULE SubscriptionProofs --------------------------
(***************************************************************************)
(* Theorems of Subscription, for any users, listings, prices, versions and *)
(* concurrent requests.                                                    *)
(*                                                                         *)
(* The invariant, IInv, types the tables and says of every open request    *)
(* what it holds at each stage (TaskOK); that the key of a row inserted    *)
(* and not committed is nobody else's (KeysHeldOnce), nor its id           *)
(* (IdsGivenOnce); that a subscription finds the signals of its stream     *)
(* (SubscribersHaveSignals); and that the requests which may still insert  *)
(* a row fit the bound on ids (Counted).                                   *)
(*                                                                         *)
(* Of the streams, StreamInv says that each one no two requests have       *)
(* filled together is empty or the history of one version of its listing   *)
(* (OneHistory), of which a request that is filling it holds a version.    *)
(***************************************************************************)
EXTENDS MCSubscription, FiniteSetTheorems, TLAPS

RowsOK ==
    /\ listings \in [Listings -> ListingRows]
    /\ subs \subseteq SubRows
    /\ billing \subseteq BillingRows
    /\ streams \in [Streams -> Seq(Signals)]
    /\ issued \in Nat

\* What a request holds at each stage, given the streams.
TaskOK(q, ss) ==
    /\ q \in TaskStates
    /\ q.at = "idle" => q.sub = None
    /\ q.at # "idle" => q.stream \in Streams /\ q.version \in Versions
    /\ q.at \in {"find", "insert"} =>
        /\ q.user \in Users /\ q.stream \in Listings /\ q.price \in Prices
        /\ q.sub = None
    /\ q.sub # None =>
        /\ q.sub \in SubRows /\ q.price \in Prices
        /\ q.sub.user = q.user /\ q.sub.listing = q.stream
        /\ q.sub.version = q.version
    /\ q.at \in {"append", "flush"} => SignalCount[q.version] > 0
    /\ q.holds => q.at = "commit" /\ SignalCount[q.version] > 0
    /\ q.at = "commit" =>
        q.holds \/ SignalCount[q.version] = 0 \/ ss[q.stream] # << >>

TasksOK ==
    /\ DOMAIN task = Tasks
    /\ task = [t \in Tasks |-> task[t]]
    /\ \A t \in Tasks : TaskOK(task[t], streams)

SameKey(r, s) == r.user = s.user /\ r.listing = s.listing

\* Whose row is inserted and not committed.
Open(t) == task[t].sub # None

KeysHeldOnce ==
    \A t \in Tasks : Open(t) =>
        /\ \A s \in subs : ~SameKey(task[t].sub, s)
        /\ \A o \in Tasks \ {t} : Open(o) => ~SameKey(task[t].sub, task[o].sub)

IdsGivenOnce ==
    /\ \A e \in billing : e.sub <= issued
    /\ \A t \in Tasks : Open(t) =>
        /\ task[t].sub.id <= issued
        /\ \A e \in billing : e.sub # task[t].sub.id
        /\ \A o \in Tasks \ {t} : Open(o) => task[t].sub.id # task[o].sub.id

\* Requests that may yet insert a subscription.
Joining == {t \in Tasks : task[t].at \in {"find", "insert"}}

Counted == issued + Cardinality(Joining) <= MaxSubs

IInv ==
    /\ RowsOK /\ TasksOK /\ KeysHeldOnce /\ IdsGivenOnce
    /\ OneSubscriptionEach /\ SubscribersHaveSignals /\ Counted

-----------------------------------------------------------------------------
(* Values. *)

LEMMA NoneIsNoRow == None \notin SubRows
<1> SUFFICES ASSUME None \in SubRows PROVE FALSE
  OBVIOUS
<1>1. PICK r \in SubRows : r = [none |-> TRUE]
  BY DEF None
<1>2. DOMAIN r = {"id", "user", "listing", "version"}
  BY <1>1 DEF SubRows
<1>3. DOMAIN r = {"none"}
  BY <1>1
<1> QED
  BY <1>2, <1>3

LEMMA IdleOK == ASSUME NEW ss PROVE TaskOK(Idle, ss) /\ Idle.at = "idle" /\ Idle.sub = None
BY DEF Idle, TaskOK, TaskStates, Stages

LEMMA HistoryIsStream ==
    ASSUME NEW v \in Versions
    PROVE  History(v) \in Seq(Signals) /\ (SignalCount[v] > 0 => History(v) # << >>)
<1>1. SignalCount[v] \in Nat
  BY SubscriptionAssumption DEF Versions
<1>2. \A k \in 1..SignalCount[v] : <<v, k>> \in Signals
  BY <1>1 DEF Signals
<1>3. History(v) \in [1..SignalCount[v] -> Signals]
  BY <1>2 DEF History
<1>4. History(v) \in Seq(Signals) /\ Len(History(v)) = SignalCount[v]
  BY <1>1, <1>3
<1> QED
  BY <1>1, <1>4

-----------------------------------------------------------------------------
(* Counting the requests that may insert. *)

LEMMA JoiningIsFinite == IsFiniteSet(Joining) /\ Cardinality(Joining) \in Nat
<1>1. IsFiniteSet(Joining)
  BY SubscriptionAssumption, FS_Subset DEF Joining
<1> QED
  BY <1>1, FS_CardinalityType

\* None joins: the count does not rise.
LEMMA CountFalls ==
    ASSUME Joining' \subseteq Joining
    PROVE  Cardinality(Joining') <= Cardinality(Joining) /\ Cardinality(Joining') \in Nat
<1>1. IsFiniteSet(Joining) /\ Cardinality(Joining) \in Nat
  BY JoiningIsFinite
<1>2. IsFiniteSet(Joining') /\ Cardinality(Joining') <= Cardinality(Joining)
  BY <1>1, FS_Subset
<1> QED
  BY <1>2, FS_CardinalityType

LEMMA CountRises ==
    ASSUME NEW t, Joining' \subseteq Joining \cup {t}
    PROVE  /\ Cardinality(Joining') <= Cardinality(Joining) + 1
           /\ Cardinality(Joining') \in Nat
<1>1. IsFiniteSet(Joining) /\ Cardinality(Joining) \in Nat
  BY JoiningIsFinite
<1>2. /\ IsFiniteSet(Joining \cup {t})
      /\ Cardinality(Joining \cup {t}) <= Cardinality(Joining) + 1
      /\ Cardinality(Joining \cup {t}) \in Nat
  BY <1>1, FS_AddElement
<1>3. /\ IsFiniteSet(Joining')
      /\ Cardinality(Joining') <= Cardinality(Joining \cup {t})
  BY <1>2, FS_Subset
<1>4. Cardinality(Joining') \in Nat
  BY <1>3, FS_CardinalityType
<1> QED
  BY <1>1, <1>2, <1>3, <1>4

LEMMA CountDrops ==
    ASSUME NEW t \in Joining, Joining' \subseteq Joining \ {t}
    PROVE  /\ Cardinality(Joining') + 1 <= Cardinality(Joining)
           /\ Cardinality(Joining') \in Nat
<1>1. IsFiniteSet(Joining) /\ Cardinality(Joining) \in Nat
  BY JoiningIsFinite
<1>2. /\ IsFiniteSet(Joining \ {t})
      /\ Cardinality(Joining \ {t}) = Cardinality(Joining) - 1
  BY <1>1, FS_RemoveElement
<1>3. /\ IsFiniteSet(Joining')
      /\ Cardinality(Joining') <= Cardinality(Joining \ {t})
  BY <1>2, FS_Subset
<1>4. Cardinality(Joining') \in Nat
  BY <1>3, FS_CardinalityType
<1> QED
  BY <1>1, <1>2, <1>3, <1>4

-----------------------------------------------------------------------------
(* Steps that change only what one request holds. *)

LEMMA TaskMoves ==
    ASSUME IInv, NEW t \in Tasks, NEW q,
           TaskOK(q, streams), q.sub \in {None, task[t].sub},
           q.at \in {"find", "insert"} =>
                task[t].at \in {"find", "insert"} \/ IdsLeft,
           task' = [task EXCEPT ![t] = q], UNCHANGED Own
    PROVE  IInv'
<1> USE DEF Own
<1>1. /\ DOMAIN task' = Tasks
      /\ \A o \in Tasks : task'[o] = IF o = t THEN q ELSE task[o]
  BY DEF IInv, TasksOK
<1>2. RowsOK' /\ OneSubscriptionEach' /\ SubscribersHaveSignals'
  BY DEF IInv, RowsOK, OneSubscriptionEach, SubscribersHaveSignals
<1>3. task' = [o \in Tasks |-> task'[o]]
  BY DEF IInv, TasksOK
<1>4. TasksOK'
  BY <1>1, <1>3 DEF IInv, TasksOK
<1>5. \A o \in Tasks : Open(o)' => Open(o) /\ task'[o].sub = task[o].sub
  BY <1>1 DEF Open
<1>6. KeysHeldOnce'
  BY <1>5 DEF IInv, KeysHeldOnce, SameKey
<1>7. IdsGivenOnce'
  BY <1>5 DEF IInv, IdsGivenOnce
<1>8. Counted'
  <2>1. CASE q.at \in {"find", "insert"} /\ task[t].at \notin {"find", "insert"}
    <3>1. Joining' \subseteq Joining \cup {t}
      BY <1>1 DEF Joining
    <3>2. issued + Cardinality(Joining) < MaxSubs
      BY <2>1 DEF IdsLeft, Joining
    <3>3. /\ Cardinality(Joining') <= Cardinality(Joining) + 1
          /\ Cardinality(Joining') \in Nat
      BY <3>1, CountRises
    <3> HIDE DEF Joining
    <3> QED
      BY <3>2, <3>3, JoiningIsFinite, SubscriptionAssumption DEF Counted, IInv, RowsOK
  <2>2. CASE ~(q.at \in {"find", "insert"} /\ task[t].at \notin {"find", "insert"})
    <3>1. Joining' \subseteq Joining
      BY <1>1, <2>2 DEF Joining
    <3> QED
      BY <3>1, CountFalls, JoiningIsFinite, SubscriptionAssumption
      DEF Counted, IInv, RowsOK
  <2> QED
    BY <2>1, <2>2
<1> QED
  BY <1>2, <1>4, <1>6, <1>7, <1>8 DEF IInv

LEMMA RollbackKeeps ==
    ASSUME IInv, NEW t \in Tasks, Rollback(t)
    PROVE  IInv'
<1>1. TaskOK(Idle, streams) /\ Idle.at = "idle" /\ Idle.sub = None
  BY IdleOK
<1> QED
  BY <1>1, TaskMoves DEF Rollback

LEMMA ReadingKeeps ==
    ASSUME IInv, NEW t \in Tasks,
           \/ \E u \in Users, l \in Listings : SubscribeLoadListing(t, u, l)
           \/ ReplayStream(t) \/ SubscribeFind(t) \/ Check(t) \/ ReadTail(t) \/ Flush(t)
    PROVE  IInv'
<1> DEFINE Moves(q) ==
        /\ TaskOK(q, streams) /\ q.sub \in {None, task[t].sub}
        /\ q.at \in {"find", "insert"} => task[t].at \in {"find", "insert"} \/ IdsLeft
        /\ task' = [task EXCEPT ![t] = q] /\ UNCHANGED Own
<1> SUFFICES \E q : Moves(q)
  BY TaskMoves
<1>0. /\ TaskOK(task[t], streams) /\ task[t] \in TaskStates
      /\ \A v \in Versions : SignalCount[v] \in Nat
      /\ listings \in [Listings -> ListingRows] /\ streams \in [Streams -> Seq(Signals)]
  BY SubscriptionAssumption DEF IInv, TasksOK, TaskOK, Versions, RowsOK
<1>1. ASSUME NEW u \in Users, NEW l \in Listings, SubscribeLoadListing(t, u, l)
      PROVE  \E q : Moves(q)
  <2> DEFINE q == [Idle EXCEPT !.at = "find", !.user = u, !.stream = l,
                               !.version = listings[l].version,
                               !.price = listings[l].price]
  <2>1. listings[l].version \in Versions /\ listings[l].price \in Prices
    BY <1>0 DEF ListingRows
  <2>2. /\ q.at = "find" /\ q.user = u /\ q.stream = l /\ q.sub = None
        /\ q.version = listings[l].version /\ q.price = listings[l].price
        /\ q.holds = FALSE
    BY DEF Idle
  <2>3. q \in TaskStates
    BY <2>1 DEF Idle, TaskStates, Stages, Streams
  <2>4. task' = [task EXCEPT ![t] = q] /\ UNCHANGED Own /\ IdsLeft
    BY <1>1 DEF SubscribeLoadListing
  <2> HIDE DEF q
  <2> QED
    BY <2>1, <2>2, <2>3, <2>4 DEF TaskOK, Streams
<1>2. CASE ReplayStream(t)
  <2> DEFINE q == [Idle EXCEPT !.at = "check", !.stream = Demo, !.version = 1]
  <2>1. 1 \in Versions
    BY SubscriptionAssumption DEF Versions
  <2>2. q.at = "check" /\ q.stream = Demo /\ q.version = 1 /\ q.sub = None /\ q.holds = FALSE
    BY DEF Idle
  <2>3. q \in TaskStates
    BY <2>1 DEF Idle, TaskStates, Stages, Streams
  <2>4. task' = [task EXCEPT ![t] = q] /\ UNCHANGED Own
    BY <1>2 DEF ReplayStream
  <2> HIDE DEF q
  <2>5. Moves(q)
    BY <2>1, <2>2, <2>3, <2>4 DEF TaskOK, Streams
  <2> QED
    BY <2>5
<1>3. CASE SubscribeFind(t)
  <2> DEFINE q == [task[t] EXCEPT !.at = IF Existing(t) = {} THEN "insert" ELSE "check"]
  <2>1. task[t].at = "find" /\ task' = [task EXCEPT ![t] = q] /\ UNCHANGED Own
    BY <1>3 DEF SubscribeFind, IInv, TasksOK
  <2>2. /\ q \in TaskStates /\ q.at \in {"insert", "check"} /\ q.sub = task[t].sub
        /\ q.user = task[t].user /\ q.stream = task[t].stream /\ q.price = task[t].price
        /\ q.version = task[t].version /\ q.holds = task[t].holds
    BY <1>0 DEF TaskStates, Stages
  <2> HIDE DEF q
  <2>3. Moves(q)
    BY <1>0, <2>1, <2>2 DEF TaskOK
  <2> QED
    BY <2>3
<1>4. CASE Check(t)
  <2> DEFINE q == [task[t] EXCEPT !.at =
            IF Materialized(task[t].stream) \/ SignalCount[task[t].version] = 0
            THEN "commit" ELSE "append"]
  <2>1. task[t].at = "check" /\ task' = [task EXCEPT ![t] = q] /\ UNCHANGED Own
    BY <1>4 DEF Check, IInv, TasksOK
  <2>2. /\ q \in TaskStates /\ q.at \in {"commit", "append"} /\ q.sub = task[t].sub
        /\ q.user = task[t].user /\ q.stream = task[t].stream /\ q.price = task[t].price
        /\ q.version = task[t].version /\ q.holds = task[t].holds
        /\ q.at = "append" => SignalCount[task[t].version] # 0
        /\ q.at = "commit" => streams[task[t].stream] # << >>
                              \/ SignalCount[task[t].version] = 0
    BY <1>0 DEF TaskStates, Stages, Materialized
  <2> HIDE DEF q
  <2>3. Moves(q)
    BY <1>0, <2>1, <2>2 DEF TaskOK
  <2> QED
    BY <2>3
<1>5. CASE ReadTail(t)
  <2> DEFINE q == [task[t] EXCEPT !.at = "flush", !.tail = Len(streams[task[t].stream])]
  <2>1. task[t].at = "append" /\ task' = [task EXCEPT ![t] = q] /\ UNCHANGED Own
    BY <1>5 DEF ReadTail, IInv, TasksOK
  <2>2. Len(streams[task[t].stream]) \in Nat
    BY <1>0, <2>1 DEF TaskOK
  <2>3. /\ q \in TaskStates /\ q.at = "flush" /\ q.sub = task[t].sub
        /\ q.user = task[t].user /\ q.stream = task[t].stream /\ q.price = task[t].price
        /\ q.version = task[t].version /\ q.holds = task[t].holds
    BY <1>0, <2>2 DEF TaskStates, Stages
  <2> HIDE DEF q
  <2>4. Moves(q)
    BY <1>0, <2>1, <2>3 DEF TaskOK
  <2> QED
    BY <2>4
<1>6. CASE Flush(t)
  <2> DEFINE q == [task[t] EXCEPT !.at = "commit", !.holds = TRUE]
  <2>1. task[t].at = "flush" /\ task' = [task EXCEPT ![t] = q] /\ UNCHANGED Own
    BY <1>6 DEF Flush, IInv, TasksOK
  <2>2. /\ q \in TaskStates /\ q.at = "commit" /\ q.sub = task[t].sub
        /\ q.user = task[t].user /\ q.stream = task[t].stream /\ q.price = task[t].price
        /\ q.version = task[t].version /\ q.holds = TRUE
    BY <1>0 DEF TaskStates, Stages
  <2> HIDE DEF q
  <2>3. Moves(q)
    BY <1>0, <2>1, <2>2 DEF TaskOK
  <2> QED
    BY <2>3
<1> QED
  BY <1>1, <1>2, <1>3, <1>4, <1>5, <1>6

-----------------------------------------------------------------------------
(* Steps that change the tables. *)

\* The new row has a key and an id that no other row has.
LEMMA InsertKeeps ==
    ASSUME IInv, NEW t \in Tasks, SubscribeInsert(t)
    PROVE  IInv'
<1> DEFINE row == [id |-> issued + 1, user |-> task[t].user,
                   listing |-> task[t].stream, version |-> task[t].version]
           q == [task[t] EXCEPT !.at = "check", !.sub = row]
<1>1. /\ TaskOK(task[t], streams) /\ task[t] \in TaskStates /\ task[t].at = "insert"
      /\ DOMAIN task = Tasks /\ issued \in Nat
  BY DEF IInv, TasksOK, TaskOK, RowsOK, SubscribeInsert
<1>2. /\ task[t].user \in Users /\ task[t].stream \in Listings /\ task[t].price \in Prices
      /\ task[t].sub = None /\ task[t].version \in Versions /\ ~task[t].holds
  BY <1>1 DEF TaskOK, TaskStates
<1>3. t \in Joining
  BY <1>1 DEF Joining
<1>4. issued + 1 \in Ids
  <2>1. Cardinality(Joining) # 0 /\ Cardinality(Joining) \in Nat
    BY <1>3, JoiningIsFinite, FS_EmptySet
  <2> HIDE DEF Joining
  <2> QED
    BY <1>1, <2>1, SubscriptionAssumption DEF IInv, Counted, Ids
<1>5. row \in SubRows /\ row # None
  BY <1>2, <1>4, NoneIsNoRow DEF SubRows
<1>6. /\ row.id = issued + 1 /\ row.user = task[t].user
      /\ row.listing = task[t].stream /\ row.version = task[t].version
  OBVIOUS
<1>7. /\ task' = [task EXCEPT ![t] = q] /\ issued' = issued + 1
      /\ UNCHANGED <<listings, subs, billing, streams>> /\ KeyFree(t)
  BY <1>1 DEF SubscribeInsert
<1> HIDE DEF row
<1>8. /\ q \in TaskStates /\ q.at = "check" /\ q.sub = row /\ q.user = task[t].user
      /\ q.stream = task[t].stream /\ q.price = task[t].price
      /\ q.version = task[t].version /\ q.holds = FALSE
  BY <1>1, <1>2, <1>5 DEF TaskStates, Stages
<1> HIDE DEF q
<1>9. TaskOK(q, streams)
  BY <1>1, <1>2, <1>5, <1>6, <1>8 DEF TaskOK, Streams
<1>10. \A o \in Tasks : task'[o] = IF o = t THEN q ELSE task[o]
  BY <1>1, <1>7
<1>11. DOMAIN task' = Tasks /\ task' = [o \in Tasks |-> task'[o]]
  BY <1>1, <1>7 DEF IInv, TasksOK
<1>12. RowsOK' /\ OneSubscriptionEach' /\ SubscribersHaveSignals'
  BY <1>1, <1>7 DEF IInv, RowsOK, OneSubscriptionEach, SubscribersHaveSignals
<1>13. TasksOK'
  BY <1>7, <1>9, <1>10, <1>11 DEF IInv, TasksOK
<1>14. \A o \in Tasks \ {t} : Open(o)' = Open(o) /\ task'[o].sub = task[o].sub
  BY <1>10 DEF Open
<1>15. Open(t)' /\ task'[t].sub = row
  BY <1>5, <1>8, <1>10 DEF Open
<1>16. /\ \A s \in subs : ~SameKey(row, s) /\ ~SameKey(s, row)
       /\ \A o \in Tasks \ {t} : Open(o) =>
            ~SameKey(row, task[o].sub) /\ ~SameKey(task[o].sub, row)
  BY <1>6, <1>7 DEF KeyFree, KeyHeld, Existing, SameKey, Open
<1>17. KeysHeldOnce'
  BY <1>7, <1>14, <1>15, <1>16 DEF IInv, KeysHeldOnce, SameKey
<1>18. IdsGivenOnce'
  <2>1. \A e \in billing : e.sub \in Nat /\ e.sub <= issued
    BY DEF IInv, RowsOK, BillingRows, Ids, IdsGivenOnce
  <2>2. \A o \in Tasks : Open(o) => task[o].sub.id \in Nat /\ task[o].sub.id <= issued
    BY DEF IInv, TasksOK, TaskOK, Open, SubRows, Ids, IdsGivenOnce
  <2> QED
    BY <1>1, <1>6, <1>7, <1>14, <1>15, <2>1, <2>2 DEF IInv, IdsGivenOnce
<1>19. Counted'
  <2>1. Joining' \subseteq Joining \ {t}
    BY <1>8, <1>10 DEF Joining
  <2>2. Cardinality(Joining') + 1 <= Cardinality(Joining) /\ Cardinality(Joining') \in Nat
    BY <1>3, <2>1, CountDrops
  <2> HIDE DEF Joining
  <2> QED
    BY <1>1, <1>7, <2>2, JoiningIsFinite, SubscriptionAssumption DEF IInv, Counted
<1> QED
  BY <1>12, <1>13, <1>17, <1>18, <1>19 DEF IInv

\* Streams only grow, so that what a request found in one stays true.
LEMMA CommitStreams ==
    ASSUME IInv, NEW t \in Tasks, Commit(t)
    PROVE  /\ streams' \in [Streams -> Seq(Signals)]
           /\ \A s \in Streams : streams[s] # << >> => streams'[s] # << >>
           /\ task[t].holds => streams'[task[t].stream] # << >>
<1>1. streams \in [Streams -> Seq(Signals)] /\ TaskOK(task[t], streams)
  BY DEF IInv, RowsOK, TasksOK
<1>2. task[t].stream \in Streams /\ task[t].version \in Versions
  BY <1>1 DEF Commit, TaskOK
<1>3. CASE task[t].holds
  <2> DEFINE h == History(task[t].version)
             old == streams[task[t].stream]
  <2>1. SignalCount[task[t].version] > 0
    BY <1>1, <1>3 DEF TaskOK
  <2>2. h \in Seq(Signals) /\ h # << >>
    BY <1>2, <2>1, HistoryIsStream
  <2>3. old \in Seq(Signals)
    BY <1>1, <1>2
  <2>4. streams' = [streams EXCEPT ![task[t].stream] = old \o h]
    BY <1>3 DEF Commit
  <2> HIDE DEF h, old
  <2>5. old \o h \in Seq(Signals) /\ old \o h # << >>
    BY <2>2, <2>3
  <2> QED
    BY <1>1, <1>2, <2>4, <2>5
<1>4. CASE ~task[t].holds
  BY <1>1, <1>4 DEF Commit
<1> QED
  BY <1>3, <1>4

\* What a commit adds to the tables.
LEMMA CommitRows ==
    ASSUME IInv, NEW t \in Tasks, Commit(t)
    PROVE  /\ task[t].sub = None \/ task[t].sub \in SubRows
           /\ subs' = IF Open(t) THEN subs \cup {task[t].sub} ELSE subs
           /\ billing' = billing \cup Charge(t)
           /\ Charge(t) = IF Open(t) /\ task[t].price # 0
                          THEN {[sub |-> task[t].sub.id, user |-> task[t].sub.user,
                                 listing |-> task[t].sub.listing,
                                 gross |-> task[t].price]}
                          ELSE {}
           /\ Charge(t) \subseteq BillingRows
           /\ task' = [task EXCEPT ![t] = Idle]
           /\ UNCHANGED <<listings, issued>>
<1>1. TaskOK(task[t], streams)
  BY DEF IInv, TasksOK
<1>2. task[t].sub = None \/ (task[t].sub \in SubRows /\ task[t].price \in Prices)
  BY <1>1 DEF TaskOK
<1> QED
  BY <1>2 DEF Commit, Charge, Open, SubRows, BillingRows

LEMMA CommitKeeps ==
    ASSUME IInv, NEW t \in Tasks, Commit(t)
    PROVE  IInv'
<1> DEFINE row == task[t].sub
<1>1. /\ TaskOK(task[t], streams) /\ DOMAIN task = Tasks /\ issued \in Nat
      /\ task[t].at = "commit"
  BY DEF IInv, TasksOK, RowsOK, Commit
<1>2. /\ row = None \/ row \in SubRows
      /\ subs' = IF Open(t) THEN subs \cup {row} ELSE subs
      /\ billing' = billing \cup Charge(t)
      /\ Charge(t) = IF Open(t) /\ task[t].price # 0
                     THEN {[sub |-> row.id, user |-> row.user,
                            listing |-> row.listing, gross |-> task[t].price]}
                     ELSE {}
      /\ Charge(t) \subseteq BillingRows
      /\ task' = [task EXCEPT ![t] = Idle]
      /\ UNCHANGED <<listings, issued>>
  BY CommitRows
<1>3. /\ streams' \in [Streams -> Seq(Signals)]
      /\ \A s \in Streams : streams[s] # << >> => streams'[s] # << >>
      /\ task[t].holds => streams'[task[t].stream] # << >>
  BY CommitStreams
<1>4. /\ DOMAIN task' = Tasks /\ task' = [o \in Tasks |-> task'[o]]
      /\ \A o \in Tasks : task'[o] = IF o = t THEN Idle ELSE task[o]
  BY <1>1, <1>2 DEF IInv, TasksOK
<1>5. TaskOK(Idle, streams') /\ Idle.at = "idle" /\ Idle.sub = None
  BY IdleOK
<1>6. ~Open(t)' /\ \A o \in Tasks \ {t} : Open(o)' = Open(o) /\ task'[o] = task[o]
  BY <1>4, <1>5 DEF Open
<1>7. RowsOK'
  BY <1>2, <1>3 DEF IInv, RowsOK, Open
<1>8. TasksOK'
  <2>1. ASSUME NEW o \in Tasks \ {t} PROVE TaskOK(task[o], streams')
    <3>1. TaskOK(task[o], streams)
      BY DEF IInv, TasksOK
    <3> QED
      BY <1>3, <3>1 DEF TaskOK
  <2> QED
    BY <1>4, <1>5, <2>1 DEF TasksOK
<1>9. Open(t) => /\ \A s \in subs : ~SameKey(row, s) /\ ~SameKey(s, row)
                 /\ \A o \in Tasks \ {t} : Open(o) =>
                        ~SameKey(row, task[o].sub) /\ ~SameKey(task[o].sub, row)
  BY DEF IInv, KeysHeldOnce, SameKey
<1>10. KeysHeldOnce'
  BY <1>2, <1>6, <1>9 DEF IInv, KeysHeldOnce, SameKey
<1>11. IdsGivenOnce'
  <2>1. ASSUME NEW e \in Charge(t) PROVE Open(t) /\ e.sub = row.id
    BY <1>2, <2>1
  <2>2. Open(t) => row.id <= issued
    BY DEF IInv, IdsGivenOnce
  <2>3. \A o \in Tasks \ {t} : Open(t) /\ Open(o) => row.id # task[o].sub.id
    BY DEF IInv, IdsGivenOnce
  <2> HIDE DEF row
  <2> QED
    BY <1>2, <1>6, <2>1, <2>2, <2>3 DEF IInv, IdsGivenOnce
<1>12. OneSubscriptionEach'
  BY <1>2, <1>9 DEF IInv, OneSubscriptionEach, SameKey
<1>13. SubscribersHaveSignals'
  <2>1. Open(t) /\ SignalCount[row.version] > 0 => streams'[row.listing] # << >>
    <3> SUFFICES ASSUME Open(t), SignalCount[row.version] > 0
                 PROVE  streams'[row.listing] # << >>
      OBVIOUS
    <3>1. row.listing = task[t].stream /\ row.version = task[t].version
          /\ task[t].stream \in Streams
      BY <1>1 DEF TaskOK, Open
    <3>2. SignalCount[task[t].version] # 0
      BY <3>1, SubscriptionAssumption
    <3> QED
      BY <1>1, <1>3, <3>1, <3>2 DEF TaskOK
  <2>2. \A s \in subs : s.listing \in Streams
    BY DEF IInv, RowsOK, SubRows, Streams
  <2> HIDE DEF row
  <2> QED
    BY <1>2, <1>3, <2>1, <2>2 DEF IInv, SubscribersHaveSignals
<1>14. Counted'
  <2>1. Joining' \subseteq Joining
    BY <1>4, <1>5 DEF Joining
  <2> QED
    BY <1>1, <1>2, <2>1, CountFalls, JoiningIsFinite, SubscriptionAssumption
    DEF Counted, IInv
<1> QED
  BY <1>7, <1>8, <1>10, <1>11, <1>12, <1>13, <1>14 DEF IInv

\* The marketplace's steps touch the listings only, and a withdrawn
\* subscription leaves its key to others.
LEMMA OthersKeep ==
    ASSUME IInv,
           \/ \E l \in Listings, price \in Prices : Republish(l, price)
           \/ \E l \in Listings, status \in Status : SetStatus(l, status)
           \/ \E s \in subs : Unsubscribe(s)
           \/ UNCHANGED vars
    PROVE  IInv'
<1>0. listings \in [Listings -> ListingRows]
  BY DEF IInv, RowsOK
<1>1. /\ listings' \in [Listings -> ListingRows] /\ subs' \subseteq subs
      /\ UNCHANGED <<billing, streams, issued, task>>
  <2>1. ASSUME NEW l \in Listings, NEW price \in Prices, Republish(l, price)
        PROVE  <1>1!:
    <3>1. PICK v \in Versions :
            listings' = [listings EXCEPT ![l] = [version |-> v, price |-> price,
                                                 status |-> "active"]]
      BY <2>1 DEF Republish
    <3> DEFINE new == [version |-> v, price |-> price, status |-> "active"]
    <3>2. new \in ListingRows
      BY DEF ListingRows, Status
    <3>3. listings' = [listings EXCEPT ![l] = new]
      BY <3>1
    <3> HIDE DEF new
    <3> QED
      BY <1>0, <2>1, <3>2, <3>3 DEF Republish
  <2>2. ASSUME NEW l \in Listings, NEW status \in Status, SetStatus(l, status)
        PROVE  <1>1!:
    <3> DEFINE new == [listings[l] EXCEPT !.status = status]
    <3>1. new \in ListingRows
      BY <1>0 DEF ListingRows
    <3>2. listings' = [listings EXCEPT ![l] = new]
      BY <2>2 DEF SetStatus
    <3> HIDE DEF new
    <3> QED
      BY <1>0, <2>2, <3>1, <3>2 DEF SetStatus
  <2>3. CASE \/ \E s \in subs : Unsubscribe(s)
             \/ UNCHANGED vars
    BY <1>0, <2>3 DEF Unsubscribe, vars
  <2> QED
    BY <2>1, <2>2, <2>3
<1>2. RowsOK' /\ TasksOK'
  BY <1>1 DEF IInv, RowsOK, TasksOK
<1>3. KeysHeldOnce' /\ IdsGivenOnce' /\ OneSubscriptionEach' /\ SubscribersHaveSignals'
  BY <1>1 DEF IInv, KeysHeldOnce, IdsGivenOnce, OneSubscriptionEach,
              SubscribersHaveSignals, SameKey, Open
<1>4. Counted'
  BY <1>1 DEF IInv, Counted, Joining
<1> QED
  BY <1>2, <1>3, <1>4 DEF IInv

LEMMA InitEstablishes == Init => IInv
<1> SUFFICES ASSUME Init PROVE IInv
  OBVIOUS
<1>1. RowsOK
  BY SubscriptionAssumption DEF Init, RowsOK
<1>2. TasksOK
  BY IdleOK DEF Init, TasksOK
<1>3. \A t \in Tasks : ~Open(t) /\ task[t].at = "idle"
  BY IdleOK DEF Init, Open
<1>4. Joining = {}
  BY <1>3 DEF Joining
<1>5. Counted
  BY <1>4, FS_EmptySet, SubscriptionAssumption DEF Init, Counted
<1> QED
  BY <1>1, <1>2, <1>3, <1>5
  DEF Init, IInv, KeysHeldOnce, IdsGivenOnce, OneSubscriptionEach, SubscribersHaveSignals

LEMMA NextKeeps == IInv /\ [Next]_vars => IInv'
<1> SUFFICES ASSUME IInv, [Next]_vars PROVE IInv'
  OBVIOUS
<1>1. CASE UNCHANGED vars
  BY <1>1, OthersKeep
<1>2. CASE \/ \E l \in Listings, price \in Prices : Republish(l, price)
           \/ \E l \in Listings, status \in Status : SetStatus(l, status)
           \/ \E s \in subs : Unsubscribe(s)
  BY <1>2, OthersKeep
<1>3. ASSUME NEW t \in Tasks, NEW u \in Users, NEW l \in Listings,
             SubscribeLoadListing(t, u, l)
      PROVE  IInv'
  BY <1>3, ReadingKeeps
<1>4. ASSUME NEW t \in Tasks, ReplayStream(t) \/ Step(t) \/ Abandon(t) PROVE IInv'
  <2>1. CASE \/ ReplayStream(t) \/ SubscribeFind(t) \/ Check(t) \/ ReadTail(t)
             \/ Flush(t)
    BY <2>1, ReadingKeeps
  <2>2. CASE SubscribeInsert(t)
    BY <2>2, InsertKeeps
  <2>3. CASE SubscribeDuplicate(t) \/ FlushConflict(t) \/ Abandon(t)
    BY <2>3, RollbackKeeps DEF SubscribeDuplicate, FlushConflict, Abandon
  <2>4. CASE Commit(t)
    BY <2>4, CommitKeeps
  <2> QED
    BY <1>4, <2>1, <2>2, <2>3, <2>4 DEF Step
<1> QED
  BY <1>1, <1>2, <1>3, <1>4 DEF Next

LEMMA Invariance == Spec => []IInv
<1> QED
  BY InitEstablishes, NextKeeps, PTL DEF Spec

-----------------------------------------------------------------------------
(* What the streams hold. *)

\* A sequence of signals made of whole histories.
Whole(h) ==
    \A i \in DOMAIN h :
        /\ h[i][2] > 1 => i > 1 /\ h[i - 1] = <<h[i][1], h[i][2] - 1>>
        /\ h[i][2] < SignalCount[h[i][1]] =>
            i < Len(h) /\ h[i + 1] = <<h[i][1], h[i][2] + 1>>

LEMMA HistoryIsWhole ==
    ASSUME NEW v \in Versions
    PROVE  Whole(History(v))
<1> DEFINE n == SignalCount[v]
           h == History(v)
<1>1. n \in Nat
  BY SubscriptionAssumption DEF Versions
<1>2. DOMAIN h = 1..n /\ \A i \in 1..n : h[i] = <<v, i>>
  BY DEF History
<1>3. Len(h) = n
  BY <1>1, <1>2, HistoryIsStream
<1> HIDE DEF h
<1>4. ASSUME NEW i \in 1..n
      PROVE  /\ h[i][2] > 1 => i > 1 /\ h[i - 1] = <<h[i][1], h[i][2] - 1>>
             /\ h[i][2] < SignalCount[h[i][1]] =>
                 i < Len(h) /\ h[i + 1] = <<h[i][1], h[i][2] + 1>>
  <2>1. h[i] = <<v, i>> /\ i \in Nat /\ i <= n /\ i >= 1
    BY <1>1, <1>2
  <2>2. i > 1 => h[i - 1] = <<v, i - 1>>
    BY <1>1, <1>2, <2>1
  <2>3. i < n => h[i + 1] = <<v, i + 1>>
    BY <1>1, <1>2, <2>1
  <2> QED
    BY <1>3, <2>1, <2>2, <2>3
<1> QED
  BY <1>2, <1>4 DEF Whole, h

LEMMA ConcatIsWhole ==
    ASSUME NEW f \in Seq(Signals), NEW g \in Seq(Signals), Whole(f), Whole(g)
    PROVE  Whole(f \o g)
<1> DEFINE h == f \o g
           n == Len(f)
           m == Len(g)
<1>1. /\ n \in Nat /\ m \in Nat /\ Len(h) = n + m /\ DOMAIN h = 1..(n + m)
      /\ DOMAIN f = 1..n /\ DOMAIN g = 1..m
      /\ \A i \in 1..n : h[i] = f[i]
      /\ \A i \in 1..m : h[n + i] = g[i]
  OBVIOUS
<1> HIDE DEF h, n, m
<1>2. Len(f) = n /\ Len(g) = m
  BY DEF n, m
<1>3. ASSUME NEW i \in DOMAIN h
      PROVE  /\ h[i][2] > 1 => i > 1 /\ h[i - 1] = <<h[i][1], h[i][2] - 1>>
             /\ h[i][2] < SignalCount[h[i][1]] =>
                 i < Len(h) /\ h[i + 1] = <<h[i][1], h[i][2] + 1>>
  <2>1. CASE i <= n
    <3>1. i \in 1..n /\ h[i] = f[i]
      BY <1>1, <2>1
    <3>2. f[i][2] > 1 => i > 1 /\ f[i - 1] = <<f[i][1], f[i][2] - 1>>
      BY <1>1, <3>1 DEF Whole
    <3>3. f[i][2] < SignalCount[f[i][1]] => i < n /\ f[i + 1] = <<f[i][1], f[i][2] + 1>>
      BY <1>1, <1>2, <3>1 DEF Whole
    <3>4. i > 1 => h[i - 1] = f[i - 1]
      BY <1>1, <3>1
    <3>5. i < n => h[i + 1] = f[i + 1] /\ i < Len(h)
      BY <1>1, <3>1
    <3> QED
      BY <3>1, <3>2, <3>3, <3>4, <3>5
  <2>2. CASE i > n
    <3> DEFINE j == i - n
    <3>1. j \in 1..m /\ i = n + j /\ h[i] = g[j]
      BY <1>1, <2>2
    <3> HIDE DEF j
    <3>2. g[j][2] > 1 => j > 1 /\ g[j - 1] = <<g[j][1], g[j][2] - 1>>
      BY <1>1, <3>1 DEF Whole
    <3>3. g[j][2] < SignalCount[g[j][1]] => j < m /\ g[j + 1] = <<g[j][1], g[j][2] + 1>>
      BY <1>1, <1>2, <3>1 DEF Whole
    <3>4. j > 1 => i > 1 /\ h[i - 1] = g[j - 1]
      <4>1. j > 1 => j - 1 \in 1..m /\ i - 1 = n + (j - 1) /\ i > 1
        BY <1>1, <3>1
      <4> QED
        BY <1>1, <4>1
    <3>5. j < m => i < Len(h) /\ h[i + 1] = g[j + 1]
      <4>1. j < m => j + 1 \in 1..m /\ i + 1 = n + (j + 1) /\ i < Len(h)
        BY <1>1, <3>1
      <4> QED
        BY <1>1, <4>1
    <3> QED
      BY <3>1, <3>2, <3>3, <3>4, <3>5
  <2> QED
    BY <1>1, <2>1, <2>2
<1> QED
  BY <1>3 DEF Whole, h

\* A request fills its stream from the check that found it empty to its end.
IsFilling(q) == q.at \in {"append", "flush"} \/ q.holds

\* The version of a request or a subscription is one its listing has had.
IsKnown(stream, version) == stream \in Listings => version <= listings[stream].version

\* One listing's stream holds at most one history, and none while a request
\* fills it.
OneHistory(s) ==
    /\ \A t, o \in Filling(s) : t = o
    /\ \A t \in Filling(s) : streams[s] = << >>
    /\ \/ streams[s] = << >>
       \/ \E v \in Versions : v <= listings[s].version /\ streams[s] = History(v)

StreamInv ==
    /\ \A s \in Streams : Whole(streams[s])
    /\ \A t \in Tasks : task[t].at # "idle" => IsKnown(task[t].stream, task[t].version)
    /\ \A r \in subs : IsKnown(r.listing, r.version)
    /\ \A s \in Listings \ overlapped : OneHistory(s)

\* A request that writes no stream goes on filling, or has found its stream
\* empty.
LEMMA MoveKeepsStreams ==
    ASSUME IInv, StreamInv, NEW t \in Tasks, NEW q,
           task' = [task EXCEPT ![t] = q], UNCHANGED <<listings, subs, streams>>,
           overlapped' = overlapped \cup Overlapping',
           q.at # "idle" => IsKnown(q.stream, q.version),
           IsFilling(q) => \/ streams[q.stream] = << >>
                           \/ IsFilling(task[t]) /\ q.stream = task[t].stream
    PROVE  StreamInv'
<1>1. \A o \in Tasks : task'[o] = IF o = t THEN q ELSE task[o]
  BY DEF IInv, TasksOK
<1>2. \A o \in Tasks : task'[o].at # "idle" => IsKnown(task[o].stream, task[o].version)'
  BY <1>1 DEF StreamInv, IsKnown
<1>3. \A r \in subs' : IsKnown(r.listing, r.version)'
  BY DEF StreamInv, IsKnown
<1>4. ASSUME NEW s \in Listings \ overlapped'
      PROVE  OneHistory(s)'
  <2>1. s \in Listings \ overlapped /\ OneHistory(s)
    BY DEF StreamInv
  <2>2. \A u, o \in Filling(s)' : u = o
    BY DEF Overlapping
  <2>3. ASSUME NEW o \in Filling(s)' PROVE streams[s] = << >>
    <3>1. CASE o = t
      <4>1. IsFilling(q) /\ q.stream = s
        BY <1>1, <2>3, <3>1 DEF Filling, IsFilling
      <4>2. IsFilling(task[t]) /\ task[t].stream = s => t \in Filling(s)
        BY DEF Filling, IsFilling
      <4> QED
        BY <2>1, <4>1, <4>2 DEF OneHistory
    <3>2. CASE o # t
      <4>1. o \in Filling(s)
        BY <1>1, <2>3, <3>2 DEF Filling
      <4> QED
        BY <2>1, <4>1 DEF OneHistory
    <3> QED
      BY <3>1, <3>2
  <2> QED
    BY <2>1, <2>2, <2>3 DEF OneHistory
<1> QED
  BY <1>2, <1>3, <1>4 DEF StreamInv

LEMMA RequestKeepsStreams ==
    ASSUME IInv, StreamInv, NEW t \in Tasks,
           overlapped' = overlapped \cup Overlapping',
           \/ \E u \in Users, l \in Listings : SubscribeLoadListing(t, u, l)
           \/ ReplayStream(t) \/ SubscribeFind(t) \/ SubscribeInsert(t) \/ Rollback(t)
           \/ Check(t) \/ ReadTail(t) \/ Flush(t)
    PROVE  StreamInv'
<1> DEFINE Moves(q) ==
        /\ task' = [task EXCEPT ![t] = q] /\ UNCHANGED <<listings, subs, streams>>
        /\ q.at # "idle" => IsKnown(q.stream, q.version)
        /\ IsFilling(q) => \/ streams[q.stream] = << >>
                           \/ IsFilling(task[t]) /\ q.stream = task[t].stream
<1> SUFFICES \E q : Moves(q)
  BY MoveKeepsStreams
<1>0. /\ TaskOK(task[t], streams) /\ task[t] \in TaskStates
      /\ task[t].at # "idle" =>
            task[t].stream \in Streams /\ IsKnown(task[t].stream, task[t].version)
      /\ listings \in [Listings -> ListingRows]
      /\ \A v \in Versions : v \in Int /\ v >= 1
  BY SubscriptionAssumption DEF IInv, TasksOK, TaskOK, RowsOK, StreamInv, Versions
<1>1. ASSUME NEW u \in Users, NEW l \in Listings, SubscribeLoadListing(t, u, l)
      PROVE  \E q : Moves(q)
  <2> DEFINE q == [Idle EXCEPT !.at = "find", !.user = u, !.stream = l,
                               !.version = listings[l].version,
                               !.price = listings[l].price]
  <2>1. listings[l].version \in Versions
    BY <1>0 DEF ListingRows
  <2>2. /\ q.at = "find" /\ q.stream = l /\ q.version = listings[l].version
        /\ q.holds = FALSE
    BY DEF Idle
  <2>3. task' = [task EXCEPT ![t] = q] /\ UNCHANGED <<listings, subs, streams>>
    BY <1>1 DEF SubscribeLoadListing, Own
  <2> HIDE DEF q
  <2>4. Moves(q)
    BY <1>0, <2>1, <2>2, <2>3 DEF IsKnown, IsFilling
  <2> QED
    BY <2>4
<1>2. CASE ReplayStream(t)
  <2> DEFINE q == [Idle EXCEPT !.at = "check", !.stream = Demo, !.version = 1]
  <2>1. q.at = "check" /\ q.stream = Demo /\ q.holds = FALSE
    BY DEF Idle
  <2>2. task' = [task EXCEPT ![t] = q] /\ UNCHANGED <<listings, subs, streams>>
    BY <1>2 DEF ReplayStream, Own
  <2> HIDE DEF q
  <2>3. Moves(q)
    BY <2>1, <2>2, SubscriptionAssumption DEF IsKnown, IsFilling
  <2> QED
    BY <2>3
<1>3. CASE Rollback(t)
  <2>1. Moves(Idle)
    BY <1>3 DEF Rollback, Own, Idle, IsFilling
  <2> QED
    BY <2>1
<1>4. ASSUME NEW at, NEW sub, task[t].at \notin {"idle", "append", "flush"},
             task' = [task EXCEPT ![t] = [task[t] EXCEPT !.at = at, !.sub = sub]],
             UNCHANGED <<listings, subs, streams>>,
             at # "flush", at = "append" => streams[task[t].stream] = << >>
      PROVE  \E q : Moves(q)
  <2> DEFINE q == [task[t] EXCEPT !.at = at, !.sub = sub]
  <2>1. /\ q.at = at /\ q.stream = task[t].stream /\ q.version = task[t].version
        /\ q.holds = task[t].holds
    BY <1>0 DEF TaskStates
  <2>2. task' = [task EXCEPT ![t] = q] /\ UNCHANGED <<listings, subs, streams>>
    BY <1>4
  <2> HIDE DEF q
  <2>3. Moves(q)
    BY <1>0, <1>4, <2>1, <2>2 DEF IsFilling
  <2> QED
    BY <2>3
<1>5. CASE SubscribeFind(t)
  <2>1. PICK at \in {"insert", "check"} :
            /\ task[t].at = "find" /\ task' = [task EXCEPT ![t].at = at]
            /\ UNCHANGED <<listings, subs, streams>>
    BY <1>5 DEF SubscribeFind, Own
  <2>2. [task[t] EXCEPT !.at = at] = [task[t] EXCEPT !.at = at, !.sub = task[t].sub]
    BY <1>0 DEF TaskStates
  <2>3. task' = [task EXCEPT ![t] = [task[t] EXCEPT !.at = at, !.sub = task[t].sub]]
    BY <2>1, <2>2 DEF IInv, TasksOK
  <2> QED
    BY <1>4, <2>1, <2>3
<1>6. CASE SubscribeInsert(t)
  <2>1. PICK at, sub :
            at = "check" /\ task' = [task EXCEPT ![t].at = at, ![t].sub = sub]
    BY <1>6 DEF SubscribeInsert
  <2>2. task' = [task EXCEPT ![t] = [task[t] EXCEPT !.at = at, !.sub = sub]]
    BY <2>1 DEF IInv, TasksOK
  <2>3. task[t].at = "insert" /\ UNCHANGED <<listings, subs, streams>>
    BY <1>6 DEF SubscribeInsert
  <2>4. task[t].at \notin {"idle", "append", "flush"} /\ at # "flush" /\ at # "append"
    BY <2>1, <2>3
  <2> QED
    BY ONLY <1>4, <2>2, <2>3, <2>4
<1>7. CASE Check(t)
  <2>1. PICK at \in {"commit", "append"} :
            /\ task[t].at = "check" /\ task' = [task EXCEPT ![t].at = at]
            /\ UNCHANGED <<listings, subs, streams>>
            /\ at = "append" => streams[task[t].stream] = << >>
    BY <1>7 DEF Check, Own, Materialized
  <2>2. [task[t] EXCEPT !.at = at] = [task[t] EXCEPT !.at = at, !.sub = task[t].sub]
    BY <1>0 DEF TaskStates
  <2>3. task' = [task EXCEPT ![t] = [task[t] EXCEPT !.at = at, !.sub = task[t].sub]]
    BY <2>1, <2>2 DEF IInv, TasksOK
  <2> QED
    BY <1>4, <2>1, <2>3
<1>8. CASE ReadTail(t)
  <2> DEFINE n == Len(streams[task[t].stream])
             q == [task[t] EXCEPT !.at = "flush", !.tail = n]
  <2>1. /\ task[t].at = "append" /\ task' = [task EXCEPT ![t] = q]
        /\ UNCHANGED <<listings, subs, streams>>
    BY <1>8 DEF ReadTail, Own, IInv, TasksOK
  <2> HIDE DEF n
  <2>2. q.at = "flush" /\ q.stream = task[t].stream /\ q.version = task[t].version
    BY <1>0 DEF TaskStates
  <2> HIDE DEF q
  <2>3. Moves(q)
    BY <1>0, <2>1, <2>2 DEF IsFilling
  <2> QED
    BY <2>3
<1>9. CASE Flush(t)
  <2> DEFINE q == [task[t] EXCEPT !.at = "commit", !.holds = TRUE]
  <2>1. /\ task[t].at = "flush" /\ task' = [task EXCEPT ![t] = q]
        /\ UNCHANGED <<listings, subs, streams>>
    BY <1>9 DEF Flush, Own, IInv, TasksOK
  <2>2. q.at = "commit" /\ q.stream = task[t].stream /\ q.version = task[t].version
    BY <1>0 DEF TaskStates
  <2> HIDE DEF q
  <2>3. Moves(q)
    BY <1>0, <2>1, <2>2 DEF IsFilling
  <2> QED
    BY <2>3
<1> HIDE DEF Moves
<1> QED
  BY <1>1, <1>2, <1>3, <1>5, <1>6, <1>7, <1>8, <1>9

\* A commit appends the history of its version to a stream that was empty, if
\* no other request has filled it at the same time.
LEMMA CommitKeepsStreams ==
    ASSUME IInv, StreamInv, NEW t \in Tasks, Commit(t),
           overlapped' = overlapped \cup Overlapping'
    PROVE  StreamInv'
<1> DEFINE own == task[t].stream
           v == task[t].version
<1>1. /\ TaskOK(task[t], streams) /\ streams \in [Streams -> Seq(Signals)]
      /\ task[t].at = "commit" /\ listings' = listings
      /\ subs' = IF Open(t) THEN subs \cup {task[t].sub} ELSE subs
      /\ \A o \in Tasks : task'[o] = IF o = t THEN Idle ELSE task[o]
  BY CommitRows DEF IInv, TasksOK, RowsOK, Commit
<1>2. own \in Streams /\ v \in Versions /\ IsKnown(own, v)
  BY <1>1 DEF TaskOK, StreamInv
<1>3. Idle.at = "idle" /\ ~IsFilling(Idle)
  BY DEF Idle, IsFilling
<1>4. /\ DOMAIN streams' = Streams
      /\ \A s \in Streams : streams'[s] = IF task[t].holds /\ s = own
                                          THEN streams[s] \o History(v) ELSE streams[s]
  BY <1>1, <1>2 DEF Commit
<1>5. Open(t) => task[t].sub.listing = own /\ task[t].sub.version = v
  BY <1>1 DEF TaskOK, Open
<1>6. History(v) \in Seq(Signals) /\ Whole(History(v))
  BY <1>2, HistoryIsStream, HistoryIsWhole
<1> HIDE DEF own, v
<1>7. \A s \in Streams : Whole(streams'[s])
  BY <1>1, <1>4, <1>6, ConcatIsWhole DEF StreamInv
<1>8. \A o \in Tasks : task'[o].at # "idle" => IsKnown(task[o].stream, task[o].version)'
  BY <1>1, <1>3 DEF StreamInv, IsKnown
<1>9. \A r \in subs' : IsKnown(r.listing, r.version)'
  BY <1>1, <1>2, <1>5 DEF StreamInv, IsKnown
<1>10. ASSUME NEW s \in Listings \ overlapped'
       PROVE  OneHistory(s)'
  <2>1. s \in Streams /\ OneHistory(s)
    BY DEF StreamInv, Streams
  <2>2. \A u, o \in Filling(s)' : u = o
    BY DEF Overlapping
  <2>3. Filling(s)' \subseteq Filling(s) \ {t}
    BY <1>1, <1>3 DEF Filling, IsFilling
  <2>4. CASE task[t].holds /\ s = own
    <3>1. t \in Filling(s)
      BY <2>4 DEF Filling, own
    <3>2. streams[s] = << >> /\ Filling(s)' = {}
      BY <2>1, <2>3, <3>1 DEF OneHistory
    <3>3. streams'[s] = History(v)
      BY <1>4, <1>6, <2>1, <2>4, <3>2
    <3> QED
      BY <1>1, <1>2, <2>4, <3>2, <3>3 DEF OneHistory, IsKnown
  <2>5. CASE ~(task[t].holds /\ s = own)
    <3>1. streams'[s] = streams[s]
      BY <1>4, <2>1, <2>5
    <3> QED
      BY <1>1, <2>1, <2>2, <2>3, <3>1 DEF OneHistory
  <2> QED
    BY <2>4, <2>5
<1> QED
  BY <1>7, <1>8, <1>9, <1>10 DEF StreamInv

\* The versions of listings only rise.
LEMMA ListingsKeepStreams ==
    ASSUME IInv, StreamInv, overlapped' = overlapped \cup Overlapping',
           \/ \E l \in Listings, price \in Prices : Republish(l, price)
           \/ \E l \in Listings, status \in Status : SetStatus(l, status)
           \/ \E s \in subs : Unsubscribe(s)
    PROVE  StreamInv'
<1>0. /\ listings \in [Listings -> ListingRows]
      /\ \A v \in Versions : v \in Int
      /\ \A t \in Tasks : task[t].at # "idle" => task[t].version \in Int
      /\ \A r \in subs : r.version \in Int /\ r.listing \in Listings
  BY SubscriptionAssumption DEF IInv, RowsOK, TasksOK, TaskOK, SubRows, Versions
<1>1. /\ subs' \subseteq subs /\ UNCHANGED <<streams, task>>
      /\ \A l \in Listings : /\ listings[l].version \in Int /\ listings'[l].version \in Int
                             /\ listings[l].version <= listings'[l].version
  <2>1. \A l \in Listings : listings[l].version \in Int
    BY <1>0 DEF ListingRows
  <2>2. ASSUME NEW l \in Listings, NEW price \in Prices, Republish(l, price)
        PROVE  <1>1!:
    <3>1. PICK v \in Versions :
            /\ v > listings[l].version
            /\ listings' = [listings EXCEPT ![l] = [version |-> v, price |-> price,
                                                    status |-> "active"]]
      BY <2>2 DEF Republish
    <3> DEFINE new == [version |-> v, price |-> price, status |-> "active"]
    <3>2. listings' = [listings EXCEPT ![l] = new]
      BY <3>1
    <3>3. new.version = v
      OBVIOUS
    <3> HIDE DEF new
    <3> QED
      BY <1>0, <2>1, <2>2, <3>1, <3>2, <3>3 DEF Republish
  <2>3. ASSUME NEW l \in Listings, NEW status \in Status, SetStatus(l, status)
        PROVE  <1>1!:
    <3> DEFINE new == [listings[l] EXCEPT !.status = status]
    <3>1. listings' = [listings EXCEPT ![l] = new]
      BY <2>3 DEF SetStatus
    <3>2. new.version = listings[l].version
      BY <1>0 DEF ListingRows
    <3> HIDE DEF new
    <3> QED
      BY <1>0, <2>1, <2>3, <3>1, <3>2 DEF SetStatus
  <2>4. CASE \E s \in subs : Unsubscribe(s)
    BY <2>1, <2>4 DEF Unsubscribe
  <2> QED
    BY <2>2, <2>3, <2>4
<1>2. \A s : Filling(s)' = Filling(s)
  BY <1>1 DEF Filling
<1>3. \A t \in Tasks : task'[t].at # "idle" => IsKnown(task[t].stream, task[t].version)'
  BY <1>0, <1>1 DEF StreamInv, IsKnown
<1>4. \A r \in subs' : IsKnown(r.listing, r.version)'
  BY <1>0, <1>1 DEF StreamInv, IsKnown
<1>5. ASSUME NEW s \in Listings \ overlapped' PROVE OneHistory(s)'
  <2>1. OneHistory(s)
    BY DEF StreamInv
  <2> QED
    BY <1>0, <1>1, <1>2, <2>1 DEF OneHistory
<1> QED
  BY <1>1, <1>3, <1>4, <1>5 DEF StreamInv

LEMMA StreamsStep ==
    ASSUME IInv, StreamInv, MCNext
    PROVE  StreamInv'
<1>1. Next /\ overlapped' = overlapped \cup Overlapping'
  BY DEF MCNext
<1>2. ASSUME NEW t \in Tasks, ReplayStream(t) \/ Step(t) \/ Abandon(t) PROVE StreamInv'
  <2>1. CASE \/ ReplayStream(t) \/ SubscribeFind(t) \/ SubscribeInsert(t)
             \/ Check(t) \/ ReadTail(t) \/ Flush(t)
    BY <1>1, <2>1, RequestKeepsStreams
  <2>2. CASE SubscribeDuplicate(t) \/ FlushConflict(t) \/ Abandon(t)
    BY <1>1, <2>2, RequestKeepsStreams DEF SubscribeDuplicate, FlushConflict, Abandon
  <2>3. CASE Commit(t)
    BY <1>1, <2>3, CommitKeepsStreams
  <2> QED
    BY <1>2, <2>1, <2>2, <2>3 DEF Step
<1>3. ASSUME NEW t \in Tasks, NEW u \in Users, NEW l \in Listings,
             SubscribeLoadListing(t, u, l)
      PROVE  StreamInv'
  BY <1>1, <1>3, RequestKeepsStreams
<1> QED
  BY <1>1, <1>2, <1>3, ListingsKeepStreams DEF Next

\* What the invariant says of the streams is what a subscriber relies on.
LEMMA StreamsAreSound ==
    ASSUME IInv, StreamInv
    PROVE  StreamsSound
<1>1. WholeHistories
  BY DEF StreamInv, Whole, WholeHistories
<1>2. \A s \in Listings \ overlapped :
        streams[s] = << >> \/ \E v \in Versions : streams[s] = History(v)
  BY DEF StreamInv, OneHistory
<1>3. ASSUME NEW r \in subs, r.listing \notin overlapped \cup Republished
      PROVE  streams[r.listing] = History(r.version)
  <2>1. /\ r \in SubRows /\ r.listing \in Listings /\ r.version \in Versions
        /\ \A v \in Versions : v \in Int /\ v >= 1
    BY SubscriptionAssumption DEF IInv, RowsOK, SubRows, Versions
  <2>2. listings[r.listing].version = 1
    BY <1>3, <2>1 DEF Republished
  <2>3. r.version = 1
    BY <2>1, <2>2 DEF StreamInv, IsKnown
  <2>4. OneHistory(r.listing)
    BY <1>3, <2>1 DEF StreamInv
  <2>5. streams[r.listing] = << >> \/ streams[r.listing] = History(1)
    BY <2>1, <2>2, <2>4 DEF OneHistory
  <2>6. CASE SignalCount[1] > 0
    BY <2>3, <2>5, <2>6 DEF IInv, SubscribersHaveSignals
  <2>7. CASE SignalCount[1] = 0
    <3>1. History(1) = << >>
      <4>1. 1..SignalCount[1] = {}
        BY <2>7
      <4>2. History(1) \in Seq(Signals) /\ DOMAIN History(1) = {}
        BY <2>1, <2>3, <4>1, HistoryIsStream DEF History
      <4> QED
        BY <4>2
    <3> QED
      BY <2>3, <2>5, <3>1
  <2>8. SignalCount[1] \in Nat
    BY <2>1, <2>3, SubscriptionAssumption DEF Versions
  <2> QED
    BY <2>6, <2>7, <2>8
<1> QED
  BY <1>1, <1>2, <1>3 DEF StreamsSound

-----------------------------------------------------------------------------
(* Theorems. *)

\* Tables and requests are well typed, a user has one live subscription per
\* listing, and whoever has a subscription finds the bot's signals, however
\* subscribe requests overlap, conflict, fail or are abandoned
\* (subscription/service.py 62-85, 161-192).
THEOREM SubscriptionsAlwaysSound == Spec => []SubscriptionsSound
<1>1. IInv => SubscriptionsSound
  <2> SUFFICES ASSUME IInv PROVE TypeOK
    BY DEF IInv, SubscriptionsSound
  <2>1. task \in [Tasks -> TaskStates]
    BY DEF IInv, TasksOK, TaskOK
  <2>2. issued \in 0..MaxSubs
    BY JoiningIsFinite, SubscriptionAssumption DEF IInv, RowsOK, Counted
  <2> QED
    BY <2>1, <2>2 DEF IInv, RowsOK, TypeOK
<1> QED
  BY <1>1, Invariance, PTL

LEMMA CommitBills ==
    ASSUME IInv, NEW t \in Tasks, Commit(t)
    PROVE  /\ billing \subseteq billing'
           /\ \A e \in billing' \ billing : \E s \in subs' \ subs : s.id = e.sub
           /\ \A s \in subs' \ subs :
                LET due == CHOOSE p \in Prices :
                             \E o \in Tasks : task[o].sub = s /\ task[o].price = p
                IN  {e \in billing' : e.sub = s.id}
                        = IF due = 0 THEN {}
                          ELSE {[sub |-> s.id, user |-> s.user,
                                 listing |-> s.listing, gross |-> due]}
<1> DEFINE row == task[t].sub
<1>1. /\ subs' = IF Open(t) THEN subs \cup {row} ELSE subs
      /\ billing' = billing \cup Charge(t)
      /\ Charge(t) = IF Open(t) /\ task[t].price # 0
                     THEN {[sub |-> row.id, user |-> row.user,
                            listing |-> row.listing, gross |-> task[t].price]}
                     ELSE {}
  BY CommitRows
<1>2. Open(t) => row \notin subs /\ \A e \in billing : e.sub # row.id
  BY DEF IInv, KeysHeldOnce, SameKey, IdsGivenOnce
<1>3. Open(t) => task[t].price \in Prices
  BY DEF IInv, TasksOK, TaskOK, Open
<1>4. Open(t) => \A o \in Tasks : task[o].sub = row => o = t
  BY DEF IInv, KeysHeldOnce, SameKey, Open
<1> HIDE DEF row
<1>5. ASSUME NEW s \in subs' \ subs
      PROVE  LET due == CHOOSE p \in Prices :
                          \E o \in Tasks : task[o].sub = s /\ task[o].price = p
             IN  {e \in billing' : e.sub = s.id}
                     = IF due = 0 THEN {}
                       ELSE {[sub |-> s.id, user |-> s.user,
                              listing |-> s.listing, gross |-> due]}
  <2>1. Open(t) /\ s = row
    BY <1>1
  <2> DEFINE due == CHOOSE p \in Prices :
                        \E o \in Tasks : task[o].sub = s /\ task[o].price = p
  <2>2. due = task[t].price
    <3>1. \E o \in Tasks : task[o].sub = s /\ task[o].price = task[t].price
      BY <2>1 DEF row
    <3>2. \A p \in Prices : (\E o \in Tasks : task[o].sub = s /\ task[o].price = p)
                                => p = task[t].price
      BY <1>4, <2>1
    <3> QED
      BY <1>3, <2>1, <3>1, <3>2
  <2>3. {e \in billing' : e.sub = s.id} = Charge(t)
    BY <1>1, <1>2, <2>1
  <2> HIDE DEF due
  <2>4. {e \in billing' : e.sub = s.id}
            = IF due = 0 THEN {}
              ELSE {[sub |-> s.id, user |-> s.user, listing |-> s.listing, gross |-> due]}
    BY <1>1, <2>1, <2>2, <2>3
  <2> QED
    BY <2>4 DEF due
<1>6. ASSUME NEW e \in billing' \ billing
      PROVE  \E s \in subs' \ subs : s.id = e.sub
  <2>1. Open(t) /\ e.sub = row.id
    BY <1>1
  <2> QED
    BY <1>1, <1>2, <2>1
<1> QED
  BY <1>1, <1>5, <1>6

LEMMA OnlyCommitAdds ==
    ASSUME [Next]_vars, \A t \in Tasks : ~Commit(t)
    PROVE  subs' \subseteq subs /\ billing' = billing
<1>1. ASSUME NEW t \in Tasks,
             \/ \E u \in Users, l \in Listings : SubscribeLoadListing(t, u, l)
             \/ ReplayStream(t) \/ Step(t) \/ Abandon(t)
      PROVE  subs' = subs /\ billing' = billing
  BY <1>1 DEF SubscribeLoadListing, ReplayStream, Step, Abandon, SubscribeFind,
              SubscribeInsert, SubscribeDuplicate, Check, ReadTail, Flush,
              FlushConflict, Rollback, Own
<1> QED
  BY <1>1 DEF Next, vars, Republish, SetStatus, Unsubscribe

\* A charge and its subscription are committed together, once, at the price
\* the request was shown, and no charge is ever withdrawn or changed
\* (subscription/service.py 69-83, 135-151).
THEOREM AlwaysBilledOnJoining == Spec => BilledOnJoining
<1>1. ASSUME IInv, [Next]_vars
      PROVE  [/\ billing \subseteq billing'
              /\ \A e \in billing' \ billing : \E s \in subs' \ subs : s.id = e.sub
              /\ \A s \in subs' \ subs :
                   LET due == CHOOSE p \in Prices :
                                \E t \in Tasks : task[t].sub = s /\ task[t].price = p
                   IN  {e \in billing' : e.sub = s.id}
                           = IF due = 0 THEN {}
                             ELSE {[sub |-> s.id, user |-> s.user,
                                    listing |-> s.listing, gross |-> due]}]_vars
  <2>1. CASE \E t \in Tasks : Commit(t)
    BY <1>1, <2>1, CommitBills
  <2>2. CASE \A t \in Tasks : ~Commit(t)
    BY <1>1, <2>2, OnlyCommitAdds
  <2> QED
    BY <2>1, <2>2
<1> QED
  BY <1>1, Invariance, PTL DEF Spec, BilledOnJoining

\* Every stream is made of whole histories, whatever fails, conflicts or is
\* abandoned.  A listing's is materialized once unless two requests were
\* filling it at the same time, and a subscriber then reads the history of its
\* own version unless the designer has published another one
\* (subscription/service.py 161-192).
THEOREM StreamsAlwaysSound == MCSpec => []StreamsSound
<1>1. MCInit => Init /\ StreamInv
  <2> SUFFICES ASSUME MCInit PROVE StreamInv
    BY DEF MCInit
  <2>1. /\ streams = [s \in Streams |-> << >>] /\ subs = {} /\ overlapped = {}
        /\ \A t \in Tasks : task[t] = Idle
    BY DEF MCInit, Init
  <2>2. Idle.at = "idle" /\ ~Idle.holds
    BY DEF Idle
  <2>3. \A s \in Streams : streams[s] = << >> /\ Whole(streams[s])
    BY <2>1 DEF Whole
  <2>4. \A s : Filling(s) = {}
    BY <2>1, <2>2 DEF Filling
  <2> QED
    BY <2>1, <2>2, <2>3, <2>4 DEF StreamInv, OneHistory, Streams
<1>2. [MCNext]_mcVars => [Next]_vars
  BY DEF MCNext, mcVars
<1>3. MCSpec => Spec
  BY <1>1, <1>2, PTL DEF MCSpec, Spec
<1>4. IInv /\ StreamInv /\ [MCNext]_mcVars => StreamInv'
  <2>1. ASSUME StreamInv, UNCHANGED mcVars
        PROVE  StreamInv'
    <3>1. UNCHANGED <<listings, subs, streams, task, overlapped>>
      BY <2>1 DEF mcVars, vars
    <3>2. \A s : Filling(s)' = Filling(s)
      BY <3>1 DEF Filling
    <3>3. \A s : OneHistory(s)' <=> OneHistory(s)
      BY <3>1, <3>2 DEF OneHistory
    <3> QED
      BY <2>1, <3>1, <3>3 DEF StreamInv, IsKnown
  <2> QED
    BY <2>1, StreamsStep
<1> QED
  BY <1>1, <1>3, <1>4, StreamsAreSound, Invariance, PTL DEF MCSpec
=============================================================================
