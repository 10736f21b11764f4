---------------------------- MODULE EventLedger ----------------------------
(***************************************************************************)
(* M10, the append-only event ledger (ledger/ledger.py, ledger/event.py,   *)
(* ledger/models.py), used from concurrent units of work                   *)
(* (foundation/uow.py) over one READ COMMITTED database.                   *)
(*                                                                         *)
(* An append is two database round trips: a SELECT of the stream's last    *)
(* entry and, after an await, the INSERT of its successor.  What orders    *)
(* concurrent appenders is the unique index on (stream_id, seq) alone: an  *)
(* INSERT of a key another open transaction has inserted waits for that    *)
(* transaction, then fails if it committed and succeeds if it rolled back. *)
(***************************************************************************)
EXTENDS Integers, Sequences, FiniteSets

CONSTANTS
    Tenants,    \* values of TenantContext
    Streams,    \* stream ids
    Events,     \* event type, payload and timestamp of a LedgerEvent
    Uows,       \* sessions of the application that use the ledger
    MaxSeq      \* bound: no stream grows beyond sequence number MaxSeq

ASSUME MaxSeqAssumption == MaxSeq \in Nat

VARIABLES
    committed,  \* the committed rows of table ledger_entries
    uow         \* the unit of work of each session

vars == <<committed, uow>>

-----------------------------------------------------------------------------
(* Entries and their hashes. *)

\* A hash stands for everything that was digested into it: SHA-256 is taken
\* to be free of collisions, so a chained digest is the sequence of what it
\* covers, and GENESIS_HASH covers nothing.
Hashes == Seq(Streams \X Events)
Genesis == << >>
\* Mutant: a digest that leaves the payload out.
ChainHashNoPayload(prev, stream, event) ==
    Append(prev, <<stream, CHOOSE e \in Events : TRUE>>)
ChainHash(prev, stream, event) == Append(prev, <<stream, event>>)

Entries == [tenant: Tenants, stream: Streams, seq: 0..MaxSeq,
            event: Events, prev_hash: Hashes, hash: Hashes]

\* A session: where it is in `async with UnitOfWork()`, the tenant and the
\* stream it works for, the rows it has flushed but not committed, and the
\* entry it is inserting.
None == [none |-> TRUE]
Phases == {"closed", "open", "flushing"}
Sessions ==
    [phase: Phases, tenant: Tenants \cup {None}, stream: Streams \cup {None},
     rows: SUBSET Entries, entry: Entries \cup {None}]
Closed == [phase |-> "closed", tenant |-> None, stream |-> None,
           rows |-> {}, entry |-> None]

TypeOK ==
    /\ committed \in SUBSET Entries
    /\ uow \in [Uows -> Sessions]
    /\ \A u \in Uows :
        /\ uow[u].phase = "closed" => uow[u] = Closed
        /\ uow[u].phase # "closed" => /\ uow[u].tenant \in Tenants
                                     /\ uow[u].stream \in Streams
        /\ uow[u].phase = "flushing" => uow[u].entry \in Entries

Active(u) == uow[u].phase # "closed"

\* Rows of one tenant's stream: the WHERE clause of every ledger query.
StreamOf(R, t, s) == {r \in R : r.tenant = t /\ r.stream = s}

\* What the session of u reads: committed rows and its own flushed ones.
View(u) == StreamOf(committed \cup uow[u].rows, uow[u].tenant, uow[u].stream)

\* ORDER BY seq DESC LIMIT 1
LastOf(R) == CHOOSE r \in R : \A q \in R : q.seq <= r.seq

SameKey(q, r) == q.stream = r.stream /\ q.seq = r.seq

-----------------------------------------------------------------------------
(* Operations. *)

Init ==
    /\ committed = {}
    /\ uow = [u \in Uows |-> Closed]

\* Mutant: no tenant in the context of the request.
EnterNoTenant(u, t, s) ==
    /\ ~Active(u)
    /\ uow' = [uow EXCEPT ![u] = [Closed EXCEPT !.phase = "open", !.stream = s]]
    /\ UNCHANGED committed

\* `async with UnitOfWork()` inside a request of tenant t; the session
\* appends to one stream, as every caller in the code does.
Enter(u, t, s) ==
    /\ ~Active(u)
    /\ uow' = [uow EXCEPT ![u] = [phase |-> "open", tenant |-> t,
                                  stream |-> s, rows |-> {}, entry |-> None]]
    /\ UNCHANGED committed

\* Mutant: the new entry repeats the link of the last one.
NextEntrySameLink(u, event) ==
    LET empty == View(u) = {}
        prev == IF empty THEN Genesis ELSE LastOf(View(u)).prev_hash
        seq == IF empty THEN 0 ELSE LastOf(View(u)).seq + 1
    IN  [tenant |-> uow[u].tenant, stream |-> uow[u].stream, seq |-> seq,
         event |-> event, prev_hash |-> prev,
         hash |-> ChainHash(prev, uow[u].stream, event)]

\* The entry `append` builds for an event from the rows its SELECT can see.
NextEntry(u, event) ==
    LET empty == View(u) = {}
        prev == IF empty THEN Genesis ELSE LastOf(View(u)).hash
        seq == IF empty THEN 0 ELSE LastOf(View(u)).seq + 1
    IN  [tenant |-> uow[u].tenant, stream |-> uow[u].stream, seq |-> seq,
         event |-> event, prev_hash |-> prev,
         hash |-> ChainHash(prev, uow[u].stream, event)]

\* append, up to the await of the flush.
ReadTail(u, event) ==
    /\ uow[u].phase = "open"
    /\ NextEntry(u, event).seq <= MaxSeq
    /\ uow' = [uow EXCEPT ![u].phase = "flushing",
                          ![u].entry = NextEntry(u, event)]
    /\ UNCHANGED committed

\* uq_ledger_stream_seq (no tenant in it): a key another open transaction
\* has inserted makes the INSERT wait, a committed one makes it fail.
HeldByAnother(u, entry) ==
    \E v \in Uows \ {u} : \E r \in uow[v].rows : SameKey(r, entry)
Taken(entry) == \E r \in committed : SameKey(r, entry)

Flush(u) ==
    /\ uow[u].phase = "flushing"
    /\ ~HeldByAnother(u, uow[u].entry)
    /\ ~Taken(uow[u].entry)
    /\ uow' = [uow EXCEPT ![u].phase = "open",
                          ![u].rows = @ \cup {uow[u].entry},
                          ![u].entry = None]
    /\ UNCHANGED committed

\* Mutant: the failed INSERT is repeated with the entry it failed with.
FlushConflictRetried(u) ==
    /\ uow[u].phase = "flushing"
    /\ Taken(uow[u].entry)
    /\ UNCHANGED vars

\* IntegrityError leaves the `async with` block: everything is rolled back.
FlushConflict(u) ==
    /\ uow[u].phase = "flushing"
    /\ Taken(uow[u].entry)
    /\ uow' = [uow EXCEPT ![u] = Closed]
    /\ UNCHANGED committed

\* uow.commit(): the session stays usable and starts a new transaction.
Commit(u) ==
    /\ uow[u].phase = "open"
    /\ uow[u].rows # {}
    /\ committed' = committed \cup uow[u].rows
    /\ uow' = [uow EXCEPT ![u].rows = {}]

\* uow.rollback(): likewise.
Rollback(u) ==
    /\ uow[u].phase = "open"
    /\ uow[u].rows # {}
    /\ uow' = [uow EXCEPT ![u].rows = {}]
    /\ UNCHANGED committed

\* __aexit__ without an exception commits, then closes the session.
ExitClean(u) ==
    /\ uow[u].phase = "open"
    /\ committed' = committed \cup uow[u].rows
    /\ uow' = [uow EXCEPT ![u] = Closed]

\* __aexit__ with an exception (an error of the caller, a disconnected
\* client, a cancelled task), possibly while the INSERT is waiting.
ExitRaising(u) ==
    /\ Active(u)
    /\ uow' = [uow EXCEPT ![u] = Closed]
    /\ UNCHANGED committed

Next ==
    \E u \in Uows :
        \/ \E t \in Tenants, s \in Streams : Enter(u, t, s)
        \/ \E event \in Events : ReadTail(u, event)
        \/ Flush(u)
        \/ FlushConflict(u)
        \/ Commit(u)
        \/ Rollback(u)
        \/ ExitClean(u)
        \/ ExitRaising(u)

Spec == Init /\ [][Next]_vars

\* A unit of work is straight-line code between its commits: an open
\* transaction goes on until it ends.  The database wakes a waiting INSERT
\* each time the transaction it waits for ends.
EndTransaction(u) == Commit(u) \/ Rollback(u) \/ ExitClean(u)

Fairness ==
    \A u \in Uows :
        /\ WF_vars(FlushConflict(u))
        /\ SF_vars(Flush(u))
        /\ WF_vars(EndTransaction(u))

FairSpec == Spec /\ Fairness

-----------------------------------------------------------------------------
(* What readers of a stream compute.  R is one tenant's stream. *)

\* Mutant: ORDER BY seq DESC.
BeforeDescending(R, r) == {q \in R : q.seq > r.seq}
Before(R, r) == {q \in R : q.seq < r.seq}

\* replay: the events in the order of their sequence numbers.
Replay(R) ==
    [i \in 1..Cardinality(R) |->
        (CHOOSE r \in R : Cardinality(Before(R, r)) = i - 1).event]

\* verify walks the entries in order; at entry r its `prev` is the stored
\* hash of the entry before r, or GENESIS_HASH.
Expected(R, r) ==
    IF Before(R, r) = {} THEN Genesis ELSE LastOf(Before(R, r)).hash

Broken(R) ==
    {r \in R : \/ r.prev_hash # Expected(R, r)
               \/ r.hash # ChainHash(Expected(R, r), r.stream, r.event)}

\* verify reports the first entry that breaks the chain.
Verify(R) ==
    IF Broken(R) = {}
    THEN [ok |-> TRUE, broken_seq |-> None]
    ELSE [ok |-> FALSE,
          broken_seq |-> (CHOOSE r \in Broken(R) :
                            \A q \in Broken(R) : r.seq <= q.seq).seq]

-----------------------------------------------------------------------------
(* Properties. *)

\* Every stream verifies as intact at every moment, both as other sessions
\* see it (committed rows) and as a session with flushed, uncommitted entries
\* of its own sees it: however appends, commits and rollbacks interleave, no
\* chain forks, skips a number or links to a rolled back entry.
ChainIntact ==
    /\ \A t \in Tenants, s \in Streams : Verify(StreamOf(committed, t, s)).ok
    /\ \A u \in Uows : Active(u) => Verify(View(u)).ok

\* The unique index works as a lock: no two open transactions hold flushed
\* entries of one stream, so a waiting INSERT waits for one transaction and
\* transactions never wait for each other in a cycle.
SingleWriter ==
    \A u, v \in Uows :
        (\E q \in uow[u].rows, r \in uow[v].rows : q.stream = r.stream)
            => u = v

\* verify() reports exactly the entry whose payload was changed after the
\* fact, whichever entry it is and whatever was appended after it (ledger.py
\* 3-4, tests/ledger/test_event_ledger.py test_tamper_is_detected).
AlterationLocated ==
    \A r \in committed : \A e \in Events \ {r.event} :
        LET R == StreamOf(committed, r.tenant, r.stream)
        IN  Verify((R \ {r}) \cup {[r EXCEPT !.event = e]})
                = [ok |-> FALSE, broken_seq |-> r.seq]

\* What other sessions read as the record of a stream: an append-only log
\* that grows by whole transactions (AppendOnlyLog).
Record == [k \in Tenants \X Streams |-> Replay(StreamOf(committed, k[1], k[2]))]
Log == INSTANCE AppendOnlyLog WITH Keys <- Tenants \X Streams, log <- Record
RecordOnlyGrows == Log!Spec

\* No append waits forever: the transaction in its way ends, and the INSERT
\* then succeeds or fails.
FlushReturns ==
    \A u \in Uows : uow[u].phase = "flushing" ~> uow[u].phase # "flushing"
=============================================================================
