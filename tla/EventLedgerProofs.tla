------------------------- MODULE EventLedgerProofs -------------------------
(***************************************************************************)
(* Theorems about EventLedger, for every set of tenants, streams, events   *)
(* and sessions.                                                           *)
(*                                                                         *)
(* ChainIntact and SingleWriter depend on each other: the unique index     *)
(* keeps a second writer off a stream only because every session's view of *)
(* it has no gaps, and the views stay free of gaps and forks because there *)
(* is no second writer.  IInv carries both, entry by entry.  The same      *)
(* invariant shows that the ledger implements AppendOnlyLog.               *)
(***************************************************************************)
EXTENDS EventLedger, WellFoundedInduction, FiniteSetTheorems, FunctionTheorems, TLAPS

-----------------------------------------------------------------------------
(* Least and greatest elements of sets of sequence numbers. *)

\* A non-empty set of natural numbers has a least element.
LEMMA LeastNatural ==
  ASSUME NEW S \in SUBSET Nat, S # {}
  PROVE  \E m \in S : \A n \in S : m <= n
<1>1. PICK m \in S : \A n \in S : ~(<<n, m>> \in OpToRel(<, Nat))
  BY NatLessThanWellFounded, WFMin
<1>2. \A n \in S : ~(n < m)
  BY <1>1 DEF OpToRel
<1>3. QED
  BY <1>2

\* A non-empty bounded set of natural numbers has a greatest element.
LEMMA GreatestNatural ==
  ASSUME NEW N \in Nat, NEW S \in SUBSET (0..N), S # {}
  PROVE  \E m \in S : \A n \in S : n <= m
<1> DEFINE Bounds == {n \in 0..N : \A s \in S : s <= n}
<1>1. Bounds \in SUBSET Nat /\ N \in Bounds
  OBVIOUS
<1>2. PICK m \in Bounds : \A n \in Bounds : m <= n
  <2> HIDE DEF Bounds
  <2> QED BY <1>1, LeastNatural
<1>3. m \in S
  <2>1. SUFFICES ASSUME m \notin S PROVE FALSE
    OBVIOUS
  <2>2. \A s \in S : s \in 0..N /\ s <= m /\ s # m
    BY <2>1
  <2>3. PICK s \in S : TRUE
    OBVIOUS
  <2>4. m - 1 \in Bounds
    BY <2>2, <2>3
  <2>5. QED
    BY <2>4, <1>2
<1>4. QED
  BY <1>3

\* `ORDER BY seq DESC LIMIT 1` over a non-empty set of entries returns one of
\* them, and none has a larger sequence number.
LEMMA LastOfProperties ==
  ASSUME NEW R \in SUBSET Entries, R # {}
  PROVE  /\ LastOf(R) \in R
         /\ \A q \in R : q.seq <= LastOf(R).seq
<1> DEFINE Seqs == {r.seq : r \in R}
<1>1. Seqs \in SUBSET (0..MaxSeq) /\ Seqs # {}
  BY DEF Entries
<1>2. PICK m \in Seqs : \A n \in Seqs : n <= m
  <2> HIDE DEF Seqs
  <2> QED BY <1>1, GreatestNatural, MaxSeqAssumption
<1>3. \E r \in R : \A q \in R : q.seq <= r.seq
  BY <1>2
<1>4. QED
  BY <1>3 DEF LastOf

-----------------------------------------------------------------------------
(* The inductive invariant. *)

SameStream(q, r) == q.tenant = r.tenant /\ q.stream = r.stream

\* In R, entry r digests what it claims to, continues the entry before it,
\* and has an entry below it for every smaller sequence number.
Linked(R, r) ==
    /\ r.hash = ChainHash(r.prev_hash, r.stream, r.event)
    /\ r.seq = 0 => r.prev_hash = Genesis
    /\ r.seq # 0 => \E p \in R : /\ SameStream(p, r)
                                /\ p.seq = r.seq - 1
                                /\ p.hash = r.prev_hash
    /\ \A n \in 0..(r.seq - 1) : \E p \in R : SameStream(p, r) /\ p.seq = n

\* A session flushes entries of its own stream only.
Owned ==
    \A u \in Uows :
        /\ \A r \in uow[u].rows : /\ r.tenant = uow[u].tenant
                                  /\ r.stream = uow[u].stream
        /\ uow[u].phase = "flushing" =>
            /\ uow[u].entry.tenant = uow[u].tenant
            /\ uow[u].entry.stream = uow[u].stream

\* The unique index, on committed rows and on those of open transactions.
CommittedUnique == \A q, r \in committed : SameKey(q, r) => q = r
FlushedUnique ==
    \A u \in Uows : \A q \in uow[u].rows :
        /\ \A r \in committed : ~SameKey(q, r)
        /\ \A r \in uow[u].rows : SameKey(q, r) => q = r

\* Every entry continues a chain its session can see.
CommittedLinked == \A r \in committed : Linked(committed, r)
FlushedLinked ==
    \A u \in Uows : \A r \in uow[u].rows : Linked(committed \cup uow[u].rows, r)
EntryLinked ==
    \A u \in Uows : uow[u].phase = "flushing" =>
        /\ Linked(committed \cup uow[u].rows, uow[u].entry)
        /\ \A r \in uow[u].rows : r.seq < uow[u].entry.seq

IInv ==
    /\ TypeOK
    /\ Owned
    /\ CommittedUnique
    /\ FlushedUnique
    /\ SingleWriter
    /\ CommittedLinked
    /\ FlushedLinked
    /\ EntryLinked

-----------------------------------------------------------------------------
(* Facts about single steps. *)

\* A chain stays a chain when entries are added around it.
LEMMA LinkedMonotonic ==
  ASSUME NEW R, NEW S, R \subseteq S, NEW r, Linked(R, r)
  PROVE  Linked(S, r)
BY DEF Linked

\* Digests are digests.
LEMMA HashProperties ==
  /\ Genesis \in Hashes
  /\ \A h \in Hashes, t \in Streams, e \in Events : ChainHash(h, t, e) \in Hashes
BY DEF Hashes, Genesis, ChainHash

\* The entry `append` builds is well formed and continues what its session
\* sees.
LEMMA NextEntryProperties ==
  ASSUME IInv, NEW u \in Uows, uow[u].phase = "open", NEW event \in Events,
         NextEntry(u, event).seq <= MaxSeq
  PROVE  LET e == NextEntry(u, event)
         IN  /\ e \in Entries
             /\ e.tenant = uow[u].tenant
             /\ e.stream = uow[u].stream
             /\ Linked(committed \cup uow[u].rows, e)
             /\ \A r \in uow[u].rows : r.seq < e.seq
<1> DEFINE e == NextEntry(u, event)
           R == View(u)
<1> USE MaxSeqAssumption
<1>1. /\ uow[u].tenant \in Tenants
      /\ uow[u].stream \in Streams
      /\ committed \subseteq Entries
      /\ uow[u].rows \subseteq Entries
  BY DEF IInv, TypeOK, Sessions
<1>2. R \subseteq Entries /\ uow[u].rows \subseteq R
  BY <1>1 DEF View, StreamOf, IInv, Owned
<1>3. /\ e.tenant = uow[u].tenant
      /\ e.stream = uow[u].stream
      /\ e.event = event
      /\ e.hash = ChainHash(e.prev_hash, e.stream, e.event)
      /\ R = {} => e.prev_hash = Genesis /\ e.seq = 0
      /\ R # {} => /\ e.prev_hash = LastOf(R).hash
                   /\ e.seq = LastOf(R).seq + 1
  BY DEF NextEntry
<1>4. CASE R = {}
  <2>1. e.prev_hash \in Hashes /\ e.hash \in Hashes
    BY <1>1, <1>3, <1>4, HashProperties
  <2>2. e \in Entries
    BY <1>1, <1>3, <1>4, <2>1 DEF NextEntry, Entries
  <2>3. Linked(committed \cup uow[u].rows, e)
    BY <1>3, <1>4 DEF Linked
  <2>4. uow[u].rows = {}
    BY <1>2, <1>4
  <2>5. QED
    BY <1>3, <2>2, <2>3, <2>4
<1>5. CASE R # {}
  <2> DEFINE p == LastOf(R)
  <2>1. p \in R /\ \A q \in R : q.seq <= p.seq
    BY <1>2, <1>5, LastOfProperties
  <2>2. /\ p \in Entries
        /\ p \in committed \cup uow[u].rows
        /\ SameStream(p, e)
    BY <1>2, <1>3, <2>1 DEF View, StreamOf, SameStream
  <2>3. p.seq \in Nat /\ p.hash \in Hashes /\ e.seq = p.seq + 1
    BY <1>3, <1>5, <2>2 DEF Entries
  <2>4. e.prev_hash \in Hashes /\ e.hash \in Hashes
    BY <1>1, <1>3, <1>5, <2>3, HashProperties
  <2>5. e \in Entries
    BY <1>1, <1>3, <2>3, <2>4 DEF NextEntry, Entries
  <2>6. Linked(committed \cup uow[u].rows, p)
    BY <2>2, LinkedMonotonic DEF IInv, CommittedLinked, FlushedLinked
  <2>7. \A n \in 0..(e.seq - 1) :
          \E q \in committed \cup uow[u].rows : SameStream(q, e) /\ q.seq = n
    BY <2>2, <2>3, <2>6 DEF Linked, SameStream
  <2>8. Linked(committed \cup uow[u].rows, e)
    BY <1>3, <1>5, <2>2, <2>3, <2>7 DEF Linked
  <2>9. \A r \in uow[u].rows : r.seq < e.seq
    BY <1>2, <2>1, <2>3 DEF Entries
  <2>10. QED
    BY <1>3, <2>5, <2>8, <2>9
<1>6. QED
  BY <1>4, <1>5

\* When the unique index lets an INSERT through, no other open transaction has
\* flushed anything to that stream: had it flushed a later entry, its view,
\* having no gaps, would hold the key; had it flushed an earlier one, the
\* inserting session, having no gaps either, would hold that key itself.
LEMMA FlushIsExclusive ==
  ASSUME IInv, NEW u \in Uows, Flush(u), NEW v \in Uows, v # u,
         NEW q \in uow[v].rows
  PROVE  q.stream # uow[u].entry.stream
<1> DEFINE e == uow[u].entry
<1>1. SUFFICES ASSUME q.stream = e.stream PROVE FALSE
  OBVIOUS
<1>2. /\ q \in Entries
      /\ e \in Entries
      /\ committed \subseteq Entries
      /\ uow[u].rows \subseteq Entries
      /\ uow[v].rows \subseteq Entries
  BY DEF IInv, TypeOK, Sessions, Flush
<1>3. q.seq \in Nat /\ e.seq \in Nat
  BY <1>2, MaxSeqAssumption DEF Entries
<1>4. /\ \A w \in Uows \ {u} : \A r \in uow[w].rows : ~SameKey(r, e)
      /\ \A r \in committed : ~SameKey(r, e)
  BY DEF Flush, HeldByAnother, Taken
<1>5. CASE q.seq >= e.seq
  <2>1. Linked(committed \cup uow[v].rows, q)
    BY DEF IInv, FlushedLinked
  <2>2. \E r \in committed \cup uow[v].rows :
          r.stream = q.stream /\ r.seq = e.seq
    BY <1>3, <1>5, <2>1 DEF Linked, SameStream
  <2>3. QED
    BY <1>1, <1>4, <2>2 DEF SameKey
<1>6. CASE q.seq < e.seq
  <2>1. Linked(committed \cup uow[u].rows, e)
    BY DEF IInv, EntryLinked, Flush
  <2>2. PICK r \in committed \cup uow[u].rows :
          r.stream = e.stream /\ r.seq = q.seq
    BY <1>3, <1>6, <2>1 DEF Linked, SameStream
  <2>3. SameKey(q, r)
    BY <1>1, <2>2 DEF SameKey
  <2>4. r \notin committed
    BY <2>3 DEF IInv, FlushedUnique
  <2>5. r \notin uow[u].rows
    BY <1>1, <2>2 DEF IInv, SingleWriter
  <2>6. QED
    BY <2>2, <2>4, <2>5
<1>7. QED
  BY <1>3, <1>5, <1>6

-----------------------------------------------------------------------------
(* The invariant is inductive. *)

\* Steps that change one session u, leave the database alone and do not add to
\* the rows of u: beginning a session, and every way out that keeps nothing.
LEMMA DropRowsPreservesIInv ==
  ASSUME IInv, NEW u \in Uows, UNCHANGED committed, TypeOK',
         \A v \in Uows : v # u => uow'[v] = uow[v],
         uow'[u].phase # "flushing", uow'[u].rows = {}
  PROVE  IInv'
<1>1. \A v \in Uows : v # u => uow'[v] = uow[v]
  OBVIOUS
<1>2. uow'[u].phase # "flushing" /\ uow'[u].rows = {}
  OBVIOUS
<1>3. Owned'
  BY <1>1, <1>2 DEF IInv, Owned
<1>4. CommittedUnique'
  BY DEF IInv, CommittedUnique
<1>5. FlushedUnique'
  BY <1>1, <1>2 DEF IInv, FlushedUnique
<1>6. SingleWriter'
  BY <1>1, <1>2 DEF IInv, SingleWriter
<1>7. CommittedLinked'
  BY DEF IInv, CommittedLinked
<1>8. FlushedLinked'
  BY <1>1, <1>2 DEF IInv, FlushedLinked
<1>9. EntryLinked'
  BY <1>1, <1>2 DEF IInv, EntryLinked
<1>10. QED
  BY <1>3, <1>4, <1>5, <1>6, <1>7, <1>8, <1>9 DEF IInv

\* Steps that publish the rows of session u, which keeps nothing.
LEMMA PublishPreservesIInv ==
  ASSUME IInv, NEW u \in Uows, committed' = committed \cup uow[u].rows, TypeOK',
         \A v \in Uows : v # u => uow'[v] = uow[v],
         uow'[u].phase # "flushing", uow'[u].rows = {}
  PROVE  IInv'
<1>1. \A v \in Uows : v # u => uow'[v] = uow[v]
  OBVIOUS
<1>2. uow'[u].phase # "flushing" /\ uow'[u].rows = {}
  OBVIOUS
<1>3. \A v \in Uows :
        committed \cup uow[v].rows \subseteq committed' \cup uow[v].rows
  OBVIOUS
<1>4. Owned'
  BY <1>1, <1>2 DEF IInv, Owned
<1>5. CommittedUnique'
  BY DEF IInv, CommittedUnique, FlushedUnique, SameKey
<1>6. FlushedUnique'
  <2> SUFFICES ASSUME NEW v \in Uows, NEW q \in uow'[v].rows
               PROVE  /\ \A r \in committed' : ~SameKey(q, r)
                      /\ \A r \in uow'[v].rows : SameKey(q, r) => q = r
    BY DEF FlushedUnique, SameKey
  <2>1. v # u /\ q \in uow[v].rows
    BY <1>1, <1>2
  <2>2. \A r \in uow[u].rows : q.stream # r.stream
    BY <2>1 DEF IInv, SingleWriter
  <2>3. QED
    BY <1>1, <2>1, <2>2 DEF IInv, FlushedUnique, SameKey
<1>7. SingleWriter'
  BY <1>1, <1>2 DEF IInv, SingleWriter
<1>8. CommittedLinked'
  <2> SUFFICES ASSUME NEW r \in committed' PROVE Linked(committed', r)
    BY DEF CommittedLinked, Linked, SameStream
  <2>1. CASE r \in committed
    BY <2>1, LinkedMonotonic DEF IInv, CommittedLinked
  <2>2. CASE r \in uow[u].rows
    BY <2>2 DEF IInv, FlushedLinked
  <2>3. QED
    BY <2>1, <2>2
<1>9. FlushedLinked'
  <2> SUFFICES ASSUME NEW v \in Uows, NEW r \in uow'[v].rows
               PROVE  Linked(committed' \cup uow'[v].rows, r)
    BY DEF FlushedLinked, Linked, SameStream
  <2>1. v # u /\ uow'[v] = uow[v]
    BY <1>1, <1>2
  <2>2. QED
    BY <1>3, <2>1, LinkedMonotonic DEF IInv, FlushedLinked
<1>10. EntryLinked'
  <2> SUFFICES ASSUME NEW v \in Uows, uow'[v].phase = "flushing"
               PROVE  /\ Linked(committed' \cup uow'[v].rows, uow'[v].entry)
                      /\ \A r \in uow'[v].rows : r.seq < uow'[v].entry.seq
    BY DEF EntryLinked, Linked, SameStream
  <2>1. v # u /\ uow'[v] = uow[v]
    BY <1>1, <1>2
  <2>2. /\ Linked(committed \cup uow[v].rows, uow[v].entry)
        /\ \A r \in uow[v].rows : r.seq < uow[v].entry.seq
    BY <2>1 DEF IInv, EntryLinked
  <2>3. Linked(committed' \cup uow[v].rows, uow[v].entry)
    BY <1>3, <2>2, LinkedMonotonic
  <2>4. QED
    BY <2>1, <2>2, <2>3
<1>11. QED
  BY <1>4, <1>5, <1>6, <1>7, <1>8, <1>9, <1>10 DEF IInv

\* A flush adds an entry to the rows of u; the unique index has let it through.
LEMMA FlushPreservesIInv ==
  ASSUME IInv, NEW u \in Uows, Flush(u), TypeOK'
  PROVE  IInv'
<1> DEFINE e == uow[u].entry
<1>1. \A v \in Uows : v # u => uow'[v] = uow[v]
  BY DEF IInv, TypeOK, Flush
<1>2. /\ uow'[u].phase = "open"
      /\ uow'[u].rows = uow[u].rows \cup {e}
      /\ uow'[u].tenant = uow[u].tenant
      /\ uow'[u].stream = uow[u].stream
  BY DEF IInv, TypeOK, Sessions, Flush
<1>3. committed' = committed /\ uow[u].phase = "flushing"
  BY DEF Flush
<1>4. e.tenant = uow[u].tenant /\ e.stream = uow[u].stream
  BY <1>3 DEF IInv, Owned
<1>5. /\ Linked(committed \cup uow[u].rows, e)
      /\ \A r \in uow[u].rows : r.seq < e.seq
  BY <1>3 DEF IInv, EntryLinked
<1>6. Owned'
  BY <1>1, <1>2, <1>4 DEF IInv, Owned
<1>7. CommittedUnique'
  BY <1>3 DEF IInv, CommittedUnique
<1>8. FlushedUnique'
  <2>1. \A r \in committed : ~SameKey(e, r)
    BY DEF Flush, Taken, SameKey
  <2>2. \A r \in uow[u].rows : r.seq \in Nat
    BY MaxSeqAssumption DEF IInv, TypeOK, Sessions, Entries
  <2>3. \A r \in uow[u].rows : r.seq # e.seq
    BY <1>5, <2>2
  <2>4. \A r \in uow[u].rows : ~SameKey(e, r) /\ ~SameKey(r, e)
    BY <2>3 DEF SameKey
  <2>5. QED
    BY <1>1, <1>2, <1>3, <2>1, <2>4 DEF IInv, FlushedUnique
<1>9. SingleWriter'
  <2> SUFFICES ASSUME NEW v \in Uows, NEW w \in Uows, v # w,
                      NEW q \in uow'[v].rows, NEW r \in uow'[w].rows
               PROVE  q.stream # r.stream
    BY DEF SingleWriter
  <2>1. CASE v # u /\ w # u
    BY <1>1, <2>1 DEF IInv, SingleWriter
  <2>2. CASE v = u
    BY <1>1, <1>2, <2>2, FlushIsExclusive DEF IInv, SingleWriter
  <2>3. CASE w = u
    BY <1>1, <1>2, <2>3, FlushIsExclusive DEF IInv, SingleWriter
  <2>4. QED
    BY <2>1, <2>2, <2>3
<1>10. CommittedLinked'
  BY <1>3 DEF IInv, CommittedLinked
<1>11. FlushedLinked'
  <2> SUFFICES ASSUME NEW v \in Uows, NEW r \in uow'[v].rows
               PROVE  Linked(committed \cup uow'[v].rows, r)
    BY <1>3 DEF FlushedLinked
  <2>1. CASE v # u
    BY <1>1, <2>1 DEF IInv, FlushedLinked
  <2>2. CASE v = u
    <3>1. committed \cup uow[u].rows \subseteq committed \cup uow'[u].rows
      BY <1>2
    <3>2. Linked(committed \cup uow[u].rows, r)
      BY <1>2, <1>5, <2>2 DEF IInv, FlushedLinked
    <3>3. QED
      BY <2>2, <3>1, <3>2, LinkedMonotonic
  <2>3. QED
    BY <2>1, <2>2
<1>12. EntryLinked'
  BY <1>1, <1>2, <1>3 DEF IInv, EntryLinked
<1>13. QED
  BY <1>6, <1>7, <1>8, <1>9, <1>10, <1>11, <1>12 DEF IInv

\* Reading the tail only prepares an entry.
LEMMA ReadTailPreservesIInv ==
  ASSUME IInv, NEW u \in Uows, NEW event \in Events, ReadTail(u, event), TypeOK'
  PROVE  IInv'
<1> DEFINE e == NextEntry(u, event)
<1>1. \A v \in Uows : v # u => uow'[v] = uow[v]
  BY DEF IInv, TypeOK, ReadTail
<1>2. /\ uow'[u].rows = uow[u].rows
      /\ uow'[u].tenant = uow[u].tenant
      /\ uow'[u].stream = uow[u].stream
      /\ uow'[u].entry = e
  BY DEF IInv, TypeOK, Sessions, ReadTail
<1>3. \A v \in Uows : uow'[v].rows = uow[v].rows
  BY <1>1, <1>2
<1>4. committed' = committed
  BY DEF ReadTail
<1>5. /\ e.tenant = uow[u].tenant
      /\ e.stream = uow[u].stream
      /\ Linked(committed \cup uow[u].rows, e)
      /\ \A r \in uow[u].rows : r.seq < e.seq
  BY NextEntryProperties DEF ReadTail
<1>6. Owned'
  BY <1>1, <1>2, <1>5 DEF IInv, Owned
<1>7. CommittedUnique' /\ FlushedUnique' /\ SingleWriter'
  BY <1>3, <1>4 DEF IInv, CommittedUnique, FlushedUnique, SingleWriter
<1>8. CommittedLinked' /\ FlushedLinked'
  BY <1>3, <1>4 DEF IInv, CommittedLinked, FlushedLinked
<1>9. EntryLinked'
  BY <1>1, <1>2, <1>4, <1>5 DEF IInv, EntryLinked
<1>10. QED
  BY <1>6, <1>7, <1>8, <1>9 DEF IInv

\* A step that gives session u a well-formed value leaves all of them so.
LEMMA SessionUpdateKeepsTypes ==
  ASSUME TypeOK, NEW u \in Uows, NEW w \in Sessions,
         uow' = [uow EXCEPT ![u] = w], committed' \in SUBSET Entries,
         w.phase = "closed" => w = Closed,
         w.phase # "closed" => w.tenant \in Tenants /\ w.stream \in Streams,
         w.phase = "flushing" => w.entry \in Entries
  PROVE  TypeOK'
<1>1. uow' \in [Uows -> Sessions]
  BY DEF TypeOK
<1>2. uow'[u] = w /\ \A v \in Uows : v # u => uow'[v] = uow[v]
  BY DEF TypeOK
<1>3. QED
  BY <1>1, <1>2 DEF TypeOK

\* A session that is not closed, field by field.
LEMMA SessionFields ==
  ASSUME TypeOK, NEW u \in Uows
  PROVE  /\ uow[u] \in Sessions
         /\ uow[u].phase \in Phases
         /\ uow[u].rows \in SUBSET Entries
         /\ uow[u].entry \in Entries \cup {None}
         /\ committed \in SUBSET Entries
         /\ uow[u].phase # "closed" => /\ uow[u].tenant \in Tenants
                                      /\ uow[u].stream \in Streams
         /\ uow[u].phase = "flushing" => uow[u].entry \in Entries
BY DEF TypeOK, Sessions

\* A closed session is a session that holds nothing.
LEMMA ClosedIsASession ==
  /\ Closed \in Sessions
  /\ Closed.phase = "closed"
  /\ Closed.rows = {}
BY DEF Closed, Sessions, Phases

\* Every step leaves well-typed tables and sessions.
LEMMA StepKeepsTypes ==
  ASSUME IInv, [Next]_vars
  PROVE  TypeOK'
<1>1. TypeOK
  BY DEF IInv
<1>2. ASSUME NEW u \in Uows, NEW t \in Tenants, NEW s \in Streams, Enter(u, t, s)
      PROVE  TypeOK'
  <2> DEFINE w == [phase |-> "open", tenant |-> t, stream |-> s,
                   rows |-> {}, entry |-> None]
  <2>1. w \in Sessions
    BY DEF Sessions, Phases
  <2>2. w.phase = "open" /\ w.tenant = t /\ w.stream = s
    OBVIOUS
  <2>3. uow' = [uow EXCEPT ![u] = w] /\ committed' \in SUBSET Entries
    BY <1>1, <1>2, SessionFields DEF Enter
  <2> HIDE DEF w
  <2>4. QED
    BY <1>1, <2>1, <2>2, <2>3, SessionUpdateKeepsTypes
<1>3. ASSUME NEW u \in Uows, NEW event \in Events, ReadTail(u, event)
      PROVE  TypeOK'
  <2> DEFINE w == [uow[u] EXCEPT !.phase = "flushing",
                                 !.entry = NextEntry(u, event)]
  <2>1. NextEntry(u, event) \in Entries
    BY <1>3, NextEntryProperties DEF ReadTail
  <2>2. w \in Sessions
    BY <1>1, <2>1, SessionFields DEF Sessions, Phases
  <2>3. /\ w.phase = "flushing"
        /\ w.tenant = uow[u].tenant
        /\ w.stream = uow[u].stream
        /\ w.entry = NextEntry(u, event)
    BY <1>1, SessionFields DEF Sessions
  <2>4. uow' = [uow EXCEPT ![u] = w] /\ committed' \in SUBSET Entries
    BY <1>1, <1>3, SessionFields DEF ReadTail
  <2>5. uow[u].phase = "open"
    BY <1>3 DEF ReadTail
  <2> HIDE DEF w
  <2>6. QED
    BY <1>1, <2>1, <2>2, <2>3, <2>4, <2>5, SessionFields, SessionUpdateKeepsTypes
<1>4. ASSUME NEW u \in Uows, Flush(u)
      PROVE  TypeOK'
  <2> DEFINE w == [uow[u] EXCEPT !.phase = "open",
                                 !.rows = @ \cup {uow[u].entry},
                                 !.entry = None]
  <2>1. uow[u].phase = "flushing"
    BY <1>4 DEF Flush
  <2>2. w \in Sessions
    <3>1. uow[u].rows \cup {uow[u].entry} \in SUBSET Entries
      BY <1>1, <2>1, SessionFields
    <3>2. uow[u] \in Sessions
      BY <1>1, SessionFields
    <3>3. QED
      BY <3>1, <3>2 DEF Sessions, Phases
  <2>3. /\ w.phase = "open"
        /\ w.tenant = uow[u].tenant
        /\ w.stream = uow[u].stream
    BY <1>1, SessionFields DEF Sessions
  <2>4. uow' = [uow EXCEPT ![u] = w] /\ committed' \in SUBSET Entries
    BY <1>1, <1>4, SessionFields DEF Flush
  <2> HIDE DEF w
  <2>5. QED
    BY <1>1, <2>1, <2>2, <2>3, <2>4, SessionFields, SessionUpdateKeepsTypes
<1>5. ASSUME NEW u \in Uows,
             FlushConflict(u) \/ ExitRaising(u) \/ ExitClean(u)
      PROVE  TypeOK'
  <2>1. uow' = [uow EXCEPT ![u] = Closed] /\ committed' \in SUBSET Entries
    BY <1>1, <1>5, SessionFields DEF FlushConflict, ExitRaising, ExitClean
  <2>2. QED
    BY <1>1, <2>1, ClosedIsASession, SessionUpdateKeepsTypes
<1>6. ASSUME NEW u \in Uows, Commit(u) \/ Rollback(u)
      PROVE  TypeOK'
  <2> DEFINE w == [uow[u] EXCEPT !.rows = {}]
  <2>1. uow[u].phase = "open"
    BY <1>6 DEF Commit, Rollback
  <2>2. w \in Sessions
    BY <1>1, SessionFields DEF Sessions
  <2>3. /\ w.phase = "open"
        /\ w.tenant = uow[u].tenant
        /\ w.stream = uow[u].stream
    BY <1>1, <2>1, SessionFields DEF Sessions
  <2>4. uow' = [uow EXCEPT ![u] = w] /\ committed' \in SUBSET Entries
    BY <1>1, <1>6, SessionFields DEF Commit, Rollback
  <2> HIDE DEF w
  <2>5. QED
    BY <1>1, <2>1, <2>2, <2>3, <2>4, SessionFields, SessionUpdateKeepsTypes
<1>7. CASE UNCHANGED vars
  BY <1>1, <1>7 DEF TypeOK, vars
<1>8. QED
  BY <1>2, <1>3, <1>4, <1>5, <1>6, <1>7 DEF Next

\* Every step preserves the inductive invariant.
LEMMA StepKeepsIInv ==
  ASSUME IInv, [Next]_vars
  PROVE  IInv'
<1>1. TypeOK /\ TypeOK'
  BY StepKeepsTypes DEF IInv
<1>2. ASSUME NEW u \in Uows, NEW t \in Tenants, NEW s \in Streams, Enter(u, t, s)
      PROVE  IInv'
  <2>1. /\ \A v \in Uows : v # u => uow'[v] = uow[v]
        /\ uow'[u].phase # "flushing" /\ uow'[u].rows = {}
    BY <1>1, <1>2 DEF Enter, TypeOK
  <2>2. QED
    BY <1>1, <1>2, <2>1, DropRowsPreservesIInv DEF Enter
<1>3. ASSUME NEW u \in Uows, NEW event \in Events, ReadTail(u, event)
      PROVE  IInv'
  BY <1>1, <1>3, ReadTailPreservesIInv
<1>4. ASSUME NEW u \in Uows, Flush(u)
      PROVE  IInv'
  BY <1>1, <1>4, FlushPreservesIInv
<1>5. ASSUME NEW u \in Uows, FlushConflict(u) \/ ExitRaising(u)
      PROVE  IInv'
  <2>1. uow' = [uow EXCEPT ![u] = Closed] /\ UNCHANGED committed
    BY <1>5 DEF FlushConflict, ExitRaising
  <2>2. /\ \A v \in Uows : v # u => uow'[v] = uow[v]
        /\ uow'[u].phase # "flushing" /\ uow'[u].rows = {}
    BY <1>1, <2>1, ClosedIsASession DEF TypeOK
  <2>3. QED
    BY <1>1, <2>1, <2>2, DropRowsPreservesIInv
<1>6. ASSUME NEW u \in Uows, Commit(u) \/ Rollback(u)
      PROVE  IInv'
  <2>1. uow[u].phase = "open" /\ uow' = [uow EXCEPT ![u].rows = {}]
    BY <1>6 DEF Commit, Rollback
  <2>2. /\ \A v \in Uows : v # u => uow'[v] = uow[v]
        /\ uow'[u].phase # "flushing" /\ uow'[u].rows = {}
    BY <1>1, <2>1 DEF TypeOK, Sessions
  <2>3. CASE Commit(u)
    BY <1>1, <2>2, <2>3, PublishPreservesIInv DEF Commit
  <2>4. CASE Rollback(u)
    BY <1>1, <2>2, <2>4, DropRowsPreservesIInv DEF Rollback
  <2>5. QED
    BY <1>6, <2>3, <2>4
<1>7. ASSUME NEW u \in Uows, ExitClean(u)
      PROVE  IInv'
  <2>1. /\ \A v \in Uows : v # u => uow'[v] = uow[v]
        /\ uow'[u].phase # "flushing" /\ uow'[u].rows = {}
    BY <1>1, <1>7, ClosedIsASession DEF TypeOK, ExitClean
  <2>2. QED
    BY <1>1, <1>7, <2>1, PublishPreservesIInv DEF ExitClean
<1>8. CASE UNCHANGED vars
  BY <1>1, <1>8 DEF vars, IInv, Owned, CommittedUnique, FlushedUnique,
                    SingleWriter, CommittedLinked, FlushedLinked, EntryLinked,
                    Linked, SameStream, SameKey
<1>9. QED
  BY <1>2, <1>3, <1>4, <1>5, <1>6, <1>7, <1>8 DEF Next

\* The empty ledger satisfies it.
LEMMA InitIInv ==
  ASSUME Init
  PROVE  IInv
<1>1. TypeOK
  BY DEF Init, TypeOK, Sessions, Phases, Closed
<1>2. QED
  BY <1>1 DEF Init, Closed, IInv, Owned, CommittedUnique, FlushedUnique,
              SingleWriter, CommittedLinked, FlushedLinked, EntryLinked

\* The inductive invariant holds in every reachable state.
THEOREM Invariance == Spec => []IInv
<1>1. Init => IInv
  BY InitIInv
<1>2. IInv /\ [Next]_vars => IInv'
  BY StepKeepsIInv
<1>3. QED
  BY <1>1, <1>2, PTL DEF Spec

\* Type correctness of the ledger table and of every unit of work.
THEOREM TypeCorrectness == Spec => []TypeOK
<1>1. IInv => TypeOK
  BY DEF IInv
<1>2. QED
  BY <1>1, Invariance, PTL

\* For any number of sessions: no two open transactions hold flushed entries
\* of one stream, so no two appends can wait for each other.
THEOREM OneWriterPerStream == Spec => []SingleWriter
<1>1. IInv => SingleWriter
  BY DEF IInv
<1>2. QED
  BY <1>1, Invariance, PTL

-----------------------------------------------------------------------------
(* What the invariant says about verify(). *)

\* One tenant's stream as a chain: verify() can rely on nothing more.
IsChain(R) ==
    /\ R \in SUBSET Entries
    /\ \A q, r \in R : SameStream(q, r)
    /\ \A q, r \in R : q.seq = r.seq => q = r
    /\ \A r \in R : Linked(R, r)

\* Walking a chain, `prev` at every entry is the prev_hash it stores.
LEMMA ExpectedIsStored ==
  ASSUME NEW R, IsChain(R), NEW r \in R
  PROVE  Expected(R, r) = r.prev_hash
<1> USE MaxSeqAssumption
<1>1. \A q \in R : q.seq \in Nat
  BY DEF IsChain, Entries
<1>2. Linked(R, r)
  BY DEF IsChain
<1>3. CASE r.seq = 0
  <2>1. Before(R, r) = {}
    BY <1>1, <1>3 DEF Before
  <2>2. QED
    BY <1>2, <1>3, <2>1 DEF Expected, Linked
<1>4. CASE r.seq # 0
  <2>1. PICK p \in R : p.seq = r.seq - 1 /\ p.hash = r.prev_hash
    BY <1>2, <1>4 DEF Linked
  <2>2. p \in Before(R, r)
    BY <1>1, <2>1 DEF Before
  <2>3. Before(R, r) \in SUBSET Entries
    BY DEF Before, IsChain
  <2> DEFINE m == LastOf(Before(R, r))
  <2>4. m \in Before(R, r) /\ \A q \in Before(R, r) : q.seq <= m.seq
    BY <2>2, <2>3, LastOfProperties
  <2>5. m \in R /\ m.seq < r.seq /\ p.seq <= m.seq
    BY <2>2, <2>4 DEF Before
  <2>6. m.seq = p.seq
    BY <1>1, <2>1, <2>5
  <2>7. m = p
    BY <2>1, <2>5, <2>6 DEF IsChain
  <2>8. QED
    BY <2>1, <2>2, <2>7 DEF Expected
<1>5. QED
  BY <1>3, <1>4

\* verify() accepts every chain.
LEMMA ChainVerifies ==
  ASSUME NEW R, IsChain(R)
  PROVE  Verify(R).ok
<1>1. \A r \in R : r.hash = ChainHash(Expected(R, r), r.stream, r.event)
  BY ExpectedIsStored DEF IsChain, Linked
<1>2. Broken(R) = {}
  BY <1>1, ExpectedIsStored DEF Broken
<1>3. QED
  BY <1>2 DEF Verify

\* What every reader queries is a chain: the committed entries of a stream,
LEMMA CommittedIsChain ==
  ASSUME IInv, NEW t \in Tenants, NEW s \in Streams
  PROVE  IsChain(StreamOf(committed, t, s))
<1> DEFINE R == StreamOf(committed, t, s)
<1>1. R \in SUBSET Entries /\ \A r \in R : r.tenant = t /\ r.stream = s
  BY DEF StreamOf, IInv, TypeOK
<1>2. \A q, r \in R : q.seq = r.seq => q = r
  BY DEF StreamOf, IInv, CommittedUnique, SameKey
<1>3. \A r \in R : Linked(R, r)
  <2> SUFFICES ASSUME NEW r \in R PROVE Linked(R, r)
    OBVIOUS
  <2>1. Linked(committed, r)
    BY DEF StreamOf, IInv, CommittedLinked
  <2>2. \A p \in committed : SameStream(p, r) => p \in R
    BY <1>1 DEF StreamOf, SameStream
  <2>3. QED
    BY <2>1, <2>2 DEF Linked
<1>4. QED
  BY <1>1, <1>2, <1>3 DEF IsChain, SameStream

\* ... and the entries a session sees, its own included.
LEMMA ViewIsChain ==
  ASSUME IInv, NEW u \in Uows, Active(u)
  PROVE  IsChain(View(u))
<1> DEFINE A == committed \cup uow[u].rows
           R == View(u)
<1>1. R \in SUBSET Entries
  BY SessionFields DEF View, StreamOf, IInv
<1>2. \A r \in R : r.tenant = uow[u].tenant /\ r.stream = uow[u].stream
  BY DEF View, StreamOf
<1>3. \A q, r \in A : SameKey(q, r) => q = r
  BY DEF IInv, CommittedUnique, FlushedUnique, SameKey
<1>4. \A q, r \in R : q.seq = r.seq => q = r
  BY <1>2, <1>3 DEF View, StreamOf, SameKey
<1>5. \A r \in R : Linked(R, r)
  <2> SUFFICES ASSUME NEW r \in R PROVE Linked(R, r)
    OBVIOUS
  <2>1. r \in A
    BY DEF View, StreamOf
  <2>2. Linked(A, r)
    BY <2>1, LinkedMonotonic DEF IInv, CommittedLinked, FlushedLinked
  <2>3. \A p \in A : SameStream(p, r) => p \in R
    BY <1>2 DEF View, StreamOf, SameStream
  <2>4. QED
    BY <2>2, <2>3 DEF Linked
<1>6. QED
  BY <1>1, <1>2, <1>4, <1>5 DEF IsChain, SameStream

\* For any number of tenants, streams and sessions: verify() accepts every
\* stream at every moment, whatever the interleaving of appends, commits,
\* failed inserts and rollbacks.
THEOREM ChainIntegrity == Spec => []ChainIntact
<1>1. IInv => ChainIntact
  BY CommittedIsChain, ViewIsChain, ChainVerifies DEF ChainIntact
<1>2. QED
  BY <1>1, Invariance, PTL

\* Changing the event of one entry of a chain makes verify() report that
\* entry, and no other.
LEMMA AlteredEntryIsReported ==
  ASSUME NEW R, IsChain(R), NEW r \in R, NEW e \in Events, e # r.event
  PROVE  Verify((R \ {r}) \cup {[r EXCEPT !.event = e]})
            = [ok |-> FALSE, broken_seq |-> r.seq]
<1> DEFINE a == [r EXCEPT !.event = e]
           S == (R \ {r}) \cup {a}
<1> USE MaxSeqAssumption
<1>1. /\ r \in Entries
      /\ R \in SUBSET Entries
      /\ a \in Entries
      /\ a.seq = r.seq /\ a.hash = r.hash /\ a.prev_hash = r.prev_hash
      /\ a.stream = r.stream /\ a.event = e
  BY DEF IsChain, Entries
<1>2. S \in SUBSET Entries
  BY <1>1
<1>3. \A q, p \in S : q.seq = p.seq => q = p
  BY <1>1 DEF IsChain
<1>4. ASSUME NEW q \in R, NEW b \in S, b.seq = q.seq, b.prev_hash = q.prev_hash
      PROVE  Expected(S, b) = q.prev_hash
  <2>1. \A p \in R : \E c \in S : c.seq = p.seq /\ c.hash = p.hash
    BY <1>1
  <2>2. \A c \in S : \E p \in R : c.seq = p.seq /\ c.hash = p.hash
    BY <1>1
  <2>3. CASE Before(R, q) = {}
    <3>1. Before(S, b) = {}
      BY <1>4, <2>2, <2>3 DEF Before
    <3>2. QED
      BY <2>3, <3>1, ExpectedIsStored DEF Expected
  <2>4. CASE Before(R, q) # {}
    <3> DEFINE p == LastOf(Before(R, q))
               c == LastOf(Before(S, b))
    <3>1. Before(R, q) \in SUBSET Entries /\ Before(S, b) \in SUBSET Entries
      BY <1>1, <1>2 DEF Before
    <3>2. p \in Before(R, q) /\ \A x \in Before(R, q) : x.seq <= p.seq
      BY <2>4, <3>1, LastOfProperties
    <3>3. PICK d \in S : d.seq = p.seq /\ d.hash = p.hash
      BY <2>1, <3>2 DEF Before
    <3>4. d \in Before(S, b)
      BY <1>4, <3>2, <3>3 DEF Before
    <3>5. c \in Before(S, b) /\ \A x \in Before(S, b) : x.seq <= c.seq
      BY <3>1, <3>4, LastOfProperties
    <3>6. PICK x \in R : x.seq = c.seq /\ x.hash = c.hash
      BY <2>2, <3>5 DEF Before
    <3>7. x \in Before(R, q)
      BY <1>4, <3>5, <3>6 DEF Before
    <3>8. c.seq <= p.seq /\ p.seq <= c.seq
      BY <3>2, <3>3, <3>4, <3>5, <3>6, <3>7
    <3>9. c.seq = d.seq
      BY <1>2, <3>1, <3>3, <3>5, <3>8 DEF Before, Entries
    <3>10. c = d
      BY <1>3, <3>4, <3>5, <3>9 DEF Before
    <3>11. Expected(S, b) = p.hash /\ Expected(R, q) = p.hash
      BY <2>4, <3>3, <3>4, <3>10 DEF Expected
    <3>12. QED
      BY <3>11, ExpectedIsStored
  <2>5. QED
    BY <2>3, <2>4
<1>5. a \in Broken(S)
  <2>1. Expected(S, a) = r.prev_hash
    BY <1>1, <1>4
  <2>2. r.hash = ChainHash(r.prev_hash, r.stream, r.event)
    BY DEF IsChain, Linked
  <2>3. /\ r.prev_hash \in Seq(Streams \X Events)
        /\ <<r.stream, r.event>> \in Streams \X Events
        /\ <<r.stream, e>> \in Streams \X Events
    BY <1>1 DEF Entries, Hashes
  <2>4. ChainHash(r.prev_hash, r.stream, r.event) # ChainHash(r.prev_hash, r.stream, e)
    <3>1. <<r.stream, r.event>> # <<r.stream, e>>
      OBVIOUS
    <3>2. \A x \in Streams \X Events :
            Append(r.prev_hash, x)[Len(r.prev_hash) + 1] = x
      BY <2>3
    <3>3. QED
      BY <2>3, <3>1, <3>2 DEF ChainHash
  <2>5. QED
    BY <1>1, <2>1, <2>2, <2>4 DEF Broken
<1>6. \A b \in Broken(S) : b = a
  <2> SUFFICES ASSUME NEW b \in S, b # a PROVE b \notin Broken(S)
    BY DEF Broken
  <2>1. b \in R
    OBVIOUS
  <2>2. Expected(S, b) = b.prev_hash
    BY <1>4, <2>1
  <2>3. b.hash = ChainHash(b.prev_hash, b.stream, b.event)
    BY <2>1 DEF IsChain, Linked
  <2>4. QED
    BY <2>2, <2>3 DEF Broken
<1>7. Broken(S) = {a}
  BY <1>5, <1>6
<1>8. a.seq <= a.seq
  BY <1>1 DEF Entries
<1>9. QED
  BY <1>1, <1>7, <1>8 DEF Verify

\* Whatever the ledger holds, altering the event of any committed entry is
\* reported by verify() at exactly that entry.
THEOREM AlterationIsLocated == Spec => []AlterationLocated
<1>1. IInv => AlterationLocated
  <2> SUFFICES ASSUME IInv, NEW r \in committed, NEW e \in Events \ {r.event}
               PROVE  Verify((StreamOf(committed, r.tenant, r.stream) \ {r})
                                \cup {[r EXCEPT !.event = e]})
                        = [ok |-> FALSE, broken_seq |-> r.seq]
    BY DEF AlterationLocated
  <2>1. r.tenant \in Tenants /\ r.stream \in Streams
    BY DEF IInv, TypeOK, Entries
  <2>2. r \in StreamOf(committed, r.tenant, r.stream)
    BY DEF StreamOf
  <2>3. QED
    BY <2>1, <2>2, CommittedIsChain, AlteredEntryIsReported
<1>2. QED
  BY <1>1, Invariance, PTL

-----------------------------------------------------------------------------
(* EventLedger implements AppendOnlyLog: what others read of a stream is   *)
(* only ever extended, by all the events of one transaction.  replay()     *)
(* puts an entry at the place that the number of entries before it tells.  *)
(* A stream is a chain, whose sequence numbers have no gap, so that the    *)
(* place of an entry is its own number and does not depend on what was     *)
(* appended after it.                                                      *)

\* Entries numbered from 0 without a gap are as many as the numbers.
LEMMA CountOfNumbered ==
  ASSUME NEW R \in SUBSET Entries, NEW n \in Nat,
         \A q, r \in R : q.seq = r.seq => q = r,
         {r.seq : r \in R} = 0..(n - 1)
  PROVE  IsFiniteSet(R) /\ Cardinality(R) = n
<1> DEFINE f == [i \in 1..n |-> CHOOSE r \in R : r.seq = i - 1]
<1>1. \A i \in 1..n : f[i] \in R /\ f[i].seq = i - 1
  BY DEF Entries
<1>2. \A r \in R : r.seq + 1 \in 1..n /\ f[r.seq + 1] = r
  <2>1. \A r \in R : r.seq \in 0..(n - 1)
    OBVIOUS
  <2>2. \A r \in R : r.seq + 1 \in 1..n /\ (r.seq + 1) - 1 = r.seq
    BY <2>1
  <2> QED
    BY <1>1, <2>2
<1>3. f \in [1..n -> R]
  BY <1>1
<1> HIDE DEF f
<1>4. \A i, j \in 1..n : f[i] = f[j] => i = j
  BY <1>1
<1>5. \A r \in R : \E i \in 1..n : f[i] = r
  BY <1>2
<1>6. ExistsBijection(1..n, R)
  BY <1>3, <1>4, <1>5, Fun_IsBij DEF ExistsBijection
<1> QED
  BY <1>6, FS_NatBijection, FS_CountingElements

\* The numbers below one of a chain's are all there.
LEMMA ChainHasNoGap ==
  ASSUME NEW R, IsChain(R), NEW r \in R, NEW n \in 0..(r.seq - 1)
  PROVE  \E p \in R : p.seq = n
BY DEF IsChain, Linked

\* replay() of a chain: as many events as there are entries, each at the
\* place its sequence number tells.
LEMMA ReplayOfChain ==
  ASSUME NEW R, IsChain(R)
  PROVE  /\ IsFiniteSet(R)
         /\ Replay(R) \in Seq(Events)
         /\ Len(Replay(R)) = Cardinality(R)
         /\ {r.seq : r \in R} = 0..(Cardinality(R) - 1)
         /\ \A r \in R : Replay(R)[r.seq + 1] = r.event
<1> USE MaxSeqAssumption
<1>1. /\ R \in SUBSET Entries
      /\ \A r \in R : r.seq \in Nat /\ r.seq <= MaxSeq /\ r.event \in Events
      /\ \A q, r \in R : q.seq = r.seq => q = r
  BY DEF IsChain, Entries
<1>2. \E n \in Nat : {r.seq : r \in R} = 0..(n - 1)
  <2>1. CASE R = {}
    <3>1. {r.seq : r \in R} = 0..(0 - 1)
      BY <2>1
    <3> QED
      BY <3>1
  <2>2. CASE R # {}
    <3> DEFINE m == LastOf(R).seq
    <3>1. LastOf(R) \in R /\ \A q \in R : q.seq <= m
      BY <1>1, <2>2, LastOfProperties
    <3>2. m \in Nat
      BY <1>1, <3>1
    <3>3. \A k \in 0..m : \E p \in R : p.seq = k
      BY <3>1, <3>2, ChainHasNoGap
    <3> HIDE DEF m
    <3>4. {r.seq : r \in R} = 0..m
      BY <1>1, <3>1, <3>2, <3>3
    <3>5. m + 1 \in Nat /\ (m + 1) - 1 = m
      BY <3>2
    <3> QED
      BY <3>4, <3>5
  <2> QED
    BY <2>1, <2>2
<1>3. PICK n \in Nat : {r.seq : r \in R} = 0..(n - 1)
  BY <1>2
<1>4. IsFiniteSet(R) /\ Cardinality(R) = n
  BY <1>1, <1>3, CountOfNumbered
<1>5. \A r \in R : Cardinality(Before(R, r)) = r.seq
  <2> SUFFICES ASSUME NEW r \in R PROVE Cardinality(Before(R, r)) = r.seq
    OBVIOUS
  <2> DEFINE B == Before(R, r)
  <2>1. B \in SUBSET Entries /\ \A p, q \in B : p.seq = q.seq => p = q
    BY <1>1 DEF Before
  <2>2. {p.seq : p \in B} = 0..(r.seq - 1)
    <3>1. \A p \in B : p.seq \in 0..(r.seq - 1)
      BY <1>1 DEF Before
    <3>2. \A k \in 0..(r.seq - 1) : \E p \in B : p.seq = k
      BY <1>1, ChainHasNoGap DEF Before
    <3> HIDE DEF B
    <3> QED
      BY <3>1, <3>2
  <2> HIDE DEF B
  <2>3. Cardinality(B) = r.seq
    BY <1>1, <2>1, <2>2, CountOfNumbered
  <2> QED
    BY <2>3 DEF B
<1>6. \A i \in 1..n : \E r \in R : r.seq = i - 1
  <2> SUFFICES ASSUME NEW i \in 1..n PROVE i - 1 \in {r.seq : r \in R}
    OBVIOUS
  <2>1. i - 1 \in 0..(n - 1)
    OBVIOUS
  <2> QED
    BY <1>3, <2>1
<1>7. \A i \in 1..n : \A r \in R : r.seq = i - 1 =>
          (CHOOSE p \in R : Cardinality(Before(R, p)) = i - 1) = r
  BY <1>1, <1>5
<1>8. /\ Replay(R) = [i \in 1..n |-> (CHOOSE p \in R :
                                        Cardinality(Before(R, p)) = i - 1).event]
  BY <1>4 DEF Replay
<1>9. \A i \in 1..n : \A r \in R : r.seq = i - 1 => Replay(R)[i] = r.event
  BY <1>7, <1>8
<1>10. \A i \in 1..n : Replay(R)[i] \in Events
  BY <1>1, <1>6, <1>9
<1>11. Replay(R) \in [1..n -> Events]
  BY <1>8, <1>10
<1>12. Replay(R) \in Seq(Events) /\ Len(Replay(R)) = n
  BY <1>11
<1>13. \A r \in R : r.seq + 1 \in 1..n /\ (r.seq + 1) - 1 = r.seq
  <2>1. \A r \in R : r.seq \in 0..(n - 1)
    BY <1>3
  <2> QED
    BY <2>1
<1>14. \A r \in R : Replay(R)[r.seq + 1] = r.event
  BY <1>9, <1>13
<1> QED
  BY <1>3, <1>4, <1>12, <1>14

\* A chain that grew replays to an extension of what it did.
LEMMA ReplayExtends ==
  ASSUME NEW R, NEW S, IsChain(R), IsChain(S), R \subseteq S, R # S
  PROVE  Log!ExtendedBy(Replay(R), Replay(S))
<1>1. /\ IsFiniteSet(R) /\ IsFiniteSet(S)
      /\ Replay(R) \in Seq(Events) /\ Replay(S) \in Seq(Events)
      /\ Len(Replay(R)) = Cardinality(R) /\ Len(Replay(S)) = Cardinality(S)
      /\ {r.seq : r \in R} = 0..(Cardinality(R) - 1)
      /\ \A r \in R : Replay(R)[r.seq + 1] = r.event
      /\ \A r \in S : Replay(S)[r.seq + 1] = r.event
  BY ReplayOfChain
<1>2. /\ Cardinality(R) \in Nat /\ Cardinality(S) \in Nat
      /\ Cardinality(R) < Cardinality(S)
  <2>1. /\ Cardinality(R) <= Cardinality(S)
        /\ Cardinality(S) = Cardinality(R) => S = R
    BY <1>1, FS_Subset
  <2> QED
    BY <1>1, <2>1, FS_CardinalityType
<1>3. \A i \in 1..Cardinality(R) : Replay(R)[i] = Replay(S)[i]
  <2> SUFFICES ASSUME NEW i \in 1..Cardinality(R) PROVE Replay(R)[i] = Replay(S)[i]
    OBVIOUS
  <2>1. i - 1 \in 0..(Cardinality(R) - 1) /\ (i - 1) + 1 = i
    BY <1>2
  <2>2. PICK r \in R : r.seq = i - 1
    BY <1>1, <2>1
  <2> QED
    BY <1>1, <2>1, <2>2
<1>4. SubSeq(Replay(S), 1, Len(Replay(R))) = Replay(R)
  BY <1>1, <1>2, <1>3
<1> QED
  BY <1>1, <1>2, <1>4 DEF Log!ExtendedBy

-----------------------------------------------------------------------------
(* Steps. *)

RecordsAreChains ==
    \A t \in Tenants, s \in Streams : IsChain(StreamOf(committed, t, s))

\* What others read of each stream is a chain, before and after every step.
LEMMA StreamsAreChains == (IInv => RecordsAreChains) /\ (IInv' => RecordsAreChains')
<1>1. IInv => RecordsAreChains
  BY CommittedIsChain DEF RecordsAreChains
<1> QED
  BY <1>1, PTL

\* A transaction that commits is one batch of its stream's log.
LEMMA PublishAppendsBatch ==
  ASSUME IInv, IInv', NEW u \in Uows, uow[u].phase = "open",
         committed' = committed \cup uow[u].rows
  PROVE  [Log!Next]_Record
<1> DEFINE t == uow[u].tenant
           s == uow[u].stream
           k == <<t, s>>
           Old(x) == StreamOf(committed, x[1], x[2])
           New(x) == StreamOf(committed', x[1], x[2])
<1>1. t \in Tenants /\ s \in Streams /\ k \in Tenants \X Streams
  BY DEF IInv, TypeOK
<1>2. \A r \in uow[u].rows : r.tenant = t /\ r.stream = s
  BY DEF IInv, Owned
<1>3. \A x \in Tenants \X Streams : x # k => New(x) = Old(x)
  BY <1>1, <1>2 DEF StreamOf
<1>4. New(k) = Old(k) \cup uow[u].rows
  BY <1>2 DEF StreamOf
<1>5. IsChain(Old(k))
  BY <1>1, CommittedIsChain
<1>6. IsChain(New(k))
  <2>1. RecordsAreChains'
    BY StreamsAreChains
  <2>2. \A x \in Tenants, y \in Streams : IsChain(StreamOf(committed', x, y))
    BY <2>1 DEF RecordsAreChains, StreamOf, IsChain, SameStream, Linked
  <2> QED
    BY <1>1, <2>2
<1>7. /\ \A x \in Tenants \X Streams : Record[x] = Replay(Old(x)) /\ Record'[x] = Replay(New(x))
      /\ Record = [x \in Tenants \X Streams |-> Record[x]]
      /\ Record' = [x \in Tenants \X Streams |-> Record'[x]]
  BY DEF Record, StreamOf, Replay, Before
<1> HIDE DEF Old, New, k
<1>8. CASE New(k) = Old(k)
  <2>1. \A x \in Tenants \X Streams : Record'[x] = Record[x]
    BY <1>3, <1>7, <1>8
  <2> QED
    BY <1>7, <2>1
<1>9. CASE New(k) # Old(k)
  <2>1. Log!ExtendedBy(Record[k], Record'[k])
    BY <1>1, <1>4, <1>5, <1>6, <1>7, <1>9, ReplayExtends DEF k
  <2>2. Record'[k] \in Seq(Events)
    BY <1>1, <1>6, <1>7, ReplayOfChain DEF k
  <2>3. Record' = [Record EXCEPT ![k] = Record'[k]]
    BY <1>3, <1>7
  <2> QED
    BY <1>1, <2>1, <2>2, <2>3 DEF Log!Next, Log!AppendBatch, k
<1> QED
  BY <1>8, <1>9

\* The record that other sessions read of a stream is an append-only log:
\* whatever appends, commits, conflicts and rollbacks happen, it is never
\* rewritten, shortened or reordered, and grows by whole transactions
\* (ledger/ledger.py 1-6, 68-84).
THEOREM LedgerImplementsLog == Spec => RecordOnlyGrows
<1>1. Init => Log!Init
  <2> SUFFICES ASSUME Init PROVE \A k \in Tenants \X Streams :
                                    Replay(StreamOf(committed, k[1], k[2])) = << >>
    BY DEF Log!Init, Record
  <2>1. Cardinality({}) = 0
    BY FS_EmptySet
  <2> QED
    BY <2>1 DEF Init, StreamOf, Replay
<1>2. IInv /\ IInv' /\ [Next]_vars => [Log!Next]_Record
  <2> SUFFICES ASSUME IInv, IInv', [Next]_vars PROVE [Log!Next]_Record
    OBVIOUS
  <2>1. CASE UNCHANGED committed
    BY <2>1 DEF Record, StreamOf, Replay, Before
  <2>2. CASE \E u \in Uows : Commit(u) \/ ExitClean(u)
    BY <2>2, PublishAppendsBatch DEF Commit, ExitClean
  <2> QED
    BY <2>1, <2>2 DEF Next, vars, Enter, ReadTail, Flush, FlushConflict,
                      Rollback, ExitRaising
<1> QED
  BY <1>1, <1>2, Invariance, PTL DEF Spec, RecordOnlyGrows, Log!Spec
=============================================================================
