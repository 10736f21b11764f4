------------------------- MODULE MarketplaceProofs -------------------------
(***************************************************************************)
(* Theorems of BotLifecycle and of Marketplace on top of it, for any       *)
(* number of bots, definitions, listings and concurrent requests, on the   *)
(* lifecycle or on listings.                                               *)
(*                                                                         *)
(* The lifecycle's invariant, IInv, types the tables, says of every open   *)
(* request that the bot it names exists and that the number it has read is *)
(* not ahead of the bot's (ReadsAreOld), and has the versions of each bot  *)
(* contiguous.  So a request that finds the next number free has read the  *)
(* last one.  AuditInv adds that a request holds a state its version was   *)
(* once in (LoadedSeen): that is what keeps the log true when transitions  *)
(* overlap.  AloneInv is about the histories in which no two requests have *)
(* ever been open together: there an open request holds what the tables    *)
(* hold (UpToDate), so that every step is one of LifecycleContract.        *)
(*                                                                         *)
(* The marketplace's invariant, MarketInv, adds that every state `listed`  *)
(* a table or a request holds is on the audit record (ListedOnRecord),     *)
(* what the requests on listings have read (SaleOK), and that a bot's      *)
(* listings and the publications which have found none are together no     *)
(* more than the requests (Counted).  SalesAlone is about the histories in *)
(* which no two requests on listings have been open together: there a      *)
(* request writes on what the tables hold (SaleTells).                     *)
(***************************************************************************)
EXTENDS MCMarketplace, MCBotLifecycle, FiniteSetTheorems, TLAPS

(***************************************************************************)
(* The lifecycle.                                                          *)
(***************************************************************************)
TablesOK ==
    /\ DOMAIN bots \subseteq Bots
    /\ \A b \in DOMAIN bots : bots[b] \in BotRows
    /\ DOMAIN versions \subseteq Keys
    /\ \A k \in DOMAIN versions : versions[k] \in VersionRows
    /\ audit \in Seq(AuditRows)

\* What a request holds at each stage.
HoldsOK(q) ==
    /\ q.at # "idle" => q.row \in BotRows
    /\ q.at = "publish:bot" => q.definition \in Definitions
    /\ q.at \in {"transition:bot", "transition:version"} => q.to \in BotState
    /\ q.at \in {"transition:version", "qualify:version"} => q.version \in VersionRows

\* A request has read its bot no later than now.
ReadIsOld(q) ==
    q.at # "idle" =>
        /\ q.bot \in DOMAIN bots
        /\ q.row.current_version <= bots[q.bot].current_version

RequestsOK ==
    /\ req \in [Requests -> RequestStates]
    /\ \A r \in Requests : HoldsOK(req[r])

ReadsAreOld == \A r \in Requests : ReadIsOld(req[r])

IInv == TablesOK /\ RequestsOK /\ ReadsAreOld /\ VersionsContiguous

-----------------------------------------------------------------------------
(* Functions and rows. *)

LEMMA IdleTyped == Idle \in RequestStates /\ HoldsOK(Idle) /\ ReadIsOld(Idle)
BY DEF Idle, RequestStates, Stages, HoldsOK, ReadIsOld

\* The key an open request works on is that of an existing version.
LEMMA CurrentKeyExists ==
    ASSUME IInv, NEW r \in Requests, req[r].at # "idle"
    PROVE  /\ CurrentKey(r) \in DOMAIN versions /\ CurrentKey(r) \in Keys
           /\ CurrentKey(r)[1] = req[r].bot /\ req[r].bot \in DOMAIN bots
           /\ versions[CurrentKey(r)] \in VersionRows
<1> DEFINE b == req[r].bot
           n == req[r].row.current_version
<1>1. b \in DOMAIN bots /\ n <= bots[b].current_version
  BY DEF IInv, ReadsAreOld, ReadIsOld
<1>2. req[r].row \in BotRows /\ bots[b] \in BotRows
  BY <1>1 DEF IInv, RequestsOK, HoldsOK, TablesOK
<1>3. n \in Numbers /\ bots[b].current_version \in Numbers
  BY <1>2 DEF BotRows
<1>4. n \in 1..bots[b].current_version
  BY <1>1, <1>3, LifecycleAssumption DEF Numbers
<1>5. n \in {m \in Numbers : <<b, m>> \in DOMAIN versions}
  BY <1>1, <1>4 DEF IInv, VersionsContiguous
<1>6. <<b, n>> \in DOMAIN versions
  BY <1>5
<1> QED
  BY <1>1, <1>6 DEF CurrentKey, IInv, TablesOK

-----------------------------------------------------------------------------
(* Steps of a request that change only what it holds. *)

LEMMA RequestMoves ==
    ASSUME IInv, NEW r \in Requests, NEW q \in RequestStates,
           HoldsOK(q), ReadIsOld(q),
           req' = [req EXCEPT ![r] = q],
           UNCHANGED <<bots, versions, audit>>
    PROVE  IInv'
<1>1. /\ req' \in [Requests -> RequestStates]
      /\ \A s \in Requests : req'[s] = IF s = r THEN q ELSE req[s]
  BY DEF IInv, RequestsOK
<1>2. RequestsOK'
  BY <1>1 DEF IInv, RequestsOK, HoldsOK
<1>3. ReadsAreOld'
  BY <1>1 DEF IInv, ReadsAreOld, ReadIsOld
<1>4. TablesOK' /\ VersionsContiguous'
  BY DEF IInv, TablesOK, VersionsContiguous
<1> QED
  BY <1>2, <1>3, <1>4 DEF IInv

LEMMA LoadBotKeeps ==
    ASSUME IInv, NEW r \in Requests, NEW b \in Bots, NEW i \in RequestStates,
           i.at \notin {"idle", "transition:version", "qualify:version"},
           i.at = "publish:bot" => i.definition \in Definitions,
           i.at = "transition:bot" => i.to \in BotState,
           LoadBot(r, b, i)
    PROVE  IInv'
<1> DEFINE row == bots[b]
           q == [i EXCEPT !.bot = b, !.row = row]
<1>1. row \in BotRows
  BY DEF LoadBot, IInv, TablesOK
<1>2. /\ b \in DOMAIN bots /\ req' = [req EXCEPT ![r] = q]
      /\ UNCHANGED <<bots, versions, audit>>
  BY DEF LoadBot
<1> HIDE DEF row
<1>3. /\ q \in RequestStates /\ q.at = i.at /\ q.definition = i.definition
      /\ q.to = i.to /\ q.bot = b /\ q.row = row
  BY <1>1 DEF RequestStates
<1> HIDE DEF q
<1>4. HoldsOK(q)
  BY <1>1, <1>3 DEF HoldsOK
<1>5. ReadIsOld(q)
  BY <1>1, <1>2, <1>3, LifecycleAssumption DEF ReadIsOld, BotRows, Numbers, row
<1> QED
  BY <1>2, <1>3, <1>4, <1>5, RequestMoves

LEMMA LoadVersionKeeps ==
    ASSUME IInv, NEW r \in Requests, req[r].at # "idle",
           NEW stage \in {"transition:version", "qualify:version"},
           stage = "transition:version" => req[r].to \in BotState,
           LoadVersion(r, stage)
    PROVE  IInv'
<1> DEFINE v == versions[CurrentKey(r)]
           q == [req[r] EXCEPT !.at = stage, !.version = v]
<1>1. req[r] \in RequestStates /\ HoldsOK(req[r]) /\ ReadIsOld(req[r])
  BY DEF IInv, RequestsOK, ReadsAreOld
<1>2. v \in VersionRows
  BY CurrentKeyExists
<1> HIDE DEF v
<1>3. /\ q \in RequestStates
      /\ q.at = stage /\ q.version = v /\ q.row = req[r].row
      /\ q.to = req[r].to /\ q.bot = req[r].bot
  BY <1>1, <1>2 DEF RequestStates, Stages
<1>4. req' = [req EXCEPT ![r] = q] /\ UNCHANGED <<bots, versions, audit>>
  BY DEF LoadVersion, v, IInv, RequestsOK
<1> HIDE DEF q
<1>5. HoldsOK(q) /\ ReadIsOld(q)
  BY <1>1, <1>2, <1>3 DEF HoldsOK, ReadIsOld
<1> QED
  BY <1>3, <1>4, <1>5, RequestMoves

LEMMA RefuseKeeps ==
    ASSUME IInv, NEW r \in Requests, Refuse(r)
    PROVE  IInv'
BY IdleTyped, RequestMoves DEF Refuse

LEMMA ReloadBotKeeps ==
    ASSUME IInv, NEW r \in Requests, QualifyReloadBot(r)
    PROVE  IInv'
<1> DEFINE row == bots[req[r].bot]
           q == [req[r] EXCEPT !.at = "qualify:rebot", !.row = row]
<1>1. /\ req[r] \in RequestStates /\ HoldsOK(req[r]) /\ ReadIsOld(req[r])
      /\ req[r].at = "qualify:backtest"
  BY DEF IInv, RequestsOK, ReadsAreOld, QualifyReloadBot
<1>2. req[r].bot \in DOMAIN bots /\ row \in BotRows
  BY <1>1 DEF ReadIsOld, IInv, TablesOK
<1>3. req' = [req EXCEPT ![r] = q] /\ UNCHANGED <<bots, versions, audit>>
  BY DEF QualifyReloadBot, IInv, RequestsOK
<1> HIDE DEF row
<1>4. /\ q \in RequestStates
      /\ q.at = "qualify:rebot" /\ q.bot = req[r].bot /\ q.row = row
  BY <1>1, <1>2 DEF RequestStates, Stages
<1> HIDE DEF q
<1>5. HoldsOK(q)
  BY <1>2, <1>4 DEF HoldsOK
<1>6. ReadIsOld(q)
  BY <1>2, <1>4, LifecycleAssumption DEF ReadIsOld, BotRows, Numbers, row
<1> QED
  BY <1>3, <1>4, <1>5, <1>6, RequestMoves

LEMMA QualifyLoadVersionKeeps ==
    ASSUME IInv, NEW r \in Requests, QualifyLoadVersion(r)
    PROVE  IInv'
<1> DEFINE d == versions[CurrentKey(r)].definition
           q == [req[r] EXCEPT !.at = "qualify:backtest", !.definition = d]
<1>1. /\ req[r] \in RequestStates /\ HoldsOK(req[r]) /\ ReadIsOld(req[r])
      /\ req[r].at = "qualify:bot"
  BY DEF IInv, RequestsOK, ReadsAreOld, QualifyLoadVersion
<1>2. d \in Definitions
  BY <1>1, CurrentKeyExists DEF VersionRows
<1>3. req' = [req EXCEPT ![r] = q] /\ UNCHANGED <<bots, versions, audit>>
  BY DEF QualifyLoadVersion, IInv, RequestsOK
<1> HIDE DEF d
<1>4. /\ q \in RequestStates
      /\ q.at = "qualify:backtest" /\ q.bot = req[r].bot /\ q.row = req[r].row
  BY <1>1, <1>2 DEF RequestStates, Stages
<1> HIDE DEF q
<1>5. HoldsOK(q) /\ ReadIsOld(q)
  BY <1>1, <1>4 DEF HoldsOK, ReadIsOld
<1> QED
  BY <1>3, <1>4, <1>5, RequestMoves

-----------------------------------------------------------------------------
(* Steps that write the tables. *)

\* Bots whose numbers do not fall keep the reads of requests old.
LEMMA ReadsStayOld ==
    ASSUME IInv, NEW r \in Requests,
           req' = [req EXCEPT ![r] = Idle],
           \A b \in DOMAIN bots :
              /\ b \in DOMAIN bots'
              /\ bots[b].current_version \in Int
              /\ bots'[b].current_version \in Int
              /\ bots[b].current_version <= bots'[b].current_version
    PROVE  RequestsOK' /\ ReadsAreOld'
<1>1. /\ req' \in [Requests -> RequestStates]
      /\ \A s \in Requests : req'[s] = IF s = r THEN Idle ELSE req[s]
  BY IdleTyped DEF IInv, RequestsOK
<1>2. RequestsOK'
  BY <1>1, IdleTyped DEF IInv, RequestsOK, HoldsOK
<1>3. ASSUME NEW s \in Requests
      PROVE  ReadIsOld(req[s])'
  <2>1. CASE s = r
    BY <1>1, <2>1 DEF ReadIsOld, Idle
  <2>2. CASE s # r
    <3>1. req'[s] = req[s] /\ ReadIsOld(req[s]) /\ HoldsOK(req[s])
      BY <1>1, <2>2 DEF IInv, ReadsAreOld, RequestsOK
    <3>2. req[s].at # "idle" => req[s].row.current_version \in Int
      BY <3>1, LifecycleAssumption DEF HoldsOK, BotRows, Numbers
    <3> QED
      BY <3>1, <3>2 DEF ReadIsOld
  <2> QED
    BY <2>1, <2>2
<1> QED
  BY <1>2, <1>3 DEF ReadsAreOld

\* A transition leaves definitions, keys and numbers alone.
LEMMA TransitionKeeps ==
    ASSUME IInv, NEW r \in Requests,
           req[r].at \in {"transition:version", "qualify:version"},
           NEW to \in BotState, NEW stamp \in BOOLEAN,
           Transition(r, to, stamp)
    PROVE  /\ IInv'
           /\ DOMAIN versions' = DOMAIN versions
           /\ \A k \in DOMAIN versions :
                /\ versions'[k].definition = versions[k].definition
                /\ versions'[k].qualified =>
                    versions[k].qualified \/ (stamp /\ k = CurrentKey(r))
<1> DEFINE k == CurrentKey(r)
           b == req[r].bot
<1>1. /\ k \in DOMAIN versions /\ k \in Keys /\ b \in DOMAIN bots
      /\ versions[k] \in VersionRows
  BY CurrentKeyExists
<1>2. /\ HoldsOK(req[r]) /\ req[r].version \in VersionRows
      /\ req[r].row \in BotRows
  BY DEF IInv, RequestsOK, HoldsOK
<1> DEFINE w == [versions[k] EXCEPT !.state = to, !.qualified = @ \/ stamp]
<1>3. /\ w \in VersionRows /\ w.definition = versions[k].definition
      /\ w.qualified => versions[k].qualified \/ stamp
  BY <1>1 DEF VersionRows
<1>4. /\ DOMAIN versions' = DOMAIN versions
      /\ versions'[k] = w
      /\ \A j \in DOMAIN versions : j # k => versions'[j] = versions[j]
  <2>1. versions' = [versions EXCEPT ![k].state = to, ![k].qualified = @ \/ stamp]
    BY DEF Transition
  <2> QED
    BY <1>1, <2>1
<1> HIDE DEF w
<1>5. audit' \in Seq(AuditRows)
  <2>1. /\ audit' = Append(audit, [version |-> k, from |-> req[r].version.state,
                                   to |-> to])
        /\ audit \in Seq(AuditRows)
    BY DEF Transition, IInv, TablesOK
  <2>2. [version |-> k, from |-> req[r].version.state, to |-> to] \in AuditRows
    BY <1>1, <1>2 DEF AuditRows, VersionRows
  <2> QED
    BY <2>1, <2>2
<1>6. /\ DOMAIN bots' = DOMAIN bots
      /\ \A c \in DOMAIN bots :
            /\ bots'[c] \in BotRows
            /\ bots'[c].current_version = bots[c].current_version
  <2>1. Mirror(r, to)
    BY DEF Transition
  <2>2. \A c \in DOMAIN bots : bots[c] \in BotRows
    BY DEF IInv, TablesOK
  <2>3. CASE to = req[r].row.state
    BY <2>1, <2>2, <2>3 DEF Mirror
  <2>4. CASE to # req[r].row.state
    <3> DEFINE z == [bots[b] EXCEPT !.state = to]
    <3>1. z \in BotRows /\ z.current_version = bots[b].current_version
      BY <1>1, <2>2 DEF BotRows
    <3>2. /\ DOMAIN bots' = DOMAIN bots /\ bots'[b] = z
          /\ \A c \in DOMAIN bots : c # b => bots'[c] = bots[c]
      BY <1>1, <2>1, <2>4 DEF Mirror
    <3> HIDE DEF z
    <3> QED
      BY <2>2, <3>1, <3>2
  <2> QED
    BY <2>3, <2>4
<1>7. TablesOK'
  BY <1>3, <1>4, <1>5, <1>6 DEF IInv, TablesOK
<1>8. req' = [req EXCEPT ![r] = Idle]
  BY DEF Transition
<1>9. RequestsOK' /\ ReadsAreOld'
  <2>1. \A c \in DOMAIN bots : bots[c].current_version \in Int
    BY LifecycleAssumption DEF IInv, TablesOK, BotRows, Numbers
  <2>2. \A c \in DOMAIN bots :
            /\ c \in DOMAIN bots'
            /\ bots[c].current_version \in Int
            /\ bots'[c].current_version \in Int
            /\ bots[c].current_version <= bots'[c].current_version
    BY <1>6, <2>1
  <2> QED
    BY <1>8, <2>2, ReadsStayOld
<1>10. VersionsContiguous'
  BY <1>4, <1>6 DEF IInv, VersionsContiguous
<1> QED
  BY <1>3, <1>4, <1>7, <1>9, <1>10 DEF IInv

\* A publication that commits has read the bot's last number.
LEMMA PublishKeeps ==
    ASSUME IInv, NEW r \in Requests, PublishCommit(r)
    PROVE  /\ IInv'
           /\ DOMAIN versions \subseteq DOMAIN versions'
           /\ \A k \in DOMAIN versions : versions'[k] = versions[k]
           /\ \A k \in DOMAIN versions' \ DOMAIN versions : ~versions'[k].qualified
           /\ audit' = audit
<1> DEFINE b == req[r].bot
           n == req[r].row.current_version
           v == Draft(req[r].definition)
<1>1. /\ req[r].at = "publish:bot" /\ n < MaxVersion
      /\ <<b, n + 1>> \notin DOMAIN versions
      /\ versions' = With(versions, <<b, n + 1>>, v)
      /\ bots' = [bots EXCEPT ![b].current_version = n + 1]
      /\ req' = [req EXCEPT ![r] = Idle]
      /\ audit' = audit
  BY DEF PublishCommit, NumberIsFree, NextKey
<1>2. /\ HoldsOK(req[r]) /\ ReadIsOld(req[r])
      /\ req[r].row \in BotRows /\ req[r].definition \in Definitions
  BY <1>1 DEF IInv, RequestsOK, ReadsAreOld, HoldsOK
<1>3. b \in DOMAIN bots /\ b \in Bots /\ bots[b] \in BotRows
  BY <1>1, <1>2 DEF ReadIsOld, IInv, TablesOK
<1>4. /\ n \in Nat /\ n + 1 \in Numbers /\ bots[b].current_version \in Nat
      /\ n <= bots[b].current_version
  BY <1>1, <1>2, <1>3, LifecycleAssumption DEF ReadIsOld, BotRows, Numbers
<1>5. bots[b].current_version = n
  <2>1. n + 1 \notin {m \in Numbers : <<b, m>> \in DOMAIN versions}
    BY <1>1
  <2>2. n + 1 \notin 1..bots[b].current_version
    BY <1>3, <2>1 DEF IInv, VersionsContiguous
  <2> QED
    BY <1>4, <2>2
<1>6. v \in VersionRows /\ ~v.qualified
  BY <1>2 DEF Draft, VersionRows, BotState
<1> HIDE DEF v
<1>7. /\ DOMAIN versions' = DOMAIN versions \cup {<<b, n + 1>>}
      /\ versions'[<<b, n + 1>>] = v
      /\ \A k \in DOMAIN versions : versions'[k] = versions[k]
  <2> DEFINE key == <<b, n + 1>>
  <2>1. key \notin DOMAIN versions /\ versions' = With(versions, key, v)
    BY <1>1
  <2> HIDE DEF key
  <2>2. /\ DOMAIN versions' = DOMAIN versions \cup {key}
        /\ versions'[key] = v
        /\ \A k \in DOMAIN versions : versions'[k] = versions[k]
    BY <2>1 DEF With
  <2> QED
    BY <2>2 DEF key
<1> DEFINE z == [bots[b] EXCEPT !.current_version = n + 1]
<1>8. z \in BotRows /\ z.current_version = n + 1
  BY <1>3, <1>4 DEF BotRows
<1>9. /\ DOMAIN bots' = DOMAIN bots /\ bots'[b] = z
      /\ \A c \in DOMAIN bots : c # b => bots'[c] = bots[c]
  BY <1>1, <1>3
<1> HIDE DEF z
<1>10. TablesOK'
  <2>1. <<b, n + 1>> \in Keys
    BY <1>3, <1>4 DEF Keys
  <2> QED
    BY <1>1, <1>6, <1>7, <1>8, <1>9, <2>1 DEF IInv, TablesOK
<1>11. RequestsOK' /\ ReadsAreOld'
  <2>1. \A c \in DOMAIN bots : bots[c].current_version \in Int
    BY LifecycleAssumption DEF IInv, TablesOK, BotRows, Numbers
  <2>2. \A c \in DOMAIN bots :
            /\ c \in DOMAIN bots'
            /\ bots[c].current_version \in Int
            /\ bots'[c].current_version \in Int
            /\ bots[c].current_version <= bots'[c].current_version
    BY <1>4, <1>5, <1>8, <1>9, <2>1
  <2> QED
    BY <1>1, <2>2, ReadsStayOld
<1>12. VersionsContiguous'
  <2>1. \A k \in DOMAIN versions' : k[1] \in DOMAIN bots'
    BY <1>3, <1>7, <1>9 DEF IInv, VersionsContiguous
  <2>2. ASSUME NEW c \in DOMAIN bots
        PROVE  {m \in Numbers : <<c, m>> \in DOMAIN versions'}
                 = 1..bots'[c].current_version
    <3>1. {m \in Numbers : <<c, m>> \in DOMAIN versions} = 1..bots[c].current_version
      BY DEF IInv, VersionsContiguous
    <3>2. CASE c = b
      <4>1. {m \in Numbers : <<c, m>> \in DOMAIN versions'}
              = {m \in Numbers : <<c, m>> \in DOMAIN versions} \cup {n + 1}
        BY <1>4, <1>7, <3>2
      <4>2. 1..(n + 1) = 1..n \cup {n + 1}
        BY <1>4
      <4> QED
        BY <1>5, <1>8, <1>9, <3>1, <3>2, <4>1, <4>2
    <3>3. CASE c # b
      <4>1. \A m : <<c, m>> \in DOMAIN versions' <=> <<c, m>> \in DOMAIN versions
        BY <1>7, <3>3
      <4> QED
        BY <1>9, <3>1, <3>3, <4>1
    <3> QED
      BY <3>2, <3>3
  <2> QED
    BY <1>9, <2>1, <2>2 DEF VersionsContiguous
<1> QED
  BY <1>1, <1>6, <1>7, <1>10, <1>11, <1>12 DEF IInv

\* Creating a bot adds a row to each table.
LEMMA CreateKeeps ==
    ASSUME IInv, NEW b \in Bots, NEW d \in Definitions, CreateBot(b, d)
    PROVE  /\ IInv'
           /\ DOMAIN versions \subseteq DOMAIN versions'
           /\ \A k \in DOMAIN versions : versions'[k] = versions[k]
           /\ \A k \in DOMAIN versions' \ DOMAIN versions : ~versions'[k].qualified
           /\ audit' = audit
<1> DEFINE row == [current_version |-> 1, state |-> "draft"]
           v == Draft(d)
<1>1. /\ b \notin DOMAIN bots
      /\ bots' = With(bots, b, row)
      /\ versions' = With(versions, <<b, 1>>, v)
      /\ audit' = audit /\ req' = req
  BY DEF CreateBot
<1>2. /\ row \in BotRows /\ row.current_version = 1
      /\ v \in VersionRows /\ ~v.qualified /\ 1 \in Numbers
  BY LifecycleAssumption DEF BotRows, VersionRows, Draft, BotState, Numbers
<1> HIDE DEF row, v
<1>3. <<b, 1>> \notin DOMAIN versions
  BY <1>1 DEF IInv, VersionsContiguous
<1>4. /\ DOMAIN versions' = DOMAIN versions \cup {<<b, 1>>}
      /\ versions'[<<b, 1>>] = v
      /\ \A k \in DOMAIN versions : versions'[k] = versions[k]
  BY <1>1, <1>3 DEF With
<1>5. /\ DOMAIN bots' = DOMAIN bots \cup {b}
      /\ bots'[b] = row
      /\ \A c \in DOMAIN bots : bots'[c] = bots[c]
  BY <1>1 DEF With
<1>6. TablesOK'
  <2>1. <<b, 1>> \in Keys
    BY <1>2 DEF Keys
  <2> QED
    BY <1>1, <1>2, <1>4, <1>5, <2>1 DEF IInv, TablesOK
<1>7. RequestsOK' /\ ReadsAreOld'
  BY <1>1, <1>5 DEF IInv, RequestsOK, ReadsAreOld, ReadIsOld, HoldsOK
<1>8. VersionsContiguous'
  <2>1. \A k \in DOMAIN versions' : k[1] \in DOMAIN bots'
    BY <1>4, <1>5 DEF IInv, VersionsContiguous
  <2>2. {m \in Numbers : <<b, m>> \in DOMAIN versions'} = 1..1
    <3>1. \A m : <<b, m>> \in DOMAIN versions' <=> m = 1
      BY <1>1, <1>4 DEF IInv, VersionsContiguous
    <3> QED
      BY <1>2, <3>1
  <2>3. ASSUME NEW c \in DOMAIN bots
        PROVE  {m \in Numbers : <<c, m>> \in DOMAIN versions'}
                 = 1..bots'[c].current_version
    <3>1. {m \in Numbers : <<c, m>> \in DOMAIN versions} = 1..bots[c].current_version
      BY DEF IInv, VersionsContiguous
    <3>2. \A m : <<c, m>> \in DOMAIN versions' <=> <<c, m>> \in DOMAIN versions
      BY <1>1, <1>4
    <3> QED
      BY <1>5, <3>1, <3>2
  <2> QED
    BY <1>2, <1>5, <2>1, <2>2, <2>3 DEF VersionsContiguous
<1> QED
  BY <1>1, <1>2, <1>4, <1>6, <1>7, <1>8 DEF IInv

\* A qualification that moves no version still writes the mirror.
LEMMA MirrorKeeps ==
    ASSUME IInv, NEW r \in Requests, NEW state \in BotState, Mirror(r, state),
           req' = [req EXCEPT ![r] = Idle], UNCHANGED <<versions, audit>>
    PROVE  IInv'
<1>1. /\ DOMAIN bots' = DOMAIN bots
      /\ \A c \in DOMAIN bots :
            /\ bots'[c] \in BotRows
            /\ bots'[c].current_version = bots[c].current_version
  <2>1. \A c \in DOMAIN bots : bots[c] \in BotRows
    BY DEF IInv, TablesOK
  <2>2. CASE bots' = bots
    BY <2>1, <2>2
  <2>3. CASE bots' = [bots EXCEPT ![req[r].bot].state = state]
    <3> DEFINE b == req[r].bot
               z == [bots[b] EXCEPT !.state = state]
    <3>1. b \in DOMAIN bots =>
            z \in BotRows /\ z.current_version = bots[b].current_version
      BY <2>1 DEF BotRows
    <3>2. /\ DOMAIN bots' = DOMAIN bots
          /\ b \in DOMAIN bots => bots'[b] = z
          /\ \A c \in DOMAIN bots : c # b => bots'[c] = bots[c]
      BY <2>3
    <3> HIDE DEF z
    <3> QED
      BY <2>1, <3>1, <3>2
  <2> QED
    BY <2>2, <2>3 DEF Mirror
<1>2. TablesOK' /\ VersionsContiguous'
  BY <1>1 DEF IInv, TablesOK, VersionsContiguous
<1>3. RequestsOK' /\ ReadsAreOld'
  <2>1. \A c \in DOMAIN bots : bots[c].current_version \in Int
    BY LifecycleAssumption DEF IInv, TablesOK, BotRows, Numbers
  <2>2. \A c \in DOMAIN bots :
            /\ c \in DOMAIN bots'
            /\ bots[c].current_version \in Int
            /\ bots'[c].current_version \in Int
            /\ bots[c].current_version <= bots'[c].current_version
    BY <1>1, <2>1
  <2> QED
    BY <2>2, ReadsStayOld
<1> QED
  BY <1>2, <1>3 DEF IInv

-----------------------------------------------------------------------------
(* The invariant. *)

LEMMA InitIInv == Init => IInv
<1> SUFFICES ASSUME Init
             PROVE  IInv
  OBVIOUS
<1>1. TablesOK
  BY DEF Init, TablesOK
<1>2. RequestsOK /\ ReadsAreOld
  BY IdleTyped DEF Init, RequestsOK, ReadsAreOld
<1>3. VersionsContiguous
  BY DEF Init, VersionsContiguous
<1> QED
  BY <1>1, <1>2, <1>3 DEF IInv

\* What every step keeps of the versions there were: the definition, and the
\* lack of a stamp unless the step lists the version from evaluation.
VersionsKept ==
    \A k \in DOMAIN versions :
        /\ k \in DOMAIN versions'
        /\ versions'[k].definition = versions[k].definition
        /\ versions'[k].qualified =>
            \/ versions[k].qualified
            \/ audit' = Append(audit, [version |-> k, from |-> "evaluation",
                                       to |-> "listed"])
NewUnqualified ==
    \A k \in DOMAIN versions' \ DOMAIN versions : ~versions'[k].qualified
AuditGrows == audit' = audit \/ \E a \in AuditRows : audit' = Append(audit, a)

\* A step either leaves the versions and the audit log alone or is one of
\* the writes above.
Kept == IInv' /\ VersionsKept /\ NewUnqualified /\ AuditGrows

LEMMA QuietStep ==
    ASSUME IInv', UNCHANGED <<versions, audit>>
    PROVE  Kept
BY DEF Kept, VersionsKept, NewUnqualified, AuditGrows

LEMMA TransitionStep ==
    ASSUME IInv, NEW r \in Requests,
           req[r].at \in {"transition:version", "qualify:version"},
           NEW to \in BotState, NEW stamp \in BOOLEAN,
           stamp => req[r].version.state = "evaluation" /\ to = "listed",
           Transition(r, to, stamp)
    PROVE  Kept
<1>1. /\ IInv'
      /\ DOMAIN versions' = DOMAIN versions
      /\ \A k \in DOMAIN versions :
            /\ versions'[k].definition = versions[k].definition
            /\ versions'[k].qualified =>
                versions[k].qualified \/ (stamp /\ k = CurrentKey(r))
  BY TransitionKeeps
<1>2. audit' = Append(audit, [version |-> CurrentKey(r),
                              from |-> req[r].version.state, to |-> to])
  BY DEF Transition
<1>3. [version |-> CurrentKey(r), from |-> req[r].version.state, to |-> to]
        \in AuditRows
  <2>1. CurrentKey(r) \in Keys
    BY CurrentKeyExists
  <2>2. req[r].version.state \in BotState
    BY DEF IInv, RequestsOK, HoldsOK, VersionRows
  <2> QED
    BY <2>1, <2>2 DEF AuditRows
<1> QED
  BY <1>1, <1>2, <1>3 DEF Kept, VersionsKept, NewUnqualified, AuditGrows

LEMMA OutcomeTyped ==
    ASSUME NEW passed \in BOOLEAN, NEW state \in BotState
    PROVE  /\ Outcome(passed, state) \in BotState
           /\ Stamped(passed, state) \in BOOLEAN
           /\ Stamped(passed, state) =>
                state = "evaluation" /\ Outcome(passed, state) = "listed"
BY DEF Outcome, Stamped, BotState

LEMMA QualifyCommitKeeps ==
    ASSUME IInv, NEW r \in Requests, QualifyCommit(r)
    PROVE  Kept
<1> DEFINE passed == req[r].definition \in Qualifying
           state == req[r].version.state
           to == Outcome(passed, state)
<1>1. req[r].at = "qualify:version" /\ state \in BotState
  BY DEF QualifyCommit, IInv, RequestsOK, HoldsOK, VersionRows
<1>2. passed \in BOOLEAN
  OBVIOUS
<1>3. CASE /\ to # state
           /\ Transition(r, to, Stamped(passed, state))
  <2>1. Transition(r, to, Stamped(passed, state))
    BY <1>3
  <2> HIDE DEF passed
  <2>2. /\ to \in BotState /\ Stamped(passed, state) \in BOOLEAN
        /\ Stamped(passed, state) => state = "evaluation" /\ to = "listed"
    BY <1>1, <1>2, OutcomeTyped
  <2> HIDE DEF to
  <2> QED
    BY <1>1, <2>1, <2>2, TransitionStep
<1>4. CASE /\ to = state
           /\ Mirror(r, state)
           /\ req' = [req EXCEPT ![r] = Idle]
           /\ UNCHANGED <<versions, audit>>
  BY <1>1, <1>4, MirrorKeeps, QuietStep
<1> QED
  BY <1>3, <1>4 DEF QualifyCommit

\* The requests that start: what each holds once its bot is loaded.
LEMMA PublishLoadBotKeeps ==
    ASSUME IInv, NEW r \in Requests, NEW b \in Bots, NEW d \in Definitions,
           PublishLoadBot(r, b, d)
    PROVE  Kept
<1> DEFINE i == [Idle EXCEPT !.at = "publish:bot", !.definition = d]
<1>1. i \in RequestStates /\ i.at = "publish:bot" /\ i.definition = d
  BY IdleTyped DEF RequestStates, Stages
<1>2. LoadBot(r, b, i)
  BY DEF PublishLoadBot
<1> HIDE DEF i
<1>3. IInv'
  BY <1>1, <1>2, LoadBotKeeps
<1> QED
  BY <1>2, <1>3, QuietStep DEF LoadBot

LEMMA TransitionLoadBotKeeps ==
    ASSUME IInv, NEW r \in Requests, NEW b \in Bots, NEW to \in BotState,
           TransitionLoadBot(r, b, to)
    PROVE  Kept
<1> DEFINE i == [Idle EXCEPT !.at = "transition:bot", !.to = to]
<1>1. i \in RequestStates /\ i.at = "transition:bot" /\ i.to = to
  BY IdleTyped DEF RequestStates, Stages
<1>2. LoadBot(r, b, i)
  BY DEF TransitionLoadBot
<1> HIDE DEF i
<1>3. IInv'
  BY <1>1, <1>2, LoadBotKeeps
<1> QED
  BY <1>2, <1>3, QuietStep DEF LoadBot

LEMMA QualifyLoadBotKeeps ==
    ASSUME IInv, NEW r \in Requests, NEW b \in Bots, QualifyLoadBot(r, b)
    PROVE  Kept
<1> DEFINE i == [Idle EXCEPT !.at = "qualify:bot"]
<1>1. i \in RequestStates /\ i.at = "qualify:bot"
  BY IdleTyped DEF RequestStates, Stages
<1>2. LoadBot(r, b, i)
  BY DEF QualifyLoadBot
<1> HIDE DEF i
<1>3. IInv'
  BY <1>1, <1>2, LoadBotKeeps
<1> QED
  BY <1>2, <1>3, QuietStep DEF LoadBot

LEMMA StepKept ==
    ASSUME IInv, LifecycleNext
    PROVE  Kept
<1>1. ASSUME NEW b \in Bots, NEW d \in Definitions, CreateBot(b, d)
      PROVE  Kept
  BY <1>1, CreateKeeps DEF Kept, VersionsKept, NewUnqualified, AuditGrows
<1>2. ASSUME NEW r \in Requests, PublishCommit(r)
      PROVE  Kept
  BY <1>2, PublishKeeps DEF Kept, VersionsKept, NewUnqualified, AuditGrows
<1>3. ASSUME NEW r \in Requests,
             PublishRefused(r) \/ TransitionRefused(r) \/ QualifyRefused(r)
      PROVE  Kept
  <2>1. Refuse(r)
    BY <1>3 DEF PublishRefused, TransitionRefused, QualifyRefused
  <2> QED
    BY <2>1, RefuseKeeps, QuietStep DEF Refuse
<1>4. ASSUME NEW r \in Requests, TransitionLoadVersion(r)
      PROVE  Kept
  <2>1. LoadVersion(r, "transition:version") /\ req[r].at = "transition:bot"
    BY <1>4 DEF TransitionLoadVersion
  <2>2. req[r].to \in BotState
    BY <2>1 DEF IInv, RequestsOK, HoldsOK
  <2>3. IInv'
    BY <2>1, <2>2, LoadVersionKeeps
  <2> QED
    BY <2>1, <2>3, QuietStep DEF LoadVersion
<1>5. ASSUME NEW r \in Requests, TransitionCommit(r)
      PROVE  Kept
  <2>1. req[r].at = "transition:version" /\ Transition(r, req[r].to, FALSE)
    BY <1>5 DEF TransitionCommit
  <2>2. req[r].to \in BotState
    BY <2>1 DEF IInv, RequestsOK, HoldsOK
  <2> QED
    BY <2>1, <2>2, TransitionStep
<1>6. ASSUME NEW r \in Requests, QualifyLoadVersion(r)
      PROVE  Kept
  BY <1>6, QualifyLoadVersionKeeps, QuietStep DEF QualifyLoadVersion
<1>7. ASSUME NEW r \in Requests, QualifyReloadBot(r)
      PROVE  Kept
  BY <1>7, ReloadBotKeeps, QuietStep DEF QualifyReloadBot
<1>8. ASSUME NEW r \in Requests, QualifyReloadVersion(r)
      PROVE  Kept
  <2>1. LoadVersion(r, "qualify:version") /\ req[r].at = "qualify:rebot"
    BY <1>8 DEF QualifyReloadVersion
  <2>2. IInv'
    BY <2>1, LoadVersionKeeps
  <2> QED
    BY <2>1, <2>2, QuietStep DEF LoadVersion
<1>9. ASSUME NEW r \in Requests, QualifyCommit(r)
       PROVE  Kept
  BY <1>9, QualifyCommitKeeps
<1> QED
  BY <1>1, <1>2, <1>3, <1>4, <1>5, <1>6, <1>7, <1>8, <1>9,
     PublishLoadBotKeeps, TransitionLoadBotKeeps, QualifyLoadBotKeeps
     DEF LifecycleNext

LEMMA StutterKept ==
    ASSUME IInv, UNCHANGED lifecycleVars
    PROVE  Kept
<1>1. IInv'
  BY DEF lifecycleVars, IInv, TablesOK, RequestsOK, HoldsOK, ReadsAreOld,
         ReadIsOld, VersionsContiguous
<1> QED
  BY <1>1, QuietStep DEF lifecycleVars

-----------------------------------------------------------------------------
(* What requests read. *)

\* What an open request has read is what the tables hold.
UpToDate(q) ==
    q.at # "idle" =>
        LET k == <<q.bot, q.row.current_version>>
        IN  /\ q.row = bots[q.bot]
            /\ q.at \in {"transition:version", "qualify:version"} =>
                q.version = versions[k]
            /\ q.at = "transition:version" => q.to \in Allowed[versions[k].state]
            /\ q.at \in {"qualify:backtest", "qualify:rebot", "qualify:version"} =>
                /\ versions[k].state = "evaluation"
                /\ q.definition = versions[k].definition

\* The steps of a request up to its commit.
Reads(r) ==
    \/ \E b \in Bots, d \in Definitions : PublishLoadBot(r, b, d)
    \/ \E b \in Bots, to \in BotState : TransitionLoadBot(r, b, to)
    \/ \E b \in Bots : QualifyLoadBot(r, b)
    \/ PublishRefused(r) \/ TransitionRefused(r) \/ QualifyRefused(r)
    \/ TransitionLoadVersion(r) \/ QualifyLoadVersion(r)
    \/ QualifyReloadBot(r) \/ QualifyReloadVersion(r)

\* A request that gets to the version loads the present row of it.
LoadsVersion(r, q) ==
    q.at \in {"transition:version", "qualify:version"} =>
        /\ req[r].at # "idle" /\ q.bot = req[r].bot /\ q.row = req[r].row
        /\ q.version = versions[CurrentKey(r)]

\* Such a step leaves the tables alone, and the request holds what they hold
\* if it did before.
LEMMA ReadsLoad ==
    ASSUME IInv, NEW r \in Requests, Reads(r)
    PROVE  /\ UNCHANGED <<bots, versions, audit>>
           /\ \E q \in RequestStates :
                /\ req' = [req EXCEPT ![r] = q]
                /\ LoadsVersion(r, q)
                /\ UpToDate(req[r]) => UpToDate(q)
<1>1. req[r] \in RequestStates /\ HoldsOK(req[r])
  BY DEF IInv, RequestsOK
<1>2. ASSUME NEW b \in Bots, NEW i \in RequestStates, LoadBot(r, b, i),
             i.at \in {"publish:bot", "transition:bot", "qualify:bot"}
      PROVE  /\ UNCHANGED <<bots, versions, audit>>
             /\ \E q \in RequestStates :
                  req' = [req EXCEPT ![r] = q] /\ UpToDate(q) /\ LoadsVersion(r, q)
  <2> DEFINE row == bots[b]
             q == [i EXCEPT !.bot = b, !.row = row]
  <2>1. /\ req' = [req EXCEPT ![r] = q] /\ UNCHANGED <<bots, versions, audit>>
        /\ row \in BotRows
    BY <1>2 DEF LoadBot, IInv, TablesOK
  <2>h. row = bots[b]
    OBVIOUS
  <2> HIDE DEF row
  <2>2. q \in RequestStates /\ q.at = i.at /\ q.row = row /\ q.bot = b
    BY <2>1 DEF RequestStates
  <2> HIDE DEF q
  <2>3. UpToDate(q) /\ LoadsVersion(r, q)
    BY <1>2, <2>h, <2>2 DEF UpToDate, LoadsVersion
  <2> QED
    BY <2>1, <2>2, <2>3
<1>3. ASSUME NEW b \in Bots, NEW d \in Definitions, PublishLoadBot(r, b, d)
      PROVE  \E i \in RequestStates : LoadBot(r, b, i) /\ i.at = "publish:bot"
  <2> DEFINE i == [Idle EXCEPT !.at = "publish:bot", !.definition = d]
  <2>1. i \in RequestStates /\ i.at = "publish:bot"
    BY IdleTyped DEF RequestStates, Stages
  <2>2. LoadBot(r, b, i)
    BY <1>3 DEF PublishLoadBot
  <2> HIDE DEF i
  <2> QED
    BY <2>1, <2>2
<1>4. ASSUME NEW b \in Bots, NEW to \in BotState, TransitionLoadBot(r, b, to)
      PROVE  \E i \in RequestStates : LoadBot(r, b, i) /\ i.at = "transition:bot"
  <2> DEFINE i == [Idle EXCEPT !.at = "transition:bot", !.to = to]
  <2>1. i \in RequestStates /\ i.at = "transition:bot"
    BY IdleTyped DEF RequestStates, Stages
  <2>2. LoadBot(r, b, i)
    BY <1>4 DEF TransitionLoadBot
  <2> HIDE DEF i
  <2> QED
    BY <2>1, <2>2
<1>5. ASSUME NEW b \in Bots, QualifyLoadBot(r, b)
      PROVE  \E i \in RequestStates : LoadBot(r, b, i) /\ i.at = "qualify:bot"
  <2> DEFINE i == [Idle EXCEPT !.at = "qualify:bot"]
  <2>1. i \in RequestStates /\ i.at = "qualify:bot"
    BY IdleTyped DEF RequestStates, Stages
  <2>2. LoadBot(r, b, i)
    BY <1>5 DEF QualifyLoadBot
  <2> HIDE DEF i
  <2> QED
    BY <2>1, <2>2
<1>6. CASE PublishRefused(r) \/ TransitionRefused(r) \/ QualifyRefused(r)
  <2>1. req' = [req EXCEPT ![r] = Idle] /\ UNCHANGED <<bots, versions, audit>>
    BY <1>6 DEF PublishRefused, TransitionRefused, QualifyRefused, Refuse
  <2>2. Idle.at = "idle"
    BY DEF Idle
  <2> QED
    BY <2>1, <2>2, IdleTyped DEF UpToDate, LoadsVersion
<1> DEFINE v == versions[CurrentKey(r)]
<1>7. CASE TransitionLoadVersion(r) \/ QualifyReloadVersion(r)
  <2>1. PICK stage \in {"transition:version", "qualify:version"} :
            /\ LoadVersion(r, stage) /\ req[r].at # "idle"
            /\ stage = "transition:version" => req[r].to \in Allowed[v.state]
            /\ stage = "qualify:version" => req[r].at = "qualify:rebot"
    BY <1>7 DEF TransitionLoadVersion, QualifyReloadVersion
  <2>2. v \in VersionRows /\ v = versions[<<req[r].bot, req[r].row.current_version>>]
    BY <2>1, CurrentKeyExists DEF CurrentKey
  <2>3. /\ req' = [req EXCEPT ![r] = [req[r] EXCEPT !.at = stage, !.version = v]]
        /\ UNCHANGED <<bots, versions, audit>>
    BY <2>1 DEF LoadVersion, IInv, RequestsOK
  <2> HIDE DEF v
  <2> DEFINE q == [req[r] EXCEPT !.at = stage, !.version = v]
  <2>4. /\ q.bot = req[r].bot /\ q.row = req[r].row /\ q.version = v
        /\ q.at = stage /\ q.definition = req[r].definition /\ q.to = req[r].to
        /\ q \in RequestStates
    BY <1>1, <2>2 DEF RequestStates, Stages
  <2>5. req' = [req EXCEPT ![r] = q]
    BY <2>3
  <2> HIDE DEF q
  <2>6. UpToDate(req[r]) => UpToDate(q)
    BY <2>1, <2>2, <2>4 DEF UpToDate
  <2>7. LoadsVersion(r, q)
    BY <2>1, <2>2, <2>4 DEF LoadsVersion, CurrentKey
  <2> QED
    BY <2>3, <2>4, <2>5, <2>6, <2>7
<1>8. CASE QualifyLoadVersion(r)
  <2> DEFINE d == v.definition
  <2>1. /\ req[r].at = "qualify:bot" /\ v.state = "evaluation"
        /\ req' = [req EXCEPT ![r] = [req[r] EXCEPT !.at = "qualify:backtest",
                                                    !.definition = d]]
        /\ UNCHANGED <<bots, versions, audit>>
    BY <1>8 DEF QualifyLoadVersion, IInv, RequestsOK
  <2>2. /\ d \in Definitions /\ d = v.definition
        /\ v = versions[<<req[r].bot, req[r].row.current_version>>]
    BY <2>1, CurrentKeyExists DEF CurrentKey, VersionRows
  <2> HIDE DEF v, d
  <2> DEFINE q == [req[r] EXCEPT !.at = "qualify:backtest", !.definition = d]
  <2>3. /\ q.bot = req[r].bot /\ q.row = req[r].row
        /\ q.at = "qualify:backtest" /\ q.definition = d
        /\ q \in RequestStates
    BY <1>1, <2>2 DEF RequestStates, Stages
  <2>4. req' = [req EXCEPT ![r] = q]
    BY <2>1
  <2> HIDE DEF q
  <2>5. UpToDate(req[r]) => UpToDate(q)
    BY <2>1, <2>2, <2>3 DEF UpToDate
  <2>6. LoadsVersion(r, q)
    BY <2>3 DEF LoadsVersion
  <2> QED
    BY <2>1, <2>3, <2>4, <2>5, <2>6
<1>9. CASE QualifyReloadBot(r)
  <2> DEFINE row == bots[req[r].bot]
  <2>1. /\ req[r].at = "qualify:backtest"
        /\ req' = [req EXCEPT ![r] = [req[r] EXCEPT !.at = "qualify:rebot", !.row = row]]
        /\ UNCHANGED <<bots, versions, audit>>
    BY <1>9 DEF QualifyReloadBot, IInv, RequestsOK
  <2>2. row \in BotRows /\ row = bots[req[r].bot]
    BY <2>1, CurrentKeyExists DEF IInv, TablesOK
  <2> HIDE DEF row
  <2> DEFINE q == [req[r] EXCEPT !.at = "qualify:rebot", !.row = row]
  <2>3. /\ q.bot = req[r].bot /\ q.row = row /\ q.at = "qualify:rebot"
        /\ q.definition = req[r].definition /\ q \in RequestStates
    BY <1>1, <2>2 DEF RequestStates, Stages
  <2>4. req' = [req EXCEPT ![r] = q]
    BY <2>1
  <2> HIDE DEF q
  <2>5. UpToDate(req[r]) => UpToDate(q)
    BY <2>1, <2>2, <2>3 DEF UpToDate
  <2>6. LoadsVersion(r, q)
    BY <2>3 DEF LoadsVersion
  <2> QED
    BY <2>1, <2>3, <2>4, <2>5, <2>6
<1> HIDE DEF v
<1> QED
  BY <1>2, <1>3, <1>4, <1>5, <1>6, <1>7, <1>8, <1>9 DEF Reads

-----------------------------------------------------------------------------
(* The audit log and the table. *)

\* The states a version has been in, on the record, and "draft".
StatesSeen(k) == {"draft"} \cup {audit[j].to : j \in RecordsOf(k)}

\* A request that has loaded a version holds a state the version was once in.
LoadedSeen ==
    \A r \in Requests :
        req[r].at \in {"transition:version", "qualify:version"} =>
            req[r].version.state \in StatesSeen(CurrentKey(r))

\* Records are those of versions that exist, and the present state of a
\* version is one of those it has been in.
AuditInv ==
    /\ \A i \in DOMAIN audit : audit[i].version \in DOMAIN versions
    /\ \A k \in DOMAIN versions : versions[k].state \in StatesSeen(k)
    /\ LoadedSeen
    /\ AuditTellsState

\* Where the log is unchanged, requests that load nothing but what is in the
\* table keep the invariant.
LEMMA QuietKeepsAudit ==
    ASSUME IInv, AuditInv, UNCHANGED <<versions, audit>>,
           NEW r \in Requests, NEW q, req' = [req EXCEPT ![r] = q],
           q.at \in {"transition:version", "qualify:version"} =>
                /\ req[r].at # "idle" /\ q.bot = req[r].bot /\ q.row = req[r].row
                /\ q.version = versions[CurrentKey(r)]
    PROVE  AuditInv'
<1>1. \A s \in Requests : req'[s] = IF s = r THEN q ELSE req[s]
  BY DEF IInv, RequestsOK
<1>2. \A k : RecordsOf(k)' = RecordsOf(k) /\ StatesSeen(k)' = StatesSeen(k)
  BY DEF RecordsOf, StatesSeen
<1>3. LoadedSeen'
  <2> SUFFICES ASSUME NEW s \in Requests,
                      req'[s].at \in {"transition:version", "qualify:version"}
               PROVE  req'[s].version.state \in StatesSeen(CurrentKey(s)')
    BY <1>2 DEF LoadedSeen
  <2>1. CASE s = r
    <3>1. req'[s] = q /\ req[r].at # "idle" /\ CurrentKey(s)' = CurrentKey(r)
      BY <1>1, <2>1 DEF CurrentKey
    <3>2. CurrentKey(r) \in DOMAIN versions
      BY <3>1, CurrentKeyExists
    <3> QED
      BY <1>1, <2>1, <3>1, <3>2 DEF AuditInv
  <2>2. CASE s # r
    BY <1>1, <2>2 DEF AuditInv, LoadedSeen, CurrentKey
  <2> QED
    BY <2>1, <2>2
<1>4. AuditTellsState'
  BY <1>2 DEF AuditInv, AuditTellsState, LastLeadsTo, StatesBefore
<1> QED
  BY <1>2, <1>3, <1>4 DEF AuditInv

\* A new version has no records and is a draft.
LEMMA NewVersionKeepsAudit ==
    ASSUME IInv, AuditInv, audit' = audit,
           NEW key, key \notin DOMAIN versions,
           DOMAIN versions' = DOMAIN versions \cup {key},
           versions'[key].state = "draft",
           \A k \in DOMAIN versions : versions'[k] = versions[k],
           \A s \in Requests : req'[s] = req[s] \/ req'[s].at = "idle"
    PROVE  AuditInv'
<1>1. \A k : RecordsOf(k)' = RecordsOf(k) /\ StatesSeen(k)' = StatesSeen(k)
  BY DEF RecordsOf, StatesSeen
<1>2. RecordsOf(key) = {}
  BY DEF RecordsOf, AuditInv
<1>3. LoadedSeen'
  BY <1>1 DEF AuditInv, LoadedSeen, CurrentKey
<1>4. AuditTellsState'
  BY <1>1, <1>2 DEF AuditInv, AuditTellsState, LastLeadsTo, StatesBefore
<1>5. \A k \in DOMAIN versions' : versions'[k].state \in StatesSeen(k)
  BY DEF AuditInv, StatesSeen
<1> QED
  BY <1>1, <1>3, <1>4, <1>5 DEF AuditInv

\* A transition appends the record that leads to the new state, from a state
\* the version was in when it was loaded.
LEMMA TransitionKeepsAudit ==
    ASSUME IInv, IInv', AuditInv, NEW r \in Requests, NEW to, NEW stamp,
           req[r].at \in {"transition:version", "qualify:version"},
           Transition(r, to, stamp)
    PROVE  AuditInv'
<1> DEFINE k == CurrentKey(r)
           n == Len(audit) + 1
           from == req[r].version.state
           record == [version |-> k, from |-> from, to |-> to]
<1>1. k \in DOMAIN versions /\ versions[k] \in VersionRows
  BY CurrentKeyExists
<1>2. /\ DOMAIN versions' = DOMAIN versions
      /\ \A x \in DOMAIN versions :
            versions'[x].state = IF x = k THEN to ELSE versions[x].state
  <2>1. versions' = [versions EXCEPT ![k].state = to, ![k].qualified = @ \/ stamp]
    BY DEF Transition
  <2> HIDE DEF k
  <2> QED
    BY <1>1, <2>1 DEF VersionRows
<1>3. /\ record.version = k /\ record.from = from /\ record.to = to
      /\ from \in StatesSeen(k)
  BY DEF AuditInv, LoadedSeen
<1>4. audit' = Append(audit, record) /\ audit \in Seq(AuditRows)
  BY DEF Transition, IInv, TablesOK
<1>5. \A s \in Requests : req'[s] = IF s = r THEN Idle ELSE req[s]
  BY DEF Transition, IInv, RequestsOK
<1> HIDE DEF record, k, from
<1>6. /\ DOMAIN audit' = DOMAIN audit \cup {n} /\ audit'[n] = record
      /\ n \in Nat /\ \A i \in DOMAIN audit : i \in Nat /\ i < n /\ audit'[i] = audit[i]
  BY <1>4
<1> HIDE DEF n
<1>7. \A x : RecordsOf(x)' = IF x = k THEN RecordsOf(x) \cup {n} ELSE RecordsOf(x)
  BY <1>3, <1>6 DEF RecordsOf
<1>8. \A x : RecordsOf(x) \subseteq DOMAIN audit
  BY DEF RecordsOf
<1>9. \A x : StatesSeen(x) \subseteq StatesSeen(x)'
  BY <1>6, <1>7, <1>8 DEF StatesSeen
<1>10. LoadedSeen'
  BY <1>5, <1>9 DEF AuditInv, LoadedSeen, CurrentKey, Idle
<1>11. \A x \in DOMAIN versions' : versions'[x].state \in StatesSeen(x)'
  <2>1. \A x : x = k => to \in StatesSeen(x)'
    BY <1>3, <1>6, <1>7 DEF StatesSeen
  <2> QED
    BY <1>2, <1>9, <2>1 DEF AuditInv
<1>12. ASSUME NEW x \in DOMAIN versions'
       PROVE  LastLeadsTo(RecordsOf(x), versions[x].state)'
  <2>1. CASE x = k
    <3>1. RecordsOf(x)' = RecordsOf(x) \cup {n} /\ versions'[x].state = to
      BY <1>2, <1>7, <2>1
    <3>2. ASSUME NEW i \in RecordsOf(x)', \A j \in RecordsOf(x)' : j <= i
          PROVE  i = n
      BY <1>6, <1>8, <3>1, <3>2
    <3> QED
      BY <1>3, <1>6, <3>1, <3>2 DEF LastLeadsTo
  <2>2. CASE x # k
    BY <1>2, <1>6, <1>7, <1>8, <2>2 DEF AuditInv, AuditTellsState, LastLeadsTo
  <2> QED
    BY <2>1, <2>2
<1>13. ASSUME NEW x \in DOMAIN versions', NEW i \in RecordsOf(x)'
       PROVE  audit'[i].from \in StatesBefore(x, i)'
  <2>1. CASE i = n
    <3>1. x = k
      BY <1>6, <1>7, <1>8, <2>1
    <3>2. ASSUME NEW j \in RecordsOf(x)
          PROVE  audit[j].to \in StatesBefore(x, i)'
      <4>1. j \in RecordsOf(x)' /\ j < i /\ audit'[j].to = audit[j].to
        BY <1>6, <1>7, <1>8, <2>1
      <4> QED
        BY <4>1 DEF StatesBefore
    <3>3. StatesSeen(x) \subseteq StatesBefore(x, i)'
      BY <3>2 DEF StatesSeen, StatesBefore
    <3> QED
      BY <1>3, <1>6, <2>1, <3>1, <3>3
  <2>2. CASE i # n
    <3>1. i \in RecordsOf(x) /\ x \in DOMAIN versions /\ audit'[i] = audit[i]
      BY <1>2, <1>6, <1>7, <1>8, <2>2
    <3>2. audit[i].from \in StatesBefore(x, i)
      BY <3>1 DEF AuditInv, AuditTellsState
    <3>3. StatesBefore(x, i) \subseteq StatesBefore(x, i)'
      BY <1>6, <1>7, <1>8 DEF StatesBefore
    <3> QED
      BY <3>1, <3>2, <3>3
  <2> QED
    BY <2>1, <2>2
<1>14. \A i \in DOMAIN audit' : audit'[i].version \in DOMAIN versions'
  BY <1>1, <1>2, <1>3, <1>6 DEF AuditInv
<1> QED
  BY <1>10, <1>11, <1>12, <1>13, <1>14 DEF AuditInv, AuditTellsState

LEMMA ReadsKeepAudit ==
    ASSUME IInv, AuditInv, NEW r \in Requests, Reads(r)
    PROVE  AuditInv'
<1>1. UNCHANGED <<versions, audit>>
  BY ReadsLoad
<1>2. PICK q \in RequestStates : req' = [req EXCEPT ![r] = q] /\ LoadsVersion(r, q)
  BY ReadsLoad
<1> QED
  BY <1>1, <1>2, QuietKeepsAudit DEF LoadsVersion

LEMMA AuditStep ==
    ASSUME IInv, AuditInv, LifecycleNext
    PROVE  AuditInv'
<1>1. IInv'
  BY StepKept DEF Kept
<1>2. ASSUME NEW b \in Bots, NEW d \in Definitions, CreateBot(b, d)
      PROVE  AuditInv'
  <2> DEFINE key == <<b, 1>>
  <2>1. /\ key \notin DOMAIN versions /\ audit' = audit /\ req' = req
        /\ versions' = With(versions, key, Draft(d))
    BY <1>2 DEF CreateBot, IInv, VersionsContiguous
  <2> HIDE DEF key
  <2>2. /\ DOMAIN versions' = DOMAIN versions \cup {key}
        /\ versions'[key].state = "draft"
        /\ \A k \in DOMAIN versions : versions'[k] = versions[k]
    BY <2>1 DEF With, Draft
  <2> QED
    BY <2>1, <2>2, NewVersionKeepsAudit
<1>3. ASSUME NEW r \in Requests, PublishCommit(r)
      PROVE  AuditInv'
  <2> DEFINE key == NextKey(r)
  <2>1. /\ key \notin DOMAIN versions /\ audit' = audit
        /\ req' = [req EXCEPT ![r] = Idle]
        /\ versions' = With(versions, key, Draft(req[r].definition))
    BY <1>3 DEF PublishCommit, NumberIsFree
  <2> HIDE DEF key
  <2>2. /\ DOMAIN versions' = DOMAIN versions \cup {key}
        /\ versions'[key].state = "draft"
        /\ \A k \in DOMAIN versions : versions'[k] = versions[k]
    BY <2>1 DEF With, Draft
  <2>3. \A s \in Requests : req'[s] = req[s] \/ req'[s].at = "idle"
    BY <2>1 DEF IInv, RequestsOK, Idle
  <2> QED
    BY <2>1, <2>2, <2>3, NewVersionKeepsAudit
<1>4. ASSUME NEW r \in Requests, TransitionCommit(r)
      PROVE  AuditInv'
  <2>1. PICK to, stamp : Transition(r, to, stamp)
    BY <1>4 DEF TransitionCommit
  <2>2. req[r].at = "transition:version"
    BY <1>4 DEF TransitionCommit
  <2> QED
    BY <1>1, <2>1, <2>2, TransitionKeepsAudit
<1>5. ASSUME NEW r \in Requests, QualifyCommit(r)
      PROVE  AuditInv'
  <2> DEFINE passed == req[r].definition \in Qualifying
             state == req[r].version.state
             to == Outcome(passed, state)
  <2>1. req[r].at = "qualify:version"
    BY <1>5 DEF QualifyCommit
  <2>2. CASE Transition(r, to, Stamped(passed, state))
    <3> HIDE DEF passed, to
    <3> QED
      BY <1>1, <2>1, <2>2, TransitionKeepsAudit
  <2>3. CASE req' = [req EXCEPT ![r] = Idle] /\ UNCHANGED <<versions, audit>>
    <3>1. Idle.at = "idle"
      BY DEF Idle
    <3> QED
      BY <2>3, <3>1, QuietKeepsAudit
  <2> QED
    BY <1>5, <2>2, <2>3 DEF QualifyCommit
<1> QED
  BY <1>2, <1>3, <1>4, <1>5, ReadsKeepAudit DEF LifecycleNext, Reads

-----------------------------------------------------------------------------
(* Requests served one at a time. *)

RowsTell == QualifiedByOwnRecord /\ MirrorFollowsTransitions

AloneInv ==
    /\ Overlap => overlapped
    /\ ~overlapped => RowsTell /\ \A r \in Requests : UpToDate(req[r])

\* While requests do not overlap, the one that takes a step is alone.
LEMMA OthersAreIdle ==
    ASSUME IInv, ~Overlap, ~Overlap',
           NEW r \in Requests, NEW q, req' = [req EXCEPT ![r] = q],
           req[r].at # "idle" \/ q.at # "idle"
    PROVE  \A s \in Requests : s # r => req[s].at = "idle" /\ req'[s].at = "idle"
<1>1. \A s \in Requests : req'[s] = IF s = r THEN q ELSE req[s]
  BY DEF IInv, RequestsOK
<1> QED
  BY <1>1 DEF Overlap

\* What an open request has read and what the rows tell, after a step.
TellsNext == RowsTell' /\ \A r \in Requests : UpToDate(req[r])'

\* So it keeps what the rows tell.
LEMMA ReadsTell ==
    ASSUME IInv, RowsTell, \A s \in Requests : UpToDate(req[s]),
           NEW r \in Requests, Reads(r)
    PROVE  TellsNext
<1>1. PICK q \in RequestStates : req' = [req EXCEPT ![r] = q] /\ UpToDate(q)
  BY ReadsLoad
<1>2. UNCHANGED <<bots, versions, audit>>
  BY ReadsLoad
<1>3. \A s \in Requests : req'[s] = req[s] \/ req'[s] = q
  BY <1>1 DEF IInv, RequestsOK
<1>4. \A s \in Requests : UpToDate(req[s])'
  BY <1>1, <1>2, <1>3 DEF UpToDate
<1>5. RowsTell'
  BY <1>2 DEF RowsTell, QualifiedByOwnRecord, MirrorFollowsTransitions, LastLeadsTo,
              RecordsOfBot
<1> QED
  BY <1>4, <1>5 DEF TellsNext

\* A new version is an unqualified draft without records.
LEMMA PublishTells ==
    ASSUME IInv, RowsTell, NEW r \in Requests, UpToDate(req[r]), PublishCommit(r),
           \A s \in Requests : s # r => req'[s].at = "idle"
    PROVE  TellsNext
<1>1. /\ DOMAIN versions \subseteq DOMAIN versions'
      /\ \A k \in DOMAIN versions : versions'[k] = versions[k]
      /\ \A k \in DOMAIN versions' \ DOMAIN versions : ~versions'[k].qualified
      /\ audit' = audit
  BY PublishKeeps
<1>2. /\ bots' = [bots EXCEPT ![req[r].bot].current_version = NextKey(r)[2]]
      /\ req' = [req EXCEPT ![r] = Idle]
  BY DEF PublishCommit
<1>3. DOMAIN bots' = DOMAIN bots /\ \A b \in DOMAIN bots : bots'[b].state = bots[b].state
  BY <1>2 DEF IInv, TablesOK, BotRows
<1>4. \A s \in Requests : req'[s].at = "idle"
  BY <1>2 DEF IInv, RequestsOK, Idle
<1>5. QualifiedByOwnRecord'
  BY <1>1 DEF RowsTell, QualifiedByOwnRecord
<1>6. MirrorFollowsTransitions'
  BY <1>1, <1>3 DEF RowsTell, MirrorFollowsTransitions, LastLeadsTo, RecordsOfBot
<1> QED
  BY <1>4, <1>5, <1>6 DEF TellsNext, RowsTell, UpToDate

\* A new bot has no records either, and no request has read it.
LEMMA CreateTells ==
    ASSUME IInv, AuditInv, RowsTell, \A s \in Requests : UpToDate(req[s]),
           NEW b \in Bots, NEW d \in Definitions, CreateBot(b, d)
    PROVE  TellsNext
<1>1. /\ \A k \in DOMAIN versions : k \in DOMAIN versions' /\ versions'[k] = versions[k]
      /\ \A k \in DOMAIN versions' \ DOMAIN versions : ~versions'[k].qualified
      /\ audit' = audit
  BY CreateKeeps
<1>2. /\ b \notin DOMAIN bots /\ req' = req
      /\ bots' = With(bots, b, [current_version |-> 1, state |-> "draft"])
  BY DEF CreateBot
<1>3. /\ DOMAIN bots' = DOMAIN bots \cup {b} /\ bots'[b].state = "draft"
      /\ \A c \in DOMAIN bots : bots'[c] = bots[c]
  BY <1>2 DEF With
<1>4. RecordsOfBot(b) = {}
  BY <1>2 DEF RecordsOfBot, AuditInv, IInv, VersionsContiguous
<1>5. QualifiedByOwnRecord'
  BY <1>1 DEF RowsTell, QualifiedByOwnRecord
<1>6. MirrorFollowsTransitions'
  BY <1>1, <1>3, <1>4 DEF RowsTell, MirrorFollowsTransitions, LastLeadsTo, RecordsOfBot
<1>7. ASSUME NEW s \in Requests PROVE UpToDate(req[s])'
  <2>1. CASE req[s].at = "idle"
    BY <1>2, <2>1 DEF UpToDate
  <2>2. CASE req[s].at # "idle"
    <3>1. /\ CurrentKey(s) \in DOMAIN versions /\ req[s].bot \in DOMAIN bots
      BY <2>2, CurrentKeyExists
    <3>2. /\ bots'[req[s].bot] = bots[req[s].bot]
          /\ versions'[CurrentKey(s)] = versions[CurrentKey(s)] /\ req'[s] = req[s]
      BY <1>1, <1>2, <1>3, <3>1
    <3> QED
      BY <3>2 DEF UpToDate, CurrentKey
  <2> QED
    BY <2>1, <2>2
<1> QED
  BY <1>5, <1>6, <1>7 DEF TellsNext, RowsTell

\* A transition on present reads leaves the bot in the state it records.
LEMMA TransitionTells ==
    ASSUME IInv, RowsTell, NEW r \in Requests, UpToDate(req[r]),
           req[r].at \in {"transition:version", "qualify:version"},
           NEW to \in BotState, NEW stamp \in BOOLEAN,
           stamp => versions[CurrentKey(r)].definition \in Qualifying,
           Transition(r, to, stamp),
           \A s \in Requests : s # r => req'[s].at = "idle"
    PROVE  TellsNext
<1> DEFINE k == CurrentKey(r)
           b == req[r].bot
           record == [version |-> k, from |-> req[r].version.state, to |-> to]
<1>1. /\ DOMAIN versions' = DOMAIN versions
      /\ \A x \in DOMAIN versions :
            /\ versions'[x].definition = versions[x].definition
            /\ versions'[x].qualified => versions[x].qualified \/ (stamp /\ x = k)
  BY TransitionKeeps
<1>2. \A s \in Requests : req'[s].at = "idle"
  BY DEF Transition, IInv, RequestsOK, Idle
<1>3. QualifiedByOwnRecord'
  BY <1>1 DEF RowsTell, QualifiedByOwnRecord
<1>4. /\ k[1] = b /\ b \in DOMAIN bots /\ bots[b] \in BotRows
  BY CurrentKeyExists DEF IInv, TablesOK
<1>5. /\ DOMAIN bots' = DOMAIN bots
      /\ \A c \in DOMAIN bots : bots'[c].state = IF c = b THEN to ELSE bots[c].state
  <2>1. req[r].row = bots[b]
    BY DEF UpToDate
  <2>2. Mirror(r, to)
    BY DEF Transition
  <2> QED
    BY <1>4, <2>1, <2>2 DEF Mirror, BotRows
<1>6. /\ audit' = Append(audit, record) /\ audit \in Seq(AuditRows)
      /\ record.version[1] = b /\ record.to = to
  BY <1>4 DEF Transition, IInv, TablesOK
<1> DEFINE n == Len(audit) + 1
<1> HIDE DEF k, record
<1>7. /\ DOMAIN audit' = DOMAIN audit \cup {n} /\ audit'[n] = record
      /\ n \in Nat /\ \A i \in DOMAIN audit : i \in Nat /\ i < n /\ audit'[i] = audit[i]
  BY <1>6
<1> HIDE DEF n
<1>8. ASSUME NEW c \in DOMAIN bots
      PROVE  LastLeadsTo(RecordsOfBot(c), bots[c].state)'
  <2>1. RecordsOfBot(c)' = IF c = b THEN RecordsOfBot(c) \cup {n} ELSE RecordsOfBot(c)
    BY <1>6, <1>7 DEF RecordsOfBot
  <2>2. RecordsOfBot(c) \subseteq DOMAIN audit
    BY DEF RecordsOfBot
  <2>3. CASE c = b
    <3>1. RecordsOfBot(c)' = RecordsOfBot(c) \cup {n} /\ bots'[c].state = to
      BY <1>5, <2>1, <2>3
    <3>2. ASSUME NEW i \in RecordsOfBot(c)', \A j \in RecordsOfBot(c)' : j <= i
          PROVE  i = n
      BY <1>7, <2>2, <3>1, <3>2
    <3> QED
      BY <1>6, <1>7, <3>1, <3>2 DEF LastLeadsTo
  <2>4. CASE c # b
    BY <1>5, <1>7, <2>1, <2>2, <2>4 DEF RowsTell, MirrorFollowsTransitions, LastLeadsTo
  <2> QED
    BY <2>3, <2>4
<1>9. MirrorFollowsTransitions'
  BY <1>5, <1>8 DEF MirrorFollowsTransitions
<1> QED
  BY <1>2, <1>3, <1>9 DEF TellsNext, RowsTell, UpToDate

\* A version under evaluation that is judged moves along the diagram, and is
\* stamped for its own backtest.
LEMMA JudgedOnPresent ==
    ASSUME IInv, NEW r \in Requests, UpToDate(req[r]), QualifyCommit(r)
    PROVE  \E to \in BotState, stamp \in BOOLEAN :
                /\ Transition(r, to, stamp)
                /\ to \in Allowed[versions[CurrentKey(r)].state]
                /\ stamp => versions[CurrentKey(r)].definition \in Qualifying
<1> DEFINE passed == req[r].definition \in Qualifying
           state == req[r].version.state
           to == Outcome(passed, state)
           stamp == Stamped(passed, state)
<1>1. req[r].at = "qualify:version"
  BY DEF QualifyCommit
<1>2. /\ state = "evaluation" /\ versions[CurrentKey(r)].state = "evaluation"
      /\ req[r].definition = versions[CurrentKey(r)].definition
  BY <1>1 DEF UpToDate, CurrentKey
<1>3. passed \in BOOLEAN /\ (passed => versions[CurrentKey(r)].definition \in Qualifying)
  BY <1>2
<1>4. \/ to # state /\ Transition(r, to, stamp)
      \/ to = state
  BY DEF QualifyCommit
<1> HIDE DEF passed, state
<1>5. /\ to \in {"listed", "delisted"} /\ stamp \in BOOLEAN /\ to # state
      /\ stamp => passed
  BY <1>2, <1>3 DEF Outcome, Stamped
<1> HIDE DEF to, stamp
<1>6. Transition(r, to, stamp) /\ to \in BotState /\ to \in Allowed["evaluation"]
  BY <1>4, <1>5 DEF BotState, Allowed
<1> QED
  BY <1>2, <1>3, <1>5, <1>6

\* A request that commits, or moves on, while no two overlap is alone.
LEMMA AloneTells ==
    ASSUME IInv, AuditInv, LifecycleNext, ~Overlap, ~Overlap',
           RowsTell, \A s \in Requests : UpToDate(req[s])
    PROVE  TellsNext
<1>1. ASSUME NEW r \in Requests, req[r].at # "idle", req' = [req EXCEPT ![r] = Idle]
      PROVE  \A s \in Requests : s # r => req'[s].at = "idle"
  BY <1>1, OthersAreIdle
<1>2. ASSUME NEW r \in Requests, PublishCommit(r) PROVE TellsNext
  <2>1. req[r].at # "idle" /\ req' = [req EXCEPT ![r] = Idle]
    BY <1>2 DEF PublishCommit
  <2> QED
    BY <1>1, <1>2, <2>1, PublishTells
<1>3. ASSUME NEW r \in Requests, NEW to \in BotState, NEW stamp \in BOOLEAN,
             req[r].at \in {"transition:version", "qualify:version"},
             stamp => versions[CurrentKey(r)].definition \in Qualifying,
             Transition(r, to, stamp)
      PROVE  TellsNext
  <2>1. req' = [req EXCEPT ![r] = Idle]
    BY <1>3 DEF Transition
  <2>2. \A s \in Requests : s # r => req'[s].at = "idle"
    BY <1>1, <1>3, <2>1
  <2> QED
    BY <1>3, <2>2, TransitionTells
<1>4. ASSUME NEW r \in Requests, TransitionCommit(r) PROVE TellsNext
  <2>1. PICK to : to = req[r].to
    OBVIOUS
  <2>2. /\ req[r].at = "transition:version" /\ to \in BotState
        /\ \E stamp \in BOOLEAN : ~stamp /\ Transition(r, to, stamp)
    BY <1>4, <2>1 DEF TransitionCommit, IInv, RequestsOK, HoldsOK
  <2> QED
    BY <1>3, <2>2
<1>5. ASSUME NEW r \in Requests, QualifyCommit(r) PROVE TellsNext
  <2>1. req[r].at = "qualify:version"
    BY <1>5 DEF QualifyCommit
  <2> QED
    BY <1>3, <1>5, <2>1, JudgedOnPresent
<1>6. ASSUME NEW b \in Bots, NEW d \in Definitions, CreateBot(b, d) PROVE TellsNext
  BY <1>6, CreateTells
<1>7. ASSUME NEW r \in Requests, Reads(r) PROVE TellsNext
  BY <1>7, ReadsTell
<1> QED
  BY <1>2, <1>4, <1>5, <1>6, <1>7 DEF LifecycleNext, Reads

LEMMA AloneStep ==
    ASSUME IInv, AuditInv, AloneInv, MCNext
    PROVE  AloneInv'
<1>1. LifecycleNext /\ overlapped' = (overlapped \/ Overlap')
  BY DEF MCNext
<1>3. ASSUME ~overlapped' PROVE TellsNext
  BY <1>1, <1>3, AloneTells DEF AloneInv
<1> QED
  BY <1>1, <1>3 DEF AloneInv, TellsNext

LEMMA AloneStutter ==
    ASSUME AloneInv, UNCHANGED <<lifecycleVars, overlapped>>
    PROVE  AloneInv'
<1>1. UNCHANGED <<bots, versions, audit, req, overlapped>>
  BY DEF lifecycleVars
<1>2. Overlap' <=> Overlap
  BY <1>1 DEF Overlap
<1>3. RowsTell => RowsTell'
  BY <1>1 DEF RowsTell, QualifiedByOwnRecord, MirrorFollowsTransitions, LastLeadsTo,
              RecordsOfBot
<1>4. \A r \in Requests : UpToDate(req[r]) => UpToDate(req[r])'
  BY <1>1 DEF UpToDate
<1> QED
  BY <1>1, <1>2, <1>3, <1>4 DEF AloneInv

LEMMA AloneStarts == MCInit => AloneInv
<1> SUFFICES ASSUME MCInit PROVE AloneInv
  OBVIOUS
<1>1. /\ bots = << >> /\ versions = << >> /\ audit = << >>
      /\ \A r \in Requests : req[r].at = "idle"
      /\ overlapped = FALSE
  BY DEF MCInit, Init, Idle
<1>3. ~Overlap
  BY <1>1 DEF Overlap
<1>4. RowsTell /\ \A r \in Requests : UpToDate(req[r])
  BY <1>1 DEF RowsTell, QualifiedByOwnRecord, MirrorFollowsTransitions, UpToDate
<1> QED
  BY <1>3, <1>4 DEF AloneInv

-----------------------------------------------------------------------------
(* Theorems. *)

\* The inductive invariant holds in every reachable state: tables and
\* requests typed, reads no newer than the tables, versions contiguous.
THEOREM InvarianceOfLifecycle == LifecycleSpec => []IInv
<1>1. IInv /\ [LifecycleNext]_lifecycleVars => IInv'
  BY StepKept, StutterKept DEF Kept
<1> QED
  BY InitIInv, <1>1, PTL DEF LifecycleSpec

\* The tables, the audit log and what requests hold keep their types.
THEOREM LifecycleTypes == LifecycleSpec => []TypeOK
<1>1. IInv => TypeOK
  BY DEF IInv, TablesOK, RequestsOK, TypeOK
<1> QED
  BY <1>1, InvarianceOfLifecycle, PTL

\* However publications of any number of requests interleave, the versions
\* of a bot are those numbered from 1 to its current one.
THEOREM NumbersAreContiguous == LifecycleSpec => []VersionsContiguous
<1>1. IInv => VersionsContiguous
  BY DEF IInv
<1> QED
  BY <1>1, InvarianceOfLifecycle, PTL

\* No step rewrites or removes a version that exists: publications take new
\* numbers, transitions touch the state and the stamp.
THEOREM SnapshotsAreFrozen == LifecycleSpec => DefinitionsFrozen
<1>1. IInv /\ [LifecycleNext]_lifecycleVars =>
        [\A k \in DOMAIN versions :
            /\ k \in DOMAIN versions'
            /\ versions'[k].definition = versions[k].definition]_lifecycleVars
  BY StepKept, StutterKept DEF Kept, VersionsKept
<1> QED
  BY <1>1, InvarianceOfLifecycle, PTL DEF LifecycleSpec, DefinitionsFrozen

\* A version marked qualified has a record of its move from evaluation to
\* listed, whatever other requests did in between.
THEOREM StampsAreOnRecord == LifecycleSpec => []QualifiedWasListed
<1>1. Init => QualifiedWasListed
  BY DEF Init, QualifiedWasListed
<1>2. IInv /\ QualifiedWasListed /\ [LifecycleNext]_lifecycleVars
        => QualifiedWasListed'
  <2> SUFFICES ASSUME IInv, QualifiedWasListed, [LifecycleNext]_lifecycleVars,
                      NEW k \in DOMAIN versions', versions'[k].qualified
               PROVE  \E i \in DOMAIN audit' :
                        audit'[i] = [version |-> k, from |-> "evaluation",
                                     to |-> "listed"]
    BY DEF QualifiedWasListed
  <2> DEFINE record == [version |-> k, from |-> "evaluation", to |-> "listed"]
  <2>1. VersionsKept /\ NewUnqualified /\ AuditGrows /\ IInv'
    BY StepKept, StutterKept DEF Kept
  <2>2. audit \in Seq(AuditRows) /\ audit' \in Seq(AuditRows)
    BY <2>1 DEF IInv, TablesOK
  <2>3. k \in DOMAIN versions
    BY <2>1 DEF NewUnqualified
  <2>4. CASE versions[k].qualified
    <3>1. PICK i \in DOMAIN audit : audit[i] = record
      BY <2>3, <2>4 DEF QualifiedWasListed
    <3>2. i \in DOMAIN audit' /\ audit'[i] = audit[i]
      BY <2>1, <2>2 DEF AuditGrows
    <3> QED
      BY <3>1, <3>2
  <2>5. CASE audit' = Append(audit, record)
    <3> HIDE DEF record
    <3>1. Len(audit) + 1 \in DOMAIN audit' /\ audit'[Len(audit) + 1] = record
      BY <2>2, <2>5
    <3> QED
      BY <3>1 DEF record
  <2> QED
    BY <2>1, <2>3, <2>4, <2>5 DEF VersionsKept
<1> QED
  BY <1>1, <1>2, InvarianceOfLifecycle, PTL DEF LifecycleSpec

\* What the tables keep at every commit: the conjunction that TLC checks on
\* its instance holds for any number of bots, versions and requests.
THEOREM TablesAlwaysSound == LifecycleSpec => []TablesSound
<1>1. TypeOK /\ VersionsContiguous /\ QualifiedWasListed => TablesSound
  BY DEF TablesSound
<1> QED
  BY <1>1, LifecycleTypes, NumbersAreContiguous, StampsAreOnRecord, PTL

\* The invariant of the audit log.
LEMMA InvarianceOfAudit == LifecycleSpec => []AuditInv
<1>1. Init => AuditInv
  <2> SUFFICES ASSUME Init PROVE AuditInv
    OBVIOUS
  <2>1. versions = << >> /\ audit = << >> /\ \A r \in Requests : req[r].at = "idle"
    BY DEF Init, Idle
  <2> QED
    BY <2>1 DEF AuditInv, LoadedSeen, AuditTellsState
<1>2. IInv /\ AuditInv /\ [LifecycleNext]_lifecycleVars => AuditInv'
  <2>1. ASSUME AuditInv, UNCHANGED lifecycleVars PROVE AuditInv'
    <3>1. UNCHANGED <<versions, audit, req>>
      BY <2>1 DEF lifecycleVars
    <3>2. \A k : RecordsOf(k)' = RecordsOf(k) /\ StatesSeen(k)' = StatesSeen(k)
      BY <3>1 DEF RecordsOf, StatesSeen
    <3>3. LoadedSeen'
      BY <2>1, <3>1, <3>2 DEF AuditInv, LoadedSeen, CurrentKey
    <3>4. AuditTellsState'
      BY <2>1, <3>1, <3>2 DEF AuditInv, AuditTellsState, LastLeadsTo, StatesBefore
    <3> QED
      BY <2>1, <3>1, <3>2, <3>3, <3>4 DEF AuditInv
  <2> QED
    BY <2>1, AuditStep
<1> QED
  BY <1>1, <1>2, InvarianceOfLifecycle, PTL DEF LifecycleSpec

\* However transitions of any number of requests overlap, the log tells for
\* every version where it is, and no record leaves a state the version had not
\* been in before it.
THEOREM LogTellsState == LifecycleSpec => []AuditTellsState
<1>1. AuditInv => AuditTellsState
  BY DEF AuditInv
<1> QED
  BY <1>1, InvarianceOfAudit, PTL

\* The history variable adds nothing to what the tables do.
LEMMA MCIsLifecycle == MCSpec => LifecycleSpec
<1>1. MCInit => Init
  BY DEF MCInit
<1>2. [MCNext]_<<lifecycleVars, overlapped>> => [LifecycleNext]_lifecycleVars
  BY DEF MCNext
<1> QED
  BY <1>1, <1>2, PTL DEF MCSpec, LifecycleSpec

\* While requests have been served one at a time, what an open request has
\* read is what the tables hold, and the rows tell the truth.
THEOREM InvarianceAlone == MCSpec => []AloneInv
<1>1. IInv /\ AuditInv /\ AloneInv /\ [MCNext]_<<lifecycleVars, overlapped>> => AloneInv'
  BY AloneStep, AloneStutter
<1> QED
  BY AloneStarts, <1>1, MCIsLifecycle, InvarianceOfLifecycle, InvarianceOfAudit, PTL
     DEF MCSpec

\* Served one at a time, any number of requests mark as qualified only versions
\* whose own backtest passes the policy, and leave every bot in the state its
\* last record tells.
THEOREM RowsTellAlone == MCSpec => []RowsTellUnlessOverlapped
<1>1. AloneInv => RowsTellUnlessOverlapped
  BY DEF AloneInv, RowsTell, RowsTellUnlessOverlapped
<1> QED
  BY <1>1, InvarianceAlone, PTL

\* The states the contract sees.
States == [k \in DOMAIN versions |-> versions[k].state]

\* A new draft is a fork.
LEMMA NewVersionForks ==
    ASSUME NEW key \in Keys, key \notin DOMAIN versions,
           DOMAIN versions' = DOMAIN versions \cup {key},
           versions'[key].state = "draft",
           \A k \in DOMAIN versions : versions'[k] = versions[k],
           audit' = audit
    PROVE  Contract!Next
<1>1. Contract!Fork(key)
  BY DEF Contract!Fork
<1> QED
  BY <1>1 DEF Contract!Next

\* A transition on present reads is a move along the diagram.
LEMMA TransitionMoves ==
    ASSUME IInv, NEW r \in Requests, UpToDate(req[r]),
           req[r].at \in {"transition:version", "qualify:version"},
           NEW to \in BotState, NEW stamp,
           to \in Allowed[versions[CurrentKey(r)].state],
           Transition(r, to, stamp)
    PROVE  Contract!Next
<1> DEFINE k == CurrentKey(r)
<1>1. k \in DOMAIN versions /\ k \in Keys /\ versions[k] \in VersionRows
  BY CurrentKeyExists
<1>2. req[r].version = versions[k]
  BY DEF UpToDate, CurrentKey
<1>3. /\ versions' = [versions EXCEPT ![k].state = to, ![k].qualified = @ \/ stamp]
      /\ audit' = Append(audit, [version |-> k, from |-> versions[k].state, to |-> to])
  BY <1>2 DEF Transition
<1>4. to \in Allowed[versions[k].state] /\ to \in DOMAIN Allowed
  BY DEF Allowed, BotState
<1> HIDE DEF k
<1>5. /\ DOMAIN versions' = DOMAIN versions
      /\ \A x \in DOMAIN versions :
            versions'[x].state = IF x = k THEN to ELSE versions[x].state
  BY <1>1, <1>3 DEF VersionRows
<1>6. States' = [States EXCEPT ![k] = to]
  BY <1>1, <1>5 DEF States
<1>7. Contract!Move(k, to)
  BY <1>1, <1>3, <1>4, <1>6 DEF Contract!Move, States
<1> QED
  BY <1>1, <1>4, <1>7 DEF Contract!Next

\* A step of a request that is up to date is one of the contract, or is not
\* seen by it.
LEMMA ContractStep ==
    ASSUME IInv, LifecycleNext, \A s \in Requests : UpToDate(req[s])
    PROVE  Contract!Next \/ UNCHANGED <<States, audit>>
<1>1. ASSUME NEW b \in Bots, NEW d \in Definitions, CreateBot(b, d)
      PROVE  Contract!Next
  <2> DEFINE key == <<b, 1>>
  <2>1. /\ key \notin DOMAIN versions /\ key \in Keys /\ audit' = audit
        /\ versions' = With(versions, key, Draft(d))
    BY <1>1, LifecycleAssumption DEF CreateBot, IInv, VersionsContiguous, Keys, Numbers
  <2> HIDE DEF key
  <2>2. /\ DOMAIN versions' = DOMAIN versions \cup {key}
        /\ versions'[key].state = "draft"
        /\ \A k \in DOMAIN versions : versions'[k] = versions[k]
    BY <2>1 DEF With, Draft
  <2> QED
    BY <2>1, <2>2, NewVersionForks
<1>2. ASSUME NEW r \in Requests, PublishCommit(r)
      PROVE  Contract!Next
  <2> DEFINE key == NextKey(r)
  <2>1. /\ key \notin DOMAIN versions /\ audit' = audit
        /\ versions' = With(versions, key, Draft(req[r].definition))
    BY <1>2 DEF PublishCommit, NumberIsFree
  <2>2. key \in DOMAIN versions'
    BY <2>1 DEF With
  <2>3. key \in Keys
    BY <1>2, <2>2, PublishKeeps DEF IInv, TablesOK
  <2> HIDE DEF key
  <2>4. /\ DOMAIN versions' = DOMAIN versions \cup {key}
        /\ versions'[key].state = "draft"
        /\ \A k \in DOMAIN versions : versions'[k] = versions[k]
    BY <2>1 DEF With, Draft
  <2> QED
    BY <2>1, <2>3, <2>4, NewVersionForks
<1>3. ASSUME NEW r \in Requests, TransitionCommit(r)
      PROVE  Contract!Next
  <2>1. PICK to : to = req[r].to
    OBVIOUS
  <2>2. /\ req[r].at = "transition:version" /\ to \in BotState
        /\ \E stamp : Transition(r, to, stamp)
        /\ to \in Allowed[versions[CurrentKey(r)].state]
    BY <1>3, <2>1 DEF TransitionCommit, IInv, RequestsOK, HoldsOK, UpToDate, CurrentKey
  <2> QED
    BY <2>2, TransitionMoves
<1>4. ASSUME NEW r \in Requests, QualifyCommit(r)
      PROVE  Contract!Next
  <2>1. req[r].at = "qualify:version"
    BY <1>4 DEF QualifyCommit
  <2> QED
    BY <1>4, <2>1, JudgedOnPresent, TransitionMoves
<1>5. ASSUME NEW r \in Requests, Reads(r)
      PROVE  UNCHANGED <<States, audit>>
  <2>1. UNCHANGED <<versions, audit>>
    BY <1>5, ReadsLoad
  <2> QED
    BY <2>1 DEF States
<1> QED
  BY <1>1, <1>2, <1>3, <1>4, <1>5 DEF LifecycleNext, Reads

\* What the contract starts from.
LEMMA ContractStarts == MCInit => Contract!Init
<1> SUFFICES ASSUME MCInit PROVE Contract!Init
  OBVIOUS
<1>1. versions = << >> /\ audit = << >>
  BY DEF MCInit, Init
<1> QED
  BY <1>1 DEF Contract!Init

\* Served one at a time, the steps of any number of requests are those of
\* LifecycleContract: every version starts as a draft and moves along the
\* diagram only, each move on the record.
THEOREM FollowsContractAlone ==
    MCSpec => Contract!Init /\ FollowsContractUnlessOverlapped
<1>1. IInv /\ AloneInv /\ [MCNext]_<<lifecycleVars, overlapped>> =>
        [\/ overlapped'
         \/ Contract!Next
         \/ UNCHANGED <<[k \in DOMAIN versions |-> versions[k].state], audit>>
        ]_lifecycleVars
  <2> SUFFICES ASSUME IInv, AloneInv, MCNext, ~overlapped'
               PROVE  Contract!Next \/ UNCHANGED <<States, audit>>
    BY DEF States
  <2>1. LifecycleNext /\ ~overlapped
    BY DEF MCNext
  <2> QED
    BY <2>1, ContractStep DEF AloneInv
<1> QED
  BY <1>1, ContractStarts, MCIsLifecycle, InvarianceOfLifecycle, InvarianceAlone, PTL
     DEF MCSpec, FollowsContractUnlessOverlapped

(***************************************************************************)
(* The marketplace.                                                        *)
(***************************************************************************)
ListedOnce(b, log) ==
    \E i \in DOMAIN log : log[i].version[1] = b /\ log[i].to = "listed"

ListedOnRecord ==
    /\ \A b \in DOMAIN bots : bots[b].state = "listed" => ListedOnce(b, audit)
    /\ \A k \in DOMAIN versions : versions[k].state = "listed" => ListedOnce(k[1], audit)
    /\ \A r \in Requests :
        req[r].at \in {"transition:version", "qualify:version"}
            /\ req[r].version.state = "listed" => ListedOnce(req[r].bot, audit)

ListingsOK ==
    /\ DOMAIN listings \subseteq Listings
    /\ \A l \in DOMAIN listings : listings[l] \in ListingRows
    /\ traces \subseteq Keys
    /\ \A l \in DOMAIN listings : ListedOnce(listings[l].bot, audit)

\* What a request on listings has read at each stage.
PublishOK(q) ==
    /\ q.bot \in Bots /\ q.row \in BotRows
    /\ <<q.bot, q.row.current_version>> \in DOMAIN versions
    /\ q.row.state = "listed" => ListedOnce(q.bot, audit)
    /\ q.at # "publish:bot" =>
        /\ q.row.state = "listed" /\ q.version \in VersionRows
        /\ q.version.definition = versions[<<q.bot, q.row.current_version>>].definition
    /\ q.at # "publish:listing" => q.listing = None

LoadedOK(q) ==
    /\ q.listing \in DOMAIN listings /\ q.loaded \in ListingRows
    /\ q.loaded.bot = listings[q.listing].bot

SaleOK(q) ==
    /\ q \in SaleStates
    /\ q.at = "idle" => q.listing = None
    /\ q.at \in {"publish:bot", "publish:version", "publish:listing"} => PublishOK(q)
    /\ q.at = "publish:listing" /\ q.listing # None =>
        LoadedOK(q) /\ q.loaded.bot = q.bot
    /\ q.at = "status:listing" => LoadedOK(q) /\ q.status \in Status

SalesOK ==
    /\ DOMAIN sale = Sellers /\ sale = [p \in Sellers |-> sale[p]]
    /\ \A p \in Sellers : SaleOK(sale[p])

\* The publications that have found no listing of the bot.
Inserting(b) == {p \in Sellers : /\ sale[p].at = "publish:listing"
                                 /\ sale[p].listing = None /\ sale[p].bot = b}

Counted ==
    \A b \in Bots :
        /\ IsFiniteSet(ListingsOf(b))
        /\ Cardinality(ListingsOf(b)) + Cardinality(Inserting(b)) <= Cardinality(Sellers)

MarketInv ==
    /\ IInv /\ ListedOnRecord /\ ListingsOK /\ SalesOK /\ Counted
    /\ RecordsReproducible

-----------------------------------------------------------------------------
(* The lifecycle's steps. *)

\* What has been on record stays there.
LEMMA ListedStays ==
    ASSUME IInv, IInv', AuditGrows, NEW b, ListedOnce(b, audit)
    PROVE  ListedOnce(b, audit')
<1>1. audit \in Seq(AuditRows) /\ audit' \in Seq(AuditRows)
  BY DEF IInv, TablesOK
<1>2. \A i \in DOMAIN audit : i \in DOMAIN audit' /\ audit'[i] = audit[i]
  BY <1>1 DEF AuditGrows
<1> QED
  BY <1>2 DEF ListedOnce

\* A transition to `listed` is recorded with it.
LEMMA TransitionLists ==
    ASSUME IInv, IInv', ListedOnRecord, NEW r \in Requests, NEW to, NEW stamp,
           req[r].at \in {"transition:version", "qualify:version"},
           Transition(r, to, stamp), AuditGrows
    PROVE  ListedOnRecord'
<1> DEFINE k == CurrentKey(r)
           record == [version |-> k, from |-> req[r].version.state, to |-> to]
<1>1. k[1] = req[r].bot /\ k \in DOMAIN versions /\ req[r].bot \in DOMAIN bots
  BY CurrentKeyExists
<1>2. audit \in Seq(AuditRows) /\ audit' = Append(audit, record)
  BY DEF IInv, TablesOK, Transition
<1>3. to = "listed" => ListedOnce(req[r].bot, audit')
  <2>1. Len(audit) + 1 \in DOMAIN audit' /\ audit'[Len(audit) + 1] = record
    BY <1>2
  <2>2. record.version[1] = req[r].bot /\ record.to = to
    BY <1>1
  <2> HIDE DEF record
  <2> QED
    BY <2>1, <2>2 DEF ListedOnce
<1>4. /\ DOMAIN bots' = DOMAIN bots
      /\ \A b \in DOMAIN bots : \/ bots'[b].state = bots[b].state
                                \/ b = req[r].bot /\ bots'[b].state = to
  <2>1. bots[req[r].bot] \in BotRows
    BY <1>1 DEF IInv, TablesOK
  <2>2. bots' = bots \/ bots' = [bots EXCEPT ![req[r].bot].state = to]
    BY DEF Transition, Mirror
  <2> QED
    BY <2>1, <2>2 DEF BotRows
<1>5. /\ DOMAIN versions' = DOMAIN versions
      /\ \A x \in DOMAIN versions : \/ versions'[x].state = versions[x].state
                                    \/ x = k /\ versions'[x].state = to
  <2>1. versions[k] \in VersionRows
    BY CurrentKeyExists
  <2>2. versions' = [versions EXCEPT ![k].state = to, ![k].qualified = @ \/ stamp]
    BY DEF Transition
  <2> HIDE DEF k
  <2> QED
    BY <1>1, <2>1, <2>2 DEF VersionRows
<1>6. \A s \in Requests : req'[s] = IF s = r THEN Idle ELSE req[s]
  BY DEF Transition, IInv, RequestsOK
<1>7. Idle.at = "idle"
  BY DEF Idle
<1>8. \A b : ListedOnce(b, audit) => ListedOnce(b, audit')
  BY ListedStays
<1> HIDE DEF k
<1> QED
  BY <1>1, <1>3, <1>4, <1>5, <1>6, <1>7, <1>8 DEF ListedOnRecord

\* Steps that leave the tables alone and load nothing but what is in them.
LEMMA RequestLists ==
    ASSUME IInv, ListedOnRecord, UNCHANGED <<bots, versions, audit>>,
           NEW r \in Requests, NEW q, req' = [req EXCEPT ![r] = q],
           q.at \in {"transition:version", "qualify:version"} =>
                /\ req[r].at # "idle" /\ q.bot = req[r].bot
                /\ q.version = versions[CurrentKey(r)]
    PROVE  ListedOnRecord'
<1>1. \A s \in Requests : req'[s] = IF s = r THEN q ELSE req[s]
  BY DEF IInv, RequestsOK
<1>2. q.at \in {"transition:version", "qualify:version"}
            /\ q.version.state = "listed" => ListedOnce(q.bot, audit)
  BY CurrentKeyExists DEF ListedOnRecord
<1> QED
  BY <1>1, <1>2 DEF ListedOnRecord

\* New rows are drafts.
LEMMA NewRowsAreDrafts ==
    ASSUME IInv, ListedOnRecord,
           \/ \E b \in Bots, d \in Definitions : CreateBot(b, d)
           \/ \E r \in Requests : PublishCommit(r)
    PROVE  ListedOnRecord'
<1>1. audit' = audit
  BY DEF CreateBot, PublishCommit
<1>2. ASSUME NEW b \in Bots, NEW d \in Definitions, CreateBot(b, d)
      PROVE  ListedOnRecord'
  <2> DEFINE row == [current_version |-> 1, state |-> "draft"]
             v == Draft(d)
  <2>1. /\ bots' = With(bots, b, row) /\ versions' = With(versions, <<b, 1>>, v)
        /\ req' = req /\ row.state = "draft" /\ v.state = "draft"
    BY <1>2 DEF CreateBot, Draft
  <2> HIDE DEF row, v
  <2>2. \A c \in DOMAIN bots' : \/ c \in DOMAIN bots /\ bots'[c] = bots[c]
                                \/ bots'[c].state = "draft"
    <3>1. \A c \in DOMAIN bots' : IF c = b THEN bots'[c] = row
                                  ELSE c \in DOMAIN bots /\ bots'[c] = bots[c]
      BY <2>1 DEF With
    <3> QED
      BY <2>1, <3>1
  <2>3. \A k \in DOMAIN versions' : \/ k \in DOMAIN versions /\ versions'[k] = versions[k]
                                    \/ versions'[k].state = "draft"
    <3>1. \A k \in DOMAIN versions' : IF k = <<b, 1>> THEN versions'[k] = v
                                      ELSE k \in DOMAIN versions /\ versions'[k] = versions[k]
      BY <2>1 DEF With
    <3> QED
      BY <2>1, <3>1
  <2> QED
    BY <1>1, <2>1, <2>2, <2>3 DEF ListedOnRecord
<1>3. ASSUME NEW r \in Requests, PublishCommit(r)
      PROVE  ListedOnRecord'
  <2>1. \A k \in DOMAIN versions' : \/ k \in DOMAIN versions /\ versions'[k] = versions[k]
                                    \/ versions'[k].state = "draft"
    <3> DEFINE v == Draft(req[r].definition)
    <3>1. versions' = With(versions, NextKey(r), v) /\ v.state = "draft"
      BY <1>3 DEF PublishCommit, Draft
    <3> HIDE DEF v
    <3>2. \A k \in DOMAIN versions' : IF k = NextKey(r) THEN versions'[k] = v
                                      ELSE k \in DOMAIN versions /\ versions'[k] = versions[k]
      BY <3>1 DEF With
    <3> QED
      BY <3>1, <3>2
  <2>2. /\ DOMAIN bots' = DOMAIN bots
        /\ \A b \in DOMAIN bots : bots'[b].state = bots[b].state
    <3>1. bots' = [bots EXCEPT ![req[r].bot].current_version = NextKey(r)[2]]
      BY <1>3 DEF PublishCommit
    <3>2. \A b \in DOMAIN bots : bots[b] \in BotRows
      BY DEF IInv, TablesOK
    <3> QED
      BY <3>1, <3>2 DEF BotRows
  <2>3. \A s \in Requests : req'[s] = IF s = r THEN Idle ELSE req[s]
    BY <1>3 DEF PublishCommit, IInv, RequestsOK
  <2>4. Idle.at = "idle"
    BY DEF Idle
  <2> QED
    BY <1>1, <2>1, <2>2, <2>3, <2>4 DEF ListedOnRecord
<1> QED
  BY <1>2, <1>3

LEMMA QualifyLists ==
    ASSUME IInv, IInv', ListedOnRecord, NEW r \in Requests, QualifyCommit(r), AuditGrows
    PROVE  ListedOnRecord'
<1> DEFINE state == req[r].version.state
           to == Outcome(req[r].definition \in Qualifying, state)
           stamp == Stamped(req[r].definition \in Qualifying, state)
<1>1. req[r].at = "qualify:version"
  BY DEF QualifyCommit
<1>2. CASE Transition(r, to, stamp)
  <2> HIDE DEF to, stamp
  <2> QED
    BY <1>1, <1>2, TransitionLists
<1>3. CASE /\ Mirror(r, state)
           /\ req' = [req EXCEPT ![r] = Idle]
           /\ UNCHANGED <<versions, audit>>
  <2>1. req[r].bot \in DOMAIN bots
    BY <1>1, CurrentKeyExists
  <2>2. state = "listed" => ListedOnce(req[r].bot, audit)
    BY <1>1 DEF ListedOnRecord
  <2>3. \A b \in DOMAIN bots' : /\ b \in DOMAIN bots
                                /\ \/ bots'[b].state = bots[b].state
                                   \/ b = req[r].bot /\ bots'[b].state = state
    <3>1. bots' = bots \/ bots' = [bots EXCEPT ![req[r].bot].state = state]
      BY <1>3 DEF Mirror
    <3>2. \A b \in DOMAIN bots : bots[b] \in BotRows
      BY DEF IInv, TablesOK
    <3> HIDE DEF state
    <3> QED
      BY <2>1, <3>1, <3>2 DEF BotRows
  <2>4. \A s \in Requests : req'[s] = IF s = r THEN Idle ELSE req[s]
    BY <1>3 DEF IInv, RequestsOK
  <2>5. Idle.at = "idle"
    BY DEF Idle
  <2> HIDE DEF state
  <2> QED
    BY <1>3, <2>2, <2>3, <2>4, <2>5 DEF ListedOnRecord
<1> QED
  BY <1>2, <1>3 DEF QualifyCommit

LEMMA ReadingLists ==
    ASSUME IInv, ListedOnRecord, NEW r \in Requests, Reads(r)
    PROVE  ListedOnRecord'
<1>1. UNCHANGED <<bots, versions, audit>>
  BY ReadsLoad
<1>2. PICK q \in RequestStates : req' = [req EXCEPT ![r] = q] /\ LoadsVersion(r, q)
  BY ReadsLoad
<1> QED
  BY <1>1, <1>2, RequestLists DEF LoadsVersion

\* What the lifecycle calls listed is on record after each of its steps.
LEMMA LifecycleLists ==
    ASSUME IInv, IInv', AuditGrows, ListedOnRecord, LifecycleNext
    PROVE  ListedOnRecord'
<1>1. CASE \/ \E b \in Bots, d \in Definitions : CreateBot(b, d)
           \/ \E r \in Requests : PublishCommit(r)
  BY <1>1, NewRowsAreDrafts
<1>2. ASSUME NEW r \in Requests, TransitionCommit(r)
      PROVE  ListedOnRecord'
  <2> DEFINE to == req[r].to
             stamp == FALSE
  <2>1. req[r].at \in {"transition:version", "qualify:version"}
    BY <1>2 DEF TransitionCommit
  <2>2. Transition(r, to, stamp)
    BY <1>2 DEF TransitionCommit
  <2> HIDE DEF to, stamp
  <2> QED
    BY <2>1, <2>2, TransitionLists
<1>3. ASSUME NEW r \in Requests, QualifyCommit(r)
      PROVE  ListedOnRecord'
  BY <1>3, QualifyLists
<1> QED
  BY <1>1, <1>2, <1>3, ReadingLists DEF LifecycleNext, Reads

\* The lifecycle moves under the requests on listings without taking
\* anything back that they have read.
LEMMA LifecycleKeepsMarket ==
    ASSUME MarketInv, LifecycleNext, UNCHANGED marketVars
    PROVE  MarketInv'
<1>1. IInv' /\ VersionsKept /\ AuditGrows
  BY StepKept DEF MarketInv, Kept
<1>2. ListedOnRecord'
  BY <1>1, LifecycleLists DEF MarketInv
<1>3. \A b : ListedOnce(b, audit) => ListedOnce(b, audit')
  BY <1>1, ListedStays DEF MarketInv
<1>4. ListingsOK'
  BY <1>3 DEF MarketInv, ListingsOK, marketVars
<1>5. \A k \in DOMAIN versions : k \in DOMAIN versions'
  BY <1>1 DEF VersionsKept
<1>6. SalesOK'
  <2>1. ASSUME NEW p \in Sellers PROVE SaleOK(sale[p])'
    <3>1. SaleOK(sale[p]) /\ sale'[p] = sale[p] /\ listings' = listings
      BY DEF MarketInv, SalesOK, marketVars
    <3>2. PublishOK(sale[p]) => PublishOK(sale[p])'
      BY <1>1, <1>3, <1>5, <3>1 DEF PublishOK, VersionsKept
    <3>3. LoadedOK(sale[p]) => LoadedOK(sale[p])'
      BY <3>1 DEF LoadedOK
    <3> QED
      BY <3>1, <3>2, <3>3 DEF SaleOK
  <2> QED
    BY <2>1 DEF MarketInv, SalesOK, marketVars
<1>7. Counted'
  BY DEF MarketInv, Counted, ListingsOf, Inserting, marketVars
<1>8. RecordsReproducible'
  BY <1>1, <1>5 DEF MarketInv, RecordsReproducible, VersionsKept, marketVars
<1> QED
  BY <1>1, <1>2, <1>4, <1>6, <1>7, <1>8 DEF MarketInv

-----------------------------------------------------------------------------
(* The steps of the requests on listings. *)

LEMMA NoSaleOK == SaleOK(NoSale) /\ NoSale.at = "idle"
BY DEF NoSale, SaleOK, SaleStates, SaleStages, Status, LoadedOK

\* The lifecycle rests while a request on listings moves.
LEMMA LifecycleRests ==
    ASSUME MarketInv, UNCHANGED lifecycleVars
    PROVE  IInv' /\ ListedOnRecord'
<1>1. IInv'
  BY StutterKept DEF MarketInv, Kept
<1>2. ListedOnRecord'
  BY DEF MarketInv, ListedOnRecord, lifecycleVars
<1> QED
  BY <1>1, <1>2

\* A request that does not write keeps the invariant.  One that goes on to
\* insert a listing has found none.
LEMMA SaleMoves ==
    ASSUME MarketInv, NEW p \in Sellers, NEW q, SaleOK(q),
           q.at = "publish:listing" /\ q.listing = None => ListingsOf(q.bot) = {},
           sale' = [sale EXCEPT ![p] = q],
           UNCHANGED <<lifecycleVars, listings, traces>>
    PROVE  MarketInv'
<1>1. IInv' /\ ListedOnRecord'
  BY LifecycleRests
<1>2. ListingsOK'
  BY DEF MarketInv, ListingsOK, lifecycleVars
<1>3. \A s \in Sellers : sale'[s] = IF s = p THEN q ELSE sale[s]
  BY DEF MarketInv, SalesOK
<1>4. SalesOK'
  <2>1. DOMAIN sale' = Sellers /\ sale' = [s \in Sellers |-> sale'[s]]
    BY DEF MarketInv, SalesOK
  <2>2. \A s \in Sellers : SaleOK(sale'[s])
    BY <1>3 DEF MarketInv, SalesOK
  <2>3. \A s \in Sellers : SaleOK(sale[s])'
    BY <2>2 DEF SaleOK, PublishOK, LoadedOK, lifecycleVars
  <2> QED
    BY <2>1, <2>3 DEF SalesOK
<1>5. Counted'
  <2>1. SUFFICES ASSUME NEW b \in Bots
                 PROVE  /\ IsFiniteSet(ListingsOf(b)')
                        /\ Cardinality(ListingsOf(b)') + Cardinality(Inserting(b)')
                            <= Cardinality(Sellers)
    BY DEF Counted
  <2>2. ListingsOf(b)' = ListingsOf(b)
    BY DEF ListingsOf
  <2>3. /\ IsFiniteSet(ListingsOf(b))
        /\ Cardinality(ListingsOf(b)) + Cardinality(Inserting(b)) <= Cardinality(Sellers)
    BY DEF MarketInv, Counted
  <2>4. Inserting(b)' \in SUBSET Sellers /\ Inserting(b) \in SUBSET Sellers
    BY DEF Inserting
  <2>5. /\ Cardinality(ListingsOf(b)) \in Nat /\ Cardinality(Sellers) \in Nat
        /\ IsFiniteSet(Inserting(b)) /\ Cardinality(Inserting(b)) \in Nat
        /\ Cardinality(Inserting(b)') \in Nat
        /\ Cardinality(Inserting(b)') <= Cardinality(Sellers)
    BY <2>3, <2>4, MarketAssumption, FS_CardinalityType, FS_Subset
  <2>6. CASE q.at = "publish:listing" /\ q.listing = None /\ q.bot = b
    <3>1. Cardinality(ListingsOf(b)) = 0
      BY <2>6, FS_EmptySet
    <3> QED
      BY <2>2, <2>3, <2>5, <3>1
  <2>7. CASE ~(q.at = "publish:listing" /\ q.listing = None /\ q.bot = b)
    <3>1. Inserting(b)' \in SUBSET Inserting(b)
      BY <1>3, <2>7 DEF Inserting
    <3>2. Cardinality(Inserting(b)') <= Cardinality(Inserting(b))
      BY <2>5, <3>1, FS_Subset
    <3> QED
      BY <2>2, <2>3, <2>5, <3>2
  <2> QED
    BY <2>6, <2>7
<1>6. RecordsReproducible'
  BY DEF MarketInv, RecordsReproducible, lifecycleVars
<1> QED
  BY <1>1, <1>2, <1>4, <1>5, <1>6 DEF MarketInv

\* What a publication has read makes a row of a bot that has been listed, with
\* the record of the version it has backtested.
LEMMA OfferTyped ==
    ASSUME MarketInv, NEW p \in Sellers, sale[p].at = "publish:listing"
    PROVE  /\ Offer(p) \in ListingRows /\ Offer(p).bot = sale[p].bot
           /\ ListedOnce(sale[p].bot, audit) /\ SoldKey(p) \in Keys
           /\ SoldKey(p)[1] = sale[p].bot /\ SoldKey(p) \in DOMAIN versions
           /\ versions[SoldKey(p)].definition = Offer(p).record
<1>1. PublishOK(sale[p])
  BY DEF MarketInv, SalesOK, SaleOK
<1> QED
  BY <1>1 DEF PublishOK, Offer, ListingRows, BotRows, VersionRows, Status, SoldKey, Keys

\* A publication that inserts a listing stops being one that will.
LEMMA InsertKeeps ==
    ASSUME MarketInv, NEW p \in Sellers, NEW l \in Listings,
           PublishListingInsert(p, l), UNCHANGED lifecycleVars
    PROVE  MarketInv'
<1> DEFINE new == Offer(p)
           mine == sale[p].bot
<1>0. /\ new \in ListingRows /\ new.bot = mine /\ ListedOnce(mine, audit)
      /\ SoldKey(p) \in Keys /\ SoldKey(p) \in DOMAIN versions
      /\ SoldKey(p)[1] = mine /\ versions[SoldKey(p)].definition = new.record
  BY OfferTyped DEF PublishListingInsert
<1>1. IInv' /\ ListedOnRecord'
  BY LifecycleRests
<1>2. /\ l \notin DOMAIN listings
      /\ DOMAIN listings' = DOMAIN listings \cup {l}
      /\ \A m \in DOMAIN listings' : listings'[m] = IF m = l THEN new ELSE listings[m]
  BY DEF PublishListingInsert, With
<1>3. \A s \in Sellers : sale'[s] = IF s = p THEN NoSale ELSE sale[s]
  BY DEF MarketInv, SalesOK, PublishListingInsert
<1>a. sale[p].at = "publish:listing" /\ sale[p].listing = None
  BY DEF PublishListingInsert
<1>b. traces' = traces \cup {SoldKey(p)}
  BY DEF PublishListingInsert
<1>c. DOMAIN sale' = Sellers /\ sale' = [s \in Sellers |-> sale'[s]]
  BY DEF MarketInv, SalesOK, PublishListingInsert
<1> HIDE DEF new
<1>4. ListingsOK'
  BY <1>0, <1>2, <1>b DEF MarketInv, ListingsOK, lifecycleVars
<1>5. SalesOK'
  <2>1. ASSUME NEW s \in Sellers PROVE SaleOK(sale'[s])
    BY <1>3, NoSaleOK DEF MarketInv, SalesOK
  <2>2. ASSUME NEW q, SaleOK(q) PROVE SaleOK(q)'
    <3>1. LoadedOK(q) => LoadedOK(q)'
      BY <1>2 DEF LoadedOK
    <3>2. PublishOK(q) => PublishOK(q)'
      BY DEF PublishOK, lifecycleVars
    <3> QED
      BY <2>2, <3>1, <3>2 DEF SaleOK
  <2>3. \A s \in Sellers : SaleOK(sale[s])'
    BY <2>1, <2>2
  <2> QED
    BY <1>c, <2>3 DEF SalesOK
<1>6. Counted'
  <2>1. SUFFICES ASSUME NEW b \in Bots
                 PROVE  /\ IsFiniteSet(ListingsOf(b)')
                        /\ Cardinality(ListingsOf(b)') + Cardinality(Inserting(b)')
                            <= Cardinality(Sellers)
    BY DEF Counted
  <2>2. /\ IsFiniteSet(ListingsOf(b))
        /\ Cardinality(ListingsOf(b)) + Cardinality(Inserting(b)) <= Cardinality(Sellers)
    BY DEF MarketInv, Counted
  <2>3. IsFiniteSet(Inserting(b))
    <3>1. Inserting(b) \in SUBSET Sellers
      BY DEF Inserting
    <3> QED
      BY <3>1, MarketAssumption, FS_Subset
  <2>4. CASE b = mine
    <3>1. ListingsOf(b)' = ListingsOf(b) \cup {l}
      BY <1>0, <1>2, <2>4 DEF ListingsOf
    <3>2. Inserting(b)' = Inserting(b) \ {p}
      BY <1>3, NoSaleOK DEF Inserting
    <3>3. p \in Inserting(b) /\ l \notin ListingsOf(b)
      BY <1>2, <1>a, <2>4 DEF Inserting, ListingsOf
    <3>4. /\ IsFiniteSet(ListingsOf(b) \cup {l})
          /\ Cardinality(ListingsOf(b) \cup {l}) = Cardinality(ListingsOf(b)) + 1
      BY <2>2, <3>3, FS_AddElement
    <3>5. Cardinality(Inserting(b) \ {p}) = Cardinality(Inserting(b)) - 1
      BY <2>3, <3>3, FS_RemoveElement
    <3>6. Cardinality(ListingsOf(b)) \in Nat /\ Cardinality(Inserting(b)) \in Nat
      BY <2>2, <2>3, FS_CardinalityType
    <3> QED
      BY <2>2, <3>1, <3>2, <3>4, <3>5, <3>6
  <2>5. CASE b # mine
    <3>1. ListingsOf(b)' = ListingsOf(b)
      BY <1>0, <1>2, <2>5 DEF ListingsOf
    <3>2. Inserting(b)' = Inserting(b)
      BY <1>3, <2>5, NoSaleOK DEF Inserting
    <3> QED
      BY <2>2, <3>1, <3>2
  <2> QED
    BY <2>4, <2>5
<1>7. RecordsReproducible'
  <2>1. /\ versions' = versions /\ SoldKey(p) \in traces'
        /\ \A k \in traces : k \in traces'
    BY <1>b DEF lifecycleVars
  <2>2. ASSUME NEW m \in DOMAIN listings'
        PROVE  \E k \in traces' : /\ k[1] = listings'[m].bot /\ k \in DOMAIN versions'
                                  /\ versions'[k].definition = listings'[m].record
    <3>1. CASE m = l
      BY <1>0, <1>2, <2>1, <3>1
    <3>2. CASE m # l
      BY <1>2, <2>1, <3>2 DEF MarketInv, RecordsReproducible
    <3> QED
      BY <3>1, <3>2
  <2> QED
    BY <2>2 DEF RecordsReproducible
<1> QED
  BY <1>1, <1>4, <1>5, <1>6, <1>7 DEF MarketInv

\* An update leaves a row a row.
LEMMA UpdatedTyped ==
    ASSUME NEW present \in ListingRows, NEW loaded, NEW new \in ListingRows,
           new.bot = present.bot
    PROVE  /\ Updated(present, loaded, new) \in ListingRows
           /\ Updated(present, loaded, new).bot = present.bot
           /\ \/ Updated(present, loaded, new).record = new.record /\ new.record # loaded.record
              \/ Updated(present, loaded, new).record = present.record
<1> DEFINE u == Updated(present, loaded, new)
<1>1. /\ u = [c \in {"bot", "bot_version", "record", "status"} |-> u[c]]
      /\ u.bot = present.bot
      /\ u.bot_version \in Numbers /\ u.record \in Definitions /\ u.status \in Status
      /\ \/ u.record = new.record /\ new.record # loaded.record
         \/ u.record = present.record
  BY DEF Updated, ListingRows
<1>2. present.bot \in Bots
  BY DEF ListingRows
<1> HIDE DEF u
<1>3. u \in ListingRows
  BY <1>1, <1>2 DEF ListingRows
<1> QED
  BY <1>1, <1>3 DEF u

\* A listing is updated with a row of the same bot.
LEMMA UpdateKeeps ==
    ASSUME MarketInv, NEW p \in Sellers, NEW l \in DOMAIN listings,
           NEW loaded, NEW new \in ListingRows, new.bot = listings[l].bot,
           listings' = [listings EXCEPT ![l] = Updated(@, loaded, new)],
           traces \subseteq traces', traces' \subseteq Keys,
           \/ new.record = loaded.record
           \/ \E k \in traces' : /\ k[1] = new.bot /\ k \in DOMAIN versions
                                /\ versions[k].definition = new.record,
           sale' = [sale EXCEPT ![p] = NoSale], UNCHANGED lifecycleVars
    PROVE  MarketInv'
<1> DEFINE u == Updated(listings[l], loaded, new)
<1>1. IInv' /\ ListedOnRecord'
  BY LifecycleRests
<1>2. /\ u \in ListingRows /\ u.bot = listings[l].bot
      /\ \/ u.record = new.record /\ new.record # loaded.record
         \/ u.record = listings[l].record
  BY UpdatedTyped DEF MarketInv, ListingsOK
<1>3. /\ DOMAIN listings' = DOMAIN listings
      /\ \A m \in DOMAIN listings' : listings'[m] = IF m = l THEN u ELSE listings[m]
  OBVIOUS
<1> HIDE DEF u
<1>4. \A m \in DOMAIN listings : listings'[m].bot = listings[m].bot
  BY <1>2, <1>3
<1>5. ListingsOK'
  BY <1>2, <1>3, <1>4 DEF MarketInv, ListingsOK, lifecycleVars
<1>6. \A s \in Sellers : sale'[s] = IF s = p THEN NoSale ELSE sale[s]
  BY DEF MarketInv, SalesOK
<1>7. SalesOK'
  <2>1. DOMAIN sale' = Sellers /\ sale' = [s \in Sellers |-> sale'[s]]
    BY DEF MarketInv, SalesOK
  <2>2. ASSUME NEW s \in Sellers PROVE SaleOK(sale'[s])
    BY <1>6, NoSaleOK DEF MarketInv, SalesOK
  <2>3. ASSUME NEW q, SaleOK(q) PROVE SaleOK(q)'
    <3>1. LoadedOK(q) => LoadedOK(q)'
      BY <1>3, <1>4 DEF LoadedOK
    <3>2. PublishOK(q) => PublishOK(q)'
      BY DEF PublishOK, lifecycleVars
    <3> QED
      BY <2>3, <3>1, <3>2 DEF SaleOK
  <2>4. \A s \in Sellers : SaleOK(sale[s])'
    BY <2>2, <2>3
  <2> QED
    BY <2>1, <2>4 DEF SalesOK
<1>8. Counted'
  <2>1. SUFFICES ASSUME NEW b \in Bots
                 PROVE  /\ IsFiniteSet(ListingsOf(b)')
                        /\ Cardinality(ListingsOf(b)') + Cardinality(Inserting(b)')
                            <= Cardinality(Sellers)
    BY DEF Counted
  <2>2. /\ IsFiniteSet(ListingsOf(b))
        /\ Cardinality(ListingsOf(b)) + Cardinality(Inserting(b)) <= Cardinality(Sellers)
    BY DEF MarketInv, Counted
  <2>3. ListingsOf(b)' = ListingsOf(b)
    BY <1>3, <1>4 DEF ListingsOf
  <2>4. Inserting(b)' \in SUBSET Inserting(b)
    BY <1>6, NoSaleOK DEF Inserting
  <2>5. IsFiniteSet(Inserting(b))
    <3>1. Inserting(b) \in SUBSET Sellers
      BY DEF Inserting
    <3> QED
      BY <3>1, MarketAssumption, FS_Subset
  <2>6. /\ Cardinality(Inserting(b)') <= Cardinality(Inserting(b))
        /\ IsFiniteSet(Inserting(b)')
    BY <2>4, <2>5, FS_Subset
  <2>7. /\ Cardinality(ListingsOf(b)) \in Nat /\ Cardinality(Inserting(b)) \in Nat
        /\ Cardinality(Inserting(b)') \in Nat /\ Cardinality(Sellers) \in Nat
    BY <2>2, <2>5, <2>6, MarketAssumption, FS_CardinalityType
  <2> QED
    BY <2>2, <2>3, <2>6, <2>7
<1>9. RecordsReproducible'
  <2>1. versions' = versions /\ \A k \in traces : k \in traces'
    BY DEF lifecycleVars
  <2>2. ASSUME NEW m \in DOMAIN listings'
        PROVE  \E k \in traces' : /\ k[1] = listings'[m].bot /\ k \in DOMAIN versions'
                                  /\ versions'[k].definition = listings'[m].record
    <3>1. CASE m = l /\ u.record # listings[l].record
      BY <1>2, <1>3, <2>1, <3>1
    <3>2. CASE m # l \/ u.record = listings[l].record
      <4>1. /\ listings'[m].record = listings[m].record
            /\ listings'[m].bot = listings[m].bot /\ m \in DOMAIN listings
        BY <1>3, <1>4, <3>2
      <4> QED
        BY <2>1, <4>1 DEF MarketInv, RecordsReproducible
    <3> QED
      BY <3>1, <3>2
  <2> QED
    BY <2>2 DEF RecordsReproducible
<1> QED
  BY <1>1, <1>5, <1>7, <1>8, <1>9 DEF MarketInv

LEMMA LoadBotKeepsMarket ==
    ASSUME MarketInv, NEW p \in Sellers, NEW b \in Bots, PublishListingLoadBot(p, b),
           UNCHANGED lifecycleVars
    PROVE  MarketInv'
<1> DEFINE row == bots[b]
           q == [sale[p] EXCEPT !.at = "publish:bot", !.bot = b, !.row = row]
<1>1. sale[p] \in SaleStates /\ sale[p].listing = None
  BY DEF PublishListingLoadBot, MarketInv, SalesOK, SaleOK
<1>2. row \in BotRows /\ b \in DOMAIN bots
  BY DEF PublishListingLoadBot, MarketInv, IInv, TablesOK
<1>3. <<b, row.current_version>> \in DOMAIN versions
  <2>1. row.current_version \in 1..row.current_version
    BY <1>2, LifecycleAssumption DEF BotRows, Numbers
  <2> QED
    BY <1>2, <2>1 DEF MarketInv, IInv, VersionsContiguous
<1>4. row.state = "listed" => ListedOnce(b, audit)
  BY <1>2 DEF MarketInv, ListedOnRecord
<1>5. sale' = [sale EXCEPT ![p] = q] /\ UNCHANGED <<listings, traces>>
  BY DEF PublishListingLoadBot
<1> HIDE DEF row
<1>6. q.at = "publish:bot" /\ q.bot = b /\ q.row = row /\ q.listing = None
  BY <1>1 DEF SaleStates
<1>7. q \in SaleStates
  BY <1>1, <1>2 DEF SaleStates, SaleStages
<1> HIDE DEF q
<1>8. SaleOK(q)
  BY <1>2, <1>3, <1>4, <1>6, <1>7 DEF SaleOK, PublishOK
<1> QED
  BY <1>5, <1>6, <1>8, SaleMoves

LEMMA LoadVersionKeepsMarket ==
    ASSUME MarketInv, NEW p \in Sellers, PublishListingLoadVersion(p),
           UNCHANGED lifecycleVars
    PROVE  MarketInv'
<1> DEFINE v == versions[SoldKey(p)]
           q == [sale[p] EXCEPT !.at = "publish:version", !.version = v]
<1>1. SaleOK(sale[p]) /\ sale[p].at = "publish:bot" /\ sale[p].row.state = "listed"
  BY DEF PublishListingLoadVersion, Offerable, MarketInv, SalesOK
<1>2. sale[p] \in SaleStates /\ PublishOK(sale[p])
  BY <1>1 DEF SaleOK
<1>3. /\ v \in VersionRows
      /\ v = versions[<<sale[p].bot, sale[p].row.current_version>>]
  BY <1>2 DEF PublishOK, SoldKey, MarketInv, IInv, TablesOK
<1>4. sale' = [sale EXCEPT ![p] = q] /\ UNCHANGED <<listings, traces>>
  BY DEF PublishListingLoadVersion
<1> HIDE DEF v
<1>5. /\ q.at = "publish:version" /\ q.bot = sale[p].bot /\ q.row = sale[p].row
      /\ q.version = v /\ q.listing = sale[p].listing
  BY <1>2 DEF SaleStates
<1>6. q \in SaleStates
  BY <1>2, <1>3 DEF SaleStates, SaleStages
<1> HIDE DEF q
<1>7. SaleOK(q)
  BY <1>1, <1>2, <1>3, <1>5, <1>6 DEF SaleOK, PublishOK
<1> QED
  BY <1>4, <1>5, <1>7, SaleMoves

LEMMA FindKeepsMarket ==
    ASSUME MarketInv, NEW p \in Sellers, PublishListingFind(p), UNCHANGED lifecycleVars
    PROVE  MarketInv'
<1>1. SaleOK(sale[p]) /\ sale[p].at = "publish:version"
  BY DEF PublishListingFind, MarketInv, SalesOK
<1>2. sale[p] \in SaleStates /\ PublishOK(sale[p]) /\ sale[p].listing = None
  BY <1>1 DEF SaleOK, PublishOK
<1>3. CASE /\ ListingsOf(sale[p].bot) = {}
           /\ sale' = [sale EXCEPT ![p].at = "publish:listing"]
  <2> DEFINE q == [sale[p] EXCEPT !.at = "publish:listing"]
  <2>1. sale' = [sale EXCEPT ![p] = q] /\ UNCHANGED <<listings, traces>>
    BY <1>3 DEF PublishListingFind
  <2>2. /\ q.at = "publish:listing" /\ q.bot = sale[p].bot /\ q.row = sale[p].row
        /\ q.version = sale[p].version /\ q.listing = None
    BY <1>2 DEF SaleStates
  <2>3. q \in SaleStates
    BY <1>2 DEF SaleStates, SaleStages
  <2> HIDE DEF q
  <2>4. SaleOK(q)
    BY <1>1, <1>2, <2>2, <2>3 DEF SaleOK, PublishOK
  <2> QED
    BY <1>3, <2>1, <2>2, <2>4, SaleMoves
<1>4. ASSUME NEW l \in ListingsOf(sale[p].bot),
             sale' = [sale EXCEPT ![p].at = "publish:listing", ![p].listing = l,
                                  ![p].loaded = listings[l]]
      PROVE  MarketInv'
  <2> DEFINE row == listings[l]
             q == [sale[p] EXCEPT !.at = "publish:listing", !.listing = l,
                                  !.loaded = row]
  <2>1. /\ l \in DOMAIN listings /\ l \in Listings /\ l # None
        /\ row \in ListingRows /\ row.bot = sale[p].bot
    BY MarketAssumption DEF ListingsOf, MarketInv, ListingsOK
  <2>2. sale' = [sale EXCEPT ![p] = q] /\ UNCHANGED <<listings, traces>>
    BY <1>4 DEF PublishListingFind
  <2>h. listings[l] = row
    OBVIOUS
  <2> HIDE DEF row
  <2>3. /\ q.at = "publish:listing" /\ q.bot = sale[p].bot /\ q.row = sale[p].row
        /\ q.version = sale[p].version /\ q.listing = l /\ q.loaded = row
    BY <1>2 DEF SaleStates
  <2>4. q \in SaleStates
    BY <1>2, <2>1 DEF SaleStates, SaleStages
  <2> HIDE DEF q
  <2>5. PublishOK(q)
    BY <1>1, <1>2, <2>3 DEF PublishOK
  <2>6. LoadedOK(q) /\ q.loaded.bot = q.bot
    BY <2>1, <2>3, <2>h DEF LoadedOK
  <2>7. SaleOK(q)
    BY <2>3, <2>4, <2>5, <2>6 DEF SaleOK
  <2> QED
    BY <2>1, <2>2, <2>3, <2>7, SaleMoves
<1> QED
  BY <1>3, <1>4 DEF PublishListingFind

LEMMA SetStatusLoadKeeps ==
    ASSUME MarketInv, NEW p \in Sellers, NEW l \in Listings, NEW status \in Status,
           SetStatusLoad(p, l, status), UNCHANGED lifecycleVars
    PROVE  MarketInv'
<1> DEFINE row == listings[l]
           q == [sale[p] EXCEPT !.at = "status:listing", !.listing = l,
                                !.loaded = row, !.status = status]
<1>1. sale[p] \in SaleStates
  BY DEF MarketInv, SalesOK, SaleOK
<1>2. l \in DOMAIN listings /\ row \in ListingRows /\ row = listings[l]
  BY DEF SetStatusLoad, MarketInv, ListingsOK
<1>3. sale' = [sale EXCEPT ![p] = q] /\ UNCHANGED <<listings, traces>>
  BY DEF SetStatusLoad
<1> HIDE DEF row
<1>4. /\ q.at = "status:listing" /\ q.listing = l /\ q.loaded = row
      /\ q.status = status
  BY <1>1 DEF SaleStates
<1>5. q \in SaleStates
  BY <1>1, <1>2 DEF SaleStates, SaleStages
<1> HIDE DEF q
<1>6. SaleOK(q)
  BY <1>2, <1>4, <1>5 DEF SaleOK, LoadedOK
<1> QED
  BY <1>3, <1>4, <1>6, SaleMoves

LEMMA SaleRefusedKeeps ==
    ASSUME MarketInv, NEW p \in Sellers, SaleRefused(p), UNCHANGED lifecycleVars
    PROVE  MarketInv'
<1>1. sale' = [sale EXCEPT ![p] = NoSale] /\ UNCHANGED <<listings, traces>>
  BY DEF SaleRefused
<1> QED
  BY <1>1, NoSaleOK, SaleMoves

LEMMA WritesKeep ==
    ASSUME MarketInv, NEW p \in Sellers, UNCHANGED lifecycleVars,
           PublishListingUpdate(p) \/ SetStatusCommit(p)
    PROVE  MarketInv'
<1> DEFINE l == sale[p].listing
           loaded == sale[p].loaded
<1>1. CASE PublishListingUpdate(p)
  <2> DEFINE new == Offer(p)
  <2>1. sale[p].at = "publish:listing" /\ l # None
    BY <1>1 DEF PublishListingUpdate
  <2>2. l \in DOMAIN listings /\ listings[l].bot = sale[p].bot
    BY <2>1 DEF MarketInv, SalesOK, SaleOK, LoadedOK
  <2>3. /\ new \in ListingRows /\ new.bot = listings[l].bot
        /\ SoldKey(p) \in Keys /\ SoldKey(p) \in DOMAIN versions
        /\ SoldKey(p)[1] = new.bot /\ versions[SoldKey(p)].definition = new.record
    BY <2>1, <2>2, OfferTyped
  <2>4. /\ traces \subseteq traces' /\ traces' \subseteq Keys
        /\ \E k \in traces' : /\ k[1] = new.bot /\ k \in DOMAIN versions
                              /\ versions[k].definition = new.record
    <3>1. traces' = traces \cup {SoldKey(p)} /\ traces \subseteq Keys
      BY <1>1 DEF PublishListingUpdate, MarketInv, ListingsOK
    <3> HIDE DEF new
    <3> QED
      BY <2>3, <3>1
  <2>5. /\ listings' = [listings EXCEPT ![l] = Updated(@, loaded, new)]
        /\ sale' = [sale EXCEPT ![p] = NoSale]
    BY <1>1 DEF PublishListingUpdate
  <2> HIDE DEF new, l, loaded
  <2> QED
    BY <2>2, <2>3, <2>4, <2>5, UpdateKeeps
<1>2. CASE SetStatusCommit(p)
  <2> DEFINE status == sale[p].status
             new == [loaded EXCEPT !.status = status]
  <2>1. /\ l \in DOMAIN listings /\ loaded \in ListingRows
        /\ loaded.bot = listings[l].bot /\ status \in Status
    BY <1>2 DEF SetStatusCommit, MarketInv, SalesOK, SaleOK, LoadedOK
  <2>2. traces \subseteq traces' /\ traces' \subseteq Keys
    BY <1>2 DEF SetStatusCommit, MarketInv, ListingsOK
  <2>3. /\ listings' = [listings EXCEPT ![l] = Updated(@, loaded, new)]
        /\ sale' = [sale EXCEPT ![p] = NoSale]
    BY <1>2 DEF SetStatusCommit
  <2> HIDE DEF l, loaded, status
  <2>4. /\ new \in ListingRows /\ new.bot = loaded.bot
        /\ new.record = loaded.record
    BY <2>1 DEF ListingRows
  <2> HIDE DEF new
  <2> QED
    BY <2>1, <2>2, <2>3, <2>4, UpdateKeeps
<1> QED
  BY <1>1, <1>2

LEMMA SaleStepKeeps ==
    ASSUME MarketInv, SaleNext, UNCHANGED lifecycleVars
    PROVE  MarketInv'
BY LoadBotKeepsMarket, LoadVersionKeepsMarket, SaleRefusedKeeps, FindKeepsMarket,
   InsertKeeps, WritesKeep, SetStatusLoadKeeps
   DEF SaleNext, PublishListingNotListed, PublishListingAmbiguous

LEMMA MarketStarts == MarketInit => MarketInv
<1> SUFFICES ASSUME MarketInit PROVE MarketInv
  OBVIOUS
<1>1. /\ IInv /\ listings = << >> /\ traces = {} /\ bots = << >> /\ versions = << >>
      /\ sale = [p \in Sellers |-> NoSale] /\ req = [r \in Requests |-> Idle]
  BY InitIInv DEF MarketInit, Init
<1>2. ListedOnRecord
  BY <1>1 DEF ListedOnRecord, Idle
<1>3. ListingsOK
  BY <1>1 DEF ListingsOK
<1>4. SalesOK
  BY <1>1, NoSaleOK DEF SalesOK
<1>5. Counted
  <2>1. SUFFICES ASSUME NEW b \in Bots
                 PROVE  /\ IsFiniteSet(ListingsOf(b))
                        /\ Cardinality(ListingsOf(b)) + Cardinality(Inserting(b))
                            <= Cardinality(Sellers)
    BY DEF Counted
  <2>2. ListingsOf(b) = {} /\ Inserting(b) = {}
    BY <1>1, NoSaleOK DEF ListingsOf, Inserting
  <2>3. Cardinality(Sellers) \in Nat
    BY MarketAssumption, FS_CardinalityType
  <2> QED
    BY <2>2, <2>3, FS_EmptySet
<1>6. RecordsReproducible
  BY <1>1 DEF RecordsReproducible
<1> QED
  BY <1>1, <1>2, <1>3, <1>4, <1>5, <1>6 DEF MarketInv

-----------------------------------------------------------------------------
(* Requests on listings that do not overlap. *)

\* A bot has at most one listing.
OnePerBot ==
    \A l, m \in DOMAIN listings : listings[l].bot = listings[m].bot => l = m

\* What a request has read of the version and of the listing it is about to
\* write is what the tables hold.
SaleTells(q) ==
    /\ q.at \in {"publish:version", "publish:listing"} =>
        q.version.definition = versions[<<q.bot, q.row.current_version>>].definition
    /\ q.at = "publish:listing" /\ q.listing = None => ListingsOf(q.bot) = {}
    /\ q.at \in {"publish:listing", "status:listing"} /\ q.listing # None =>
        q.loaded = listings[q.listing]

SalesTell == OnePerBot /\ ListingTellsVersion /\ \A p \in Sellers : SaleTells(sale[p])

SalesAlone ==
    /\ SalesOverlap => salesOverlapped
    /\ ~salesOverlapped => SalesTell

\* The lifecycle gives new versions and keeps the definitions of the old ones.
LEMMA LifecycleKeepsTelling ==
    ASSUME MarketInv, SalesTell, VersionsKept, UNCHANGED marketVars
    PROVE  SalesTell'
<1>1. UNCHANGED <<listings, sale>> /\ \A b : ListingsOf(b)' = ListingsOf(b)
  BY DEF marketVars, ListingsOf
<1>2. OnePerBot' /\ ListingTellsVersion'
  BY <1>1 DEF SalesTell, OnePerBot, ListingTellsVersion, VersionsKept
<1>3. ASSUME NEW p \in Sellers PROVE SaleTells(sale[p])'
  <2>1. SaleOK(sale[p]) /\ SaleTells(sale[p])
    BY DEF MarketInv, SalesOK, SalesTell
  <2>2. sale[p].at \in {"publish:version", "publish:listing"} =>
            <<sale[p].bot, sale[p].row.current_version>> \in DOMAIN versions
    BY <2>1 DEF SaleOK, PublishOK
  <2> QED
    BY <1>1, <2>1, <2>2 DEF SaleTells, VersionsKept
<1> QED
  BY <1>2, <1>3 DEF SalesTell

\* A request that reads takes what the tables hold.
LEMMA SaleReadTells ==
    ASSUME SalesTell, DOMAIN sale = Sellers, NEW p \in Sellers, NEW q, SaleTells(q),
           sale' = [sale EXCEPT ![p] = q],
           UNCHANGED <<listings, versions>>
    PROVE  SalesTell'
<1>1. \A s \in Sellers : sale'[s] = q \/ sale'[s] = sale[s]
  OBVIOUS
<1>2. \A b : ListingsOf(b)' = ListingsOf(b)
  BY DEF ListingsOf
<1>3. OnePerBot' /\ ListingTellsVersion'
  BY DEF SalesTell, OnePerBot, ListingTellsVersion
<1>4. \A s \in Sellers : SaleTells(sale[s])'
  BY <1>1, <1>2 DEF SaleTells, SalesTell
<1> QED
  BY <1>3, <1>4 DEF SalesTell

LEMMA SaleReadsTell ==
    ASSUME MarketInv, SalesTell, NEW p \in Sellers, UNCHANGED lifecycleVars,
           \/ \E b \in Bots : PublishListingLoadBot(p, b)
           \/ PublishListingLoadVersion(p) \/ SaleRefused(p)
           \/ PublishListingFind(p)
           \/ \E l \in Listings, status \in Status : SetStatusLoad(p, l, status)
    PROVE  SalesTell'
<1>1. /\ SaleOK(sale[p]) /\ sale[p] \in SaleStates /\ SaleTells(sale[p])
      /\ DOMAIN sale = Sellers /\ versions' = versions
  BY DEF MarketInv, SalesOK, SaleOK, SalesTell, lifecycleVars
<1>2. ASSUME NEW b \in Bots, PublishListingLoadBot(p, b) PROVE SalesTell'
  <2> DEFINE q == [sale[p] EXCEPT !.at = "publish:bot", !.bot = b, !.row = bots[b]]
  <2>1. sale' = [sale EXCEPT ![p] = q] /\ listings' = listings
    BY <1>2 DEF PublishListingLoadBot
  <2>2. q.at = "publish:bot"
    BY <1>1 DEF SaleStates
  <2> HIDE DEF q
  <2>3. SaleTells(q)
    BY <2>2 DEF SaleTells
  <2> QED
    BY <1>1, <2>1, <2>3, SaleReadTells
<1>3. CASE PublishListingLoadVersion(p)
  <2> DEFINE v == versions[SoldKey(p)]
             q == [sale[p] EXCEPT !.at = "publish:version", !.version = v]
  <2>1. sale' = [sale EXCEPT ![p] = q] /\ listings' = listings
    BY <1>3 DEF PublishListingLoadVersion
  <2>2. /\ q.at = "publish:version" /\ q.bot = sale[p].bot /\ q.row = sale[p].row
        /\ q.version = v
    BY <1>1 DEF SaleStates
  <2> HIDE DEF q
  <2>3. SaleTells(q)
    BY <2>2 DEF SaleTells, SoldKey
  <2> QED
    BY <1>1, <2>1, <2>3, SaleReadTells
<1>4. CASE SaleRefused(p)
  <2>1. sale' = [sale EXCEPT ![p] = NoSale] /\ listings' = listings
    BY <1>4 DEF SaleRefused
  <2>2. SaleTells(NoSale)
    BY NoSaleOK DEF SaleTells
  <2> QED
    BY <1>1, <2>1, <2>2, SaleReadTells
<1>5. CASE PublishListingFind(p)
  <2>0. sale[p].at = "publish:version" /\ sale[p].listing = None /\ listings' = listings
    BY <1>1, <1>5 DEF PublishListingFind, SaleOK, PublishOK
  <2>1. CASE /\ ListingsOf(sale[p].bot) = {}
             /\ sale' = [sale EXCEPT ![p].at = "publish:listing"]
    <3> DEFINE q == [sale[p] EXCEPT !.at = "publish:listing"]
    <3>1. sale' = [sale EXCEPT ![p] = q]
      BY <2>1
    <3>2. /\ q.at = "publish:listing" /\ q.bot = sale[p].bot /\ q.row = sale[p].row
          /\ q.version = sale[p].version /\ q.listing = None
      BY <1>1, <2>0 DEF SaleStates
    <3> HIDE DEF q
    <3>3. SaleTells(q)
      BY <1>1, <2>0, <2>1, <3>2 DEF SaleTells
    <3> QED
      BY <1>1, <2>0, <3>1, <3>3, SaleReadTells
  <2>2. ASSUME NEW l \in ListingsOf(sale[p].bot),
               sale' = [sale EXCEPT ![p].at = "publish:listing", ![p].listing = l,
                                    ![p].loaded = listings[l]]
        PROVE  SalesTell'
    <3> DEFINE row == listings[l]
               q == [sale[p] EXCEPT !.at = "publish:listing", !.listing = l,
                                    !.loaded = row]
    <3>1. sale' = [sale EXCEPT ![p] = q]
      BY <2>2
    <3>2. l # None
      BY MarketAssumption DEF ListingsOf, MarketInv, ListingsOK
    <3>h. row = listings[l]
      OBVIOUS
    <3> HIDE DEF row
    <3>3. /\ q.at = "publish:listing" /\ q.bot = sale[p].bot /\ q.row = sale[p].row
          /\ q.version = sale[p].version /\ q.listing = l /\ q.loaded = row
      BY <1>1 DEF SaleStates
    <3> HIDE DEF q
    <3>4. SaleTells(q)
      BY <1>1, <2>0, <3>2, <3>3, <3>h DEF SaleTells
    <3> QED
      BY <1>1, <2>0, <3>1, <3>4, SaleReadTells
  <2> QED
    BY <1>5, <2>1, <2>2 DEF PublishListingFind
<1>6. ASSUME NEW l \in Listings, NEW status \in Status, SetStatusLoad(p, l, status)
      PROVE  SalesTell'
  <2> DEFINE row == listings[l]
             q == [sale[p] EXCEPT !.at = "status:listing", !.listing = l,
                                  !.loaded = row, !.status = status]
  <2>1. sale' = [sale EXCEPT ![p] = q] /\ listings' = listings
    BY <1>6 DEF SetStatusLoad
  <2>h. row = listings[l]
    OBVIOUS
  <2> HIDE DEF row
  <2>2. q.at = "status:listing" /\ q.listing = l /\ q.loaded = row
    BY <1>1 DEF SaleStates
  <2> HIDE DEF q
  <2>3. SaleTells(q)
    BY <2>2, <2>h DEF SaleTells
  <2> QED
    BY <1>1, <2>1, <2>3, SaleReadTells
<1> QED
  BY <1>2, <1>3, <1>4, <1>5, <1>6

\* A write on what the table holds writes the row as a whole.
LEMMA UpdatedWhole ==
    ASSUME NEW present \in ListingRows, NEW new \in ListingRows
    PROVE  Updated(present, present, new) = new
BY DEF Updated, ListingRows

\* A write by the only open request leaves a row that tells of its version.
LEMMA WriteTells ==
    ASSUME MarketInv, SalesTell, NEW l, NEW row \in ListingRows,
           \A s \in Sellers : sale'[s].at = "idle",
           DOMAIN listings' = DOMAIN listings \cup {l},
           \A m \in DOMAIN listings' : listings'[m] = IF m = l THEN row ELSE listings[m],
           \A m \in DOMAIN listings : listings[m].bot = row.bot => m = l,
           <<row.bot, row.bot_version>> \in DOMAIN versions,
           row.record = versions[<<row.bot, row.bot_version>>].definition,
           versions' = versions
    PROVE  SalesTell'
<1>1. OnePerBot'
  BY DEF SalesTell, OnePerBot
<1>2. ListingTellsVersion'
  BY DEF SalesTell, ListingTellsVersion
<1>3. \A s \in Sellers : SaleTells(sale[s])'
  BY DEF SaleTells
<1> QED
  BY <1>1, <1>2, <1>3 DEF SalesTell

LEMMA SaleWritesTell ==
    ASSUME MarketInv, SalesTell, NEW p \in Sellers, UNCHANGED lifecycleVars,
           \/ \E l \in Listings : PublishListingInsert(p, l)
           \/ PublishListingUpdate(p) \/ SetStatusCommit(p),
           \A s \in Sellers : s # p => sale[s].at = "idle"
    PROVE  SalesTell'
<1> DEFINE new == Offer(p)
<1>1. /\ SaleOK(sale[p]) /\ SaleTells(sale[p])
      /\ DOMAIN sale = Sellers /\ versions' = versions
  BY DEF MarketInv, SalesOK, SalesTell, lifecycleVars
<1>2. \A s \in Sellers : sale'[s].at = "idle"
  <2>1. sale' = [sale EXCEPT ![p] = NoSale]
    BY DEF PublishListingInsert, PublishListingUpdate, SetStatusCommit
  <2> QED
    BY <1>1, <2>1, NoSaleOK
<1>3. ASSUME sale[p].at = "publish:listing"
      PROVE  /\ new \in ListingRows /\ new.bot = sale[p].bot
             /\ <<new.bot, new.bot_version>> \in DOMAIN versions
             /\ new.record = versions[<<new.bot, new.bot_version>>].definition
  <2>1. /\ new.bot = sale[p].bot /\ new.record = sale[p].version.definition
        /\ new.bot_version = sale[p].row.current_version
    BY DEF Offer
  <2>2. PublishOK(sale[p])
    BY <1>1, <1>3 DEF SaleOK
  <2>3. new \in ListingRows
    BY <1>3, OfferTyped
  <2> HIDE DEF new
  <2> QED
    BY <1>1, <1>3, <2>1, <2>2, <2>3 DEF PublishOK, SaleTells
<1> HIDE DEF new
<1>4. ASSUME NEW l \in Listings, PublishListingInsert(p, l) PROVE SalesTell'
  <2>1. /\ sale[p].at = "publish:listing" /\ sale[p].listing = None
        /\ l \notin DOMAIN listings /\ listings' = With(listings, l, new)
    BY <1>4 DEF PublishListingInsert, new
  <2>2. /\ DOMAIN listings' = DOMAIN listings \cup {l}
        /\ \A m \in DOMAIN listings' : listings'[m] = IF m = l THEN new ELSE listings[m]
    BY <2>1 DEF With
  <2>3. \A m \in DOMAIN listings : listings[m].bot # new.bot
    BY <1>1, <1>3, <2>1 DEF SaleTells, ListingsOf
  <2> QED
    BY <1>1, <1>2, <1>3, <2>1, <2>2, <2>3, WriteTells
<1> DEFINE l == sale[p].listing
<1>5. ASSUME NEW row \in ListingRows, l \in DOMAIN listings, row.bot = listings[l].bot,
             sale[p].loaded = listings[l],
             listings' = [listings EXCEPT ![l] = Updated(@, sale[p].loaded, row)],
             <<row.bot, row.bot_version>> \in DOMAIN versions,
             row.record = versions[<<row.bot, row.bot_version>>].definition
      PROVE  SalesTell'
  <2>1. listings[l] \in ListingRows
    BY <1>5 DEF MarketInv, ListingsOK
  <2>2. Updated(listings[l], listings[l], row) = row
    BY <2>1, UpdatedWhole
  <2> HIDE DEF l
  <2>3. listings' = [listings EXCEPT ![l] = row]
    BY <1>5, <2>2
  <2>4. /\ DOMAIN listings' = DOMAIN listings \cup {l}
        /\ \A m \in DOMAIN listings' : listings'[m] = IF m = l THEN row ELSE listings[m]
        /\ \A m \in DOMAIN listings : listings[m].bot = row.bot => m = l
    BY <1>5, <2>3 DEF SalesTell, OnePerBot
  <2> QED
    BY <1>1, <1>2, <1>5, <2>4, WriteTells
<1>6. CASE PublishListingUpdate(p)
  <2>1. /\ sale[p].at = "publish:listing" /\ l # None
        /\ listings' = [listings EXCEPT ![l] = Updated(@, sale[p].loaded, new)]
    BY <1>6 DEF PublishListingUpdate, new
  <2>2. /\ l \in DOMAIN listings /\ sale[p].loaded = listings[l]
        /\ listings[l].bot = sale[p].bot
    BY <1>1, <2>1 DEF SaleOK, LoadedOK, SaleTells
  <2> QED
    BY <1>3, <1>5, <2>1, <2>2
<1>7. CASE SetStatusCommit(p)
  <2> DEFINE loaded == sale[p].loaded
             row == [loaded EXCEPT !.status = sale[p].status]
  <2>1. /\ sale[p].at = "status:listing"
        /\ listings' = [listings EXCEPT ![l] = Updated(@, sale[p].loaded, row)]
    BY <1>7 DEF SetStatusCommit
  <2>2. /\ l \in DOMAIN listings /\ loaded \in ListingRows /\ sale[p].status \in Status
    BY <1>1, <2>1 DEF SaleOK, LoadedOK
  <2>3. l # None /\ loaded = listings[l]
    BY <1>1, <2>1, <2>2, MarketAssumption DEF SaleTells, MarketInv, ListingsOK
  <2> HIDE DEF loaded
  <2>4. /\ row \in ListingRows /\ row.bot = loaded.bot /\ row.record = loaded.record
        /\ row.bot_version = loaded.bot_version
    BY <2>2 DEF ListingRows
  <2> HIDE DEF row
  <2>5. /\ <<row.bot, row.bot_version>> \in DOMAIN versions
        /\ row.record = versions[<<row.bot, row.bot_version>>].definition
    BY <2>2, <2>3, <2>4 DEF SalesTell, ListingTellsVersion
  <2> QED
    BY <1>5, <2>1, <2>2, <2>3, <2>4, <2>5 DEF loaded
<1> QED
  BY <1>4, <1>6, <1>7

\* Until two requests on listings have been open together, what each has read
\* and what the listings tell stay true.
LEMMA SalesAloneStep ==
    ASSUME MarketInv, SalesAlone, MCMarketNext
    PROVE  SalesAlone'
<1>1. MarketNext /\ salesOverlapped' = (salesOverlapped \/ SalesOverlap')
  BY DEF MCMarketNext
<1> SUFFICES ASSUME ~salesOverlapped' PROVE SalesTell'
  BY <1>1 DEF SalesAlone
<1>2. SalesTell /\ ~SalesOverlap
  BY <1>1 DEF SalesAlone
<1>3. CASE LifecycleNext /\ UNCHANGED marketVars
  BY <1>2, <1>3, StepKept, LifecycleKeepsTelling DEF MarketInv, Kept
<1>4. CASE SaleNext /\ UNCHANGED lifecycleVars
  <2>1. PICK p \in Sellers :
            \/ \E b \in Bots : PublishListingLoadBot(p, b)
            \/ PublishListingLoadVersion(p) \/ SaleRefused(p)
            \/ PublishListingFind(p)
            \/ \E l \in Listings, status \in Status : SetStatusLoad(p, l, status)
            \/ \E l \in Listings : PublishListingInsert(p, l)
            \/ PublishListingUpdate(p) \/ SetStatusCommit(p)
    BY <1>4 DEF SaleNext, PublishListingNotListed, PublishListingAmbiguous
  <2>2. CASE \/ \E l \in Listings : PublishListingInsert(p, l)
             \/ PublishListingUpdate(p) \/ SetStatusCommit(p)
    <3>1. sale[p].at # "idle"
      BY <2>2 DEF PublishListingInsert, PublishListingUpdate, SetStatusCommit
    <3>2. \A s \in Sellers : s # p => sale[s].at = "idle"
      BY <1>2, <3>1 DEF SalesOverlap
    <3> QED
      BY <1>2, <1>4, <2>2, <3>2, SaleWritesTell
  <2> QED
    BY <1>2, <1>4, <2>1, <2>2, SaleReadsTell
<1> QED
  BY <1>1, <1>3, <1>4 DEF MarketNext

-----------------------------------------------------------------------------
(* Theorems. *)

\* The inductive invariant holds in every reachable state of the lifecycle
\* and the marketplace together.
THEOREM InvarianceOfMarket == MarketSpec => []MarketInv
<1>1. MarketInv /\ UNCHANGED allVars => MarketInv'
  <2> SUFFICES ASSUME MarketInv, UNCHANGED allVars PROVE MarketInv'
    OBVIOUS
  <2>1. UNCHANGED lifecycleVars /\ UNCHANGED <<listings, traces, sale>>
    BY DEF allVars, marketVars
  <2>2. IInv' /\ ListedOnRecord'
    BY <2>1, LifecycleRests
  <2>3. ListingsOK' /\ SalesOK'
    BY <2>1 DEF MarketInv, ListingsOK, SalesOK, SaleOK, PublishOK, LoadedOK, lifecycleVars
  <2>4. Counted'
    BY <2>1 DEF MarketInv, Counted, ListingsOf, Inserting
  <2>5. RecordsReproducible'
    BY <2>1 DEF MarketInv, RecordsReproducible, lifecycleVars
  <2> QED
    BY <2>2, <2>3, <2>4, <2>5 DEF MarketInv
<1>2. MarketInv /\ MarketNext => MarketInv'
  BY LifecycleKeepsMarket, SaleStepKeeps DEF MarketNext
<1> QED
  BY MarketStarts, <1>1, <1>2, PTL DEF MarketSpec

\* At every commit, however many requests on bots and on listings overlap:
\* tables are typed, a bot has no more listings than requests work at a
\* time, what is offered has been listed on the audit record, and every record
\* shown comes of a backtest whose events are in the ledger.
THEOREM ListingsAlwaysSound == MarketSpec => []ListingsSound
<1>1. MarketInv => ListingsSound
  <2> SUFFICES ASSUME MarketInv PROVE ListingsSound
    OBVIOUS
  <2>1. MarketTypeOK
    <3>1. sale \in [Sellers -> SaleStates]
      BY DEF MarketInv, SalesOK, SaleOK
    <3> QED
      BY <3>1 DEF MarketInv, ListingsOK, MarketTypeOK
  <2>2. OneListingPerOverlap
    <3>1. ASSUME NEW b \in Bots
          PROVE  Cardinality(ListingsOf(b)) <= Cardinality(Sellers)
      <4>1. Inserting(b) \in SUBSET Sellers
        BY DEF Inserting
      <4>2. /\ Cardinality(ListingsOf(b)) \in Nat /\ Cardinality(Inserting(b)) \in Nat
            /\ Cardinality(Sellers) \in Nat
        BY <4>1, MarketAssumption, FS_Subset, FS_CardinalityType
           DEF MarketInv, Counted
      <4> QED
        BY <4>2 DEF MarketInv, Counted
    <3> QED
      BY <3>1 DEF OneListingPerOverlap
  <2>3. OfferedOnceListed
    BY DEF MarketInv, ListingsOK, ListedOnce, OfferedOnceListed
  <2> QED
    BY <2>1, <2>2, <2>3 DEF MarketInv, ListingsSound
<1> QED
  BY <1>1, InvarianceOfMarket, PTL

\* Until two requests on listings have been open together, whatever the
\* requests on the lifecycle do, a bot has one listing at most, with the record
\* of the version it points to.
THEOREM ListingsTellAlone == MCMarketSpec => []ListingsTellUnlessOverlapped
<1>1. MCMarketInit => MarketInit /\ SalesAlone
  <2> SUFFICES ASSUME MCMarketInit PROVE SalesAlone
    BY DEF MCMarketInit
  <2>1. /\ listings = << >> /\ \A p \in Sellers : sale[p] = NoSale
        /\ salesOverlapped = FALSE
    BY DEF MCMarketInit, MarketInit
  <2>2. SalesTell
    BY <2>1, NoSaleOK DEF SalesTell, OnePerBot, ListingTellsVersion, SaleTells
  <2> QED
    BY <2>1, <2>2, NoSaleOK DEF SalesAlone, SalesOverlap
<1>2. [MCMarketNext]_<<allVars, salesOverlapped>> => [MarketNext]_allVars
  BY DEF MCMarketNext
<1>3. MCMarketSpec => MarketSpec
  BY <1>1, <1>2, PTL DEF MCMarketSpec, MarketSpec
<1>4. MarketInv /\ SalesAlone /\ [MCMarketNext]_<<allVars, salesOverlapped>>
        => SalesAlone'
  <2>1. ASSUME SalesAlone, UNCHANGED <<allVars, salesOverlapped>>
        PROVE  SalesAlone'
    <3>1. UNCHANGED <<versions, listings, sale, salesOverlapped>>
      BY <2>1 DEF allVars, lifecycleVars, marketVars
    <3>2. SalesTell => SalesTell'
      <4>1. \A b : ListingsOf(b)' = ListingsOf(b)
        BY <3>1 DEF ListingsOf
      <4>2. \A p \in Sellers : SaleTells(sale[p]) => SaleTells(sale[p])'
        BY <3>1, <4>1 DEF SaleTells
      <4> QED
        BY <3>1, <4>2 DEF SalesTell, OnePerBot, ListingTellsVersion
    <3>3. SalesOverlap' <=> SalesOverlap
      BY <3>1 DEF SalesOverlap
    <3> QED
      BY <2>1, <3>1, <3>2, <3>3 DEF SalesAlone
  <2> QED
    BY <2>1, SalesAloneStep
<1>5. MarketInv /\ SalesAlone => ListingsTellUnlessOverlapped
  <2> SUFFICES ASSUME MarketInv, SalesTell
               PROVE  OneListingPerBot
    BY DEF SalesAlone, SalesTell, ListingsTellUnlessOverlapped
  <2> SUFFICES ASSUME NEW b \in Bots PROVE Cardinality(ListingsOf(b)) <= 1
    BY DEF OneListingPerBot
  <2>1. CASE ListingsOf(b) = {}
    BY <2>1, FS_EmptySet
  <2>2. ASSUME NEW l \in ListingsOf(b) PROVE Cardinality(ListingsOf(b)) <= 1
    <3>1. ListingsOf(b) = {l}
      BY <2>2 DEF SalesTell, OnePerBot, ListingsOf
    <3>2. Cardinality({l}) = 1
      BY FS_Singleton
    <3> QED
      BY <3>1, <3>2
  <2> QED
    BY <2>1, <2>2
<1> QED
  BY <1>1, <1>3, <1>4, <1>5, InvarianceOfMarket, PTL DEF MCMarketSpec
=============================================================================
