--------------------------- MODULE WebSessionProofs ---------------------------
(***************************************************************************)
(* Theorems of Identity and WebSession, for any logins, any number of      *)
(* concurrent requests and any bound on tokens.                            *)
(*                                                                         *)
(* The invariant, WebInv, types the tables, the requests and the chains,   *)
(* has room for every token the open requests may yet be given (Fits),     *)
(* says of a request that is about to exchange a token that nobody has     *)
(* exchanged it, unless another chain holds it (Rotation), and that users  *)
(* have unique emails and are found by the email of the login (Accounts).  *)
(***************************************************************************)
EXTENDS WebSession, FiniteSetTheorems, TLAPS

\* What a login may be: a subject is an account with one email, and nobody
\* uses a dev login in the name of a root admin.
SteadyLogins ==
    /\ \A l, m \in Logins : l.subject = m.subject => l.email = m.email
    /\ \A l \in Logins, e \in RootEmails : l.email = Lower[e] => l.role = "any"

ReqRecords ==
    [at: Stages, login: Logins \cup {NoLogin}, token: Nat, user: Nat,
     role: Role \cup {"any"}, known: BOOLEAN]
Flows == [at: FlowStages, kind: Kinds \cup {"none"}, token: Nat]

TablesTyped ==
    /\ users \in Seq(UserRows)
    /\ IsFiniteSet(DOMAIN identities)
    /\ \A s \in DOMAIN identities : identities[s] \in DOMAIN users
    /\ tokens \in Seq(TokenRows)
    /\ configured \in RootEmails \cup {"unset"}
    /\ shared \subseteq DOMAIN tokens /\ lost \subseteq DOMAIN tokens

StoreTyped == store \in [access: BOOLEAN, refresh: 0..Len(tokens)]

\* What a request has read.
ServedOK(q) ==
    /\ q.at \in {"login:link", "login:write"} => q.login \in Logins
    /\ q.user \in 0..Len(users)
    /\ q.at = "login:write" /\ q.known => q.user # 0
    /\ q.at = "login:link" => ~q.known
    /\ q.at = "refresh" => q.token \in DOMAIN tokens
    /\ q.at = "done" => q.token \in 0..Len(tokens)

\* The chain that waits for it.
ChainOK(q, c) ==
    /\ c.at = "none" => c = NoFlow
    /\ c.at = "unauthorized" => c.kind \in {"api", "me"}
    /\ c.at = "sent" => c.kind \in {"api", "me", "logout"}
    /\ c.at \in {"sent", "asked"} /\ c.kind # "login" => c.token \in DOMAIN tokens
    /\ c.token \in 0..Len(tokens)
    /\ c.at \in {"unauthorized", "sent"} => q.at = "idle"
    /\ q.at = "refresh" =>
        c.at = "asked" /\ c.kind \in {"api", "me"} /\ c.token = q.token

RequestsTyped ==
    /\ req \in [Requests -> ReqRecords] /\ flow \in [Requests -> Flows]
    /\ \A f \in Requests : ServedOK(req[f]) /\ ChainOK(req[f], flow[f])

\* The requests that may yet be given a token.
Owed(q, c) ==
    \/ c.at \in {"unauthorized", "sent"} /\ c.kind # "logout"
    \/ q.at \in {"login:link", "login:write", "refresh"}
Owing == {f \in Requests : Owed(req[f], flow[f])}

Fits == Len(tokens) + Cardinality(Owing) <= MaxTokens

\* The token a chain is about to exchange, or has.
Holds(c) == IF c.kind \in {"api", "me"} THEN c.token ELSE 0

Rotation ==
    /\ \A k \in DOMAIN tokens : tokens[k].from # 0 =>
        tokens[k].from \in DOMAIN tokens /\ tokens[tokens[k].from].revoked
    /\ \A f, g \in Requests :
        f # g /\ Holds(flow[f]) = Holds(flow[g]) /\ Holds(flow[f]) # 0
            => Holds(flow[f]) \in shared
    /\ \A f \in Requests : req[f].at = "refresh" /\ req[f].token \notin shared =>
        \A k \in DOMAIN tokens : tokens[k].from # req[f].token
    /\ RotatedOnceUnlessShared

FoundByEmail(q) == q.at = "login:write" /\ q.user # 0 => users[q.user].email = q.login.email

UniqueEmails == \A u, v \in DOMAIN users : users[u].email = users[v].email => u = v

Accounts ==
    /\ UniqueEmails
    /\ SteadyLogins =>
        /\ \A l \in Logins : l.subject \in DOMAIN identities =>
            users[identities[l.subject]].email = l.email
        /\ \A f \in Requests : FoundByEmail(req[f])
        /\ RootAdminServes

WebInv == TablesTyped /\ StoreTyped /\ RequestsTyped /\ Fits /\ Rotation /\ Accounts

-----------------------------------------------------------------------------
(* Requests and chains that move without writing a user or a token. *)

LEMMA RestTyped ==
    /\ NoFlow \in Flows /\ NoFlow.at = "none" /\ Holds(NoFlow) = 0 /\ NoFlow.token = 0
    /\ NoFlow.kind = "none"
    /\ Idle \in ReqRecords /\ Idle.at = "idle" /\ Idle.user = 0 /\ ~Idle.known
    /\ Idle.token = 0 /\ Idle.role = "any"
BY DEF NoFlow, Flows, FlowStages, Kinds, Holds, Idle, ReqRecords, Stages, Role

LEMMA AnswerTyped ==
    ASSUME NEW j \in Nat
    PROVE  /\ Answer(j) \in ReqRecords /\ Answer(j).at = "done" /\ Answer(j).token = j
           /\ Answer(j).user = 0
BY DEF Answer, Idle, ReqRecords, Stages, Role

LEMMA OwingFinite == IsFiniteSet(Owing) /\ Cardinality(Owing) \in Nat
<1>1. Owing \in SUBSET Requests
  BY DEF Owing
<1> QED
  BY <1>1, IdentityAssumption, FS_Subset, FS_CardinalityType

\* With Room, the bound holds for one request more.
LEMMA RoomFits ==
    ASSUME TablesTyped, Room, NEW f \in Requests
    PROVE  Len(tokens) + Cardinality(Owing \cup {f}) <= MaxTokens
<1> DEFINE busy == {g \in Requests : flow[g].at # "none" \/ req[g].at # "idle"}
<1>1. Owing \in SUBSET busy /\ busy \in SUBSET Requests
  BY DEF Owing, Owed
<1>2. Cardinality(Owing) <= Cardinality(busy) /\ Cardinality(busy) \in Nat
  BY <1>1, IdentityAssumption, FS_Subset, FS_CardinalityType
<1>3. Len(tokens) + Cardinality(busy) < MaxTokens
  BY DEF Room
<1>4. Cardinality(Owing \cup {f}) <= Cardinality(Owing) + 1
      /\ Cardinality(Owing \cup {f}) \in Nat
  <2>1. /\ IsFiniteSet(Owing \cup {f})
        /\ \/ Cardinality(Owing \cup {f}) = Cardinality(Owing)
           \/ Cardinality(Owing \cup {f}) = Cardinality(Owing) + 1
    BY OwingFinite, FS_AddElement
  <2> QED
    BY <2>1, OwingFinite
<1>5. Len(tokens) \in Nat
  BY DEF TablesTyped
<1> HIDE DEF busy
<1> QED
  BY <1>2, <1>3, <1>4, <1>5, OwingFinite, IdentityAssumption

\* tokens may be revoked and may expire.
TokensAge ==
    /\ Len(tokens') = Len(tokens) /\ tokens' \in Seq(TokenRows)
    /\ \A k \in DOMAIN tokens : /\ tokens'[k].from = tokens[k].from
                                /\ tokens[k].revoked => tokens'[k].revoked

\* What a request that moves to q, and its chain to c, must have checked.
Checked(f, q, c) ==
    /\ q \in ReqRecords /\ c \in Flows
    /\ ServedOK(q) /\ ChainOK(q, c) /\ (SteadyLogins => FoundByEmail(q))
    /\ Owed(q, c) => Owed(req[f], flow[f]) \/ Room
    /\ \/ Holds(c) \in {0, Holds(flow[f])}
       \/ Holds(c) \in HeldByOthers(f) => Holds(c) \in shared'
    /\ q.at = "refresh" => q = req[f] \/ Live(q.token)

\* Only request f and its chain move.
Moves(f, q, c) ==
    /\ req' = [req EXCEPT ![f] = q] /\ flow' = [flow EXCEPT ![f] = c]
    /\ UNCHANGED <<users, identities, configured>>
    /\ TokensAge /\ StoreTyped'
    /\ shared \subseteq shared' /\ shared' \subseteq DOMAIN tokens
    /\ lost' \subseteq DOMAIN tokens

LEMMA MovesKeep ==
    ASSUME WebInv, NEW f \in Requests, NEW q, NEW c, Moves(f, q, c), Checked(f, q, c)
    PROVE  WebInv'
<1>1. /\ \A g \in Requests : req'[g] = IF g = f THEN q ELSE req[g]
      /\ \A g \in Requests : flow'[g] = IF g = f THEN c ELSE flow[g]
      /\ req' \in [Requests -> ReqRecords] /\ flow' \in [Requests -> Flows]
  BY DEF WebInv, RequestsTyped, Moves, Checked
<1>2. /\ tokens \in Seq(TokenRows) /\ tokens' \in Seq(TokenRows)
      /\ Len(tokens') = Len(tokens) /\ DOMAIN tokens' = DOMAIN tokens
      /\ \A k \in DOMAIN tokens : /\ tokens'[k].from = tokens[k].from
                                  /\ tokens[k].revoked => tokens'[k].revoked
  <2>1. tokens \in Seq(TokenRows) /\ TokensAge
    BY DEF WebInv, TablesTyped, Moves
  <2>2. DOMAIN tokens = 1..Len(tokens) /\ DOMAIN tokens' = 1..Len(tokens')
    BY <2>1 DEF TokensAge
  <2> QED
    BY <2>1, <2>2 DEF TokensAge
<1>3. UNCHANGED <<users, identities, configured>> /\ shared \subseteq shared'
      /\ shared' \subseteq DOMAIN tokens /\ lost' \subseteq DOMAIN tokens
      /\ StoreTyped'
  BY DEF Moves
<1>4. TablesTyped'
  BY <1>2, <1>3 DEF WebInv, TablesTyped
<1>5. \A g \in Requests : ServedOK(req'[g]) /\ ChainOK(req'[g], flow'[g])
  BY <1>1 DEF WebInv, RequestsTyped, Checked
<1>6. RequestsTyped'
  BY <1>1, <1>2, <1>3, <1>5 DEF RequestsTyped, ServedOK, ChainOK
<1>7. Fits'
  <2>1. Owing' \in SUBSET (Owing \cup {f})
    BY <1>1 DEF Owing
  <2>2. Owing' \in SUBSET Owing \/ Room
    BY <1>1 DEF Owing, Checked
  <2>3. IsFiniteSet(Owing \cup {f}) /\ IsFiniteSet(Owing)
    BY OwingFinite, FS_AddElement
  <2>4. CASE Owing' \in SUBSET Owing
    <3>1. Cardinality(Owing') <= Cardinality(Owing) /\ Cardinality(Owing') \in Nat
      BY <2>3, <2>4, FS_Subset, FS_CardinalityType
    <3> QED
      BY <1>2, <3>1, OwingFinite, IdentityAssumption DEF WebInv, Fits
  <2>5. CASE Room
    <3>1. /\ Cardinality(Owing') <= Cardinality(Owing \cup {f})
          /\ Cardinality(Owing') \in Nat /\ Cardinality(Owing \cup {f}) \in Nat
      BY <2>1, <2>3, FS_Subset, FS_CardinalityType
    <3>2. Len(tokens) + Cardinality(Owing \cup {f}) <= MaxTokens
      BY <2>5, RoomFits DEF WebInv
    <3> QED
      BY <1>2, <3>1, <3>2, IdentityAssumption DEF Fits
  <2> QED
    BY <2>2, <2>4, <2>5
<1>8. Rotation'
  <2>1. \A k \in DOMAIN tokens' : tokens'[k].from # 0 =>
            tokens'[k].from \in DOMAIN tokens' /\ tokens'[tokens'[k].from].revoked
    BY <1>2 DEF WebInv, Rotation
  <2>2. ASSUME NEW g \in Requests, NEW h \in Requests, g # h,
               Holds(flow'[g]) = Holds(flow'[h]), Holds(flow'[g]) # 0
        PROVE  Holds(flow'[g]) \in shared'
    <3>1. CASE g # f /\ h # f
      BY <1>1, <1>3, <2>2, <3>1 DEF WebInv, Rotation
    <3>2. ASSUME NEW x \in Requests \ {f}, Holds(c) = Holds(flow[x]), Holds(c) # 0
          PROVE  Holds(c) \in shared'
      <4>1. Holds(c) \in HeldByOthers(f)
        BY <3>2 DEF HeldByOthers, Holds
      <4>2. CASE Holds(c) = Holds(flow[f])
        BY <1>3, <3>2, <4>2 DEF WebInv, Rotation
      <4> QED
        BY <3>2, <4>1, <4>2 DEF Checked
    <3> QED
      BY <1>1, <2>2, <3>1, <3>2
  <2>3. ASSUME NEW g \in Requests, req'[g].at = "refresh", req'[g].token \notin shared'
        PROVE  \A k \in DOMAIN tokens' : tokens'[k].from # req'[g].token
    <3>1. CASE req'[g] = req[g]
      BY <1>2, <1>3, <2>3, <3>1 DEF WebInv, Rotation
    <3>2. CASE g = f /\ Live(q.token)
      <4>1. q.token \in DOMAIN tokens /\ ~tokens[q.token].revoked /\ q.token # 0
        BY <1>2, <3>2 DEF Live
      <4>2. \A k \in DOMAIN tokens : tokens[k].from # q.token
        BY <4>1 DEF WebInv, Rotation
      <4> QED
        BY <1>1, <1>2, <3>2, <4>2
    <3> QED
      BY <1>1, <2>3, <3>1, <3>2 DEF Checked
  <2>4. RotatedOnceUnlessShared'
    BY <1>2, <1>3 DEF WebInv, Rotation, RotatedOnceUnlessShared
  <2> QED
    BY <2>1, <2>2, <2>3, <2>4 DEF Rotation
<1>9. Accounts'
  <2>1. UniqueEmails'
    BY <1>3 DEF WebInv, Accounts, UniqueEmails
  <2>2. RootAdminServes => RootAdminServes'
    BY <1>3 DEF RootAdminServes
  <2>3. SteadyLogins => \A g \in Requests : FoundByEmail(req'[g])
    BY <1>1 DEF WebInv, Accounts, Checked
  <2>4. SteadyLogins => \A g \in Requests : FoundByEmail(req[g])'
    BY <1>3, <2>3 DEF FoundByEmail
  <2> QED
    BY <1>3, <2>1, <2>2, <2>4 DEF WebInv, Accounts
<1> QED
  BY <1>3, <1>4, <1>6, <1>7, <1>8, <1>9 DEF WebInv
\* What every request and its chain have checked already.
LEMMA CheckedBefore ==
    ASSUME WebInv, NEW f \in Requests
    PROVE  /\ Checked(f, req[f], flow[f])
           /\ req = [req EXCEPT ![f] = req[f]] /\ flow = [flow EXCEPT ![f] = flow[f]]
BY DEF WebInv, RequestsTyped, Accounts, Checked

LEMMA TokensStay ==
    ASSUME WebInv, tokens' = tokens
    PROVE  TokensAge /\ (store' = store => StoreTyped')
BY DEF WebInv, TablesTyped, TokensAge, StoreTyped

\* The store keeps its pair, loses it or takes another.
StoreWritten ==
    \/ store' \in {store, Empty}
    \/ \E j \in 0..Len(tokens) : store' = [access |-> TRUE, refresh |-> j]

LEMMA StoreKinds ==
    ASSUME WebInv, tokens' = tokens, StoreWritten
    PROVE  StoreTyped'
<1>1. Len(tokens) \in Nat /\ Len(tokens') = Len(tokens)
  BY DEF WebInv, TablesTyped
<1>2. CASE store' \in {store, Empty}
  <2>1. store \in [access: BOOLEAN, refresh: 0..Len(tokens)]
    BY DEF WebInv, StoreTyped
  <2>2. Empty \in [access: BOOLEAN, refresh: 0..Len(tokens)]
    BY <1>1 DEF Empty
  <2> QED
    BY <1>1, <1>2, <2>1, <2>2 DEF StoreTyped
<1>3. CASE \E j \in 0..Len(tokens) : store' = [access |-> TRUE, refresh |-> j]
  BY <1>1, <1>3 DEF StoreTyped
<1> QED
  BY <1>2, <1>3 DEF StoreWritten

\* A chain moves while the server's state rests.
LEMMA ChainMoves ==
    ASSUME WebInv, NEW f \in Requests, NEW c \in Flows, ChainOK(req[f], c),
           UNCHANGED identityVars, flow' = [flow EXCEPT ![f] = c],
           StoreTyped', lost' = lost,
           shared \subseteq shared', shared' \subseteq DOMAIN tokens,
           Owed(req[f], c) => Owed(req[f], flow[f]) \/ Room,
           \/ Holds(c) = 0
           \/ Holds(c) \in HeldByOthers(f) => Holds(c) \in shared'
    PROVE  WebInv'
<1>1. Checked(f, req[f], flow[f]) /\ req = [req EXCEPT ![f] = req[f]]
  BY CheckedBefore
<1>2. Checked(f, req[f], c)
  BY <1>1 DEF Checked
<1>3. Moves(f, req[f], c)
  BY <1>1, TokensStay DEF Moves, identityVars, WebInv, TablesTyped
<1> QED
  BY <1>2, <1>3, MovesKeep

\* A request moves, and its chain perhaps, while the tables and the store rest.
LEMMA RequestMoves ==
    ASSUME WebInv, NEW f \in Requests, NEW q, NEW c, Checked(f, q, c),
           req' = [req EXCEPT ![f] = q], flow' = [flow EXCEPT ![f] = c],
           UNCHANGED <<users, identities, tokens, configured, shared, lost>>,
           StoreTyped'
    PROVE  WebInv'
<1>1. Moves(f, q, c)
  BY TokensStay DEF Moves, WebInv, TablesTyped
<1> QED
  BY <1>1, MovesKeep

-----------------------------------------------------------------------------
(* The steps of chains. *)

LEMMA CallKeeps ==
    ASSUME WebInv, NEW f \in Requests, NEW kind \in {"api", "me"}, Call(f, kind)
    PROVE  WebInv'
<1> DEFINE c == [at |-> "unauthorized", kind |-> kind, token |-> 0]
<1>1. c \in Flows /\ Holds(c) = 0 /\ c.at = "unauthorized" /\ c.kind = kind /\ c.token = 0
  BY DEF Flows, FlowStages, Kinds, Holds
<1>2. /\ flow' = [flow EXCEPT ![f] = c] /\ Room /\ req[f].at = "idle"
      /\ UNCHANGED <<identityVars, store, shared, lost>>
  BY DEF Call
<1>3. StoreTyped' /\ shared' \subseteq DOMAIN tokens /\ Len(tokens) \in Nat
  BY <1>2, TokensStay DEF WebInv, TablesTyped, identityVars
<1> HIDE DEF c
<1>4. ChainOK(req[f], c)
  BY <1>1, <1>2, <1>3 DEF ChainOK
<1> QED
  BY <1>1, <1>2, <1>3, <1>4, ChainMoves

LEMMA SentOK ==
    ASSUME WebInv, NEW f \in Requests, store.refresh # 0, NEW kind \in {"api", "me", "logout"},
           req[f].at = "idle"
    PROVE  /\ Sends(kind, store.refresh) \in Flows
           /\ Sends(kind, store.refresh).at = "sent" /\ Sends(kind, store.refresh).kind = kind
           /\ Sends(kind, store.refresh).token = store.refresh
           /\ store.refresh \in DOMAIN tokens
           /\ ChainOK(req[f], Sends(kind, store.refresh))
<1> DEFINE j == store.refresh
           c == Sends(kind, j)
<1>1. j \in DOMAIN tokens /\ j \in 0..Len(tokens) /\ j \in Nat
  BY DEF WebInv, StoreTyped, TablesTyped
<1> HIDE DEF j
<1>2. c \in Flows /\ c.at = "sent" /\ c.kind = kind /\ c.token = j
  BY <1>1 DEF Sends, Flows, FlowStages, Kinds
<1> HIDE DEF c
<1>3. ChainOK(req[f], c)
  BY <1>1, <1>2 DEF ChainOK
<1> QED
  BY <1>1, <1>2, <1>3 DEF c, j

LEMMA TryRefreshKeeps ==
    ASSUME WebInv, NEW f \in Requests, TryRefresh(f)
    PROVE  WebInv'
<1> DEFINE j == store.refresh
           c == Sends(flow[f].kind, j)
<1>1. flow[f].kind \in {"api", "me"} /\ req[f].at = "idle" /\ j # 0
      /\ flow[f].at = "unauthorized"
  BY DEF WebInv, RequestsTyped, ChainOK, TryRefresh
<1>2. /\ c \in Flows /\ c.kind = flow[f].kind /\ c.token = j
      /\ j \in DOMAIN tokens /\ ChainOK(req[f], c)
  BY <1>1, SentOK
<1>3. Holds(c) = j /\ Owed(req[f], flow[f])
  BY <1>1, <1>2 DEF Holds, Owed
<1>4. /\ flow' = [flow EXCEPT ![f] = c] /\ shared' = shared \cup ({j} \cap HeldByOthers(f))
      /\ UNCHANGED <<identityVars, store, lost>>
  BY DEF TryRefresh
<1>5. StoreTyped' /\ shared \subseteq DOMAIN tokens
  BY <1>4, TokensStay DEF WebInv, TablesTyped, identityVars
<1> HIDE DEF j, c
<1>6. shared' \subseteq DOMAIN tokens /\ shared \subseteq shared'
      /\ (Holds(c) \in HeldByOthers(f) => Holds(c) \in shared')
  BY <1>2, <1>3, <1>4, <1>5
<1> QED
  BY <1>2, <1>3, <1>4, <1>5, <1>6, ChainMoves

LEMMA NothingToTryKeeps ==
    ASSUME WebInv, NEW f \in Requests, NothingToTry(f)
    PROVE  WebInv'
<1>0. flow[f].at = "unauthorized" /\ ChainOK(req[f], flow[f])
  BY DEF NothingToTry, WebInv, RequestsTyped
<1>1. /\ flow' = [flow EXCEPT ![f] = NoFlow] /\ (store' = store \/ store' = Empty)
      /\ UNCHANGED <<identityVars, shared, lost>> /\ req[f].at # "refresh"
      /\ Owed(req[f], flow[f])
  BY <1>0 DEF NothingToTry, AfterFailure, ChainOK, Owed
<1>2. StoreTyped' /\ shared' \subseteq DOMAIN tokens /\ Len(tokens) \in Nat
  BY <1>1, StoreKinds DEF WebInv, TablesTyped, identityVars, StoreWritten
<1>3. NoFlow \in Flows /\ Holds(NoFlow) = 0 /\ ChainOK(req[f], NoFlow)
  BY <1>1, <1>2, RestTyped DEF ChainOK
<1> QED
  BY <1>1, <1>2, <1>3, ChainMoves

LEMMA SignOutKeeps ==
    ASSUME WebInv, NEW f \in Requests, SignOut(f)
    PROVE  WebInv'
<1> DEFINE c == Sends("logout", store.refresh)
<1>1. /\ flow' = [flow EXCEPT ![f] = c] /\ req[f].at = "idle" /\ store.refresh # 0
      /\ UNCHANGED <<identityVars, store, shared, lost>>
  BY DEF SignOut
<1>2. c \in Flows /\ c.kind = "logout" /\ ChainOK(req[f], c)
  BY <1>1, SentOK
<1>3. StoreTyped' /\ shared' \subseteq DOMAIN tokens
  BY <1>1, TokensStay DEF WebInv, TablesTyped, identityVars
<1> HIDE DEF c
<1>4. Holds(c) = 0 /\ ~Owed(req[f], c)
  BY <1>1, <1>2 DEF Holds, Owed
<1> QED
  BY <1>1, <1>2, <1>3, <1>4, ChainMoves
-----------------------------------------------------------------------------
(* Requests that are served without writing a user or a token, and answers. *)

\* A request that is answered with token j, 0 for an error.
LEMMA AnswerChecked ==
    ASSUME WebInv, NEW f \in Requests, NEW j \in 0..Len(tokens), NEW c \in Flows,
           ChainOK(req[f], c), Holds(c) \in {0, Holds(flow[f])},
           c.at \notin {"unauthorized", "sent"}
    PROVE  Checked(f, Answer(j), c)
<1>1. Len(tokens) \in Nat /\ Len(users) \in Nat
  BY DEF WebInv, TablesTyped
<1>2. /\ Answer(j) \in ReqRecords /\ Answer(j).at = "done" /\ Answer(j).token = j
      /\ Answer(j).user = 0
  BY <1>1, AnswerTyped
<1>3. ServedOK(Answer(j)) /\ FoundByEmail(Answer(j)) /\ ~Owed(Answer(j), c)
  BY <1>1, <1>2 DEF ServedOK, FoundByEmail, Owed
<1>4. ChainOK(Answer(j), c)
  BY <1>2 DEF ChainOK
<1> QED
  BY <1>2, <1>3, <1>4 DEF Checked

LEMMA AnsweredKeeps ==
    ASSUME WebInv, NEW f \in Requests, Answered(f), shared' = shared,
           lost' \subseteq DOMAIN tokens,
           StoreTyped', flow' = [flow EXCEPT ![f] = NoFlow]
    PROVE  WebInv'
<1>1. /\ req' = [req EXCEPT ![f] = Idle] /\ flow' = [flow EXCEPT ![f] = NoFlow]
      /\ UNCHANGED <<users, identities, tokens, configured, shared>>
  BY DEF Answered, WebInv, RequestsTyped
<1>2. Len(tokens) \in Nat /\ Len(users) \in Nat
  BY DEF WebInv, TablesTyped
<1>3. ServedOK(Idle) /\ FoundByEmail(Idle) /\ ChainOK(Idle, NoFlow) /\ ~Owed(Idle, NoFlow)
  BY <1>2, RestTyped DEF ServedOK, FoundByEmail, ChainOK, Owed
<1>4. Checked(f, Idle, NoFlow)
  BY <1>3, RestTyped DEF Checked
<1>5. Moves(f, Idle, NoFlow)
  BY <1>1, TokensStay DEF Moves, WebInv, TablesTyped
<1> QED
  BY <1>4, <1>5, MovesKeep

LEMMA ChainsAnswered ==
    ASSUME WebInv, NEW f \in Requests,
           RefreshAnswered(f) \/ SignInAnswered(f) \/ SignOutAnswered(f)
    PROVE  WebInv'
<1>1. /\ Answered(f) /\ flow' = [flow EXCEPT ![f] = NoFlow]
      /\ shared' = shared /\ lost' \subseteq DOMAIN tokens /\ tokens' = tokens
  BY DEF RefreshAnswered, SignInAnswered, SignOutAnswered, Answered, WebInv, TablesTyped
<1>2. \/ store' \in {store, Empty}
      \/ store' = [access |-> TRUE, refresh |-> req[f].token]
  <2>1. CASE RefreshAnswered(f)
    BY <2>1 DEF RefreshAnswered, AfterFailure
  <2>2. CASE SignInAnswered(f) \/ SignOutAnswered(f)
    BY <2>2 DEF SignInAnswered, SignOutAnswered
  <2> QED
    BY <2>1, <2>2
<1>3. req[f].token \in 0..Len(tokens)
  <2>1. ServedOK(req[f]) /\ req[f].at = "done"
    BY <1>1 DEF Answered, WebInv, RequestsTyped
  <2> QED
    BY <2>1 DEF ServedOK
<1>4. StoreTyped'
  <2>1. StoreWritten
    BY <1>2, <1>3 DEF StoreWritten
  <2> QED
    BY <1>1, <2>1, StoreKinds
<1> QED
  BY <1>1, <1>4, AnsweredKeeps

LEMMA ForeignAnsweredKeeps ==
    ASSUME WebInv, NEW f \in Requests, ForeignAnswered(f)
    PROVE  WebInv'
<1>1. Answered(f) /\ flow[f].at = "none" /\ UNCHANGED clientVars /\ tokens' = tokens
  BY DEF ForeignAnswered, Answered
<1>2. flow' = flow /\ flow[f] = NoFlow /\ shared' = shared /\ StoreTyped'
      /\ lost' \subseteq DOMAIN tokens
  BY <1>1, TokensStay DEF clientVars, WebInv, RequestsTyped, TablesTyped, ChainOK
<1>3. flow' = [flow EXCEPT ![f] = NoFlow]
  BY <1>2 DEF WebInv, RequestsTyped
<1> QED
  BY <1>1, <1>2, <1>3, AnsweredKeeps

\* The chain whose request has been sent now waits for the answer.
LEMMA AskedOK ==
    ASSUME WebInv, NEW f \in Requests, flow[f].at = "sent", req[f].at # "refresh"
    PROVE  LET c == [flow[f] EXCEPT !.at = "asked"]
           IN  /\ c \in Flows /\ c.at = "asked" /\ c.kind = flow[f].kind
               /\ c.token = flow[f].token /\ Holds(c) = Holds(flow[f])
               /\ c.kind \in {"api", "me", "logout"} /\ c.token \in DOMAIN tokens
               /\ ChainOK(req[f], c)
<1> DEFINE c == [flow[f] EXCEPT !.at = "asked"]
<1>1. flow[f] \in Flows /\ ChainOK(req[f], flow[f])
  BY DEF WebInv, RequestsTyped
<1>2. c \in Flows /\ c.at = "asked" /\ c.kind = flow[f].kind /\ c.token = flow[f].token
  BY <1>1 DEF Flows, FlowStages
<1> HIDE DEF c
<1>3. Holds(c) = Holds(flow[f])
  BY <1>2 DEF Holds
<1>4. /\ c.kind \in {"api", "me", "logout"} /\ c.token \in DOMAIN tokens
      /\ ChainOK(req[f], c)
  BY <1>1, <1>2 DEF ChainOK
<1> QED
  BY <1>2, <1>3, <1>4 DEF c

LEMMA RefreshArrivesKeeps ==
    ASSUME WebInv, NEW f \in Requests, RefreshArrives(f)
    PROVE  WebInv'
<1> DEFINE j == flow[f].token
           c == [flow[f] EXCEPT !.at = "asked"]
           q == [Idle EXCEPT !.at = "refresh", !.token = j]
<1>1. /\ flow[f].at = "sent" /\ flow[f].kind \in {"api", "me"} /\ req[f].at = "idle"
      /\ flow' = [flow EXCEPT ![f] = c]
      /\ UNCHANGED <<users, identities, tokens, configured, store, shared, lost>>
  BY DEF RefreshArrives, RefreshRead, RefreshRefused, Refuse
<1>2. /\ c \in Flows /\ c.at = "asked" /\ c.kind = flow[f].kind
      /\ c.token = flow[f].token /\ Holds(c) = Holds(flow[f])
      /\ c.token \in DOMAIN tokens /\ ChainOK(req[f], c)
  BY <1>1, AskedOK
<1>3. StoreTyped' /\ Len(tokens) \in Nat /\ Len(users) \in Nat
  BY <1>1, TokensStay DEF WebInv, TablesTyped
<1>4. \/ Live(j) /\ req' = [req EXCEPT ![f] = q]
      \/ req' = [req EXCEPT ![f] = Answer(0)]
  BY DEF RefreshArrives, RefreshRead, RefreshRefused, Refuse
<1>q. q \in ReqRecords /\ q.at = "refresh" /\ q.token = j /\ q.user = 0
  BY <1>2, <1>3 DEF Idle, ReqRecords, Stages, Role, Flows
<1>o. Owed(req[f], flow[f])
  BY <1>1 DEF Owed
<1> HIDE DEF c, q
<1>5. CASE Live(j) /\ req' = [req EXCEPT ![f] = q]
  <2>1. ServedOK(q) /\ FoundByEmail(q) /\ ChainOK(q, c)
    BY <1>1, <1>2, <1>3, <1>q DEF ServedOK, FoundByEmail, ChainOK
  <2>2. Checked(f, q, c)
    BY <1>2, <1>5, <1>q, <1>o, <2>1 DEF Checked
  <2> QED
    BY <1>1, <1>3, <1>5, <2>2, RequestMoves
<1>6. CASE req' = [req EXCEPT ![f] = Answer(0)]
  <2>1. Checked(f, Answer(0), c)
    BY <1>2, <1>3, AnswerChecked
  <2> QED
    BY <1>1, <1>3, <1>6, <2>1, RequestMoves
<1> QED
  BY <1>4, <1>5, <1>6

LEMMA SignOutArrivesKeeps ==
    ASSUME WebInv, NEW f \in Requests, SignOutArrives(f)
    PROVE  WebInv'
<1> DEFINE j == flow[f].token
           c == [flow[f] EXCEPT !.at = "asked"]
<1>1. /\ flow[f].at = "sent" /\ flow[f].kind = "logout" /\ req[f].at = "idle"
      /\ flow' = [flow EXCEPT ![f] = c] /\ req' = [req EXCEPT ![f] = Answer(0)]
      /\ tokens' = [tokens EXCEPT ![j].revoked = @ \/ ~tokens[j].expired]
      /\ UNCHANGED <<users, identities, configured, store, shared, lost>>
  BY DEF SignOutArrives, LogoutCommit
<1>2. /\ c \in Flows /\ c.at = "asked" /\ c.kind = flow[f].kind
      /\ Holds(c) = Holds(flow[f]) /\ ChainOK(req[f], c) /\ c.token = j
      /\ c.token \in DOMAIN tokens
  BY <1>1, AskedOK
<1>3. tokens \in Seq(TokenRows) /\ Len(tokens) \in Nat
  BY DEF WebInv, TablesTyped
<1>4. TokensAge
  <2>1. tokens[j] \in TokenRows
    BY <1>2, <1>3
  <2>2. [tokens[j] EXCEPT !.revoked = @ \/ ~tokens[j].expired] \in TokenRows
    BY <2>1 DEF TokenRows
  <2>3. tokens' \in Seq(TokenRows) /\ Len(tokens') = Len(tokens)
    BY <1>1, <1>2, <1>3, <2>2
  <2>4. \A k \in DOMAIN tokens : /\ tokens'[k].from = tokens[k].from
                                 /\ tokens[k].revoked => tokens'[k].revoked
    <3>1. \A k \in DOMAIN tokens : tokens[k] \in TokenRows
      BY <1>3
    <3> QED
      BY <1>1, <3>1 DEF TokenRows
  <2> QED
    BY <2>3, <2>4 DEF TokensAge
<1> HIDE DEF c
<1>5. Checked(f, Answer(0), c)
  BY <1>1, <1>2, <1>3, AnswerChecked
<1>6. StoreTyped' /\ shared \subseteq DOMAIN tokens /\ lost \subseteq DOMAIN tokens
  BY <1>1, <1>4 DEF WebInv, StoreTyped, TablesTyped, TokensAge
<1>7. Moves(f, Answer(0), c)
  BY <1>1, <1>4, <1>6 DEF Moves
<1> QED
  BY <1>5, <1>7, MovesKeep
-----------------------------------------------------------------------------
(* Logins. *)

\* The first step of a login: what it has read of the identity.
LEMMA FindIdentityChecked ==
    ASSUME WebInv, NEW f \in Requests, NEW l \in Logins, FindIdentity(f, l), Room,
           NEW c \in Flows, Holds(c) = 0, ChainOK(req[f], c),
           c.at \notin {"unauthorized", "sent"}
    PROVE  \E q : req' = [req EXCEPT ![f] = q] /\ Checked(f, q, c)
<1>0. Len(users) \in Nat /\ users \in Seq(UserRows) /\ req[f].at = "idle"
  BY DEF WebInv, TablesTyped, FindIdentity
<1>1. CASE l.subject \in DOMAIN identities
  <2> DEFINE u == identities[l.subject]
             q == [Idle EXCEPT !.login = l, !.at = "login:write", !.user = u,
                               !.role = users[u].role, !.known = TRUE]
  <2>0. u \in DOMAIN users
    BY <1>1 DEF WebInv, TablesTyped
  <2>1. u # 0 /\ u \in 0..Len(users) /\ u \in Nat
    BY <1>0, <2>0
  <2>2. users[u].role \in Role
    <3>1. users[u] \in UserRows
      <4> HIDE DEF u
      <4> QED
        BY <1>0, <2>0
    <3> QED
      BY <3>1 DEF UserRows
  <2>3. req' = [req EXCEPT ![f] = q]
    BY <1>1 DEF FindIdentity
  <2>4. SteadyLogins => users[u].email = l.email
    BY <1>1 DEF WebInv, Accounts
  <2> HIDE DEF u
  <2>5. /\ q.at = "login:write" /\ q.user = u /\ q.login = l /\ q.known
        /\ q \in ReqRecords
    BY <2>1, <2>2 DEF Idle, ReqRecords, Stages
  <2> HIDE DEF q
  <2>6. ServedOK(q) /\ ChainOK(q, c) /\ (SteadyLogins => FoundByEmail(q))
    BY <2>1, <2>4, <2>5 DEF ServedOK, ChainOK, FoundByEmail
  <2>7. Checked(f, q, c)
    BY <2>5, <2>6 DEF Checked
  <2> QED
    BY <2>3, <2>7
<1>2. CASE l.subject \notin DOMAIN identities
  <2> DEFINE at == IF l.verified THEN "login:link" ELSE "login:write"
             q == [Idle EXCEPT !.login = l, !.at = at]
  <2>1. req' = [req EXCEPT ![f] = q]
    BY <1>2 DEF FindIdentity
  <2>2. at \in {"login:link", "login:write"}
    OBVIOUS
  <2> HIDE DEF at
  <2>3. q.at = at /\ q.user = 0 /\ q.login = l /\ ~q.known /\ q \in ReqRecords
    BY <2>2 DEF Idle, ReqRecords, Stages, Role
  <2> HIDE DEF q
  <2>4. ServedOK(q) /\ ChainOK(q, c) /\ FoundByEmail(q)
    BY <1>0, <2>2, <2>3 DEF ServedOK, ChainOK, FoundByEmail
  <2>5. Checked(f, q, c)
    BY <2>2, <2>3, <2>4 DEF Checked
  <2> QED
    BY <2>1, <2>5
<1> QED
  BY <1>1, <1>2

LEMMA SignInKeeps ==
    ASSUME WebInv, NEW f \in Requests, NEW l \in Logins, SignIn(f, l)
    PROVE  WebInv'
<1> DEFINE c == [at |-> "asked", kind |-> "login", token |-> 0]
<1>1. /\ c \in Flows /\ Holds(c) = 0 /\ c.at = "asked" /\ c.kind = "login" /\ c.token = 0
  BY DEF Flows, FlowStages, Kinds, Holds
<1>2. /\ Room /\ FindIdentity(f, l) /\ flow' = [flow EXCEPT ![f] = c]
      /\ req[f].at = "idle"
      /\ UNCHANGED <<users, identities, tokens, configured, store, shared, lost>>
  BY DEF SignIn, FindIdentity
<1> HIDE DEF c
<1>3. StoreTyped' /\ Len(tokens) \in Nat
  BY <1>2, TokensStay DEF WebInv, TablesTyped
<1>4. ChainOK(req[f], c)
  BY <1>1, <1>2, <1>3 DEF ChainOK
<1>5. PICK q : req' = [req EXCEPT ![f] = q] /\ Checked(f, q, c)
  BY <1>1, <1>2, <1>4, FindIdentityChecked
<1> QED
  BY <1>2, <1>3, <1>5, RequestMoves

LEMMA ForeignLoginKeeps ==
    ASSUME WebInv, NEW f \in Requests, NEW l \in Logins, ForeignLogin(f, l)
    PROVE  WebInv'
<1>1. /\ Room /\ FindIdentity(f, l) /\ flow[f].at = "none" /\ UNCHANGED flow
      /\ UNCHANGED <<users, identities, tokens, configured, store, shared, lost>>
  BY DEF ForeignLogin, FindIdentity, clientVars
<1>2. flow[f] = NoFlow /\ ChainOK(req[f], flow[f]) /\ flow' = [flow EXCEPT ![f] = flow[f]]
  BY <1>1 DEF WebInv, RequestsTyped, ChainOK
<1>3. StoreTyped'
  BY <1>1, TokensStay
<1>4. PICK q : req' = [req EXCEPT ![f] = q] /\ Checked(f, q, flow[f])
  BY <1>1, <1>2, RestTyped, FindIdentityChecked
<1> QED
  BY <1>1, <1>2, <1>3, <1>4, RequestMoves

LEMMA LinkByEmailKeeps ==
    ASSUME WebInv, NEW f \in Requests, LinkByEmail(f), UNCHANGED clientVars
    PROVE  WebInv'
<1> DEFINE mine == WithEmail(users, req[f].login.email)
           u == IF mine = {} THEN 0 ELSE CHOOSE x \in mine : TRUE
           role == IF mine = {} THEN "any" ELSE users[CHOOSE x \in mine : TRUE].role
           q == [req[f] EXCEPT !.at = "login:write", !.user = u, !.role = role]
<1>1. /\ req[f].at = "login:link" /\ req' = [req EXCEPT ![f] = q]
      /\ UNCHANGED <<users, identities, tokens, configured, flow, store, shared, lost>>
  BY DEF LinkByEmail, clientVars
<1>2. /\ req[f] \in ReqRecords /\ ServedOK(req[f]) /\ ChainOK(req[f], flow[f])
      /\ flow[f] \in Flows /\ flow' = [flow EXCEPT ![f] = flow[f]]
      /\ Len(users) \in Nat /\ users \in Seq(UserRows)
  BY <1>1 DEF WebInv, RequestsTyped, TablesTyped
<1>3. /\ u \in 0..Len(users) /\ role \in Role \cup {"any"}
      /\ u # 0 => users[u].email = req[f].login.email
  <2>1. CASE mine = {}
    BY <1>2, <2>1
  <2>2. CASE mine # {}
    <3>1. u \in mine /\ role = users[u].role
      BY <2>2
    <3>2. u \in DOMAIN users /\ users[u].email = req[f].login.email
      BY <3>1 DEF WithEmail
    <3>3. users[u] \in UserRows /\ u \in 1..Len(users)
      BY <1>2, <3>2
    <3> QED
      BY <1>2, <3>1, <3>2, <3>3 DEF UserRows
  <2> QED
    BY <2>1, <2>2
<1> HIDE DEF mine, u, role
<1>4. /\ q.at = "login:write" /\ q.user = u /\ q.login = req[f].login
      /\ q.known = req[f].known
  BY <1>2 DEF ReqRecords
<1>a. q \in ReqRecords
  <2>1. u \in Nat
    BY <1>2, <1>3
  <2> QED
    BY <1>2, <1>3, <2>1 DEF ReqRecords, Stages
<1> HIDE DEF q
<1>5. ServedOK(q) /\ ChainOK(q, flow[f]) /\ FoundByEmail(q)
  BY <1>1, <1>2, <1>3, <1>4 DEF ServedOK, ChainOK, FoundByEmail
<1>6. Checked(f, q, flow[f])
  BY <1>1, <1>2, <1>4, <1>5, <1>a DEF Checked, Owed
<1>7. StoreTyped'
  BY <1>1, TokensStay
<1> QED
  BY <1>1, <1>2, <1>6, <1>7, RequestMoves

LEMMA LoginRefusedKeeps ==
    ASSUME WebInv, NEW f \in Requests, LoginRefused(f), UNCHANGED clientVars
    PROVE  WebInv'
<1>1. /\ req[f].at = "login:write" /\ req' = [req EXCEPT ![f] = Answer(0)]
      /\ UNCHANGED <<users, identities, tokens, configured, flow, store, shared, lost>>
  BY DEF LoginRefused, Refuse, clientVars
<1>2. /\ ChainOK(req[f], flow[f]) /\ flow[f] \in Flows /\ Len(tokens) \in Nat
      /\ flow' = [flow EXCEPT ![f] = flow[f]]
      /\ flow[f].at \notin {"unauthorized", "sent"}
  BY <1>1 DEF WebInv, RequestsTyped, TablesTyped, ChainOK
<1>3. Checked(f, Answer(0), flow[f])
  BY <1>2, AnswerChecked
<1>4. StoreTyped'
  BY <1>1, TokensStay
<1> QED
  BY <1>1, <1>2, <1>3, <1>4, RequestMoves
-----------------------------------------------------------------------------
(* New tokens and new users. *)

\* Rows that keep their place and their email, and perhaps another one with
\* an email nobody has.
UsersGrow ==
    /\ users' \in Seq(UserRows) /\ DOMAIN users \subseteq DOMAIN users'
    /\ \A u \in DOMAIN users : users'[u].email = users[u].email
    /\ \A u \in DOMAIN users' \ DOMAIN users :
        /\ u = Len(users) + 1
        /\ \A v \in DOMAIN users : users[v].email # users'[u].email

LEMMA GrownStayUnique ==
    ASSUME UniqueEmails, UsersGrow
    PROVE  UniqueEmails'
<1> SUFFICES ASSUME NEW u \in DOMAIN users', NEW v \in DOMAIN users',
                    users'[u].email = users'[v].email
             PROVE  u = v
  BY DEF UniqueEmails
<1>1. CASE u \in DOMAIN users /\ v \in DOMAIN users
  BY <1>1 DEF UniqueEmails, UsersGrow
<1>2. CASE u \notin DOMAIN users \/ v \notin DOMAIN users
  BY <1>2 DEF UsersGrow
<1> QED
  BY <1>1, <1>2

LEMMA GrownLengths ==
    ASSUME users \in Seq(UserRows), UsersGrow
    PROVE  Len(users) \in Nat /\ Len(users') \in Nat /\ Len(users) <= Len(users')
<1>1. DOMAIN users = 1..Len(users) /\ DOMAIN users' = 1..Len(users')
      /\ Len(users) \in Nat /\ Len(users') \in Nat
  BY DEF UsersGrow
<1>2. 1..Len(users) \subseteq 1..Len(users')
  BY <1>1 DEF UsersGrow
<1>3. CASE Len(users) = 0
  BY <1>1, <1>3
<1>4. CASE Len(users) # 0
  <2>1. Len(users) \in 1..Len(users)
    BY <1>1, <1>4
  <2> QED
    BY <1>1, <1>2, <2>1
<1> QED
  BY <1>1, <1>3, <1>4

\* Boot touches roles, or appends the root admin.
LEMMA StartedGrows ==
    ASSUME WebInv, NEW e \in RootEmails \cup {"unset"}, users' = Started(users, e)
    PROVE  /\ UsersGrow
           /\ e # "unset" => \E u \in DOMAIN users' :
                users'[u].email = Lower[e] /\ users'[u].role = "root_admin"
<1>1. users \in Seq(UserRows) /\ Len(users) \in Nat /\ DOMAIN users = 1..Len(users)
  BY DEF WebInv, TablesTyped
<1>2. CASE e = "unset"
  BY <1>1, <1>2 DEF Started, UsersGrow
<1>3. CASE e # "unset"
  <2>1. Lower[e] \in Emails
    BY <1>3, IdentityAssumption
  <2>2. users' = Boot(users, e)
    BY <1>3 DEF Started
  <2> DEFINE mine == WithEmail(users, Lower[e])
             row == [email |-> Lower[e], verified |-> TRUE, role |-> "root_admin"]
  <2>3. CASE mine = {}
    <3>1. users' = Append(users, row)
      BY <2>2, <2>3 DEF Boot
    <3>2. row \in UserRows /\ row.email = Lower[e] /\ row.role = "root_admin"
      BY <2>1 DEF UserRows, Role
    <3>3. \A v \in DOMAIN users : users[v].email # Lower[e]
      BY <2>3 DEF WithEmail
    <3> HIDE DEF row
    <3>4. /\ users' \in Seq(UserRows) /\ DOMAIN users' = 1..(Len(users) + 1)
          /\ \A u \in DOMAIN users : users'[u] = users[u]
          /\ users'[Len(users) + 1] = row
      BY <1>1, <3>1, <3>2
    <3>5. \A u \in DOMAIN users' \ DOMAIN users : u = Len(users) + 1
      BY <1>1, <3>4
    <3>6. Len(users) + 1 \in DOMAIN users'
      BY <1>1, <3>4
    <3> QED
      BY <1>1, <3>2, <3>3, <3>4, <3>5, <3>6 DEF UsersGrow
  <2>4. CASE mine # {}
    <3>1. users' = [u \in DOMAIN users |->
                IF u \in mine THEN [users[u] EXCEPT !.role = "root_admin"] ELSE users[u]]
      BY <2>2, <2>4 DEF Boot
    <3>2. \A u \in DOMAIN users : users[u] \in UserRows
      BY <1>1
    <3>3. DOMAIN users' = DOMAIN users
          /\ \A u \in DOMAIN users :
                /\ users'[u] \in UserRows /\ users'[u].email = users[u].email
                /\ u \in mine => users'[u].role = "root_admin"
      BY <3>1, <3>2 DEF UserRows, Role
    <3>4. users' \in Seq(UserRows)
      <4>1. users' = [u \in 1..Len(users) |-> users'[u]]
        BY <1>1, <3>1, <3>3
      <4> QED
        BY <1>1, <3>3, <4>1
    <3>5. PICK u \in mine : TRUE
      BY <2>4
    <3>6. u \in DOMAIN users /\ users[u].email = Lower[e]
      BY <3>5 DEF WithEmail
    <3> QED
      BY <3>3, <3>4, <3>6, <3>5 DEF UsersGrow
  <2> QED
    BY <2>3, <2>4
<1> QED
  BY <1>2, <1>3
\* Time: tokens expire, the access token expires, or nothing happens.
LEMMA AgeKeeps ==
    ASSUME WebInv, TokensAge, StoreTyped',
           UNCHANGED <<users, identities, configured, req, flow, shared, lost>>
    PROVE  WebInv'
<1>1. /\ tokens \in Seq(TokenRows) /\ tokens' \in Seq(TokenRows)
      /\ Len(tokens') = Len(tokens) /\ DOMAIN tokens' = DOMAIN tokens
      /\ \A k \in DOMAIN tokens : /\ tokens'[k].from = tokens[k].from
                                  /\ tokens[k].revoked => tokens'[k].revoked
  <2>1. tokens \in Seq(TokenRows) /\ TokensAge
    BY DEF WebInv, TablesTyped
  <2>2. DOMAIN tokens = 1..Len(tokens) /\ DOMAIN tokens' = 1..Len(tokens')
    BY <2>1 DEF TokensAge
  <2> QED
    BY <2>1, <2>2 DEF TokensAge
<1>2. TablesTyped'
  BY <1>1 DEF WebInv, TablesTyped
<1>3. RequestsTyped'
  BY <1>1 DEF WebInv, RequestsTyped, ServedOK, ChainOK
<1>4. Fits'
  BY <1>1 DEF WebInv, Fits, Owing
<1>5. Rotation'
  BY <1>1 DEF WebInv, Rotation, RotatedOnceUnlessShared
<1>6. Accounts'
  BY DEF WebInv, Accounts, UniqueEmails, FoundByEmail, RootAdminServes
<1> QED
  BY <1>2, <1>3, <1>4, <1>5, <1>6 DEF WebInv

LEMMA TimeKeeps ==
    ASSUME WebInv, AccessExpires \/ Expire \/ UNCHANGED vars
    PROVE  WebInv'
<1>1. CASE AccessExpires
  <2>1. UNCHANGED <<identityVars, flow, shared, lost>> /\ store' = [store EXCEPT !.access = FALSE]
    BY <1>1 DEF AccessExpires
  <2>2. StoreTyped'
    BY <2>1 DEF WebInv, StoreTyped, identityVars
  <2> QED
    BY <2>1, <2>2, TokensStay, AgeKeeps DEF identityVars
<1>2. CASE Expire
  <2>1. PICK j \in DOMAIN tokens : tokens' = [tokens EXCEPT ![j].expired = TRUE]
    BY <1>2 DEF Expire, TokenExpires
  <2>2. UNCHANGED <<users, identities, configured, req, store, flow, shared, lost>>
    BY <1>2 DEF Expire, TokenExpires, clientVars
  <2>3. tokens \in Seq(TokenRows) /\ \A k \in DOMAIN tokens : tokens[k] \in TokenRows
    BY DEF WebInv, TablesTyped
  <2>4. [tokens[j] EXCEPT !.expired = TRUE] \in TokenRows
    BY <2>3 DEF TokenRows
  <2>5. tokens' \in Seq(TokenRows) /\ Len(tokens') = Len(tokens)
    BY <2>1, <2>3, <2>4
  <2>6. \A k \in DOMAIN tokens : /\ tokens'[k].from = tokens[k].from
                                 /\ tokens[k].revoked => tokens'[k].revoked
    BY <2>1, <2>3 DEF TokenRows
  <2>7. TokensAge
    BY <2>5, <2>6 DEF TokensAge
  <2>8. StoreTyped'
    BY <2>2, <2>5 DEF WebInv, StoreTyped
  <2> QED
    BY <2>2, <2>7, <2>8, AgeKeeps
<1>3. CASE UNCHANGED vars
  <2>1. UNCHANGED <<users, identities, tokens, configured, req, store, flow, shared, lost>>
    BY <1>3 DEF vars
  <2> QED
    BY <2>1, TokensStay, AgeKeeps
<1> QED
  BY <1>1, <1>2, <1>3

\* The tokens the answers tell of are known.
LEMMA ToldTyped ==
    ASSUME WebInv, NEW fs \in SUBSET Requests
    PROVE  Told(fs) \subseteq DOMAIN tokens
<1>1. SUFFICES ASSUME NEW f \in fs, Renews(f) \/ SignsOut(f)
               PROVE  flow[f].token \in DOMAIN tokens
  BY DEF Told
<1>2. /\ ChainOK(req[f], flow[f]) /\ flow[f].at \in FlowStages
      /\ flow[f].kind \in {"api", "me", "logout"}
      /\ req[f].at = "done" \/ flow[f].at = "asked"
  BY <1>1 DEF WebInv, RequestsTyped, Flows, Renews, SignsOut
<1>3. flow[f].kind # "none"
  BY <1>1 DEF Renews, SignsOut
<1>4. flow[f].at # "none" /\ flow[f].kind # "login" /\ flow[f].at # "unauthorized"
  BY <1>1, <1>2, <1>3, RestTyped DEF Renews, SignsOut, ChainOK
<1> QED
  BY <1>2, <1>4 DEF ChainOK, FlowStages

\* Pages that are left, and connections that fail.
LEMMA PagesKeep ==
    ASSUME WebInv, NEW f \in Requests,
           PageLeft(f) \/ FetchFails(f) \/ NeverArrives(f) \/ AnswerUnheard(f)
    PROVE  WebInv'
<1>1. ChainOK(req[f], flow[f])
  BY DEF WebInv, RequestsTyped
<1>2. ASSUME UNCHANGED <<identityVars, store, shared, lost>>,
             flow[f].at \in {"unauthorized", "sent"},
             flow' = [flow EXCEPT ![f] = NoFlow]
      PROVE  WebInv'
  <2>1. StoreTyped' /\ shared' \subseteq DOMAIN tokens /\ Len(tokens) \in Nat
    BY <1>2, TokensStay DEF WebInv, TablesTyped, identityVars
  <2>2. req[f].at = "idle"
    BY <1>1, <1>2 DEF ChainOK
  <2>3. /\ NoFlow \in Flows /\ Holds(NoFlow) = 0 /\ ChainOK(req[f], NoFlow)
        /\ ~Owed(req[f], NoFlow)
    BY <2>1, <2>2, RestTyped DEF ChainOK, Owed
  <2> QED
    BY <1>2, <2>1, <2>3, ChainMoves
<1>3. ASSUME UNCHANGED <<identityVars, flow, shared, lost>>, store' \in {store, Empty}
      PROVE  WebInv'
  <2>1. UNCHANGED <<users, identities, tokens, configured, req>> /\ StoreWritten
    BY <1>3 DEF identityVars, StoreWritten
  <2>2. TokensAge /\ StoreTyped'
    BY <2>1, TokensStay, StoreKinds
  <2> QED
    BY <1>3, <2>1, <2>2, AgeKeeps
<1>4. CASE PageLeft(f)
  BY <1>2, <1>3, <1>4 DEF PageLeft
<1>5. CASE FetchFails(f)
  BY <1>3, <1>5 DEF FetchFails
<1>6. CASE NeverArrives(f)
  BY <1>2, <1>6 DEF NeverArrives
<1>7. CASE AnswerUnheard(f)
  <2>1. /\ Answered(f) /\ flow' = [flow EXCEPT ![f] = NoFlow]
        /\ lost' = lost \cup Told({f}) /\ UNCHANGED <<store, shared, tokens>>
    BY <1>7 DEF AnswerUnheard, Answered
  <2>2. lost' \subseteq DOMAIN tokens
    BY <2>1, ToldTyped DEF WebInv, TablesTyped
  <2> QED
    BY <2>1, <2>2, TokensStay, AnsweredKeeps
<1> QED
  BY <1>4, <1>5, <1>6, <1>7

LEMMA RestartKeeps ==
    ASSUME WebInv, NEW e \in RootEmails \cup {"unset"}, ServerRestarts(e)
    PROVE  WebInv'
<1>1. /\ configured' = e /\ users' = Started(users, e)
      /\ req' = [r \in Requests |-> Idle] /\ UNCHANGED <<identities, tokens, shared>>
      /\ store' = store \/ store' = Empty
  BY DEF ServerRestarts, Restart
<1>2. /\ flow' \in [Requests -> Flows]
      /\ \A f \in Requests : \/ flow'[f] = NoFlow
                             \/ /\ flow'[f] = flow[f]
                                /\ flow[f].at \notin {"sent", "asked"}
  BY RestTyped DEF ServerRestarts, WebInv, RequestsTyped
<1>3. lost' \subseteq DOMAIN tokens
  <2>1. lost \subseteq DOMAIN tokens
    BY DEF WebInv, TablesTyped
  <2> QED
    BY <2>1, ToldTyped DEF ServerRestarts
<1>4. UsersGrow /\ users \in Seq(UserRows)
      /\ (e # "unset" => \E u \in DOMAIN users' :
                users'[u].email = Lower[e] /\ users'[u].role = "root_admin")
  BY <1>1, StartedGrows DEF WebInv, TablesTyped
<1>5. TablesTyped'
  BY <1>1, <1>3, <1>4 DEF WebInv, TablesTyped, UsersGrow
<1>6. StoreTyped'
  <2>1. StoreWritten /\ tokens' = tokens
    BY <1>1 DEF StoreWritten
  <2> QED
    BY <2>1, StoreKinds
<1>7. RequestsTyped'
  <2>1. Len(users') \in Nat /\ Len(tokens) \in Nat
    BY <1>4, GrownLengths DEF WebInv, TablesTyped
  <2>2. \A f \in Requests : req'[f] = Idle
    BY <1>1
  <2>3. \A f \in Requests : ServedOK(req[f])'
    BY <2>1, <2>2, RestTyped DEF ServedOK
  <2>4. \A f \in Requests : ChainOK(req[f], flow[f])'
    BY <1>1, <1>2, <2>1, <2>2, RestTyped DEF ChainOK, WebInv, RequestsTyped
  <2>5. req' \in [Requests -> ReqRecords]
    BY <1>1, RestTyped
  <2> QED
    BY <1>2, <2>3, <2>4, <2>5 DEF RequestsTyped
<1>8. Fits'
  <2>1. \A f \in Requests : Owed(req'[f], flow'[f]) => Owed(req[f], flow[f])
    BY <1>1, <1>2, RestTyped DEF Owed
  <2>2. Owing' \in SUBSET Owing
    BY <2>1 DEF Owing
  <2>3. Cardinality(Owing') <= Cardinality(Owing) /\ Cardinality(Owing') \in Nat
    BY <2>2, OwingFinite, FS_Subset, FS_CardinalityType
  <2>4. Len(tokens) \in Nat
    BY DEF WebInv, TablesTyped
  <2> QED
    BY <1>1, <2>3, <2>4, OwingFinite, IdentityAssumption DEF WebInv, Fits
<1>9. Rotation'
  <2>1. \A f \in Requests : Holds(flow'[f]) \in {0, Holds(flow[f])} /\ req'[f].at = "idle"
    BY <1>1, <1>2, RestTyped
  <2>2. RotatedOnceUnlessShared'
    BY <1>1 DEF WebInv, Rotation, RotatedOnceUnlessShared
  <2> QED
    BY <1>1, <2>1, <2>2 DEF WebInv, Rotation
<1>10. Accounts'
  <2>1. UniqueEmails'
    BY <1>4, GrownStayUnique DEF WebInv, Accounts
  <2>2. RootAdminServes'
    BY <1>1, <1>4 DEF RootAdminServes
  <2>3. \A f \in Requests : FoundByEmail(req[f])'
    BY <1>1, RestTyped DEF FoundByEmail
  <2>4. ASSUME SteadyLogins, NEW l \in Logins, l.subject \in DOMAIN identities
        PROVE  users'[identities[l.subject]].email = l.email
    BY <1>4, <2>4 DEF WebInv, Accounts, TablesTyped, UsersGrow
  <2> QED
    BY <1>1, <2>1, <2>2, <2>3, <2>4 DEF Accounts
<1> QED
  BY <1>5, <1>6, <1>7, <1>8, <1>9, <1>10 DEF WebInv
\* A request that is given a new token: the tables grow, its chain waits.
LEMMA CommitKeeps ==
    ASSUME WebInv, NEW f \in Requests, UNCHANGED clientVars, configured' = configured,
           req[f].at \in {"login:write", "refresh"},
           req' = [req EXCEPT ![f] = Answer(Len(tokens) + 1)],
           tokens' \in Seq(TokenRows), Len(tokens') = Len(tokens) + 1,
           UsersGrow, IsFiniteSet(DOMAIN identities'),
           \A s \in DOMAIN identities' : identities'[s] \in DOMAIN users',
           Rotation', Accounts'
    PROVE  WebInv'
<1> DEFINE a == Answer(Len(tokens) + 1)
<1>1. /\ tokens \in Seq(TokenRows) /\ Len(tokens) \in Nat
      /\ Len(users) \in Nat /\ Len(users') \in Nat /\ Len(users) <= Len(users')
      /\ DOMAIN tokens = 1..Len(tokens) /\ DOMAIN tokens' = 1..Len(tokens')
  BY GrownLengths DEF WebInv, TablesTyped
<1>2. /\ a \in ReqRecords /\ a.at = "done" /\ a.token = Len(tokens) + 1 /\ a.user = 0
  BY <1>1, AnswerTyped
<1>3. /\ \A g \in Requests : req'[g] = IF g = f THEN a ELSE req[g]
      /\ req' \in [Requests -> ReqRecords]
      /\ UNCHANGED <<flow, store, shared, lost>>
  BY <1>2 DEF WebInv, RequestsTyped, clientVars
<1> HIDE DEF a
<1>4. TablesTyped'
  BY <1>1, <1>3 DEF WebInv, TablesTyped, UsersGrow
<1>5. StoreTyped'
  <2>1. 0..Len(tokens) \subseteq 0..Len(tokens')
    BY <1>1
  <2> QED
    BY <1>3, <2>1 DEF WebInv, StoreTyped
<1>6. RequestsTyped'
  <2>1. \A g \in Requests : ServedOK(req[g]) /\ ChainOK(req[g], flow[g])
    BY DEF WebInv, RequestsTyped
  <2>2. \A g \in Requests : ServedOK(req[g])'
    BY <1>1, <1>2, <1>3, <2>1 DEF ServedOK
  <2>3. \A g \in Requests : ChainOK(req[g], flow[g])'
    BY <1>1, <1>2, <1>3, <2>1 DEF ChainOK
  <2> QED
    BY <1>3, <2>2, <2>3 DEF WebInv, RequestsTyped
<1>7. Fits'
  <2>1. f \in Owing /\ f \notin Owing'
    BY <1>2, <1>3 DEF Owing, Owed, WebInv, RequestsTyped, ChainOK
  <2>2. Owing' = Owing \ {f}
    BY <1>3, <2>1 DEF Owing
  <2>3. Cardinality(Owing') = Cardinality(Owing) - 1
    BY <2>1, <2>2, OwingFinite, FS_RemoveElement
  <2> QED
    BY <1>1, <2>3, OwingFinite, IdentityAssumption DEF WebInv, Fits
<1> QED
  BY <1>4, <1>5, <1>6, <1>7 DEF WebInv

LEMMA NewTokenTyped ==
    ASSUME NEW u \in Nat \ {0}, NEW j \in 0..MaxTokens
    PROVE  /\ NewToken(u, j) \in TokenRows
           /\ NewToken(u, j).from = j
BY DEF NewToken, TokenRows

LEMMA LoginCommitKeeps ==
    ASSUME WebInv, NEW f \in Requests, LoginCommit(f), UNCHANGED clientVars
    PROVE  WebInv'
<1> DEFINE q == req[f]
           l == q.login
           n == Len(tokens)
           u == IF q.user = 0 THEN Len(users) + 1 ELSE q.user
           t == NewToken(u, 0)
<1>1. /\ q.at = "login:write" /\ KeysAreFree(f) /\ users' = UsersAfterLogin(f)
      /\ identities' = IF q.known THEN identities
                       ELSE [s \in DOMAIN identities \cup {l.subject} |->
                                IF s = l.subject THEN u ELSE identities[s]]
      /\ tokens' = Append(tokens, t) /\ req' = [req EXCEPT ![f] = Answer(n + 1)]
      /\ configured' = configured
      /\ UNCHANGED <<flow, store, shared, lost>>
  BY DEF LoginCommit, clientVars
<1>2. /\ users \in Seq(UserRows) /\ Len(users) \in Nat /\ DOMAIN users = 1..Len(users)
      /\ tokens \in Seq(TokenRows) /\ n \in Nat /\ DOMAIN tokens = 1..n
      /\ IsFiniteSet(DOMAIN identities)
      /\ \A s \in DOMAIN identities : identities[s] \in DOMAIN users
  BY DEF WebInv, TablesTyped
<1>3. /\ q \in ReqRecords /\ l \in Logins /\ q.user \in 0..Len(users)
      /\ l.email \in Emails /\ l.verified \in BOOLEAN /\ l.role \in Role \cup {"any"}
  <2>1. ServedOK(q) /\ q \in ReqRecords
    BY DEF WebInv, RequestsTyped
  <2>2. l \in Logins /\ l \in LoginInfos
    BY <1>1, <2>1, IdentityAssumption DEF ServedOK
  <2> QED
    BY <2>1, <2>2 DEF ServedOK, LoginInfos
<1>4. /\ UsersGrow /\ u \in DOMAIN users' /\ u \in Nat \ {0}
      /\ SteadyLogins => users'[u].email = l.email
      /\ \A v \in DOMAIN users : users'[v].role = users[v].role
                                 \/ (v = q.user /\ l.role # "any")
  <2>1. CASE q.user = 0
    <3> DEFINE row == [email |-> l.email, verified |-> l.verified,
                       role |-> IF l.role = "any" THEN "user" ELSE l.role]
    <3>1. users' = Append(users, row)
      BY <1>1, <2>1 DEF UsersAfterLogin
    <3>2. row \in UserRows /\ row.email = l.email
      BY <1>3 DEF UserRows, Role
    <3>3. \A v \in DOMAIN users : users[v].email # l.email
      BY <1>1, <2>1 DEF KeysAreFree, WithEmail
    <3> HIDE DEF row, l
    <3>4. /\ users' \in Seq(UserRows) /\ DOMAIN users' = 1..(Len(users) + 1)
          /\ \A v \in DOMAIN users : users'[v] = users[v]
          /\ users'[Len(users) + 1] = row
      BY <1>2, <3>1, <3>2
    <3>5. /\ \A v \in DOMAIN users' \ DOMAIN users : v = Len(users) + 1
          /\ Len(users) + 1 \in DOMAIN users' /\ u = Len(users) + 1
          /\ DOMAIN users \subseteq DOMAIN users' /\ u \in Nat \ {0}
      BY <1>2, <2>1, <3>4
    <3> HIDE DEF u, q
    <3>6. UsersGrow
      BY <3>2, <3>3, <3>4, <3>5 DEF UsersGrow
    <3>7. users'[u].email = l.email /\ u \in DOMAIN users'
      BY <3>2, <3>4, <3>5
    <3>8. \A v \in DOMAIN users : users'[v].role = users[v].role
      BY <3>4
    <3> QED
      BY <3>5, <3>6, <3>7, <3>8
  <2>2. CASE q.user # 0 /\ l.role \in {"any", q.role}
    <3>1. users' = users
      BY <1>1, <2>2 DEF UsersAfterLogin
    <3>2. u \in DOMAIN users /\ u \in Nat \ {0}
      BY <1>2, <1>3, <2>2
    <3>3. SteadyLogins => users[u].email = l.email
      BY <1>1, <2>2 DEF WebInv, Accounts, FoundByEmail
    <3> HIDE DEF u, q, l
    <3>4. UsersGrow
      BY <1>2, <3>1 DEF UsersGrow
    <3> QED
      BY <3>1, <3>2, <3>3, <3>4
  <2>3. CASE q.user # 0 /\ l.role \notin {"any", q.role}
    <3>1. users' = [users EXCEPT ![q.user].role = l.role]
      BY <1>1, <2>3 DEF UsersAfterLogin
    <3>2. u \in DOMAIN users /\ u \in Nat \ {0} /\ u = q.user
      BY <1>2, <1>3, <2>3
    <3>3. SteadyLogins => users[u].email = l.email
      BY <1>1, <2>3 DEF WebInv, Accounts, FoundByEmail
    <3>4. l.role \in Role /\ l.role # "any"
      BY <1>3, <2>3
    <3>5. \A v \in DOMAIN users : users[v] \in UserRows
      BY <1>2
    <3>r. \A r \in Role : [users[u] EXCEPT !.role = r] \in UserRows
      BY <3>2, <3>5 DEF UserRows
    <3>6. users' = [users EXCEPT ![u] = [users[u] EXCEPT !.role = l.role]]
      BY <3>1, <3>2
    <3> HIDE DEF u, l, q
    <3>7. users' \in Seq(UserRows) /\ DOMAIN users' = DOMAIN users
      BY <1>2, <3>2, <3>4, <3>r, <3>6
    <3>8. \A v \in DOMAIN users :
            /\ users'[v].email = users[v].email
            /\ users'[v].role = users[v].role \/ v = u
      BY <1>2, <3>2, <3>5, <3>6 DEF UserRows
    <3> QED
      BY <3>2, <3>3, <3>4, <3>7, <3>8 DEF UsersGrow
  <2> QED
    BY <2>1, <2>2, <2>3
<1>5. /\ tokens' \in Seq(TokenRows) /\ Len(tokens') = n + 1 /\ DOMAIN tokens' = 1..(n + 1)
      /\ \A k \in 1..n : tokens'[k] = tokens[k]
      /\ tokens'[n + 1].from = 0
  <2>1. t \in TokenRows /\ t.from = 0
    BY <1>4, NewTokenTyped, IdentityAssumption
  <2> HIDE DEF t
  <2> QED
    BY <1>1, <1>2, <2>1
<1>6. /\ IsFiniteSet(DOMAIN identities')
      /\ \A s \in DOMAIN identities' : identities'[s] \in DOMAIN users'
      /\ \A s \in DOMAIN identities' :
            \/ s \in DOMAIN identities /\ identities'[s] = identities[s]
            \/ s = l.subject /\ identities'[s] = u
  <2> HIDE DEF l, q, u
  <2>1. \A s \in DOMAIN identities : identities[s] \in DOMAIN users'
    BY <1>2, <1>4 DEF UsersGrow
  <2>2. CASE identities' = identities
    BY <1>2, <2>1, <2>2
  <2>3. CASE identities' = [s \in DOMAIN identities \cup {l.subject} |->
                                IF s = l.subject THEN u ELSE identities[s]]
    <3>1. DOMAIN identities' = DOMAIN identities \cup {l.subject}
      BY <2>3
    <3>2. IsFiniteSet(DOMAIN identities \cup {l.subject})
      BY <1>2, FS_AddElement
    <3>3. IsFiniteSet(DOMAIN identities')
      BY <3>1, <3>2
    <3> QED
      BY <1>4, <2>1, <2>3, <3>3
  <2> QED
    BY <1>1, <2>2, <2>3
<1>a. /\ Answer(n + 1).at = "done"
      /\ \A g \in Requests : req'[g] = IF g = f THEN Answer(n + 1) ELSE req[g]
  <2>1. req' = [req EXCEPT ![f] = Answer(n + 1)] /\ n + 1 \in Nat
    BY <1>1, <1>2
  <2>2. req \in [Requests -> ReqRecords]
    BY DEF WebInv, RequestsTyped
  <2> HIDE DEF n
  <2> QED
    BY <2>1, <2>2, AnswerTyped
<1> HIDE DEF l, u, t
<1>7. Rotation'
  <2>1. \A k \in DOMAIN tokens' : tokens'[k].from # 0 => k \in DOMAIN tokens
    BY <1>2, <1>5
  <2>2. \A k \in DOMAIN tokens' : tokens'[k].from # 0 =>
            tokens'[k].from \in DOMAIN tokens' /\ tokens'[tokens'[k].from].revoked
    BY <1>2, <1>5, <2>1 DEF WebInv, Rotation
  <2>3. \A g \in Requests : req'[g].at = "refresh" /\ req'[g].token \notin shared' =>
            \A k \in DOMAIN tokens' : tokens'[k].from # req'[g].token
    <3>1. SUFFICES ASSUME NEW g \in Requests, g # f, req[g].at = "refresh",
                          req[g].token \notin shared, NEW k \in DOMAIN tokens'
                   PROVE  tokens'[k].from # req[g].token
      BY <1>1, <1>a
    <3>2. req[g].token # 0
      BY <1>2, <3>1 DEF WebInv, RequestsTyped, ServedOK
    <3> QED
      BY <1>2, <1>5, <3>1, <3>2 DEF WebInv, Rotation
  <2>4. RotatedOnceUnlessShared'
    BY <1>1, <1>2, <1>5, <2>1 DEF WebInv, Rotation, RotatedOnceUnlessShared
  <2>5. \A g, h \in Requests :
            g # h /\ Holds(flow'[g]) = Holds(flow'[h]) /\ Holds(flow'[g]) # 0
                => Holds(flow'[g]) \in shared'
    BY <1>1 DEF WebInv, Rotation
  <2> QED
    BY <2>2, <2>3, <2>4, <2>5 DEF Rotation
<1>8. Accounts'
  <2>1. UniqueEmails'
    BY <1>4, GrownStayUnique DEF WebInv, Accounts
  <2>2. ASSUME SteadyLogins, NEW m \in Logins, m.subject \in DOMAIN identities'
        PROVE  users'[identities'[m.subject]].email = m.email
    <3>1. CASE m.subject \in DOMAIN identities /\ identities'[m.subject] = identities[m.subject]
      BY <1>2, <1>4, <2>2, <3>1 DEF WebInv, Accounts, UsersGrow
    <3>2. CASE m.subject = l.subject /\ identities'[m.subject] = u
      BY <1>3, <1>4, <2>2, <3>2 DEF SteadyLogins
    <3> QED
      BY <1>6, <2>2, <3>1, <3>2
  <2>3. ASSUME SteadyLogins, NEW g \in Requests
        PROVE  FoundByEmail(req[g])'
    <3>1. CASE g = f
      BY <1>a, <3>1 DEF FoundByEmail
    <3>2. CASE g # f
      <4>1. ServedOK(req[g]) /\ FoundByEmail(req[g]) /\ req'[g] = req[g]
        BY <1>a, <2>3, <3>2 DEF WebInv, RequestsTyped, Accounts
      <4>2. req[g].user # 0 => req[g].user \in DOMAIN users
        BY <1>2, <4>1 DEF ServedOK
      <4> QED
        BY <1>4, <4>1, <4>2 DEF FoundByEmail, UsersGrow
    <3> QED
      BY <3>1, <3>2
  <2>4. ASSUME SteadyLogins PROVE RootAdminServes'
    <3>1. SUFFICES ASSUME configured # "unset"
                   PROVE  \E v \in DOMAIN users' :
                            /\ users'[v].email = Lower[configured]
                            /\ users'[v].role = "root_admin"
      BY <1>1 DEF RootAdminServes
    <3>2. PICK v \in DOMAIN users : /\ users[v].email = Lower[configured]
                                    /\ users[v].role = "root_admin"
      BY <2>4, <3>1 DEF WebInv, Accounts, RootAdminServes
    <3>3. v \in DOMAIN users' /\ users'[v].email = users[v].email
      BY <1>4 DEF UsersGrow
    <3>4. users'[v].role = users[v].role
      <4>1. SUFFICES ASSUME v = q.user, l.role # "any" PROVE FALSE
        BY <1>4
      <4>2. q.user # 0 /\ FoundByEmail(q)
        BY <1>2, <2>4, <4>1 DEF WebInv, Accounts
      <4>3. l.email = Lower[configured]
        BY <1>1, <3>2, <4>1, <4>2 DEF FoundByEmail, l
      <4>4. configured \in RootEmails
        BY <3>1 DEF WebInv, TablesTyped
      <4> QED
        BY <1>3, <2>4, <4>1, <4>3, <4>4 DEF SteadyLogins
    <3> QED
      BY <3>2, <3>3, <3>4
  <2> QED
    BY <2>1, <2>2, <2>3, <2>4 DEF Accounts
<1> QED
  BY <1>1, <1>4, <1>5, <1>6, <1>7, <1>8, CommitKeeps

LEMMA RefreshCommitKeeps ==
    ASSUME WebInv, NEW f \in Requests, RefreshCommit(f), UNCHANGED clientVars
    PROVE  WebInv'
<1> DEFINE j == req[f].token
           n == Len(tokens)
           old == [tokens EXCEPT ![j].revoked = TRUE]
           t == NewToken(tokens[j].user, j)
<1>1. /\ req[f].at = "refresh" /\ tokens' = Append(old, t)
      /\ req' = [req EXCEPT ![f] = Answer(n + 1)]
      /\ UNCHANGED <<users, identities, configured, flow, store, shared, lost>>
  BY DEF RefreshCommit, clientVars
<1>2. /\ tokens \in Seq(TokenRows) /\ n \in Nat /\ DOMAIN tokens = 1..n
      /\ \A k \in 1..n : tokens[k] \in TokenRows
  BY DEF WebInv, TablesTyped
<1>3. j \in 1..n /\ flow[f].kind \in {"api", "me"} /\ flow[f].token = j
  BY <1>1, <1>2 DEF WebInv, RequestsTyped, ServedOK, ChainOK
<1>4. j \in 0..MaxTokens
  BY <1>2, <1>3, OwingFinite, IdentityAssumption DEF WebInv, Fits
<1>5. t \in TokenRows /\ t.from = j
  <2>1. tokens[j].user \in Nat \ {0}
    BY <1>2, <1>3 DEF TokenRows
  <2> QED
    BY <1>4, <2>1, NewTokenTyped
<1>6. /\ old \in Seq(TokenRows) /\ Len(old) = n
      /\ \A k \in 1..n : /\ old[k].from = tokens[k].from
                         /\ tokens[k].revoked => old[k].revoked
      /\ old[j].revoked
  <2>1. [tokens[j] EXCEPT !.revoked = TRUE] \in TokenRows
    BY <1>2, <1>3 DEF TokenRows
  <2>2. old \in Seq(TokenRows) /\ Len(old) = n
    BY <1>2, <1>3, <2>1
  <2>3. \A k \in 1..n : /\ old[k].from = tokens[k].from
                        /\ tokens[k].revoked => old[k].revoked
    BY <1>2, <1>3 DEF TokenRows
  <2>4. old[j].revoked
    BY <1>2, <1>3 DEF TokenRows
  <2> QED
    BY <2>2, <2>3, <2>4
<1> HIDE DEF old, t
<1>7. /\ tokens' \in Seq(TokenRows) /\ Len(tokens') = n + 1 /\ DOMAIN tokens' = 1..(n + 1)
      /\ \A k \in 1..n : /\ tokens'[k].from = tokens[k].from
                         /\ tokens[k].revoked => tokens'[k].revoked
      /\ tokens'[j].revoked /\ tokens'[n + 1].from = j
  <2>1. /\ tokens' \in Seq(TokenRows) /\ Len(tokens') = n + 1 /\ DOMAIN tokens' = 1..(n + 1)
        /\ \A k \in 1..n : tokens'[k] = old[k]
        /\ tokens'[n + 1] = t
    BY <1>1, <1>2, <1>5, <1>6
  <2> QED
    BY <1>3, <1>5, <1>6, <2>1
<1>a. /\ Answer(n + 1).at = "done"
      /\ \A g \in Requests : req'[g] = IF g = f THEN Answer(n + 1) ELSE req[g]
  <2>1. req' = [req EXCEPT ![f] = Answer(n + 1)] /\ n + 1 \in Nat
    BY <1>1, <1>2
  <2>2. req \in [Requests -> ReqRecords]
    BY DEF WebInv, RequestsTyped
  <2> HIDE DEF n
  <2> QED
    BY <2>1, <2>2, AnswerTyped
<1> HIDE DEF j, n
<1>8. j \notin shared => \A k \in 1..n : tokens[k].from # j
  BY <1>1, <1>2 DEF WebInv, Rotation, j
<1>9. Rotation'
  <2>1. \A k \in DOMAIN tokens' : tokens'[k].from # 0 =>
            tokens'[k].from \in DOMAIN tokens' /\ tokens'[tokens'[k].from].revoked
    <3>1. SUFFICES ASSUME NEW k \in 1..(n + 1), tokens'[k].from # 0
                   PROVE  /\ tokens'[k].from \in 1..(n + 1)
                          /\ tokens'[tokens'[k].from].revoked
      BY <1>7
    <3>2. CASE k \in 1..n
      <4>1. tokens[k].from \in 1..n /\ tokens[tokens[k].from].revoked
        BY <1>2, <1>7, <3>1, <3>2 DEF WebInv, Rotation
      <4> QED
        BY <1>2, <1>7, <3>2, <4>1
    <3>3. CASE k = n + 1
      BY <1>2, <1>3, <1>7, <3>3
    <3> QED
      BY <1>2, <3>2, <3>3
  <2>2. \A g \in Requests : req'[g].at = "refresh" /\ req'[g].token \notin shared' =>
            \A k \in DOMAIN tokens' : tokens'[k].from # req'[g].token
    <3>1. SUFFICES ASSUME NEW g \in Requests, g # f, req[g].at = "refresh",
                          req[g].token \notin shared, NEW k \in 1..(n + 1)
                   PROVE  tokens'[k].from # req[g].token
      BY <1>1, <1>7, <1>a
    <3>2. CASE k \in 1..n
      BY <1>2, <1>7, <3>1, <3>2 DEF WebInv, Rotation
    <3>3. CASE k = n + 1
      <4>1. flow[g].kind \in {"api", "me"} /\ flow[g].token = req[g].token
        BY <3>1 DEF WebInv, RequestsTyped, ChainOK
      <4>2. Holds(flow[g]) = req[g].token /\ Holds(flow[f]) = j /\ j # 0
        BY <1>2, <1>3, <4>1 DEF Holds
      <4>3. req[g].token # j
        BY <3>1, <4>2 DEF WebInv, Rotation
      <4> QED
        BY <1>7, <3>3, <4>3
    <3> QED
      BY <1>2, <3>2, <3>3
  <2>3. RotatedOnceUnlessShared'
    <3>1. SUFFICES ASSUME NEW k \in 1..(n + 1), NEW m \in 1..(n + 1),
                          tokens'[k].from = tokens'[m].from,
                          tokens'[k].from \notin {0} \cup shared
                   PROVE  k = m
      BY <1>1, <1>7 DEF RotatedOnceUnlessShared
    <3>2. CASE k \in 1..n /\ m \in 1..n
      BY <1>2, <1>7, <3>1, <3>2 DEF WebInv, Rotation, RotatedOnceUnlessShared
    <3>3. CASE k = n + 1 /\ m \in 1..n
      BY <1>7, <1>8, <3>1, <3>3
    <3>4. CASE m = n + 1 /\ k \in 1..n
      BY <1>7, <1>8, <3>1, <3>4
    <3> QED
      BY <1>2, <3>2, <3>3, <3>4
  <2>4. \A g, h \in Requests :
            g # h /\ Holds(flow'[g]) = Holds(flow'[h]) /\ Holds(flow'[g]) # 0
                => Holds(flow'[g]) \in shared'
    BY <1>1 DEF WebInv, Rotation
  <2> QED
    BY <2>1, <2>2, <2>3, <2>4 DEF Rotation
<1>10. UsersGrow
  BY <1>1 DEF UsersGrow, WebInv, TablesTyped
<1>11. Accounts'
  <2>1. \A g \in Requests : FoundByEmail(req[g]) => FoundByEmail(req[g])'
    BY <1>1, <1>a DEF FoundByEmail
  <2> QED
    BY <1>1, <2>1 DEF WebInv, Accounts, UniqueEmails, RootAdminServes
<1>12. /\ IsFiniteSet(DOMAIN identities')
       /\ \A s \in DOMAIN identities' : identities'[s] \in DOMAIN users'
  BY <1>1 DEF WebInv, TablesTyped
<1> QED
  BY <1>1, <1>7, <1>9, <1>10, <1>11, <1>12, CommitKeeps DEF n
-----------------------------------------------------------------------------
(* The theorems. *)

LEMMA WebStarts == WebInit => WebInv
<1> SUFFICES ASSUME WebInit PROVE WebInv
  OBVIOUS
<1>1. /\ configured \in RootEmails \cup {"unset"} /\ users = Started(<< >>, configured)
      /\ identities = << >> /\ tokens = << >> /\ shared = {} /\ lost = {}
      /\ store = [access |-> FALSE, refresh |-> 0]
      /\ \A f \in Requests : req[f] = Idle /\ flow[f] = NoFlow
      /\ req \in [Requests -> ReqRecords] /\ flow \in [Requests -> Flows]
  BY RestTyped DEF WebInit, Init, Empty
<1>2. /\ DOMAIN identities = {} /\ DOMAIN tokens = {} /\ Len(tokens) = 0
      /\ tokens \in Seq(TokenRows)
  BY <1>1
<1>3. /\ users \in Seq(UserRows) /\ UniqueEmails /\ RootAdminServes
  <2> DEFINE row == [email |-> Lower[configured], verified |-> TRUE, role |-> "root_admin"]
  <2>1. CASE configured = "unset"
    <3>1. users = << >>
      BY <1>1, <2>1 DEF Started
    <3> QED
      BY <2>1, <3>1 DEF UniqueEmails, RootAdminServes
  <2>2. CASE configured # "unset"
    <3>1. WithEmail(<< >>, Lower[configured]) = {}
      BY DEF WithEmail
    <3>2. users = Append(<< >>, row)
      BY <1>1, <2>2, <3>1 DEF Started, Boot
    <3>3. Lower[configured] \in Emails
      BY <1>1, <2>2, IdentityAssumption
    <3>4. /\ row \in UserRows /\ row.role = "root_admin"
          /\ row.email = Lower[configured]
      BY <3>3 DEF UserRows, Role
    <3> HIDE DEF row
    <3>5. users \in Seq(UserRows) /\ DOMAIN users = {1} /\ users[1] = row
      BY <3>2, <3>4
    <3> QED
      BY <3>4, <3>5 DEF UniqueEmails, RootAdminServes
  <2> QED
    BY <2>1, <2>2
<1>4. TablesTyped
  <2>1. IsFiniteSet(DOMAIN identities)
    BY <1>2, FS_EmptySet
  <2> QED
    BY <1>1, <1>2, <1>3, <2>1 DEF TablesTyped
<1>5. StoreTyped
  BY <1>1, <1>2 DEF StoreTyped
<1>6. RequestsTyped
  <2>1. Len(users) \in Nat
    BY <1>3
  <2> QED
    BY <1>1, <1>2, <2>1, RestTyped DEF RequestsTyped, ServedOK, ChainOK
<1>7. Fits
  <2>1. Owing = {}
    BY <1>1, RestTyped DEF Owing, Owed
  <2> QED
    BY <1>2, <2>1, FS_EmptySet, IdentityAssumption DEF Fits
<1>8. Rotation
  BY <1>1, <1>2, RestTyped DEF Rotation, RotatedOnceUnlessShared
<1>9. Accounts
  BY <1>1, <1>2, <1>3, RestTyped DEF Accounts, FoundByEmail
<1> QED
  BY <1>4, <1>5, <1>6, <1>7, <1>8, <1>9 DEF WebInv

LEMMA FlowStepKeeps ==
    ASSUME WebInv, NEW f \in Requests, FlowStep(f)
    PROVE  WebInv'
<1>1. CASE TryRefresh(f)
  BY <1>1, TryRefreshKeeps
<1>2. CASE NothingToTry(f)
  BY <1>2, NothingToTryKeeps
<1>3. CASE RefreshArrives(f)
  BY <1>3, RefreshArrivesKeeps
<1>4. CASE RefreshAnswered(f) \/ SignInAnswered(f) \/ SignOutAnswered(f)
  BY <1>4, ChainsAnswered
<1>5. CASE SignOutArrives(f)
  BY <1>5, SignOutArrivesKeeps
<1>6. CASE Serve(f)
  BY <1>6, LinkByEmailKeeps, LoginCommitKeeps, LoginRefusedKeeps, RefreshCommitKeeps
     DEF Serve
<1>7. CASE ForeignAnswered(f)
  BY <1>7, ForeignAnsweredKeeps
<1>8. CASE PageLeft(f) \/ FetchFails(f) \/ NeverArrives(f) \/ AnswerUnheard(f)
  BY <1>8, PagesKeep
<1> QED
  BY <1>1, <1>2, <1>3, <1>4, <1>5, <1>6, <1>7, <1>8 DEF FlowStep

\* What no page waits for has been sent.
GoneOK == gone \subseteq {f \in Requests : flow[f].at \in {"sent", "asked"}}

LEMMA GoneKeeps ==
    ASSUME WebInv, GoneOK, [WebNext]_vars
    PROVE  GoneOK'
<1>1. flow \in [Requests -> Flows]
  BY DEF WebInv, RequestsTyped
<1>2. ASSUME NEW f \in Requests, NEW c, flow' = [flow EXCEPT ![f] = c],
             gone' \subseteq gone, c.at \in {"sent", "asked"} \/ f \notin gone'
      PROVE  GoneOK'
  BY <1>1, <1>2 DEF GoneOK
<1>3. ASSUME UNCHANGED <<flow, gone>> PROVE GoneOK'
  BY <1>3 DEF GoneOK
<1>4. ASSUME NEW f \in Requests,
             \/ \E kind \in {"api", "me"} : Call(f, kind)
             \/ \E l \in Logins : SignIn(f, l)
             \/ SignOut(f) \/ TryRefresh(f) \/ NothingToTry(f)
             \/ RefreshAnswered(f) \/ SignInAnswered(f) \/ SignOutAnswered(f)
             \/ NeverArrives(f) \/ AnswerUnheard(f)
      PROVE  GoneOK'
  <2>1. f \notin gone'
    BY <1>4 DEF Call, SignIn, SignOut, TryRefresh, NothingToTry, RefreshAnswered,
                SignInAnswered, SignOutAnswered, NeverArrives, AnswerUnheard, GoneOK
  <2>2. gone' \subseteq gone /\ \E c : flow' = [flow EXCEPT ![f] = c]
    BY <1>4 DEF Call, SignIn, SignOut, TryRefresh, NothingToTry, RefreshAnswered,
                SignInAnswered, SignOutAnswered, NeverArrives, AnswerUnheard
  <2> QED
    BY <1>2, <2>1, <2>2
<1>5. ASSUME NEW f \in Requests, RefreshArrives(f) \/ SignOutArrives(f) PROVE GoneOK'
  <2>1. [flow[f] EXCEPT !.at = "asked"].at = "asked"
    BY <1>1 DEF Flows
  <2>2. flow' = [flow EXCEPT ![f] = [flow[f] EXCEPT !.at = "asked"]] /\ gone' = gone
    BY <1>5 DEF RefreshArrives, SignOutArrives
  <2> QED
    BY <1>2, <2>1, <2>2
<1>6. ASSUME NEW f \in Requests, PageLeft(f) \/ FetchFails(f) PROVE GoneOK'
  <2>1. CASE flow[f].at = "unauthorized"
    <3>1. f \notin gone /\ gone' = gone /\ flow' = [flow EXCEPT ![f] = NoFlow]
      BY <1>6, <2>1 DEF PageLeft, FetchFails
    <3> QED
      BY <1>2, <3>1
  <2>2. CASE flow[f].at # "unauthorized"
    <3>1. flow' = flow /\ gone' = gone \cup {f} /\ flow[f].at \in {"sent", "asked"}
      BY <1>1, <1>6, <2>2 DEF PageLeft, FetchFails, Flows, FlowStages
    <3> QED
      BY <3>1 DEF GoneOK
  <2> QED
    BY <2>1, <2>2
<1>7. ASSUME NEW e \in RootEmails \cup {"unset"}, ServerRestarts(e) PROVE GoneOK'
  BY <1>7 DEF ServerRestarts, GoneOK
<1>8. ASSUME NEW f \in Requests,
             Serve(f) \/ ForeignAnswered(f) \/ \E l \in Logins : ForeignLogin(f, l)
      PROVE  GoneOK'
  BY <1>3, <1>8 DEF Serve, ForeignAnswered, ForeignLogin, clientVars
<1>9. CASE AccessExpires \/ Expire \/ UNCHANGED vars
  BY <1>3, <1>9 DEF AccessExpires, Expire, clientVars, vars
<1>10. ASSUME NEW f \in Requests, FlowStep(f) PROVE GoneOK'
  BY <1>4, <1>5, <1>6, <1>8, <1>10 DEF FlowStep
<1> QED
  BY <1>4, <1>7, <1>8, <1>9, <1>10 DEF WebNext

\* The tables, the requests and the chains keep their types, every token that
\* may yet be issued fits, and the rotation and the accounts are sound.
THEOREM InvarianceOfWebSession == WebSpec => []WebInv
<1>1. WebInv /\ [WebNext]_vars => WebInv'
  <2> SUFFICES ASSUME WebInv, [WebNext]_vars PROVE WebInv'
    OBVIOUS
  <2>1. ASSUME NEW f \in Requests, FlowStep(f) PROVE WebInv'
    BY <2>1, FlowStepKeeps
  <2>2. ASSUME NEW f \in Requests, NEW kind \in {"api", "me"}, Call(f, kind) PROVE WebInv'
    BY <2>2, CallKeeps
  <2>3. ASSUME NEW f \in Requests, NEW l \in Logins,
               IF l.role = "any" THEN ForeignLogin(f, l) ELSE SignIn(f, l)
        PROVE  WebInv'
    BY <2>3, ForeignLoginKeeps, SignInKeeps
  <2>4. ASSUME NEW f \in Requests, SignOut(f) PROVE WebInv'
    BY <2>4, SignOutKeeps
  <2>5. CASE AccessExpires \/ Expire \/ UNCHANGED vars
    BY <2>5, TimeKeeps
  <2>6. ASSUME NEW e \in RootEmails \cup {"unset"}, ServerRestarts(e) PROVE WebInv'
    BY <2>6, RestartKeeps
  <2> QED
    BY <2>1, <2>2, <2>3, <2>4, <2>5, <2>6 DEF WebNext
<1> QED
  BY <1>1, WebStarts, PTL DEF WebSpec

LEMMA GoneAreSent == WebSpec => []GoneOK
<1>1. WebInit => GoneOK
  BY DEF WebInit, GoneOK
<1>2. WebInv /\ GoneOK /\ [WebNext]_vars => GoneOK'
  BY GoneKeeps
<1> QED
  BY <1>1, <1>2, InvarianceOfWebSession, PTL DEF WebSpec

\* Whatever tabs, answers, sign-outs and restarts come between, a refresh
\* token that no two chains held at once is exchanged at most once: what
\* iam/service.py 142-160 promises without a lock on the record.
THEOREM RotatedOnce == WebSpec => []RotatedOnceUnlessShared
<1>1. WebInv => RotatedOnceUnlessShared
  BY DEF WebInv, Rotation
<1> QED
  BY <1>1, InvarianceOfWebSession, PTL

\* When a subject has one email and nobody logs in for development in a root
\* admin's name, every identity belongs to the one user with its email and
\* the configured root admin serves, however logins of several providers
\* overlap and whenever the server starts again (iam/service.py 68-116,
\* iam/bootstrap.py 20-47).
THEOREM AccountsAlwaysSound == WebSpec => [](SteadyLogins => AccountsSound)
<1>1. WebInv /\ GoneOK => (SteadyLogins => AccountsSound)
  <2> SUFFICES ASSUME WebInv, GoneOK, SteadyLogins PROVE AccountsSound
    OBVIOUS
  <2>1. TypeOK
    <3>1. Len(tokens) \in Nat /\ Len(tokens) <= MaxTokens
      BY OwingFinite, IdentityAssumption DEF WebInv, TablesTyped, Fits
    <3>2. store \in Stores
      BY <3>1, IdentityAssumption DEF WebInv, StoreTyped, Stores
    <3>3. \A f \in Requests : /\ req[f].at \in Stages /\ req[f].user \in 0..Len(users)
                              /\ flow[f].at \in FlowStages
                              /\ flow[f].kind \in Kinds \cup {"none"}
                              /\ flow[f].token \in 0..Len(tokens)
      BY DEF WebInv, RequestsTyped, ServedOK, ChainOK, ReqRecords, Flows
    <3>4. IdentityTypeOK
      BY <3>3, IdentityAssumption DEF WebInv, TablesTyped, IdentityTypeOK
    <3> QED
      BY <3>2, <3>3, <3>4 DEF TypeOK, GoneOK, WebInv, TablesTyped
  <2>2. LinkedByEmail
    <3>1. SUFFICES ASSUME NEW l \in Logins, l.subject \in DOMAIN identities
                   PROVE  WithEmail(users, l.email) = {identities[l.subject]}
      BY DEF LinkedByEmail
    <3>2. /\ identities[l.subject] \in DOMAIN users
          /\ users[identities[l.subject]].email = l.email
      BY <3>1 DEF WebInv, TablesTyped, Accounts
    <3> QED
      BY <3>2 DEF WebInv, Accounts, UniqueEmails, WithEmail
  <2>3. RootAdminServes
    BY DEF WebInv, Accounts
  <2> QED
    BY <2>1, <2>2, <2>3 DEF AccountsSound
<1> QED
  BY <1>1, InvarianceOfWebSession, GoneAreSent, PTL
-----------------------------------------------------------------------------
(* Where tokens are: in the store, held by chains, or on their way. *)

\* The answer to request f carries a token.
InFlight(f) == req[f].at = "done" /\ req[f].token # 0

\* That token is nobody's yet and works.
FreshTokens ==
    \A f \in Requests : InFlight(f) =>
        /\ ~tokens[req[f].token].revoked /\ store.refresh # req[f].token
        /\ \A g \in Requests :
            /\ flow[g].token # req[f].token
            /\ g # f /\ InFlight(g) => req[g].token # req[f].token
        /\ \A k \in DOMAIN tokens : tokens[k].from # req[f].token

\* A token that was exchanged waits for the answer, or nobody has it any more.
SpentTokens ==
    \A k \in DOMAIN tokens : tokens[k].from \notin {0} \cup shared \cup lost =>
        \/ \E f \in Requests : InFlight(f) /\ Holds(flow[f]) = tokens[k].from
        \/ /\ store.refresh # tokens[k].from
           /\ \A f \in Requests : Holds(flow[f]) # tokens[k].from

\* Only what does not work is refused.
RefusedTokens ==
    \A f \in Requests :
        req[f].at = "done" /\ req[f].token = 0 /\ flow[f].kind \in {"api", "me"} =>
            ~Live(flow[f].token)

\* A login is not what a chain's refresh waits for.
LogsIn(q) == q.at \in {"login:link", "login:write"}
LoginsApart == \A f \in Requests : LogsIn(req[f]) => flow[f].kind \notin {"api", "me"}

\* StoredTokenWorks, whether a page waits for the answer or not.
Exchanged(j) == \E f \in Requests : Renews(f) /\ flow[f].token = j
StoreTraced ==
    LET j == store.refresh
    IN  j = 0 \/ Live(j) \/ tokens[j].expired \/ Exchanged(j) \/ Leaving(j) \/ j \in lost

TokensTraced ==
    FreshTokens /\ StoreTraced /\ SpentTokens /\ RefusedTokens /\ LoginsApart

\* Request f stays or moves without an answer that carries a token, and its
\* chain stays, gives up its token or takes the one in the store.
StaysQuiet(f) ==
    /\ InFlight(f) \/ InFlight(f)' => req'[f] = req[f] /\ flow'[f] = flow[f]
    /\ flow'[f].token \in {0, flow[f].token, store.refresh}
    /\ Holds(flow'[f]) \in {0, Holds(flow[f]), store.refresh}
    /\ SignsOut(f) => flow'[f] = flow[f]
    /\ req'[f].at = "done" /\ req'[f].token = 0 /\ flow'[f].kind \in {"api", "me"} =>
            \/ ~Live(flow'[f].token)
            \/ req'[f] = req[f] /\ flow'[f] = flow[f]
    /\ LogsIn(req'[f]) => \/ flow'[f].kind \notin {"api", "me"}
                          \/ LogsIn(req[f]) /\ flow'[f] = flow[f]

\* Tokens only age, and are revoked by a sign-out.
AgeBySignOut ==
    /\ DOMAIN tokens' = DOMAIN tokens
    /\ \A k \in DOMAIN tokens :
        /\ tokens'[k].from = tokens[k].from
        /\ tokens[k].expired => tokens'[k].expired
        /\ tokens[k].revoked => tokens'[k].revoked
        /\ tokens'[k].revoked /\ ~tokens[k].revoked =>
            \E f \in Requests : SignsOut(f)' /\ flow'[f].token = k /\ flow[f].token = k

Quietly ==
    /\ AgeBySignOut /\ store'.refresh \in {0, store.refresh}
    /\ shared \subseteq shared' /\ lost' = lost
    /\ \A f \in Requests : StaysQuiet(f)

LEMMA TokenTypes ==
    ASSUME WebInv
    PROVE  /\ tokens \in Seq(TokenRows) /\ Len(tokens) \in Nat
           /\ DOMAIN tokens = 1..Len(tokens)
           /\ store.refresh \in 0..Len(tokens)
           /\ \A k \in DOMAIN tokens : /\ tokens[k].revoked \in BOOLEAN
                                       /\ tokens[k].expired \in BOOLEAN
           /\ \A f \in Requests : /\ flow[f].token \in 0..Len(tokens)
                                  /\ Holds(flow[f]) \in {0, flow[f].token}
                                  /\ InFlight(f) => req[f].token \in DOMAIN tokens
<1>1. tokens \in Seq(TokenRows) /\ Len(tokens) \in Nat /\ DOMAIN tokens = 1..Len(tokens)
  BY DEF WebInv, TablesTyped
<1>2. \A k \in DOMAIN tokens : tokens[k] \in TokenRows
  BY <1>1
<1>3. store.refresh \in 0..Len(tokens)
  BY DEF WebInv, StoreTyped
<1>4. \A f \in Requests : ServedOK(req[f]) /\ ChainOK(req[f], flow[f])
  BY DEF WebInv, RequestsTyped
<1> QED
  BY <1>1, <1>2, <1>3, <1>4 DEF TokenRows, ServedOK, ChainOK, Holds, InFlight

LEMMA QuietlyKeeps ==
    ASSUME WebInv, TokensTraced, Quietly
    PROVE  TokensTraced'
<1>1. /\ DOMAIN tokens' = DOMAIN tokens /\ store'.refresh \in {0, store.refresh}
      /\ shared \subseteq shared' /\ lost' = lost
      /\ \A k \in DOMAIN tokens : tokens'[k].from = tokens[k].from
  BY DEF Quietly, AgeBySignOut
<1>2. \A j : Live(j)' => Live(j)
  BY <1>1 DEF Live, Quietly, AgeBySignOut
<1>3. FreshTokens'
  <2>1. SUFFICES ASSUME NEW f \in Requests, InFlight(f)'
                 PROVE  /\ ~tokens'[req'[f].token].revoked
                        /\ store'.refresh # req'[f].token
                        /\ \A g \in Requests :
                            /\ flow'[g].token # req'[f].token
                            /\ g # f /\ InFlight(g)' => req'[g].token # req'[f].token
                        /\ \A k \in DOMAIN tokens' : tokens'[k].from # req'[f].token
    BY DEF FreshTokens
  <2>2. InFlight(f) /\ req'[f] = req[f] /\ req[f].token # 0
    BY <2>1 DEF Quietly, StaysQuiet, InFlight
  <2>3. req[f].token \in DOMAIN tokens
    BY <2>2, TokenTypes
  <2>4. /\ ~tokens[req[f].token].revoked /\ store.refresh # req[f].token
        /\ \A g \in Requests :
            /\ flow[g].token # req[f].token
            /\ g # f /\ InFlight(g) => req[g].token # req[f].token
        /\ \A k \in DOMAIN tokens : tokens[k].from # req[f].token
    BY <2>2 DEF TokensTraced, FreshTokens
  <2>5. ~tokens'[req[f].token].revoked
    BY <2>3, <2>4 DEF Quietly, AgeBySignOut
  <2>6. ASSUME NEW g \in Requests
        PROVE  /\ flow'[g].token # req[f].token
               /\ g # f /\ InFlight(g)' => req'[g].token # req[f].token
    <3>1. StaysQuiet(g)
      BY DEF Quietly
    <3> QED
      BY <2>2, <2>4, <3>1 DEF StaysQuiet, InFlight
  <2> QED
    BY <1>1, <2>2, <2>4, <2>5, <2>6
<1>4. StoreTraced'
  <2>1. SUFFICES ASSUME NEW j, j = store.refresh, j # 0
                 PROVE  \/ Live(j)' \/ tokens'[j].expired \/ Exchanged(j)' \/ Leaving(j)'
                        \/ j \in lost'
    BY <1>1 DEF StoreTraced
  <2>2. j \in DOMAIN tokens
    BY <2>1, TokenTypes
  <2>3. Live(j) \/ tokens[j].expired \/ Exchanged(j) \/ Leaving(j) \/ j \in lost
    BY <2>1 DEF TokensTraced, StoreTraced
  <2>4. CASE Live(j)
    BY <1>1, <2>2, <2>4 DEF Live, Leaving, Quietly, AgeBySignOut
  <2>5. CASE tokens[j].expired
    BY <2>2, <2>5 DEF Quietly, AgeBySignOut
  <2>6. CASE Exchanged(j)
    BY <2>6 DEF Exchanged, Renews, Quietly, StaysQuiet, InFlight
  <2>7. CASE Leaving(j)
    BY <2>7 DEF Leaving, SignsOut, Quietly, StaysQuiet
  <2> QED
    BY <1>1, <2>3, <2>4, <2>5, <2>6, <2>7
<1>5. SpentTokens'
  <2>1. SUFFICES ASSUME NEW k \in DOMAIN tokens,
                        tokens[k].from \notin {0} \cup shared \cup lost
                 PROVE  \/ \E f \in Requests : InFlight(f)' /\ Holds(flow'[f]) = tokens[k].from
                        \/ /\ store'.refresh # tokens[k].from
                           /\ \A f \in Requests : Holds(flow'[f]) # tokens[k].from
    BY <1>1 DEF SpentTokens
  <2>2. \/ \E f \in Requests : InFlight(f) /\ Holds(flow[f]) = tokens[k].from
        \/ /\ store.refresh # tokens[k].from
           /\ \A f \in Requests : Holds(flow[f]) # tokens[k].from
    BY <2>1 DEF TokensTraced, SpentTokens
  <2>3. \A f \in Requests : StaysQuiet(f)
    BY DEF Quietly
  <2> QED
    BY <1>1, <2>1, <2>2, <2>3 DEF StaysQuiet, InFlight
<1>6. RefusedTokens'
  <2>1. \A f \in Requests : StaysQuiet(f)
    BY DEF Quietly
  <2> QED
    BY <1>2, <2>1 DEF TokensTraced, RefusedTokens, StaysQuiet
<1>7. LoginsApart'
  <2>1. \A f \in Requests : StaysQuiet(f)
    BY DEF Quietly
  <2> QED
    BY <2>1 DEF TokensTraced, LoginsApart, StaysQuiet
<1> QED
  BY <1>3, <1>4, <1>5, <1>6, <1>7 DEF TokensTraced
\* The answer ends request f and its chain: a token it carries is stored, the
\* store is cleared, or what the answer tells of is lost.
Delivered(f) ==
    /\ req[f].at = "done"
    /\ req' = [req EXCEPT ![f] = Idle] /\ flow' = [flow EXCEPT ![f] = NoFlow]
    /\ UNCHANGED <<tokens, shared>> /\ lost \subseteq lost'
    /\ \/ InFlight(f) /\ store'.refresh = req[f].token
       \/ store'.refresh = 0
       \/ store'.refresh = store.refresh /\ Told({f}) \subseteq lost'

LEMMA DeliveredKeeps ==
    ASSUME WebInv, TokensTraced, NEW f \in Requests, Delivered(f)
    PROVE  TokensTraced'
<1>1. /\ \A g \in Requests : req'[g] = IF g = f THEN Idle ELSE req[g]
      /\ \A g \in Requests : flow'[g] = IF g = f THEN NoFlow ELSE flow[g]
      /\ tokens' = tokens /\ shared' = shared /\ lost \subseteq lost'
  BY DEF Delivered, WebInv, RequestsTyped
<1>2. /\ ~InFlight(f)' /\ \A g \in Requests \ {f} : InFlight(g)' <=> InFlight(g)
  BY <1>1, RestTyped DEF InFlight
<1>3. /\ DOMAIN tokens = 1..Len(tokens) /\ store.refresh \in 0..Len(tokens)
      /\ Len(tokens) \in Nat
      /\ \A g \in Requests : InFlight(g) => req[g].token \in DOMAIN tokens
  BY TokenTypes
<1>4. FreshTokens
  BY DEF TokensTraced
<1>5. FreshTokens'
  <2>1. SUFFICES ASSUME NEW g \in Requests \ {f}, InFlight(g)
                 PROVE  /\ ~tokens[req[g].token].revoked
                        /\ store'.refresh # req[g].token
                        /\ \A h \in Requests :
                            /\ flow'[h].token # req[g].token
                            /\ h # g /\ InFlight(h)' => req'[h].token # req[g].token
                        /\ \A k \in DOMAIN tokens : tokens[k].from # req[g].token
    BY <1>1, <1>2 DEF FreshTokens
  <2>2. req[g].token # 0
    BY <2>1 DEF InFlight
  <2>3. store'.refresh # req[g].token
    BY <1>4, <2>1, <2>2 DEF Delivered, FreshTokens
  <2> QED
    BY <1>1, <1>2, <1>4, <2>1, <2>2, <2>3, RestTyped DEF FreshTokens
<1>a. /\ Renews(f) \/ SignsOut(f) => flow[f].token \in Told({f})
      /\ InFlight(f) /\ Holds(flow[f]) # 0 => Renews(f) /\ Holds(flow[f]) = flow[f].token
  BY DEF Told, Renews, InFlight, Holds
<1>6. StoreTraced'
  <2>1. SUFFICES ASSUME NEW j, j = store'.refresh, j # 0
                 PROVE  \/ Live(j)' \/ tokens[j].expired \/ Exchanged(j)' \/ Leaving(j)'
                        \/ j \in lost'
    BY <1>1 DEF StoreTraced
  <2>2. CASE InFlight(f) /\ j = req[f].token
    BY <1>1, <1>3, <1>4, <2>2 DEF FreshTokens, Live
  <2>3. CASE j = store.refresh /\ Told({f}) \subseteq lost'
    <3>1. Live(j) \/ tokens[j].expired \/ Exchanged(j) \/ Leaving(j) \/ j \in lost
      BY <2>1, <2>3 DEF TokensTraced, StoreTraced
    <3>2. Live(j) => Live(j)'
      BY <1>1 DEF Live
    <3>3. Exchanged(j) => Exchanged(j)' \/ j \in lost'
      <4>1. SUFFICES ASSUME NEW g \in Requests, Renews(g), flow[g].token = j
                     PROVE  Exchanged(j)' \/ j \in lost'
        BY DEF Exchanged
      <4>2. CASE g = f
        BY <1>a, <2>3, <4>1, <4>2
      <4>3. CASE g # f
        BY <1>1, <4>1, <4>3 DEF Exchanged, Renews
      <4> QED
        BY <4>2, <4>3
    <3>4. Leaving(j) => Leaving(j)' \/ j \in lost'
      <4>1. SUFFICES ASSUME NEW g \in Requests, SignsOut(g), flow[g].token = j
                     PROVE  Leaving(j)' \/ j \in lost'
        BY DEF Leaving
      <4>2. CASE g = f
        BY <1>a, <2>3, <4>1, <4>2
      <4>3. CASE g # f
        BY <1>1, <4>1, <4>3 DEF Leaving, SignsOut
      <4> QED
        BY <4>2, <4>3
    <3> QED
      BY <1>1, <3>1, <3>2, <3>3, <3>4
  <2> QED
    BY <2>1, <2>2, <2>3 DEF Delivered
<1>7. SpentTokens'
  <2>1. SUFFICES ASSUME NEW k \in DOMAIN tokens,
                        tokens[k].from \notin {0} \cup shared \cup lost'
                 PROVE  \/ \E g \in Requests : InFlight(g)' /\ Holds(flow'[g]) = tokens[k].from
                        \/ /\ store'.refresh # tokens[k].from
                           /\ \A g \in Requests : Holds(flow'[g]) # tokens[k].from
    BY <1>1 DEF SpentTokens
  <2>2. \/ \E g \in Requests : InFlight(g) /\ Holds(flow[g]) = tokens[k].from
        \/ /\ store.refresh # tokens[k].from
           /\ \A g \in Requests : Holds(flow[g]) # tokens[k].from
    BY <1>1, <2>1 DEF TokensTraced, SpentTokens
  <2>3. InFlight(f) => req[f].token # tokens[k].from
    BY <1>4 DEF FreshTokens
  <2>4. CASE \E g \in Requests \ {f} : InFlight(g) /\ Holds(flow[g]) = tokens[k].from
    BY <1>1, <1>2, <2>4
  <2>5. CASE InFlight(f) /\ Holds(flow[f]) = tokens[k].from
    <3>1. \A g \in Requests \ {f} : Holds(flow[g]) # tokens[k].from
      BY <2>1, <2>5 DEF WebInv, Rotation
    <3>2. store'.refresh # tokens[k].from
      BY <1>a, <2>1, <2>3, <2>5 DEF Delivered
    <3> QED
      BY <1>1, <2>1, <3>1, <3>2, RestTyped
  <2>6. CASE /\ store.refresh # tokens[k].from
             /\ \A g \in Requests : Holds(flow[g]) # tokens[k].from
    <3>1. store'.refresh # tokens[k].from
      BY <2>1, <2>3, <2>6 DEF Delivered
    <3> QED
      BY <1>1, <2>1, <2>6, <3>1, RestTyped
  <2> QED
    BY <2>2, <2>4, <2>5, <2>6
<1>8. RefusedTokens'
  <2>1. \A j : Live(j)' <=> Live(j)
    BY <1>1 DEF Live
  <2> QED
    BY <1>1, <2>1, RestTyped DEF TokensTraced, RefusedTokens
<1>9. LoginsApart'
  BY <1>1, RestTyped DEF TokensTraced, LoginsApart, LogsIn
<1> QED
  BY <1>5, <1>6, <1>7, <1>8, <1>9 DEF TokensTraced

\* Request f is given a new token, and what its chain holds may be revoked.
Issued(f) ==
    /\ req[f].at # "done"
    /\ req' = [req EXCEPT ![f] = Answer(Len(tokens) + 1)]
    /\ UNCHANGED <<flow, store, shared, lost>>
    /\ DOMAIN tokens' = 1..(Len(tokens) + 1)
    /\ \A k \in DOMAIN tokens :
        /\ tokens'[k].from = tokens[k].from
        /\ tokens[k].expired => tokens'[k].expired
        /\ tokens[k].revoked => tokens'[k].revoked
        /\ ~tokens[k].expired => ~tokens'[k].expired
        /\ tokens'[k].revoked /\ ~tokens[k].revoked => k = Holds(flow[f])
    /\ ~tokens'[Len(tokens) + 1].revoked
    /\ tokens'[Len(tokens) + 1].from \in {0, Holds(flow[f])}

LEMMA IssuedKeeps ==
    ASSUME WebInv, TokensTraced, NEW f \in Requests, Issued(f)
    PROVE  TokensTraced'
<1> DEFINE n == Len(tokens)
<1>1. /\ n \in Nat /\ DOMAIN tokens = 1..n /\ store.refresh \in 0..n
      /\ \A g \in Requests : /\ flow[g].token \in 0..n
                             /\ Holds(flow[g]) \in {0, flow[g].token}
                             /\ InFlight(g) => req[g].token \in 1..n
  BY TokenTypes
<1>2. /\ \A g \in Requests \ {f} : req'[g] = req[g]
      /\ req'[f].at = "done" /\ req'[f].token = n + 1
      /\ UNCHANGED <<flow, store, shared, lost>>
  BY <1>1, AnswerTyped DEF Issued, WebInv, RequestsTyped
<1>3. /\ DOMAIN tokens' = 1..(n + 1)
      /\ \A k \in 1..n :
            /\ tokens'[k].from = tokens[k].from
            /\ tokens[k].expired => tokens'[k].expired
            /\ tokens[k].revoked => tokens'[k].revoked
            /\ ~tokens[k].expired => ~tokens'[k].expired
            /\ tokens'[k].revoked /\ ~tokens[k].revoked => k = Holds(flow[f])
      /\ ~tokens'[n + 1].revoked /\ tokens'[n + 1].from \in {0, Holds(flow[f])}
  BY <1>1 DEF Issued
<1>4. /\ ~InFlight(f) /\ InFlight(f)'
      /\ \A g \in Requests \ {f} : InFlight(g)' <=> InFlight(g)
  BY <1>1, <1>2 DEF InFlight, Issued
<1>5. \A k \in 1..n : tokens[k].from \in 0..n
  BY <1>1 DEF WebInv, Rotation
<1> HIDE DEF n
<1>6. FreshTokens'
  <2>1. ASSUME NEW g \in Requests \ {f}, InFlight(g)
        PROVE  /\ ~tokens'[req[g].token].revoked /\ store.refresh # req[g].token
               /\ \A h \in Requests :
                    /\ flow[h].token # req[g].token
                    /\ h # g /\ InFlight(h)' => req'[h].token # req[g].token
               /\ \A k \in 1..(n + 1) : tokens'[k].from # req[g].token
    <3>1. /\ ~tokens[req[g].token].revoked /\ store.refresh # req[g].token
          /\ \A h \in Requests :
                /\ flow[h].token # req[g].token
                /\ h # g /\ InFlight(h) => req[h].token # req[g].token
          /\ \A k \in 1..n : tokens[k].from # req[g].token
      BY <1>1, <2>1 DEF TokensTraced, FreshTokens
    <3>2. req[g].token \in 1..n /\ Holds(flow[f]) # req[g].token
      BY <1>1, <2>1, <3>1
    <3>3. ~tokens'[req[g].token].revoked
      BY <1>3, <3>1, <3>2
    <3>4. \A k \in 1..(n + 1) : tokens'[k].from # req[g].token
      BY <1>1, <1>3, <3>1, <3>2
    <3>5. \A h \in Requests : h # g /\ InFlight(h)' => req'[h].token # req[g].token
      BY <1>1, <1>2, <1>4, <3>1, <3>2
    <3> QED
      BY <3>1, <3>3, <3>4, <3>5
  <2>2. /\ ~tokens'[n + 1].revoked /\ store.refresh # n + 1
        /\ \A h \in Requests : /\ flow[h].token # n + 1
                               /\ h # f /\ InFlight(h) => req[h].token # n + 1
    BY <1>1, <1>3
  <2>3. \A k \in 1..(n + 1) : tokens'[k].from # n + 1
    <3>1. Holds(flow[f]) \in 0..n
      BY <1>1
    <3> QED
      BY <1>1, <1>3, <1>5, <3>1
  <2> QED
    BY <1>2, <1>3, <1>4, <2>1, <2>2, <2>3 DEF FreshTokens
<1>7. StoreTraced'
  <2>1. SUFFICES ASSUME NEW j, j = store.refresh, j # 0
                 PROVE  \/ Live(j)' \/ tokens'[j].expired \/ Exchanged(j)' \/ Leaving(j)'
                        \/ j \in lost
    BY <1>2 DEF StoreTraced
  <2>2. j \in 1..n /\ j \in 1..(n + 1)
    BY <1>1, <2>1
  <2>3. Live(j) \/ tokens[j].expired \/ Exchanged(j) \/ Leaving(j) \/ j \in lost
    BY <2>1 DEF TokensTraced, StoreTraced
  <2>4. CASE Live(j)
    <3>1. tokens'[j].revoked => j = Holds(flow[f])
      BY <1>3, <2>2, <2>4 DEF Live
    <3>2. j = Holds(flow[f]) => Exchanged(j)'
      BY <1>1, <1>2, <2>1 DEF Exchanged, Renews, Holds
    <3>3. ~tokens'[j].expired
      BY <1>3, <2>2, <2>4 DEF Live
    <3> QED
      BY <1>3, <2>2, <3>1, <3>2, <3>3 DEF Live
  <2>5. Exchanged(j) => Exchanged(j)'
    BY <1>2 DEF Exchanged, Renews, Issued
  <2>6. Leaving(j) => Leaving(j)'
    BY <1>2 DEF Leaving, SignsOut
  <2> QED
    BY <1>3, <2>2, <2>3, <2>4, <2>5, <2>6
<1>8. SpentTokens'
  <2>1. SUFFICES ASSUME NEW k \in 1..(n + 1),
                        tokens'[k].from \notin {0} \cup shared \cup lost
                 PROVE  \/ \E g \in Requests : InFlight(g)' /\ Holds(flow[g]) = tokens'[k].from
                        \/ /\ store.refresh # tokens'[k].from
                           /\ \A g \in Requests : Holds(flow[g]) # tokens'[k].from
    BY <1>2, <1>3 DEF SpentTokens
  <2>2. CASE k \in 1..n
    BY <1>1, <1>3, <1>4, <2>1, <2>2 DEF TokensTraced, SpentTokens
  <2>3. CASE k = n + 1
    BY <1>3, <1>4, <2>1, <2>3
  <2> QED
    BY <1>1, <2>2, <2>3
<1>9. RefusedTokens'
  <2>1. \A j \in 0..n : Live(j)' => Live(j)
    BY <1>1, <1>3 DEF Live
  <2>2. \A g \in Requests : g = f => req'[g].token # 0
    BY <1>1, <1>2
  <2> QED
    BY <1>1, <1>2, <2>1, <2>2 DEF TokensTraced, RefusedTokens
<1>10. LoginsApart'
  BY <1>2 DEF TokensTraced, LoginsApart, LogsIn
<1> QED
  BY <1>6, <1>7, <1>8, <1>9, <1>10 DEF TokensTraced
LEMMA RestartTraced ==
    ASSUME WebInv, TokensTraced, NEW e \in RootEmails \cup {"unset"}, ServerRestarts(e)
    PROVE  TokensTraced'
<1>1. /\ \A f \in Requests : req'[f] = Idle
      /\ tokens' = tokens /\ shared' = shared /\ lost \subseteq lost'
  BY DEF ServerRestarts, Restart
<1>2. \A f \in Requests :
        \/ flow'[f] = NoFlow
        \/ flow'[f] = flow[f] /\ flow[f].at \notin {"sent", "asked"}
  BY DEF ServerRestarts
<1>3. /\ \A f \in Requests : Renews(f) \/ SignsOut(f) => flow[f].token \in lost'
      /\ \A f \in Requests : InFlight(f) /\ Holds(flow[f]) # 0 => Holds(flow[f]) \in lost'
  BY DEF ServerRestarts, Told, Renews, InFlight, Holds
<1>4. store' \in {store, Empty}
  BY DEF ServerRestarts
<1>5. \A f \in Requests : ~InFlight(f)' /\ req'[f].at # "done"
  BY <1>1, RestTyped DEF InFlight
<1>6. \A f \in Requests : Holds(flow'[f]) \in {0, Holds(flow[f])}
  BY <1>2, RestTyped
<1>7. FreshTokens'
  BY <1>5 DEF FreshTokens
<1>8. StoreTraced'
  <2>1. SUFFICES ASSUME NEW j, j = store'.refresh, j # 0
                 PROVE  Live(j)' \/ tokens[j].expired \/ j \in lost'
    BY <1>1 DEF StoreTraced
  <2>2. j = store.refresh
    BY <1>4, <2>1 DEF Empty
  <2>3. Live(j) \/ tokens[j].expired \/ Exchanged(j) \/ Leaving(j) \/ j \in lost
    BY <2>1, <2>2 DEF TokensTraced, StoreTraced
  <2>4. Live(j) => Live(j)'
    BY <1>1 DEF Live
  <2>5. Exchanged(j) \/ Leaving(j) => j \in lost'
    BY <1>3 DEF Exchanged, Leaving
  <2> QED
    BY <1>1, <2>3, <2>4, <2>5
<1>9. SpentTokens'
  <2>1. SUFFICES ASSUME NEW k \in DOMAIN tokens,
                        tokens[k].from \notin {0} \cup shared \cup lost'
                 PROVE  /\ store'.refresh # tokens[k].from
                        /\ \A f \in Requests : Holds(flow'[f]) # tokens[k].from
    BY <1>1 DEF SpentTokens
  <2>2. ~\E f \in Requests : InFlight(f) /\ Holds(flow[f]) = tokens[k].from
    BY <1>3, <2>1
  <2>3. /\ store.refresh # tokens[k].from
        /\ \A f \in Requests : Holds(flow[f]) # tokens[k].from
    BY <1>1, <2>1, <2>2 DEF TokensTraced, SpentTokens
  <2> QED
    BY <1>4, <1>6, <2>1, <2>3 DEF Empty
<1>10. RefusedTokens'
  BY <1>5 DEF RefusedTokens
<1>11. LoginsApart'
  BY <1>1, RestTyped DEF LoginsApart, LogsIn
<1> QED
  BY <1>7, <1>8, <1>9, <1>10, <1>11 DEF TokensTraced

LEMMA ChainsDelivered ==
    ASSUME WebInv, NEW f \in Requests,
           \/ RefreshAnswered(f) \/ SignInAnswered(f) \/ SignOutAnswered(f)
           \/ ForeignAnswered(f) \/ AnswerUnheard(f)
    PROVE  Delivered(f)
<1>1. /\ req[f].at = "done" /\ req' = [req EXCEPT ![f] = Idle]
      /\ UNCHANGED <<tokens, shared>> /\ lost \subseteq lost'
  BY DEF RefreshAnswered, SignInAnswered, SignOutAnswered, ForeignAnswered, AnswerUnheard,
         Answered, clientVars
<1>a. /\ Told({f}) \subseteq {flow[f].token}
      /\ Renews(f) \/ SignsOut(f) \/ Told({f}) = {}
  BY DEF Told
<1>2. ChainOK(req[f], flow[f]) /\ flow \in [Requests -> Flows]
  BY DEF WebInv, RequestsTyped
<1>3. CASE RefreshAnswered(f)
  <2>1. /\ flow' = [flow EXCEPT ![f] = NoFlow] /\ flow[f].kind \in {"api", "me"}
        /\ store' = IF req[f].token = 0 THEN AfterFailure(flow[f].kind)
                    ELSE [access |-> TRUE, refresh |-> req[f].token]
    BY <1>3 DEF RefreshAnswered
  <2> QED
    BY <1>1, <1>a, <2>1 DEF Delivered, AfterFailure, Empty, InFlight, Renews, SignsOut
<1>4. CASE SignInAnswered(f)
  <2>1. /\ flow' = [flow EXCEPT ![f] = NoFlow] /\ flow[f].kind = "login"
        /\ store' = IF req[f].token = 0 THEN store
                    ELSE [access |-> TRUE, refresh |-> req[f].token]
    BY <1>4 DEF SignInAnswered
  <2> QED
    BY <1>1, <1>a, <2>1 DEF Delivered, InFlight, Renews, SignsOut
<1>5. CASE SignOutAnswered(f)
  BY <1>1, <1>5 DEF Delivered, SignOutAnswered, Empty
<1>6. CASE ForeignAnswered(f)
  <2>1. UNCHANGED <<store, flow>> /\ flow[f] = NoFlow
    BY <1>2, <1>6 DEF ForeignAnswered, clientVars, ChainOK
  <2>2. flow' = [flow EXCEPT ![f] = NoFlow]
    BY <1>2, <2>1
  <2> QED
    BY <1>1, <1>a, <2>1, <2>2, RestTyped DEF Delivered, Renews, SignsOut
<1>7. CASE AnswerUnheard(f)
  BY <1>1, <1>7 DEF AnswerUnheard, Delivered
<1> QED
  BY <1>3, <1>4, <1>5, <1>6, <1>7

LEMMA CommitsIssue ==
    ASSUME WebInv, NEW f \in Requests, LoginCommit(f) \/ RefreshCommit(f),
           UNCHANGED clientVars
    PROVE  Issued(f)
<1> DEFINE n == Len(tokens)
<1>1. /\ n \in Nat /\ DOMAIN tokens = 1..n /\ tokens \in Seq(TokenRows)
      /\ \A k \in 1..n : tokens[k] \in TokenRows
      /\ UNCHANGED <<flow, store, shared, lost>>
  BY TokenTypes DEF clientVars
<1>2. CASE LoginCommit(f)
  <2>1. PICK u : /\ tokens' = Append(tokens, NewToken(u, 0)) /\ req[f].at = "login:write"
                 /\ req' = [req EXCEPT ![f] = Answer(n + 1)]
    BY <1>2 DEF LoginCommit
  <2>2. ~NewToken(u, 0).revoked /\ NewToken(u, 0).from = 0
    BY DEF NewToken
  <2>3. /\ DOMAIN tokens' = 1..(n + 1) /\ tokens'[n + 1] = NewToken(u, 0)
        /\ \A k \in 1..n : tokens'[k] = tokens[k]
    BY <1>1, <2>1
  <2> QED
    BY <1>1, <2>1, <2>2, <2>3 DEF Issued
<1>3. CASE RefreshCommit(f)
  <2> DEFINE j == req[f].token
             old == [tokens EXCEPT ![j].revoked = TRUE]
             t == NewToken(tokens[j].user, j)
  <2>1. /\ tokens' = Append(old, t) /\ req[f].at = "refresh"
        /\ req' = [req EXCEPT ![f] = Answer(n + 1)]
    BY <1>3 DEF RefreshCommit
  <2>2. j \in 1..n /\ Holds(flow[f]) = j
    BY <1>1, <2>1 DEF WebInv, RequestsTyped, ServedOK, ChainOK, Holds
  <2>3. t.from = j /\ ~t.revoked
    BY DEF NewToken
  <2>4. /\ old \in Seq(TokenRows) /\ Len(old) = n
        /\ \A k \in 1..n : /\ old[k].from = tokens[k].from
                           /\ old[k].expired = tokens[k].expired
                           /\ old[k].revoked = (tokens[k].revoked \/ k = j)
    <3>1. [tokens[j] EXCEPT !.revoked = TRUE] \in TokenRows
      BY <1>1, <2>2 DEF TokenRows
    <3>2. old \in Seq(TokenRows) /\ Len(old) = n
      BY <1>1, <2>2, <3>1
    <3>3. \A k \in 1..n : /\ old[k].from = tokens[k].from
                          /\ old[k].expired = tokens[k].expired
                          /\ old[k].revoked = (tokens[k].revoked \/ k = j)
      BY <1>1, <2>2 DEF TokenRows
    <3> QED
      BY <3>2, <3>3
  <2> HIDE DEF old, t, j
  <2>5. /\ DOMAIN tokens' = 1..(n + 1) /\ tokens'[n + 1] = t
        /\ \A k \in 1..n : tokens'[k] = old[k]
    <3>1. Len(tokens') = n + 1 /\ tokens'[n + 1] = t
          /\ \A k \in 1..n : tokens'[k] = old[k]
      BY <1>1, <2>1, <2>4
    <3>2. old \in Seq({old[k] : k \in 1..n} \cup {t})
      BY <1>1, <2>4
    <3>3. tokens' \in Seq({old[k] : k \in 1..n} \cup {t})
      BY <2>1, <3>2
    <3> QED
      BY <1>1, <3>1, <3>3
  <2>6. \A k \in 1..n :
            /\ tokens'[k].from = tokens[k].from
            /\ tokens'[k].expired = tokens[k].expired
            /\ tokens'[k].revoked = (tokens[k].revoked \/ k = j)
    BY <2>4, <2>5
  <2>7. ~tokens'[n + 1].revoked /\ tokens'[n + 1].from = j
    BY <2>3, <2>5
  <2> QED
    BY <1>1, <2>1, <2>2, <2>5, <2>6, <2>7 DEF Issued
<1> QED
  BY <1>2, <1>3
\* One request moves, without a token in its answer.
LEMMA QuietMove ==
    ASSUME WebInv, NEW f \in Requests, NEW q, NEW c,
           req' = [req EXCEPT ![f] = q], flow' = [flow EXCEPT ![f] = c],
           ~InFlight(f), q.at # "done" \/ q.token = 0,
           c.token \in {0, flow[f].token, store.refresh},
           Holds(c) \in {0, Holds(flow[f]), store.refresh},
           SignsOut(f) => c = flow[f],
           q.at = "done" /\ c.kind \in {"api", "me"} => ~Live(c.token),
           LogsIn(q) => c.kind \notin {"api", "me"} \/ (LogsIn(req[f]) /\ c = flow[f])
    PROVE  \A g \in Requests : StaysQuiet(g)
<1>1. /\ \A g \in Requests : req'[g] = IF g = f THEN q ELSE req[g]
      /\ \A g \in Requests : flow'[g] = IF g = f THEN c ELSE flow[g]
  BY DEF WebInv, RequestsTyped
<1>2. ASSUME NEW g \in Requests PROVE StaysQuiet(g)
  <2>1. CASE g = f
    BY <1>1, <2>1 DEF StaysQuiet, InFlight
  <2>2. CASE g # f
    <3>1. req'[g] = req[g] /\ flow'[g] = flow[g]
      BY <1>1, <2>2
    <3> QED
      BY <3>1 DEF StaysQuiet
  <2> QED
    BY <2>1, <2>2
<1> QED
  BY <1>2

LEMMA TokensAsTheyWere ==
    ASSUME WebInv, UNCHANGED <<tokens, shared, lost>>, store'.refresh = store.refresh,
           \A g \in Requests : StaysQuiet(g)
    PROVE  Quietly
BY DEF Quietly, AgeBySignOut

LEMMA ClientStepsQuiet ==
    ASSUME WebInv, TokensTraced, NEW f \in Requests,
           \/ \E kind \in {"api", "me"} : Call(f, kind)
           \/ TryRefresh(f) \/ NothingToTry(f) \/ SignOut(f) \/ NeverArrives(f)
    PROVE  Quietly
<1>1. ChainOK(req[f], flow[f])
  BY DEF WebInv, RequestsTyped
<1>2. /\ flow[f].at \in {"none", "unauthorized", "sent"} /\ req[f].at = "idle"
      /\ req' = req /\ tokens' = tokens
      /\ shared \subseteq shared' /\ lost' = lost
  BY <1>1 DEF Call, TryRefresh, NothingToTry, SignOut, NeverArrives, identityVars, ChainOK
<1>3. \E c : /\ flow' = [flow EXCEPT ![f] = c]
             /\ c.token \in {0, store.refresh} /\ Holds(c) \in {0, store.refresh}
  <2>1. \A kind : LET c == Sends(kind, store.refresh)
                 IN  c.token = store.refresh /\ Holds(c) \in {0, store.refresh}
    BY DEF Sends, Holds
  <2>2. \A kind : LET c == [at |-> "unauthorized", kind |-> kind, token |-> 0]
                 IN  c.token = 0 /\ Holds(c) = 0
    BY DEF Holds
  <2>3. CASE TryRefresh(f) \/ SignOut(f)
    <3>1. \E kind : flow' = [flow EXCEPT ![f] = Sends(kind, store.refresh)]
      BY <2>3 DEF TryRefresh, SignOut
    <3> QED
      BY <2>1, <3>1
  <2>4. CASE NothingToTry(f) \/ NeverArrives(f)
    BY <2>4, RestTyped DEF NothingToTry, NeverArrives
  <2>5. CASE \E kind \in {"api", "me"} : Call(f, kind)
    <3>1. \E kind : flow' = [flow EXCEPT ![f] = [at |-> "unauthorized", kind |-> kind,
                                                 token |-> 0]]
      BY <2>5 DEF Call
    <3> QED
      BY <2>2, <3>1
  <2> QED
    BY <2>3, <2>4, <2>5
<1>4. PICK c : /\ flow' = [flow EXCEPT ![f] = c]
               /\ c.token \in {0, store.refresh} /\ Holds(c) \in {0, store.refresh}
  BY <1>3
<1>5. req' = [req EXCEPT ![f] = req[f]]
  BY <1>2, CheckedBefore
<1>6. ~SignsOut(f) /\ ~InFlight(f) /\ ~LogsIn(req[f])
  BY <1>2 DEF SignsOut, InFlight, LogsIn
<1>7. \A g \in Requests : StaysQuiet(g)
  BY <1>2, <1>4, <1>5, <1>6, QuietMove
<1>8. store'.refresh = store.refresh
  BY DEF Call, TryRefresh, NothingToTry, SignOut, NeverArrives, AfterFailure, Empty
<1> QED
  BY <1>2, <1>7, <1>8 DEF Quietly, AgeBySignOut

LEMMA FailuresQuiet ==
    ASSUME WebInv, TokensTraced, NEW f \in Requests, PageLeft(f) \/ FetchFails(f)
    PROVE  Quietly
<1>1. /\ UNCHANGED <<req, tokens, shared, lost>> /\ store'.refresh \in {0, store.refresh}
  BY DEF PageLeft, FetchFails, identityVars, Empty
<1>2. ChainOK(req[f], flow[f])
  BY DEF WebInv, RequestsTyped
<1>3. \A g \in Requests : StaysQuiet(g)
  <2>1. CASE flow' = flow
    BY <1>1, <2>1 DEF StaysQuiet
  <2>2. CASE flow' # flow
    <3>1. flow[f].at = "unauthorized" /\ flow' = [flow EXCEPT ![f] = NoFlow]
      BY <2>2 DEF PageLeft, FetchFails
    <3>2. req[f].at = "idle" /\ req' = [req EXCEPT ![f] = req[f]]
      BY <1>1, <1>2, <3>1, CheckedBefore DEF ChainOK
    <3>3. ~InFlight(f) /\ ~LogsIn(req[f]) /\ ~SignsOut(f)
      BY <3>1, <3>2 DEF InFlight, LogsIn, SignsOut
    <3> QED
      BY <3>1, <3>2, <3>3, RestTyped, QuietMove
  <2> QED
    BY <2>1, <2>2
<1> QED
  BY <1>1, <1>3 DEF Quietly, AgeBySignOut
LEMMA ArrivalsQuiet ==
    ASSUME WebInv, TokensTraced, NEW f \in Requests, RefreshArrives(f) \/ SignOutArrives(f)
    PROVE  Quietly
<1> DEFINE j == flow[f].token
           c == [flow[f] EXCEPT !.at = "asked"]
<1>1. /\ flow[f].at = "sent" /\ flow[f].kind \in {"api", "me", "logout"}
      /\ req[f].at = "idle" /\ flow' = [flow EXCEPT ![f] = c]
      /\ UNCHANGED <<store, shared, lost>>
  BY DEF RefreshArrives, RefreshRead, RefreshRefused, SignOutArrives, LogoutCommit
<1>2. /\ c.kind = flow[f].kind /\ c.token = j /\ Holds(c) = Holds(flow[f])
      /\ j \in DOMAIN tokens /\ c.at = "asked"
  BY <1>1, AskedOK
<1>3. ~InFlight(f) /\ ~SignsOut(f)
  BY <1>1 DEF InFlight, SignsOut
<1>4. /\ Answer(0).at = "done" /\ Answer(0).token = 0 /\ ~LogsIn(Answer(0))
  BY AnswerTyped DEF LogsIn
<1> HIDE DEF c
<1>5. CASE RefreshArrives(f)
  <2> DEFINE q == [Idle EXCEPT !.at = "refresh", !.token = j]
  <2>1. /\ tokens' = tokens /\ flow[f].kind # "logout"
        /\ \/ req' = [req EXCEPT ![f] = q]
           \/ ~Live(j) /\ req' = [req EXCEPT ![f] = Answer(0)]
    BY <1>5 DEF RefreshArrives, RefreshRead, RefreshRefused, Refuse
  <2>2. q.at = "refresh" /\ ~LogsIn(q)
    BY DEF Idle, LogsIn
  <2> HIDE DEF q
  <2>3. \A g \in Requests : StaysQuiet(g)
    <3>1. CASE req' = [req EXCEPT ![f] = q]
      BY <1>1, <1>2, <1>3, <2>1, <2>2, <3>1, QuietMove
    <3>2. CASE ~Live(j) /\ req' = [req EXCEPT ![f] = Answer(0)]
      BY <1>1, <1>2, <1>3, <1>4, <2>1, <3>2, QuietMove
    <3> QED
      BY <2>1, <3>1, <3>2
  <2> QED
    BY <1>1, <2>1, <2>3, TokensAsTheyWere
<1>6. CASE SignOutArrives(f)
  <2>1. /\ flow[f].kind = "logout" /\ req' = [req EXCEPT ![f] = Answer(0)]
        /\ tokens' = [tokens EXCEPT ![j].revoked = @ \/ ~tokens[j].expired]
    BY <1>6 DEF SignOutArrives, LogoutCommit
  <2>2. \A g \in Requests : StaysQuiet(g)
    BY <1>1, <1>2, <1>3, <1>4, <2>1, QuietMove
  <2>3. /\ DOMAIN tokens' = DOMAIN tokens
        /\ \A k \in DOMAIN tokens :
            /\ tokens'[k].from = tokens[k].from
            /\ tokens'[k].expired = tokens[k].expired
            /\ tokens[k].revoked => tokens'[k].revoked
            /\ k # j => tokens'[k].revoked = tokens[k].revoked
    <3>1. \A k \in DOMAIN tokens : tokens[k] \in TokenRows
      BY TokenTypes
    <3> QED
      BY <1>2, <2>1, <3>1 DEF TokenRows
  <2>4. SignsOut(f)' /\ flow'[f].token = j
    BY <1>1, <1>2, <2>1 DEF WebInv, RequestsTyped, SignsOut
  <2>5. AgeBySignOut
    BY <1>2, <2>3, <2>4 DEF AgeBySignOut
  <2> QED
    BY <1>1, <2>2, <2>5 DEF Quietly
<1> QED
  BY <1>5, <1>6

LEMMA LoginsQuiet ==
    ASSUME WebInv, TokensTraced, NEW f \in Requests,
           \/ \E l \in Logins : SignIn(f, l) \/ ForeignLogin(f, l)
           \/ (LinkByEmail(f) \/ LoginRefused(f)) /\ UNCHANGED clientVars
    PROVE  Quietly
<1>1. UNCHANGED <<tokens, store, shared, lost>>
  BY DEF SignIn, ForeignLogin, FindIdentity, LinkByEmail, LoginRefused, Refuse, clientVars
<1>2. ChainOK(req[f], flow[f]) /\ req[f] \in ReqRecords
  BY DEF WebInv, RequestsTyped
<1>3. flow = [flow EXCEPT ![f] = flow[f]]
  BY CheckedBefore
<1>4. CASE \E l \in Logins : SignIn(f, l) \/ ForeignLogin(f, l)
  <2>1. PICK l \in Logins : SignIn(f, l) \/ ForeignLogin(f, l)
    BY <1>4
  <2>2. flow[f] = NoFlow /\ req[f].at = "idle"
    BY <1>2, <2>1 DEF SignIn, ForeignLogin, FindIdentity, ChainOK
  <2>3. \E c : /\ flow' = [flow EXCEPT ![f] = c]
               /\ c.token = 0 /\ Holds(c) = 0 /\ c.kind \notin {"api", "me"}
    <3> DEFINE c == [at |-> "asked", kind |-> "login", token |-> 0]
    <3>1. c.token = 0 /\ Holds(c) = 0 /\ c.kind = "login"
      BY DEF Holds
    <3>2. SignIn(f, l) => flow' = [flow EXCEPT ![f] = c]
      BY DEF SignIn
    <3> HIDE DEF c
    <3>3. ForeignLogin(f, l) => flow' = [flow EXCEPT ![f] = NoFlow]
      BY <1>3, <2>2 DEF ForeignLogin, clientVars
    <3> QED
      BY <2>1, <3>1, <3>2, <3>3, RestTyped
  <2>4. \E q : req' = [req EXCEPT ![f] = q] /\ q.at \in {"login:link", "login:write"}
    <3>1. FindIdentity(f, l)
      BY <2>1 DEF SignIn, ForeignLogin
    <3> DEFINE known == [Idle EXCEPT !.login = l, !.at = "login:write",
                                     !.user = identities[l.subject],
                                     !.role = users[identities[l.subject]].role,
                                     !.known = TRUE]
               fresh == [Idle EXCEPT !.login = l,
                                     !.at = IF l.verified THEN "login:link" ELSE "login:write"]
    <3>2. \/ req' = [req EXCEPT ![f] = known]
          \/ req' = [req EXCEPT ![f] = fresh]
      BY <3>1 DEF FindIdentity
    <3>3. known.at = "login:write" /\ fresh.at \in {"login:link", "login:write"}
      BY DEF Idle
    <3> HIDE DEF known, fresh
    <3> QED
      BY <3>2, <3>3
  <2>5. \A g \in Requests : StaysQuiet(g)
    <3>1. PICK c : /\ flow' = [flow EXCEPT ![f] = c]
                   /\ c.token = 0 /\ Holds(c) = 0 /\ c.kind \notin {"api", "me"}
      BY <2>3
    <3>2. PICK q : req' = [req EXCEPT ![f] = q] /\ q.at \in {"login:link", "login:write"}
      BY <2>4
    <3>3. ~InFlight(f) /\ ~SignsOut(f)
      BY <2>2, RestTyped DEF InFlight, SignsOut
    <3> QED
      BY <3>1, <3>2, <3>3, QuietMove
  <2> QED
    BY <1>1, <2>5, TokensAsTheyWere
<1>5. CASE (LinkByEmail(f) \/ LoginRefused(f)) /\ UNCHANGED clientVars
  <2>1. LogsIn(req[f]) /\ flow' = [flow EXCEPT ![f] = flow[f]]
    BY <1>3, <1>5 DEF LinkByEmail, LoginRefused, LogsIn, clientVars
  <2>2. ~InFlight(f) /\ flow[f].kind \notin {"api", "me"}
    BY <2>1 DEF InFlight, LogsIn, TokensTraced, LoginsApart
  <2>3. \E q : req' = [req EXCEPT ![f] = q] /\ (q.at # "done" \/ q.token = 0)
    <3> DEFINE mine == WithEmail(users, req[f].login.email)
               u == IF mine = {} THEN 0 ELSE CHOOSE v \in mine : TRUE
               role == IF mine = {} THEN "any" ELSE users[CHOOSE v \in mine : TRUE].role
               q == [req[f] EXCEPT !.at = "login:write", !.user = u, !.role = role]
    <3>1. CASE LinkByEmail(f)
      <4>1. req' = [req EXCEPT ![f] = q]
        BY <3>1 DEF LinkByEmail
      <4> HIDE DEF u, role
      <4>2. q.at = "login:write"
        BY <1>2 DEF ReqRecords
      <4> HIDE DEF q
      <4> QED
        BY <4>1, <4>2
    <3>2. CASE LoginRefused(f)
      BY <3>2, AnswerTyped DEF LoginRefused, Refuse
    <3> QED
      BY <1>5, <3>1, <3>2
  <2>4. \A g \in Requests : StaysQuiet(g)
    BY <2>1, <2>2, <2>3, QuietMove
  <2> QED
    BY <1>1, <2>4, TokensAsTheyWere
<1> QED
  BY <1>4, <1>5

LEMMA TimeQuiet ==
    ASSUME WebInv, TokensTraced, AccessExpires \/ Expire \/ UNCHANGED vars
    PROVE  Quietly
<1>1. UNCHANGED <<req, flow, shared, lost>> /\ store'.refresh = store.refresh
  <2>1. CASE AccessExpires
    BY <2>1 DEF AccessExpires, identityVars, WebInv, StoreTyped
  <2>2. CASE Expire
    BY <2>2 DEF Expire, TokenExpires, clientVars
  <2>3. CASE UNCHANGED vars
    BY <2>3 DEF vars
  <2> QED
    BY <2>1, <2>2, <2>3
<1>2. \A g \in Requests : StaysQuiet(g)
  BY <1>1 DEF StaysQuiet
<1>3. CASE AccessExpires \/ UNCHANGED vars
  <2>1. tokens' = tokens
    BY <1>3 DEF AccessExpires, identityVars, vars
  <2> QED
    BY <1>1, <1>2, <2>1, TokensAsTheyWere
<1>4. CASE Expire
  <2>1. PICK j \in DOMAIN tokens : tokens' = [tokens EXCEPT ![j].expired = TRUE]
    BY <1>4 DEF Expire, TokenExpires
  <2>2. \A k \in DOMAIN tokens : tokens[k] \in TokenRows
    BY TokenTypes
  <2>3. AgeBySignOut
    BY <2>1, <2>2 DEF AgeBySignOut, TokenRows
  <2> QED
    BY <1>1, <1>2, <2>3 DEF Quietly
<1> QED
  BY <1>3, <1>4
LEMMA TracedStarts == WebInit => TokensTraced
<1> SUFFICES ASSUME WebInit PROVE TokensTraced
  OBVIOUS
<1>1. /\ DOMAIN tokens = {} /\ store.refresh = 0
      /\ \A f \in Requests : req[f] = Idle /\ flow[f] = NoFlow
  BY DEF WebInit, Init, Empty
<1> QED
  BY <1>1, RestTyped DEF TokensTraced, FreshTokens, StoreTraced, SpentTokens,
                         RefusedTokens, LoginsApart, InFlight, LogsIn

LEMMA FlowStepTraced ==
    ASSUME WebInv, TokensTraced, NEW f \in Requests, FlowStep(f)
    PROVE  TokensTraced'
<1>1. CASE TryRefresh(f) \/ NothingToTry(f) \/ NeverArrives(f)
  BY <1>1, ClientStepsQuiet, QuietlyKeeps
<1>2. CASE RefreshArrives(f) \/ SignOutArrives(f)
  BY <1>2, ArrivalsQuiet, QuietlyKeeps
<1>3. CASE \/ RefreshAnswered(f) \/ SignInAnswered(f) \/ SignOutAnswered(f)
           \/ ForeignAnswered(f) \/ AnswerUnheard(f)
  BY <1>3, ChainsDelivered, DeliveredKeeps
<1>4. CASE Serve(f)
  <2>1. CASE (LinkByEmail(f) \/ LoginRefused(f)) /\ UNCHANGED clientVars
    BY <2>1, LoginsQuiet, QuietlyKeeps
  <2>2. CASE (LoginCommit(f) \/ RefreshCommit(f)) /\ UNCHANGED clientVars
    BY <2>2, CommitsIssue, IssuedKeeps
  <2> QED
    BY <1>4, <2>1, <2>2 DEF Serve
<1>5. CASE PageLeft(f) \/ FetchFails(f)
  BY <1>5, FailuresQuiet, QuietlyKeeps
<1> QED
  BY <1>1, <1>2, <1>3, <1>4, <1>5 DEF FlowStep

LEMMA StepTraced ==
    ASSUME WebInv, TokensTraced, [WebNext]_vars
    PROVE  TokensTraced'
<1>1. ASSUME NEW f \in Requests, FlowStep(f) PROVE TokensTraced'
  BY <1>1, FlowStepTraced
<1>2. ASSUME NEW f \in Requests,
             (\E kind \in {"api", "me"} : Call(f, kind)) \/ SignOut(f)
      PROVE  TokensTraced'
  BY <1>2, ClientStepsQuiet, QuietlyKeeps
<1>3. ASSUME NEW f \in Requests, NEW l \in Logins,
             IF l.role = "any" THEN ForeignLogin(f, l) ELSE SignIn(f, l)
      PROVE  TokensTraced'
  <2>1. \E m \in Logins : SignIn(f, m) \/ ForeignLogin(f, m)
    BY <1>3
  <2> QED
    BY <2>1, LoginsQuiet, QuietlyKeeps
<1>4. CASE AccessExpires \/ Expire \/ UNCHANGED vars
  BY <1>4, TimeQuiet, QuietlyKeeps
<1>5. ASSUME NEW e \in RootEmails \cup {"unset"}, ServerRestarts(e) PROVE TokensTraced'
  BY <1>5, RestartTraced
<1> QED
  BY <1>1, <1>2, <1>3, <1>4, <1>5 DEF WebNext

\* The refresh token in the store works as long as it lasts, or its successor
\* is on its way to the page that stores it, unless a sign-out is under way or
\* the server's answer reached no page, which was reloaded or closed, lost its
\* connection or waited when the server stopped: with tabs that share the
\* store, only an unheard answer leaves it with a token that is spent
\* (auth.tsx 41-53).
THEOREM StoredTokenAlwaysWorks == WebSpec => []StoredTokenWorks
<1>1. WebInv /\ TokensTraced /\ [WebNext]_vars => TokensTraced'
  BY StepTraced
<1>2. TokensTraced => StoredTokenWorks
  BY DEF TokensTraced, StoreTraced, StoredTokenWorks, Exchanged, Renewing, Unheard
<1> QED
  BY <1>1, <1>2, TracedStarts, InvarianceOfWebSession, PTL DEF WebSpec

\* What a mounting page that is refused had read is in shared or lost, or ended.
LEMMA RefusedForCause ==
    ASSUME WebInv, TokensTraced, NEW f \in Requests, req[f].at = "done",
           req[f].token = 0, flow[f].kind \in {"api", "me"}, flow[f].at = "asked"
    PROVE  flow[f].token \in shared \cup lost \/ Ended(flow[f].token)
<1> DEFINE i == flow[f].token
<1>1. i \in DOMAIN tokens /\ i # 0 /\ Holds(flow[f]) = i
  <2>1. ChainOK(req[f], flow[f]) /\ DOMAIN tokens = 1..Len(tokens) /\ Len(tokens) \in Nat
    BY TokenTypes DEF WebInv, RequestsTyped
  <2> QED
    BY <2>1 DEF ChainOK, Holds
<1>2. ~Live(i)
  BY DEF TokensTraced, RefusedTokens
<1>3. ASSUME i \notin shared \cup lost, NEW k \in DOMAIN tokens, tokens[k].from = i
      PROVE  FALSE
  <2>1. PICK g \in Requests : InFlight(g) /\ Holds(flow[g]) = i
    BY <1>1, <1>3 DEF TokensTraced, SpentTokens
  <2>2. g # f
    BY <2>1 DEF InFlight
  <2> QED
    BY <1>1, <1>3, <2>1, <2>2 DEF WebInv, Rotation
<1> QED
  BY <1>1, <1>2, <1>3 DEF Ended

\* Tokens that still work are dropped by a sign-out or by a mounting page, and
\* by the page only if what it had read was another tab's as well, was
\* exchanged in an answer no page heard, or had ended (auth.tsx 73-81).
THEOREM DroppedOnlyForCause == WebSpec => DroppedForCause
<1> DEFINE Cause ==
            store' = Empty /\ Live(store.refresh) =>
                \E f \in Requests :
                    /\ Ends(f)
                    /\ \/ flow[f].kind = "logout"
                       \/ /\ flow[f].kind = "me"
                          /\ flow[f].token \in shared \cup lost \/ Ended(flow[f].token)
<1>1. ASSUME WebInv, TokensTraced, [WebNext]_vars PROVE [Cause]_vars
  <2>1. SUFFICES ASSUME store' = Empty, Live(store.refresh), vars' # vars
                 PROVE  \E f \in Requests :
                            /\ Ends(f)
                            /\ \/ flow[f].kind = "logout"
                               \/ /\ flow[f].kind = "me"
                                  /\ \/ flow[f].token \in shared \cup lost
                                     \/ Ended(flow[f].token)
    OBVIOUS
  <2>2. store.refresh # 0 /\ store # Empty /\ store'.refresh = 0
    BY <1>1, <2>1, TokenTypes DEF Live, Empty
  <2>3. flow \in [Requests -> Flows]
    BY <1>1 DEF WebInv, RequestsTyped
  <2>4. ASSUME NEW f \in Requests, RefreshAnswered(f)
        PROVE  /\ flow[f].at = "asked" /\ flow[f].kind = "me" /\ flow'[f] = NoFlow
               /\ req[f].at = "done" /\ req[f].token = 0
    BY <2>1, <2>2, <2>3, <2>4 DEF RefreshAnswered, AfterFailure, Answered, Empty
  <2>5. ASSUME NEW f \in Requests, SignOutAnswered(f)
        PROVE  flow[f].at = "asked" /\ flow[f].kind = "logout" /\ flow'[f] = NoFlow
    BY <2>3, <2>5 DEF SignOutAnswered
  <2>9. ASSUME NEW f \in Requests, FetchFails(f)
        PROVE  flow[f].at # "none" /\ flow[f].kind = "logout" /\ f \in gone' \ gone
    BY <2>1, <2>2, <2>9 DEF FetchFails
  <2>6. ASSUME NEW e \in RootEmails \cup {"unset"}, ServerRestarts(e)
        PROVE  \E f \in Requests : /\ flow[f].at \in {"sent", "asked"}
                                   /\ flow[f].kind = "logout" /\ flow'[f] = NoFlow
    <3>1. PICK f \in Requests : flow[f].at \in {"sent", "asked"} /\ flow[f].kind = "logout"
      BY <2>1, <2>2, <2>6 DEF ServerRestarts
    <3> QED
      BY <2>6, <3>1 DEF ServerRestarts
  <2>7. \/ \E f \in Requests : RefreshAnswered(f) \/ SignOutAnswered(f) \/ FetchFails(f)
        \/ \E e \in RootEmails \cup {"unset"} : ServerRestarts(e)
    <3>1. ASSUME NEW f \in Requests, SignInAnswered(f) PROVE FALSE
      BY <2>1, <2>2, <3>1 DEF SignInAnswered, Empty
    <3>2. ASSUME NEW f \in Requests, NothingToTry(f) PROVE FALSE
      BY <2>2, <3>2 DEF NothingToTry
    <3>3. ASSUME AccessExpires PROVE FALSE
      BY <1>1, <2>1, <2>2, <3>3 DEF AccessExpires, WebInv, StoreTyped
    <3>4. ASSUME NEW f \in Requests,
                 \/ TryRefresh(f) \/ RefreshArrives(f) \/ SignOutArrives(f)
                 \/ Serve(f) \/ ForeignAnswered(f) \/ SignOut(f)
                 \/ PageLeft(f) \/ NeverArrives(f) \/ AnswerUnheard(f)
                 \/ \E kind \in {"api", "me"} : Call(f, kind)
          PROVE  FALSE
      BY <2>1, <2>2, <3>4 DEF TryRefresh, RefreshArrives, SignOutArrives, Serve,
                              ForeignAnswered, SignOut, Call, PageLeft,
                              NeverArrives, AnswerUnheard, clientVars
    <3>5. ASSUME NEW f \in Requests, NEW l \in Logins,
                 IF l.role = "any" THEN ForeignLogin(f, l) ELSE SignIn(f, l)
          PROVE  FALSE
      BY <2>1, <2>2, <3>5 DEF ForeignLogin, SignIn, clientVars
    <3>6. ~Expire
      BY <2>1, <2>2 DEF Expire, clientVars
    <3> QED
      BY <1>1, <2>1, <3>1, <3>2, <3>3, <3>4, <3>5, <3>6 DEF WebNext, FlowStep
  <2>8. CASE \E f \in Requests : RefreshAnswered(f)
    <3>1. PICK f \in Requests : RefreshAnswered(f)
      BY <2>8
    <3>2. flow[f].token \in shared \cup lost \/ Ended(flow[f].token)
      BY <1>1, <2>4, <3>1, RefusedForCause
    <3> QED
      BY <2>4, <3>1, <3>2, RestTyped DEF Ends
  <2> QED
    BY <2>5, <2>6, <2>7, <2>8, <2>9, RestTyped DEF Ends
<1>2. WebInv /\ TokensTraced /\ [WebNext]_vars => TokensTraced'
  BY StepTraced
<1> HIDE DEF Cause
<1>3. WebSpec => [][Cause]_vars
  BY <1>1, <1>2, TracedStarts, InvarianceOfWebSession, PTL DEF WebSpec
<1> QED
  BY <1>3 DEF DroppedForCause, Cause
=============================================================================
