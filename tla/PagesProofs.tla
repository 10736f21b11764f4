----------------------------- MODULE PagesProofs -----------------------------
(***************************************************************************)
(* Theorems of Pages, for any listings, bots, views and number of chains.  *)
(*                                                                         *)
(* A page with nothing open shows the tables as they are: followed for     *)
(* each table, as long as the page's copy may be an old one a refresh is   *)
(* due or under way, and what an open refresh has read is current unless   *)
(* another one is due, whose start then overlaps it.                       *)
(*                                                                         *)
(* A button waits for the work it started (BusyInv), the chart is of the   *)
(* row highlighted (RowInv), and what is offered is honoured: what a page  *)
(* shows, and what its refresh has read, differs from the tables only by   *)
(* what a chain of the page has changed that is still open, so that a      *)
(* request about the same row would cross that one (Offered).              *)
(***************************************************************************)
EXTENDS Pages, FiniteSetTheorems, TLAPS

\* The records have the fields the definitions give them.
Fields == {"op", "on", "at", "mounted", "clears", "got", "left"}
ChainFields(k) == k = [x \in Fields |-> k[x]]
TableFields(t) == t = [x \in Resources |-> t[x]]
PageFields(p) == p = [x \in {"shown", "selected", "count", "drawn", "busy"} |-> p[x]]

FieldsOK ==
    /\ chain = [c \in Chains |-> chain[c]]
    /\ \A c \in Chains : ChainFields(chain[c])
    /\ TableFields(server) /\ PageFields(page)

\* What a chain does has been asked for by a page that offers it.
Allowed(k, v) ==
    /\ k.mounted \in BOOLEAN
    /\ k.at = "sent" => k.op \in Ops
    /\ k.at = "reading" => k.mounted
    /\ k.mounted /\ k.op = "publish" => v = "designer"

ChainsOK == \A c \in Chains : Allowed(chain[c], view)

\* A refresh of the mounted page has yet to start.
Due == \E c \in Open : chain[c].at = "ok" /\ chain[c].op \in Refreshes

\* Table r is shown as it is, or will be by a refresh.
Followed(r) ==
    /\ \/ page.shown[r] = server[r] \/ Due
       \/ \E c \in Open : chain[c].at = "reading"
    /\ \A c \in Open : chain[c].at = "reading" =>
        \/ r \in chain[c].left
        \/ r \in DOMAIN chain[c].got /\ (chain[c].got[r] = server[r] \/ Due)

PageInv ==
    /\ FieldsOK /\ ChainsOK
    /\ marks \cap Excuses = {} => \A r \in Wants(view) : Followed(r)

-----------------------------------------------------------------------------

LEMMA OneOf == ASSUME NEW S, S # {} PROVE One(S) \in S
BY DEF One

LEMMA IdleFields ==
    /\ ChainFields(Idle) /\ Idle.at = "idle" /\ Idle.mounted = FALSE /\ Idle.op = "none"
    /\ \A v : /\ ChainFields(Load(v)) /\ Load(v).at = "reading" /\ Load(v).mounted = TRUE
              /\ Load(v).left = Wants(v) /\ Load(v).op = "load"
    /\ \A op, x : /\ ChainFields(Sent(op, x)) /\ Sent(op, x).at = "sent"
                  /\ Sent(op, x).mounted = TRUE /\ Sent(op, x).op = op
<1>1. ChainFields(Idle) /\ Idle.at = "idle" /\ Idle.mounted = FALSE /\ Idle.op = "none"
  BY DEF Idle, ChainFields, Fields
<1>2. ASSUME NEW v
      PROVE  /\ ChainFields(Load(v)) /\ Load(v).at = "reading" /\ Load(v).mounted = TRUE
             /\ Load(v).left = Wants(v) /\ Load(v).op = "load"
  BY DEF Load, Idle, ChainFields, Fields
<1>3. ASSUME NEW op, NEW x
      PROVE  /\ ChainFields(Sent(op, x)) /\ Sent(op, x).at = "sent"
             /\ Sent(op, x).mounted = TRUE /\ Sent(op, x).op = op
  BY DEF Sent, Idle, ChainFields, Fields
<1> QED
  BY <1>1, <1>2, <1>3

LEMMA AbandonedFields ==
    ASSUME FieldsOK, NEW c \in Chains
    PROVE  /\ ChainFields(Abandoned(c)) /\ Abandoned(c).mounted = FALSE
           /\ Abandoned(c).at \in {"idle", "sent"}
           /\ Abandoned(c).at = "sent" => chain[c].at = "sent" /\ Abandoned(c).op = chain[c].op
<1>1. CASE chain[c].at = "sent" /\ chain[c].op \notin {"replay", "run"}
  <2>1. Abandoned(c) = [chain[c] EXCEPT !.mounted = FALSE, !.clears = FALSE]
    BY <1>1 DEF Abandoned
  <2>2. ChainFields(chain[c])
    BY DEF FieldsOK
  <2> QED
    BY <1>1, <2>1, <2>2 DEF ChainFields, Fields
<1>2. CASE ~(chain[c].at = "sent" /\ chain[c].op \notin {"replay", "run"})
  BY <1>2, IdleFields DEF Abandoned
<1> QED
  BY <1>1, <1>2
\* A step of one chain keeps the fields, and every other chain as it is.
LEMMA OneChain ==
    ASSUME FieldsOK, ChainsOK, NEW c \in Chains, NEW k, ChainFields(k), Allowed(k, view),
           chain' = [chain EXCEPT ![c] = k], view' = view,
           TableFields(server)', PageFields(page)'
    PROVE  /\ FieldsOK' /\ ChainsOK'
           /\ chain'[c] = k /\ \A d \in Chains \ {c} : chain'[d] = chain[d]
<1>1. chain' = [d \in Chains |-> IF d = c THEN k ELSE chain[d]]
  BY DEF FieldsOK
<1>2. chain'[c] = k /\ \A d \in Chains \ {c} : chain'[d] = chain[d]
  BY <1>1
<1>3. \A d \in Chains : ChainFields(chain'[d]) /\ Allowed(chain'[d], view')
  BY <1>2 DEF FieldsOK, ChainsOK
<1>4. chain' = [d \in Chains |-> chain'[d]]
  BY <1>1
<1>5. FieldsOK'
  BY <1>3, <1>4 DEF FieldsOK, ChainFields, TableFields, PageFields
<1>6. ChainsOK'
  BY <1>3 DEF ChainsOK, Allowed
<1> QED
  BY <1>2, <1>5, <1>6

\* Every way to serve a request gives tables; one of a page that is followed
\* by no refresh leaves the tables the page wants as they are.
LEMMA OutcomesAreTables ==
    ASSUME FieldsOK, NEW op, NEW x, NEW t \in Outcomes(op, x)
    PROVE  /\ TableFields(t)
           /\ op \in {"replay", "run"} => t = server
           /\ op = "publish" => t["bots"] = server["bots"]
<1>1. TableFields(server)
  BY DEF FieldsOK
<1>2. CASE op = "subscribe"
  <2>1. PICK l : t = [server EXCEPT !.subs = @ \cup Joined(l)]
    BY <1>2 DEF Outcomes
  <2> QED
    BY <1>1, <1>2, <2>1 DEF TableFields, Resources
<1>3. CASE op = "unsubscribe"
  <2>1. PICK s : t = [server EXCEPT !.subs = @ \ {s}]
    BY <1>3 DEF Outcomes
  <2> QED
    BY <1>1, <1>3, <2>1 DEF TableFields, Resources
<1>4. CASE op = "replay"
  <2>1. t = server
    BY <1>4 DEF Outcomes
  <2> QED
    BY <1>1, <1>4, <2>1
<1>5. CASE op = "publish"
  <2>1. PICK b : t = [server EXCEPT !.listings = @ \cup {b}]
    BY <1>5 DEF Outcomes
  <2> QED
    BY <1>1, <1>5, <2>1 DEF TableFields, Resources
<1>6. CASE op = "run"
  <2>1. t = server
    BY <1>6 DEF Outcomes
  <2> QED
    BY <1>1, <1>6, <2>1
<1>7. CASE op \notin {"subscribe", "unsubscribe", "replay", "publish", "run"}
  <2>1. PICK m : t = [server EXCEPT !.bots[x] = m[3]]
    BY <1>7 DEF Outcomes
  <2> QED
    BY <1>1, <1>7, <2>1 DEF TableFields, Resources
<1> QED
  BY <1>2, <1>3, <1>4, <1>5, <1>6, <1>7
-----------------------------------------------------------------------------
(* What a step does to a table that is followed. *)

\* A refresh of chain k is due, is under way.
DueIn(k) == k.mounted /\ k.at = "ok" /\ k.op \in Refreshes
ReadingIn(k) == k.mounted /\ k.at = "reading"

LEMMA ChainsDue ==
    /\ Due <=> \E c \in Chains : DueIn(chain[c])
    /\ Due' <=> \E c \in Chains : DueIn(chain'[c])
    /\ \A c \in Chains : c \in Open <=> chain[c].mounted
    /\ \A c \in Chains : c \in Open' <=> chain'[c].mounted
BY DEF Due, DueIn, Open

\* A step of a chain that reads nothing keeps a table followed if the table
\* is not changed, or a refresh is due after it.
LEMMA OtherStep ==
    ASSUME NEW c \in Chains, \A d \in Chains \ {c} : chain'[d] = chain[d],
           NEW r, Followed(r), page'.shown[r] = page.shown[r],
           ~ReadingIn(chain[c]), ~ReadingIn(chain'[c]),
           DueIn(chain[c]) => DueIn(chain'[c]),
           server'[r] = server[r] \/ Due'
    PROVE  Followed(r)'
<1>1. Due => Due'
  BY ChainsDue
<1>2. \A d \in Open' : chain'[d].at = "reading" =>
        d # c /\ d \in Open /\ chain'[d] = chain[d]
  BY ChainsDue DEF ReadingIn, Open
<1>3. \A d \in Open : chain[d].at = "reading" =>
        d # c /\ d \in Open' /\ chain'[d] = chain[d]
  BY ChainsDue DEF ReadingIn, Open
<1>4. (page.shown[r] = server[r] \/ Due \/ \E d \in Open : chain[d].at = "reading")'
  BY <1>1, <1>3 DEF Followed
<1>5. (\A d \in Open : chain[d].at = "reading" =>
          \/ r \in chain[d].left
          \/ r \in DOMAIN chain[d].got /\ (chain[d].got[r] = server[r] \/ Due))'
  BY <1>1, <1>2 DEF Followed
<1> QED
  BY <1>4, <1>5 DEF Followed

-----------------------------------------------------------------------------
(* The steps. *)

LEMMA ServeStep ==
    ASSUME PageInv, NEW c \in Chains, Serve(c)
    PROVE  PageInv'
<1> DEFINE k == IF chain[c].mounted THEN [chain[c] EXCEPT !.at = "ok"] ELSE Idle
<1>1. PICK x, t :
        /\ t \in Outcomes(chain[c].op, x)
        /\ server' = t
        /\ chain' = [chain EXCEPT ![c] = k]
        /\ marks' = IF chain[c].mounted THEN marks ELSE marks \cup {"disturbed"}
  BY DEF Serve, PageInv, FieldsOK
<1>2. chain[c].at = "sent" /\ view' = view /\ page' = page
  BY DEF Serve
<1>3. FieldsOK /\ ChainsOK
  BY DEF PageInv
<1>4. /\ ChainFields(k) /\ k.mounted = chain[c].mounted
      /\ chain[c].mounted => k.at = "ok" /\ k.op = chain[c].op
      /\ ~chain[c].mounted => k.at = "idle" /\ k.op = "none"
  <2>1. CASE chain[c].mounted
    BY <1>3, <2>1 DEF ChainsOK, Allowed, FieldsOK, ChainFields, Fields
  <2>2. CASE ~chain[c].mounted
    BY <1>3, <2>2, IdleFields DEF ChainsOK, Allowed
  <2> QED
    BY <2>1, <2>2
<1>5. TableFields(server)' /\ PageFields(page)'
  BY <1>1, <1>2, <1>3, OutcomesAreTables DEF FieldsOK, TableFields, PageFields
<1>6. Allowed(k, view)
  BY <1>3, <1>4 DEF ChainsOK, Allowed
<1> HIDE DEF k
<1>7. /\ FieldsOK' /\ ChainsOK'
      /\ chain'[c] = k /\ \A d \in Chains \ {c} : chain'[d] = chain[d]
  BY <1>1, <1>2, <1>3, <1>4, <1>5, <1>6, OneChain
<1>8. ASSUME marks' \cap Excuses = {}, NEW r \in Wants(view')
      PROVE  Followed(r)'
  <2>1. chain[c].mounted /\ marks' = marks
    BY <1>1, <1>8 DEF Excuses
  <2>2. Followed(r)
    BY <1>2, <1>8, <2>1 DEF PageInv
  <2>3. ~ReadingIn(chain[c]) /\ ~ReadingIn(chain'[c]) /\ ~DueIn(chain[c])
    BY <1>2, <1>4, <1>7, <2>1 DEF ReadingIn, DueIn
  <2>4. CASE chain[c].op \in Refreshes
    <3>1. DueIn(chain'[c])
      BY <1>4, <1>7, <2>1, <2>4 DEF DueIn
    <3>2. Due'
      BY <3>1, ChainsDue
    <3> QED
      BY <1>2, <1>7, <2>2, <2>3, <3>2, OtherStep
  <2>5. CASE chain[c].op \notin Refreshes
    <3>1. chain[c].op \in {"replay", "publish", "run"}
      BY <1>2, <1>3, <2>5 DEF ChainsOK, Allowed, Ops, Refreshes
    <3>2. chain[c].op = "publish" => r = "bots"
      BY <1>2, <1>3, <1>8, <2>1 DEF ChainsOK, Allowed, Wants
    <3>3. server'[r] = server[r]
      BY <1>1, <1>3, <3>1, <3>2, OutcomesAreTables
    <3> QED
      BY <1>2, <1>7, <2>2, <2>3, <3>3, OtherStep
  <2> QED
    BY <2>4, <2>5
<1> QED
  BY <1>7, <1>8 DEF PageInv
\* A step of a page's chain that ends it, or brings an answer that asks for
\* no refresh, and leaves the tables alone.
LEMMA QuietStep ==
    ASSUME PageInv, NEW c \in Chains, NEW k, ChainFields(k), Allowed(k, view),
           chain' = [chain EXCEPT ![c] = k], ~ReadingIn(k), ~DueIn(k),
           ~ReadingIn(chain[c]), ~DueIn(chain[c]),
           server' = server, view' = view, PageFields(page)', page'.shown = page.shown,
           marks \cap Excuses \subseteq marks'
    PROVE  PageInv'
<1>1. FieldsOK /\ ChainsOK /\ TableFields(server)'
  BY DEF PageInv, FieldsOK, TableFields
<1>2. /\ FieldsOK' /\ ChainsOK'
      /\ chain'[c] = k /\ \A d \in Chains \ {c} : chain'[d] = chain[d]
  BY <1>1, OneChain
<1>3. ASSUME marks' \cap Excuses = {}, NEW r \in Wants(view')
      PROVE  Followed(r)'
  <2>1. Followed(r)
    BY <1>3 DEF PageInv
  <2> QED
    BY <1>2, <2>1, OtherStep
<1> QED
  BY <1>2, <1>3 DEF PageInv

LEMMA RefuseStep ==
    ASSUME PageInv, NEW c \in Chains, Refuse(c)
    PROVE  PageInv'
<1> DEFINE k == IF chain[c].mounted THEN [chain[c] EXCEPT !.at = "refused"] ELSE Idle
<1>1. /\ chain[c].at = "sent" /\ chain' = [chain EXCEPT ![c] = k]
      /\ server' = server /\ view' = view /\ page' = page
      /\ marks \subseteq marks'
  BY DEF Refuse, PageInv, FieldsOK
<1>2. FieldsOK /\ ChainsOK
  BY DEF PageInv
<1>3. ChainFields(k) /\ Allowed(k, view) /\ ~ReadingIn(k) /\ ~DueIn(k)
  <2>1. CASE chain[c].mounted
    BY <1>2, <2>1 DEF ChainsOK, Allowed, FieldsOK, ChainFields, Fields, ReadingIn, DueIn
  <2>2. CASE ~chain[c].mounted
    BY <1>2, <2>2, IdleFields DEF ChainsOK, Allowed, ReadingIn, DueIn
  <2> QED
    BY <2>1, <2>2
<1>4. ~ReadingIn(chain[c]) /\ ~DueIn(chain[c])
  BY <1>1 DEF ReadingIn, DueIn
<1>5. PageFields(page)'
  BY <1>1, <1>2 DEF FieldsOK, PageFields
<1> HIDE DEF k
<1> QED
  BY <1>1, <1>3, <1>4, <1>5, QuietStep

LEMMA IdleIsQuiet ==
    ChainFields(Idle) /\ Allowed(Idle, view) /\ ~ReadingIn(Idle) /\ ~DueIn(Idle)
BY IdleFields DEF Allowed, ReadingIn, DueIn

LEMMA EndStep ==
    ASSUME PageInv, NEW c \in Chains, Refused(c) \/ Shown(c) \/ Vanish(c)
    PROVE  PageInv'
<1>1. /\ chain' = [chain EXCEPT ![c] = Idle]
      /\ server' = server /\ view' = view /\ marks' = marks
  BY DEF Refused, Shown, Vanish, Ended
<1>2. ~ReadingIn(chain[c]) /\ ~DueIn(chain[c])
  BY DEF Refused, Shown, Vanish, ReadingIn, DueIn
<1>3. PageFields(page)
  BY DEF PageInv, FieldsOK
<1>4. PageFields(page)' /\ page'.shown = page.shown
  <2>1. CASE Refused(c)
    BY <1>3, <2>1 DEF Refused, PageFields
  <2>2. CASE Shown(c)
    BY <1>3, <2>2 DEF Shown, PageFields
  <2>3. CASE Vanish(c)
    BY <1>3, <2>3 DEF Vanish, PageFields
  <2> QED
    BY <2>1, <2>2, <2>3
<1> QED
  BY <1>1, <1>2, <1>4, IdleIsQuiet, QuietStep
\* A button asks for what the server has a request for, and only the
\* designer's page has one that publishes.
LEMMA ButtonsAsk ==
    ASSUME NEW b \in Buttons
    PROVE  b[1] \in Ops /\ (b[1] = "publish" => view = "designer")
<1>1. CASE view = "marketplace"
  BY <1>1 DEF Buttons, Ops
<1>2. CASE view = "subscriptions"
  BY <1>2 DEF Buttons, Ops
<1>3. CASE view = "designer"
  BY <1>3 DEF Buttons, Ops
<1>4. CASE view \notin {"marketplace", "subscriptions", "designer"}
  BY <1>4 DEF Buttons, Ops
<1> QED
  BY <1>1, <1>2, <1>3, <1>4

LEMMA ClickStep ==
    ASSUME PageInv, Click
    PROVE  PageInv'
<1>1. PICK b \in Buttons, c \in Free :
        /\ chain' = [chain EXCEPT ![c] = Sent(b[1], b[2])]
        /\ page' = CASE b[1] = "subscribe" -> [page EXCEPT !.busy = b[2]]
                     [] b[1] \in Waits \ {"subscribe"} -> [page EXCEPT !.busy = "yes"]
                     [] b[1] = "replay" -> Highlighted(b[2])
                     [] OTHER -> page
        /\ marks \subseteq marks'
  BY DEF Click
<1>2. server' = server /\ view' = view
  BY DEF Click
<1>3. c \in Chains /\ chain[c] = Idle
  BY DEF Free
<1>4. PageFields(page)
  BY DEF PageInv, FieldsOK
<1>5. PageFields(page)' /\ page'.shown = page.shown
  <2>1. CASE b[1] = "subscribe"
    BY <1>1, <1>4, <2>1 DEF PageFields
  <2>2. CASE b[1] \in Waits \ {"subscribe"}
    BY <1>1, <1>4, <2>2 DEF PageFields, Waits
  <2>3. CASE b[1] = "replay"
    BY <1>1, <1>4, <2>3 DEF PageFields, Highlighted, Waits
  <2>4. CASE b[1] \notin Waits \cup {"subscribe", "replay"}
    BY <1>1, <1>4, <2>4 DEF PageFields
  <2> QED
    BY <2>1, <2>2, <2>3, <2>4
<1>6. /\ ChainFields(Sent(b[1], b[2])) /\ Allowed(Sent(b[1], b[2]), view)
      /\ ~ReadingIn(Sent(b[1], b[2])) /\ ~DueIn(Sent(b[1], b[2]))
  BY IdleFields, ButtonsAsk DEF Allowed, ReadingIn, DueIn
<1> QED
  BY <1>1, <1>2, <1>3, <1>5, <1>6, IdleIsQuiet, QuietStep

LEMMA ElsewhereStep ==
    ASSUME PageInv, Elsewhere
    PROVE  PageInv'
<1>1. "disturbed" \in marks' /\ view' = view /\ page' = page /\ chain' = chain
  BY DEF Elsewhere, Disturb
<1>2. FieldsOK /\ ChainsOK
  BY DEF PageInv
<1>3. TableFields(server)'
  <2>1. CASE \E x : server' = [server EXCEPT !.listings = x]
    BY <1>2, <2>1 DEF FieldsOK, TableFields, Resources
  <2>2. CASE \E op, x : server' \in Outcomes(op, x)
    BY <1>2, <2>2, OutcomesAreTables DEF TableFields
  <2>3. CASE \E b \in Bots : MovedElsewhere(b)
    <3>1. PICK b, x : server' = [server EXCEPT !.bots[b] = x]
      BY <2>3 DEF MovedElsewhere
    <3> QED
      BY <1>2, <3>1 DEF FieldsOK, TableFields, Resources
  <2>4. CASE \E b \in Bots : Reversioned(b)
    BY <1>2, <2>4 DEF Reversioned, FieldsOK, TableFields
  <2>5. (\E l \in Listings :
            server' = [server EXCEPT !.listings = IF l \in @ THEN @ \ {l} ELSE @ \cup {l}])
        => \E x : server' = [server EXCEPT !.listings = x]
    OBVIOUS
  <2>6. (\E b \in Bots : server' = [server EXCEPT !.listings = @ \ {b}])
        => \E x : server' = [server EXCEPT !.listings = x]
    OBVIOUS
  <2> QED
    BY <2>1, <2>2, <2>3, <2>4, <2>5, <2>6 DEF Elsewhere
<1>4. FieldsOK'
  BY <1>1, <1>2, <1>3 DEF FieldsOK, ChainFields, PageFields
<1>5. ChainsOK'
  BY <1>1, <1>2 DEF ChainsOK
<1> QED
  BY <1>1, <1>4, <1>5 DEF PageInv, Excuses

LEMMA FailStep ==
    ASSUME PageInv, NEW c \in Chains, Fail(c)
    PROVE  PageInv'
<1>1. /\ page' = [page EXCEPT !.busy = Released(chain[c].op)]
      /\ chain' = [chain EXCEPT ![c] = Abandoned(c)]
      /\ "disturbed" \in marks' /\ server' = server /\ view' = view
  BY DEF Fail, Disturb
<1>2. FieldsOK /\ ChainsOK
  BY DEF PageInv
<1>3. ChainFields(Abandoned(c)) /\ Allowed(Abandoned(c), view)
  BY <1>2, AbandonedFields DEF ChainsOK, Allowed
<1>4. TableFields(server)' /\ PageFields(page)'
  BY <1>1, <1>2 DEF FieldsOK, TableFields, PageFields
<1>5. FieldsOK' /\ ChainsOK'
  BY <1>1, <1>2, <1>3, <1>4, OneChain
<1> QED
  BY <1>1, <1>5 DEF PageInv, Excuses
\* The new page's refresh is the only chain open; it has everything to read.
LEMMA NavigateStep ==
    ASSUME PageInv, NEW v, Navigate(v)
    PROVE  PageInv'
<1> DEFINE left == [c \in Chains |-> Abandoned(c)]
           free == {c \in Chains : left[c] = Idle}
<1>1. /\ \/ Wants(v) = {} /\ chain' = left
         \/ Wants(v) # {} /\ \E m \in free : chain' = [left EXCEPT ![m] = Load(v)]
      /\ view' = v /\ page' = Blank /\ marks' = {} /\ server' = server
  BY DEF Navigate
<1>2. FieldsOK /\ ChainsOK
  BY DEF PageInv
<1>3. TableFields(server)' /\ PageFields(page)'
  BY <1>1, <1>2 DEF FieldsOK, TableFields, PageFields, Blank
<1>4. \A c \in Chains :
        /\ ChainFields(left[c]) /\ left[c].mounted = FALSE
        /\ Allowed(left[c], v)
  BY <1>2, AbandonedFields DEF ChainsOK, Allowed
<1>5. CASE Wants(v) = {}
  <2>1. chain' = left
    BY <1>1, <1>5
  <2>2. FieldsOK'
    BY <1>3, <1>4, <2>1 DEF FieldsOK, ChainFields, TableFields, PageFields
  <2>3. ChainsOK'
    BY <1>1, <1>4, <2>1 DEF ChainsOK, Allowed
  <2> QED
    BY <1>1, <1>5, <2>2, <2>3 DEF PageInv
<1>6. CASE Wants(v) # {}
  <2>2. PICK m \in Chains : chain' = [left EXCEPT ![m] = Load(v)]
    BY <1>1, <1>6
  <2>3. /\ chain' = [c \in Chains |-> chain'[c]]
        /\ chain'[m] = Load(v) /\ \A c \in Chains \ {m} : chain'[c] = left[c]
    BY <2>2
  <2> HIDE DEF left
  <2>4. \A c \in Chains : ChainFields(chain'[c]) /\ Allowed(chain'[c], v)
    <3>1. ChainFields(Load(v)) /\ Allowed(Load(v), v)
      BY IdleFields DEF Allowed
    <3> QED
      BY <1>4, <2>3, <3>1
  <2>5. FieldsOK'
    BY <1>3, <2>3, <2>4 DEF FieldsOK, ChainFields, TableFields, PageFields
  <2>6. ChainsOK'
    BY <1>1, <2>4 DEF ChainsOK, Allowed
  <2>7. m \in Open' /\ \A c \in Open' : c = m
    BY <1>4, <2>2, <2>3, IdleFields DEF Open
  <2>8. \A r \in Wants(v) : Followed(r)'
    BY <2>2, <2>3, <2>7, IdleFields DEF Followed
  <2> QED
    BY <1>1, <2>5, <2>6, <2>8 DEF PageInv
<1> QED
  BY <1>5, <1>6

LEMMA StartRefreshStep ==
    ASSUME PageInv, NEW c \in Chains, StartRefresh(c)
    PROVE  PageInv'
<1> DEFINE k == [chain[c] EXCEPT !.at = "reading", !.left = Wants(view)]
<1>1. /\ c \in Open /\ server' = server /\ view' = view
      /\ page' = IF chain[c].clears THEN [page EXCEPT !.selected = 0, !.drawn = {}]
                 ELSE page
      /\ marks' = IF marks \cap Excuses = {} /\ \E d \in Open : chain[d].at = "reading"
                  THEN marks \cup {"overlapped"} ELSE marks
  BY DEF StartRefresh
<1>2. FieldsOK /\ ChainsOK
  BY DEF PageInv
<1>3. chain' = [chain EXCEPT ![c] = k]
  <2>1. chain' = [chain EXCEPT ![c].at = "reading", ![c].left = Wants(view)]
    BY DEF StartRefresh
  <2>2. chain = [d \in Chains |-> chain[d]]
    BY <1>2 DEF FieldsOK
  <2> QED
    BY <2>1, <2>2
<1>4. /\ ChainFields(k) /\ k.at = "reading" /\ k.mounted = chain[c].mounted
      /\ k.left = Wants(view) /\ k.op = chain[c].op
  BY <1>2 DEF FieldsOK, ChainFields, Fields
<1>5. k.mounted
  BY <1>1, <1>4 DEF Open
<1>6. TableFields(server)' /\ PageFields(page)' /\ page'.shown = page.shown
  BY <1>1, <1>2 DEF FieldsOK, TableFields, PageFields
<1>7. Allowed(k, view)
  BY <1>2, <1>4, <1>5 DEF ChainsOK, Allowed
<1> HIDE DEF k
<1>8. /\ FieldsOK' /\ ChainsOK'
      /\ chain'[c] = k /\ \A d \in Chains \ {c} : chain'[d] = chain[d]
  BY <1>1, <1>2, <1>3, <1>4, <1>6, <1>7, OneChain
<1>9. ASSUME marks' \cap Excuses = {}, NEW r \in Wants(view')
      PROVE  Followed(r)'
  <2>1. ~\E d \in Open : chain[d].at = "reading"
    BY <1>1, <1>9 DEF Excuses
  <2>2. c \in Open' /\ \A d \in Open' : chain'[d].at = "reading" => d = c
    BY <1>4, <1>5, <1>8, <2>1 DEF Open
  <2> QED
    BY <1>1, <1>4, <1>8, <1>9, <2>2 DEF Followed
<1> QED
  BY <1>8, <1>9 DEF PageInv
LEMMA OverFetched ==
    ASSUME NEW f, NEW t
    PROVE  /\ DOMAIN Over(f, t) = DOMAIN f \cup DOMAIN t
           /\ \A r \in DOMAIN f : Over(f, t)[r] = f[r]
           /\ \A r \in DOMAIN t \ DOMAIN f : Over(f, t)[r] = t[r]
BY DEF Over

LEMMA OverRead ==
    ASSUME NEW x, NEW s, NEW t
    PROVE  LET g == Over([y \in {x} |-> s[y]], t)
           IN  /\ x \in DOMAIN g /\ g[x] = s[x]
               /\ \A r \in DOMAIN t \ {x} : r \in DOMAIN g /\ g[r] = t[r]
BY DEF Over

LEMMA ReadStep ==
    ASSUME PageInv, NEW c \in Chains, NEW x, Read(c, x)
    PROVE  PageInv'
<1>1. chain[c].at = "reading" /\ server' = server /\ view' = view /\ page' = page
  BY DEF Read
<1>2. FieldsOK /\ ChainsOK
  BY DEF PageInv
<1>3. chain = [d \in Chains |-> chain[d]] /\ ChainFields(chain[c]) /\ Allowed(chain[c], view)
  BY <1>2 DEF FieldsOK, ChainsOK
<1>4. TableFields(server)' /\ PageFields(page)'
  BY <1>1, <1>2 DEF FieldsOK, TableFields, PageFields
<1>5. CASE /\ chain' = [chain EXCEPT ![c].left = @ \ {x},
                                     ![c].got = Over([y \in {x} |-> server[y]], @)]
           /\ marks' = marks
  <2> DEFINE g == Over([y \in {x} |-> server[y]], chain[c].got)
             k == [chain[c] EXCEPT !.left = @ \ {x}, !.got = g]
  <2>1. /\ x \in DOMAIN g /\ g[x] = server[x]
        /\ \A r \in DOMAIN chain[c].got \ {x} : r \in DOMAIN g /\ g[r] = chain[c].got[r]
    BY OverRead
  <2>2. chain' = [chain EXCEPT ![c] = k]
    BY <1>3, <1>5
  <2> HIDE DEF g
  <2>3. /\ ChainFields(k) /\ k.at = "reading" /\ k.mounted = chain[c].mounted
        /\ k.left = chain[c].left \ {x} /\ k.op = chain[c].op /\ k.got = g
    BY <1>1, <1>3 DEF ChainFields, Fields
  <2>4. Allowed(k, view) /\ chain[c].mounted
    BY <1>1, <1>3, <2>3 DEF Allowed
  <2> HIDE DEF k
  <2>5. /\ FieldsOK' /\ ChainsOK'
        /\ chain'[c] = k /\ \A d \in Chains \ {c} : chain'[d] = chain[d]
    BY <1>1, <1>2, <1>4, <2>2, <2>3, <2>4, OneChain
  <2>6. Open' = Open /\ c \in Open
    BY <2>3, <2>4, <2>5 DEF Open
  <2>7. Due' <=> Due
    BY <1>1, <2>3, <2>5, <2>6 DEF Due, Open
  <2>8. ASSUME marks' \cap Excuses = {}, NEW r \in Wants(view')
        PROVE  Followed(r)'
    <3>1. Followed(r)
      BY <1>1, <1>5, <2>8 DEF PageInv
    <3>2. (\E d \in Open : chain[d].at = "reading")'
      BY <2>3, <2>5, <2>6
    <3>3. r \in k.left \/ (r \in DOMAIN k.got /\ (k.got[r] = server[r] \/ Due))
      <4>1. r \in chain[c].left
            \/ (r \in DOMAIN chain[c].got /\ (chain[c].got[r] = server[r] \/ Due))
        BY <1>1, <2>6, <3>1 DEF Followed
      <4>2. CASE r = x
        BY <2>1, <2>3, <4>2
      <4>3. CASE r # x
        BY <2>1, <2>3, <4>1, <4>3
      <4> QED
        BY <4>2, <4>3
    <3>4. \A d \in Open \ {c} : chain'[d].at = "reading" =>
            \/ r \in chain'[d].left
            \/ r \in DOMAIN chain'[d].got /\ (chain'[d].got[r] = server[r] \/ Due)
      BY <2>5, <3>1 DEF Followed, Open
    <3>5. \A d \in Open : chain'[d].at = "reading" =>
            \/ r \in chain'[d].left
            \/ r \in DOMAIN chain'[d].got /\ (chain'[d].got[r] = server'[r] \/ Due')
      BY <1>1, <2>5, <2>7, <3>3, <3>4
    <3> QED
      BY <2>6, <3>2, <3>5 DEF Followed
  <2> QED
    BY <2>5, <2>8 DEF PageInv
<1>6. CASE /\ chain' = [chain EXCEPT ![c].left = @ \ {x}]
           /\ Disturb
  <2> DEFINE k == [chain[c] EXCEPT !.left = @ \ {x}]
  <2>1. chain' = [chain EXCEPT ![c] = k]
    BY <1>3, <1>6
  <2>2. ChainFields(k) /\ Allowed(k, view)
    BY <1>3 DEF ChainFields, Fields, Allowed
  <2> HIDE DEF k
  <2>3. FieldsOK' /\ ChainsOK'
    BY <1>1, <1>2, <1>4, <2>1, <2>2, OneChain
  <2>4. marks' \cap Excuses # {}
    BY <1>6 DEF Disturb, Excuses
  <2> QED
    BY <2>3, <2>4 DEF PageInv
<1> QED
  BY <1>5, <1>6 DEF Read

LEMMA RefreshedStep ==
    ASSUME PageInv, NEW c \in Chains, Refreshed(c)
    PROVE  PageInv'
<1>1. /\ chain[c].at = "reading" /\ chain[c].left = {}
      /\ page' = [page EXCEPT !.shown = Over(chain[c].got, @),
                              !.busy = Released(chain[c].op)]
      /\ chain' = [chain EXCEPT ![c] = Idle]
      /\ server' = server /\ view' = view /\ marks' = marks
  BY DEF Refreshed, Ended
<1>2. FieldsOK /\ ChainsOK
  BY DEF PageInv
<1>3. TableFields(server)'
  BY <1>1, <1>2 DEF FieldsOK, TableFields
<1>4. PageFields(page)' /\ page'.shown = Over(chain[c].got, page.shown)
  BY <1>1, <1>2 DEF FieldsOK, PageFields
<1>5. /\ FieldsOK' /\ ChainsOK'
      /\ chain'[c] = Idle /\ \A d \in Chains \ {c} : chain'[d] = chain[d]
  BY <1>1, <1>2, <1>3, <1>4, IdleIsQuiet, OneChain
<1>6. c \in Open /\ Open' = Open \ {c}
  BY <1>1, <1>2, <1>5, IdleFields DEF ChainsOK, Allowed, Open
<1>7. Due => Due'
  BY <1>1, <1>5, <1>6 DEF Due
<1>8. ASSUME marks' \cap Excuses = {}, NEW r \in Wants(view')
      PROVE  Followed(r)'
  <2>1. Followed(r)
    BY <1>1, <1>8 DEF PageInv
  <2>2. r \in DOMAIN chain[c].got /\ (chain[c].got[r] = server[r] \/ Due)
    BY <1>1, <1>6, <2>1 DEF Followed
  <2>3. page'.shown[r] = server'[r] \/ Due'
    <3>1. Over(chain[c].got, page.shown)[r] = chain[c].got[r]
      BY <2>2, OverFetched
    <3> QED
      BY <1>1, <1>4, <1>7, <2>2, <3>1
  <2>4. (\A d \in Open : chain[d].at = "reading" =>
            \/ r \in chain[d].left
            \/ r \in DOMAIN chain[d].got /\ (chain[d].got[r] = server[r] \/ Due))'
    BY <1>1, <1>5, <1>6, <1>7, <2>1 DEF Followed, Open
  <2> QED
    BY <2>3, <2>4 DEF Followed
<1> QED
  BY <1>5, <1>8 DEF PageInv

-----------------------------------------------------------------------------
(* The theorem. *)

LEMMA InitPage == ASSUME Init PROVE PageInv
<1>1. \A c \in Chains : chain[c] = Idle
  BY DEF Init
<1>2. FieldsOK
  <2>1. chain = [c \in Chains |-> chain[c]]
    BY DEF Init
  <2>2. \A c \in Chains : ChainFields(chain[c])
    BY <1>1, IdleFields
  <2>3. TableFields(server)
    BY DEF Init, TableFields, Resources
  <2>4. PageFields(page)
    BY DEF Init, PageFields, Blank
  <2> QED
    BY <2>1, <2>2, <2>3, <2>4 DEF FieldsOK
<1>3. ChainsOK
  BY <1>1, IdleIsQuiet DEF ChainsOK, Allowed
<1>4. Wants(view) = {}
  BY HomeAssumption DEF Init
<1> QED
  BY <1>2, <1>3, <1>4 DEF PageInv

LEMMA NextPage == ASSUME PageInv, [Next]_vars PROVE PageInv'
<1>1. CASE Elsewhere \/ Click \/ \E v \in Views : Navigate(v)
  BY <1>1, ElsewhereStep, ClickStep, NavigateStep
<1>2. ASSUME NEW c \in Chains, Progress(c) \/ Fail(c) \/ Vanish(c)
      PROVE  PageInv'
  <2>1. CASE Serve(c) \/ Refuse(c) \/ Refused(c) \/ Shown(c) \/ Vanish(c)
    BY <2>1, ServeStep, RefuseStep, EndStep
  <2>2. CASE StartRefresh(c) \/ (\E r \in Resources : Read(c, r)) \/ Refreshed(c) \/ Fail(c)
    BY <2>2, StartRefreshStep, ReadStep, RefreshedStep, FailStep
  <2> QED
    BY <1>2, <2>1, <2>2 DEF Progress
<1>3. CASE UNCHANGED vars
  BY <1>3 DEF vars, PageInv, FieldsOK, ChainFields, TableFields, PageFields,
              ChainsOK, Followed, Due, Open
<1> QED
  BY <1>1, <1>2, <1>3 DEF Next

LEMMA FollowedIsCurrent == ASSUME PageInv PROVE QuietPageIsCurrent
BY DEF PageInv, Followed, Due, QuietPageIsCurrent

\* With nothing open a page shows the tables as they are, whatever chains of
\* callbacks its buttons started and in whatever order they were answered,
\* unless someone else changed the tables, a fetch failed or two refreshes of
\* the page overlapped (the refresh after every change in Marketplace.tsx,
\* MySubscriptions.tsx, DesignerStudio.tsx and the mount effects).
THEOREM QuietPagesAlwaysCurrent == Spec => []QuietPageIsCurrent
<1>1. Init => PageInv
  BY InitPage
<1>2. PageInv /\ [Next]_vars => PageInv'
  BY NextPage
<1>3. PageInv => QuietPageIsCurrent
  BY FollowedIsCurrent
<1> QED
  BY <1>1, <1>2, <1>3, PTL DEF Spec

-----------------------------------------------------------------------------
(* What a page is about: its types, and which chains it has open. *)

Pressed == {"sent", "ok", "refused"}
Rowish == {"replay", "unsubscribe"}

\* The operations a page starts.
OpsOf(v) ==
    {"load"} \cup
    CASE v = "marketplace" -> {"subscribe"}
      [] v = "subscriptions" -> Rowish
      [] v = "designer" -> {"create", "submit", "qualify", "publish"}
      [] v = "portfolio" -> {"run"}
      [] OTHER -> {}

\* What an operation may be about.
Aim(op, x) ==
    /\ op = "subscribe" => x \in Offers
    /\ op \in Rowish => x \in 1..MaxSubs
    /\ op \in {"create", "submit", "qualify", "publish"} => x \in Bots

TypedTable(r, t) ==
    /\ r = "subs" => t \in SUBSET SubRows
    /\ r = "listings" => t \in SUBSET Offers
    /\ r = "bots" => t \in [Bots -> BotStates]

ChainTyped(k, v) ==
    /\ k.op \in Ops \cup {"none"}
    /\ k.at \in Pressed \cup {"idle", "reading"}
    /\ k.mounted => k.op \in OpsOf(v)
    /\ k.at \in Pressed => /\ k.op \in Ops \ {"load"} /\ k.got = << >>
                           /\ \E x : k.on = {x} /\ Aim(k.op, x)
    /\ k.left \subseteq Resources /\ DOMAIN k.got \subseteq Resources
    /\ \A r \in DOMAIN k.got : TypedTable(r, k.got[r])
    /\ k.op = "load" => k.on = {}

PageTyped ==
    /\ view \in Views
    /\ \A r \in Resources : TypedTable(r, page.shown[r]) /\ TypedTable(r, server[r])
    /\ page.shown = [r \in Resources |-> page.shown[r]]
    /\ page.selected \in 0..MaxSubs /\ page.count \in 0..MaxSubs
    /\ page.busy \in IF view = "marketplace" THEN {"no"} \cup Offers ELSE {"no", "yes"}
    /\ marks \subseteq Excuses \cup Events

ChainsTyped == \A c \in Chains : ChainTyped(chain[c], view)

-----------------------------------------------------------------------------
(* What each step does, field by field. *)

\* Nothing becomes of the chains but of c.
Alone(c) == \A d \in Chains \ {c} : chain'[d] = chain[d]

\* Chain k goes on as l.
GoesOn(k, l) == /\ l.op = k.op /\ l.on = k.on /\ l.mounted = k.mounted
                /\ l.clears = k.clears

SamePage == view' = view /\ page' = page

LEMMA Becomes ==
    ASSUME FieldsOK, NEW c \in Chains, NEW k, chain' = [chain EXCEPT ![c] = k]
    PROVE  chain'[c] = k /\ Alone(c)
BY DEF FieldsOK, Alone

LEMMA ServeDoes ==
    ASSUME PageInv, NEW c \in Chains, Serve(c)
    PROVE  /\ chain[c].at = "sent" /\ Alone(c) /\ SamePage
           /\ \E x \in chain[c].on : /\ server' \in Outcomes(chain[c].op, x)
                                     /\ current' = Mirrored(chain[c].op, x, server')
           /\ chain[c].mounted =>
                /\ GoesOn(chain[c], chain'[c]) /\ chain'[c].at = "ok"
                /\ chain'[c].got = chain[c].got /\ chain'[c].left = chain[c].left
                /\ marks' = marks
           /\ ~chain[c].mounted =>
                chain'[c] = Idle /\ "disturbed" \in marks'
                /\ marks' = marks \cup {"disturbed"}
<1> DEFINE k == IF chain[c].mounted THEN [chain[c] EXCEPT !.at = "ok"] ELSE Idle
<1>1. PICK x, t :
        /\ x \in chain[c].on /\ t \in Outcomes(chain[c].op, x)
        /\ server' = t /\ current' = Mirrored(chain[c].op, x, t)
        /\ chain' = [chain EXCEPT ![c] = k]
        /\ marks' = IF chain[c].mounted THEN marks ELSE marks \cup {"disturbed"}
  BY DEF Serve, PageInv, FieldsOK
<1>2. chain[c].at = "sent" /\ SamePage /\ FieldsOK /\ ChainFields(chain[c])
  BY DEF Serve, SamePage, PageInv, FieldsOK
<1>3. chain'[c] = k /\ Alone(c)
  BY <1>1, <1>2, Becomes
<1>4. chain[c].mounted =>
        /\ GoesOn(chain[c], k) /\ k.at = "ok"
        /\ k.got = chain[c].got /\ k.left = chain[c].left
  BY <1>2 DEF ChainFields, Fields, GoesOn
<1> QED
  BY <1>1, <1>2, <1>3, <1>4

LEMMA RefuseDoes ==
    ASSUME PageInv, NEW c \in Chains, Refuse(c)
    PROVE  /\ chain[c].at = "sent" /\ Alone(c) /\ SamePage /\ server' = server
           /\ chain[c].mounted =>
                /\ GoesOn(chain[c], chain'[c]) /\ chain'[c].at = "refused"
                /\ chain'[c].got = chain[c].got /\ chain'[c].left = chain[c].left
           /\ ~chain[c].mounted => chain'[c] = Idle
           /\ \/ marks' = marks
              \/ /\ marks' = marks \cup {"refused"} /\ chain[c].mounted
                 /\ marks \cap Excuses = {}
                 /\ \E x \in chain[c].on :
                        /\ Outcomes(chain[c].op, x) = {} /\ ~Superseded(chain[c].op, x)
           /\ chain[c].op \notin {"create", "publish", "run"} =>
                \E x \in chain[c].on : Outcomes(chain[c].op, x) = {}
<1> DEFINE k == IF chain[c].mounted THEN [chain[c] EXCEPT !.at = "refused"] ELSE Idle
<1>1. /\ chain[c].at = "sent" /\ SamePage /\ server' = server
      /\ FieldsOK /\ ChainFields(chain[c]) /\ chain' = [chain EXCEPT ![c] = k]
  BY DEF Refuse, SamePage, PageInv, FieldsOK
<1>2. \/ marks' = marks
      \/ /\ marks' = marks \cup {"refused"} /\ chain[c].mounted
         /\ marks \cap Excuses = {}
         /\ \E x \in chain[c].on :
                /\ Outcomes(chain[c].op, x) = {} /\ ~Superseded(chain[c].op, x)
  BY DEF Refuse
<1>5. chain[c].op \notin {"create", "publish", "run"} =>
        \E x \in chain[c].on : Outcomes(chain[c].op, x) = {}
  BY DEF Refuse
<1>3. chain'[c] = k /\ Alone(c)
  BY <1>1, Becomes
<1>4. chain[c].mounted =>
        /\ GoesOn(chain[c], k) /\ k.at = "refused"
        /\ k.got = chain[c].got /\ k.left = chain[c].left
  BY <1>1 DEF ChainFields, Fields, GoesOn
<1> QED
  BY <1>1, <1>2, <1>3, <1>4, <1>5

LEMMA StartRefreshDoes ==
    ASSUME PageInv, NEW c \in Chains, StartRefresh(c)
    PROVE  /\ chain[c].mounted /\ chain[c].at = "ok" /\ chain[c].op \in Refreshes
           /\ Alone(c) /\ server' = server /\ view' = view
           /\ GoesOn(chain[c], chain'[c]) /\ chain'[c].at = "reading"
           /\ chain'[c].got = chain[c].got /\ chain'[c].left = Wants(view)
           /\ page'.shown = page.shown /\ page'.count = page.count /\ page'.busy = page.busy
           /\ page'.selected = IF chain[c].clears THEN 0 ELSE page.selected
           /\ page'.drawn = IF chain[c].clears THEN {} ELSE page.drawn
           /\ marks' = IF marks \cap Excuses = {}
                          /\ \E d \in Open : chain[d].at = "reading"
                       THEN marks \cup {"overlapped"} ELSE marks
<1> DEFINE k == [chain[c] EXCEPT !.at = "reading", !.left = Wants(view)]
<1>1. /\ c \in Open /\ chain[c].at = "ok" /\ chain[c].op \in Refreshes
      /\ server' = server /\ view' = view
      /\ page' = IF chain[c].clears THEN [page EXCEPT !.selected = 0, !.drawn = {}]
                 ELSE page
      /\ marks' = IF marks \cap Excuses = {} /\ \E d \in Open : chain[d].at = "reading"
                  THEN marks \cup {"overlapped"} ELSE marks
      /\ chain' = [chain EXCEPT ![c].at = "reading", ![c].left = Wants(view)]
  BY DEF StartRefresh
<1>2. FieldsOK /\ ChainFields(chain[c]) /\ PageFields(page)
  BY DEF PageInv, FieldsOK
<1>3. chain' = [chain EXCEPT ![c] = k]
  BY <1>1, <1>2 DEF FieldsOK
<1>4. chain'[c] = k /\ Alone(c)
  BY <1>2, <1>3, Becomes
<1>5. /\ GoesOn(chain[c], k) /\ k.at = "reading"
      /\ k.got = chain[c].got /\ k.left = Wants(view)
  BY <1>2 DEF ChainFields, Fields, GoesOn
<1>6. /\ page'.shown = page.shown /\ page'.count = page.count /\ page'.busy = page.busy
      /\ page'.selected = IF chain[c].clears THEN 0 ELSE page.selected
      /\ page'.drawn = IF chain[c].clears THEN {} ELSE page.drawn
  BY <1>1, <1>2 DEF PageFields
<1> QED
  BY <1>1, <1>4, <1>5, <1>6 DEF Open

\* A table is read, or the page is disturbed.
LEMMA ReadDoes ==
    ASSUME PageInv, NEW c \in Chains, NEW r \in Resources, Read(c, r)
    PROVE  /\ chain[c].mounted /\ chain[c].at = "reading" /\ r \in chain[c].left
           /\ Alone(c) /\ server' = server /\ SamePage
           /\ GoesOn(chain[c], chain'[c]) /\ chain'[c].at = "reading"
           /\ chain'[c].left \subseteq chain[c].left
           /\ \/ /\ chain'[c].got = Over([x \in {r} |-> server[x]], chain[c].got)
                 /\ marks' = marks
              \/ /\ chain'[c].got = chain[c].got
                 /\ marks' = marks \cup {"disturbed"}
<1>1. /\ chain[c].at = "reading" /\ r \in chain[c].left /\ server' = server /\ SamePage
  BY DEF Read, SamePage
<1>2. FieldsOK /\ ChainFields(chain[c]) /\ chain[c].mounted
  BY <1>1 DEF PageInv, FieldsOK, ChainsOK, Allowed
<1>3. CASE /\ chain' = [chain EXCEPT ![c].left = @ \ {r},
                                     ![c].got = Over([x \in {r} |-> server[x]], @)]
           /\ marks' = marks
  <2> DEFINE g == Over([x \in {r} |-> server[x]], chain[c].got)
             k == [chain[c] EXCEPT !.left = @ \ {r}, !.got = g]
  <2>1. chain' = [chain EXCEPT ![c] = k]
    BY <1>2, <1>3 DEF FieldsOK
  <2>2. chain'[c] = k /\ Alone(c)
    BY <1>2, <2>1, Becomes
  <2> HIDE DEF g
  <2>3. /\ GoesOn(chain[c], k) /\ k.at = "reading"
        /\ k.left = chain[c].left \ {r} /\ k.got = g
    BY <1>1, <1>2 DEF ChainFields, Fields, GoesOn
  <2> HIDE DEF k
  <2> QED
    BY <1>1, <1>2, <1>3, <2>2, <2>3 DEF g
<1>4. CASE chain' = [chain EXCEPT ![c].left = @ \ {r}] /\ Disturb
  <2> DEFINE k == [chain[c] EXCEPT !.left = @ \ {r}]
  <2>1. chain' = [chain EXCEPT ![c] = k]
    BY <1>2, <1>4 DEF FieldsOK
  <2>2. chain'[c] = k /\ Alone(c)
    BY <1>2, <2>1, Becomes
  <2>3. /\ GoesOn(chain[c], k) /\ k.at = "reading"
        /\ k.left = chain[c].left \ {r} /\ k.got = chain[c].got
    BY <1>1, <1>2 DEF ChainFields, Fields, GoesOn
  <2> HIDE DEF k
  <2> QED
    BY <1>1, <1>2, <1>4, <2>2, <2>3 DEF Disturb
<1> QED
  BY <1>3, <1>4 DEF Read

LEMMA RefreshedDoes ==
    ASSUME PageInv, NEW c \in Chains, Refreshed(c)
    PROVE  /\ chain[c].mounted /\ chain[c].at = "reading" /\ chain[c].left = {}
           /\ Alone(c) /\ chain'[c] = Idle
           /\ server' = server /\ view' = view /\ marks' = marks
           /\ page'.shown = Over(chain[c].got, page.shown)
           /\ page'.busy = Released(chain[c].op)
           /\ page'.selected = page.selected /\ page'.count = page.count
           /\ page'.drawn = page.drawn
<1>1. /\ chain[c].at = "reading" /\ chain[c].left = {}
      /\ page' = [page EXCEPT !.shown = Over(chain[c].got, @),
                              !.busy = Released(chain[c].op)]
      /\ chain' = [chain EXCEPT ![c] = Idle]
      /\ server' = server /\ view' = view /\ marks' = marks
  BY DEF Refreshed, Ended
<1>2. FieldsOK /\ PageFields(page) /\ chain[c].mounted
  BY <1>1 DEF PageInv, FieldsOK, ChainsOK, Allowed
<1>3. chain'[c] = Idle /\ Alone(c)
  BY <1>1, <1>2, Becomes
<1>4. /\ page'.shown = Over(chain[c].got, page.shown)
      /\ page'.busy = Released(chain[c].op)
      /\ page'.selected = page.selected /\ page'.count = page.count
      /\ page'.drawn = page.drawn
  BY <1>1, <1>2 DEF PageFields
<1> QED
  BY <1>1, <1>2, <1>3, <1>4

LEMMA RefusedDoes ==
    ASSUME PageInv, NEW c \in Chains, Refused(c)
    PROVE  /\ chain[c].mounted /\ chain[c].at = "refused"
           /\ Alone(c) /\ chain'[c] = Idle
           /\ server' = server /\ view' = view /\ marks' = marks
           /\ page'.busy = Released(chain[c].op) /\ page'.shown = page.shown
           /\ page'.selected = page.selected /\ page'.count = page.count
           /\ page'.drawn = page.drawn
<1>1. /\ chain[c].mounted /\ chain[c].at = "refused"
      /\ page' = [page EXCEPT !.busy = Released(chain[c].op)]
      /\ chain' = [chain EXCEPT ![c] = Idle]
      /\ server' = server /\ view' = view /\ marks' = marks
  BY DEF Refused, Ended, Open
<1>2. FieldsOK /\ PageFields(page)
  BY DEF PageInv, FieldsOK
<1>3. chain'[c] = Idle /\ Alone(c)
  BY <1>1, <1>2, Becomes
<1> QED
  BY <1>1, <1>2, <1>3 DEF PageFields

LEMMA ShownDoes ==
    ASSUME PageInv, NEW c \in Chains, Shown(c)
    PROVE  /\ chain[c].mounted /\ chain[c].at = "ok" /\ chain[c].op \notin Refreshes
           /\ Alone(c) /\ chain'[c] = Idle
           /\ server' = server /\ view' = view /\ marks' = marks
           /\ page'.busy = Released(chain[c].op) /\ page'.shown = page.shown
           /\ page'.selected = page.selected
           /\ page'.count = IF chain[c].op = "replay" THEN One(chain[c].on) ELSE page.count
           /\ page'.drawn = IF chain[c].op = "replay" THEN chain[c].on
                            ELSE IF chain[c].op = "run" THEN {0} ELSE page.drawn
<1>1. /\ chain[c].mounted /\ chain[c].at = "ok" /\ chain[c].op \notin Refreshes
      /\ page' = [page EXCEPT
            !.drawn = IF chain[c].op = "replay" THEN chain[c].on
                      ELSE IF chain[c].op = "run" THEN {0} ELSE @,
            !.count = IF chain[c].op = "replay" THEN One(chain[c].on) ELSE @,
            !.busy = Released(chain[c].op)]
      /\ chain' = [chain EXCEPT ![c] = Idle]
      /\ server' = server /\ view' = view /\ marks' = marks
  BY DEF Shown, Ended, Open
<1>2. FieldsOK /\ PageFields(page)
  BY DEF PageInv, FieldsOK
<1>3. chain'[c] = Idle /\ Alone(c)
  BY <1>1, <1>2, Becomes
<1>4. /\ page'.busy = Released(chain[c].op) /\ page'.shown = page.shown
      /\ page'.selected = page.selected
      /\ page'.count = IF chain[c].op = "replay" THEN One(chain[c].on) ELSE page.count
      /\ page'.drawn = IF chain[c].op = "replay" THEN chain[c].on
                       ELSE IF chain[c].op = "run" THEN {0} ELSE page.drawn
  BY <1>1, <1>2 DEF PageFields
<1> QED
  BY <1>1, <1>2, <1>3, <1>4

LEMMA VanishDoes ==
    ASSUME PageInv, NEW c \in Chains, Vanish(c)
    PROVE  /\ ~chain[c].mounted /\ chain[c].at = "sent"
           /\ Alone(c) /\ chain'[c] = Idle
           /\ server' = server /\ SamePage /\ marks' = marks
<1>1. FieldsOK
  BY DEF PageInv
<1> QED
  BY <1>1, Becomes DEF Vanish, Ended, SamePage

\* What nobody waits for is gone, or a request under way.
Forgotten(k, l) ==
    \/ l = Idle
    \/ /\ k.at = "sent" /\ l.at = "sent" /\ l.mounted = FALSE
       /\ k.op \notin {"replay", "run"}
       /\ l.op = k.op /\ l.on = k.on /\ l.got = k.got /\ l.left = k.left

LEMMA AbandonedDoes ==
    ASSUME PageInv, NEW c \in Chains
    PROVE  Forgotten(chain[c], Abandoned(c))
<1>1. CASE chain[c].at = "sent" /\ chain[c].op \notin {"replay", "run"}
  <2>1. Abandoned(c) = [chain[c] EXCEPT !.mounted = FALSE, !.clears = FALSE]
    BY <1>1 DEF Abandoned
  <2>2. ChainFields(chain[c])
    BY DEF PageInv, FieldsOK
  <2> QED
    BY <1>1, <2>1, <2>2 DEF ChainFields, Fields, Forgotten
<1>2. CASE ~(chain[c].at = "sent" /\ chain[c].op \notin {"replay", "run"})
  BY <1>2 DEF Abandoned, Forgotten
<1> QED
  BY <1>1, <1>2

LEMMA FailDoes ==
    ASSUME PageInv, NEW c \in Chains, Fail(c)
    PROVE  /\ chain[c].mounted /\ Alone(c) /\ Forgotten(chain[c], chain'[c])
           /\ server' = server /\ view' = view
           /\ marks' = marks \cup {"disturbed"}
           /\ page'.busy = Released(chain[c].op) /\ page'.shown = page.shown
           /\ page'.selected = page.selected /\ page'.count = page.count
           /\ page'.drawn = page.drawn
<1>1. /\ chain[c].mounted
      /\ page' = [page EXCEPT !.busy = Released(chain[c].op)]
      /\ chain' = [chain EXCEPT ![c] = Abandoned(c)]
      /\ server' = server /\ view' = view
      /\ marks' = marks \cup {"disturbed"}
  BY DEF Fail, Disturb, Open
<1>2. FieldsOK /\ PageFields(page)
  BY DEF PageInv, FieldsOK
<1>3. chain'[c] = Abandoned(c) /\ Alone(c)
  BY <1>1, <1>2, Becomes
<1> QED
  BY <1>1, <1>2, <1>3, AbandonedDoes DEF PageFields

LEMMA ClickDoes ==
    ASSUME PageInv, Click
    PROVE  \E c \in Chains, b \in Buttons :
            LET op == b[1]
                x == b[2]
            IN  /\ chain[c] = Idle /\ Alone(c)
                /\ chain'[c] = Sent(op, x)
                /\ op = "subscribe" => IdsLeft
                /\ server' = server /\ view' = view
                /\ page'.shown = page.shown /\ page'.drawn = page.drawn
                /\ page'.selected = IF op = "replay" THEN x ELSE page.selected
                /\ page'.count = IF op = "replay" THEN 0 ELSE page.count
                /\ page'.busy = IF op = "subscribe" THEN x
                                ELSE IF op \in Waits THEN "yes" ELSE page.busy
                /\ marks \subseteq marks'
                /\ marks' \subseteq marks \cup {"crossed", "together"}
                /\ Crosses(op, x) => "crossed" \in marks'
                /\ Joins(op) => "together" \in marks'
<1>1. PICK b \in Buttons, c \in Free :
        /\ b[1] = "subscribe" => IdsLeft
        /\ chain' = [chain EXCEPT ![c] = Sent(b[1], b[2])]
        /\ page' = CASE b[1] = "subscribe" -> [page EXCEPT !.busy = b[2]]
                     [] b[1] \in Waits \ {"subscribe"} -> [page EXCEPT !.busy = "yes"]
                     [] b[1] = "replay" -> Highlighted(b[2])
                     [] OTHER -> page
        /\ marks' = marks \cup {e \in {"crossed"} : Crosses(b[1], b[2])}
                         \cup {e \in {"together"} : Joins(b[1])}
  BY DEF Click
<1>2. server' = server /\ view' = view
  BY DEF Click
<1>3. c \in Chains /\ chain[c] = Idle
  BY DEF Free
<1>4. FieldsOK /\ PageFields(page)
  BY DEF PageInv, FieldsOK
<1>5. chain'[c] = Sent(b[1], b[2]) /\ Alone(c)
  BY <1>1, <1>3, <1>4, Becomes
<1>6. /\ page'.shown = page.shown /\ page'.drawn = page.drawn
      /\ page'.selected = IF b[1] = "replay" THEN b[2] ELSE page.selected
      /\ page'.count = IF b[1] = "replay" THEN 0 ELSE page.count
      /\ page'.busy = IF b[1] = "subscribe" THEN b[2]
                      ELSE IF b[1] \in Waits THEN "yes" ELSE page.busy
  <2>1. CASE b[1] = "subscribe"
    BY <1>1, <1>4, <2>1 DEF PageFields
  <2>2. CASE b[1] \in Waits \ {"subscribe"}
    BY <1>1, <1>4, <2>2 DEF PageFields, Waits
  <2>3. CASE b[1] = "replay"
    BY <1>1, <1>4, <2>3 DEF PageFields, Highlighted, Waits
  <2>4. CASE b[1] \notin Waits \cup {"subscribe", "replay"}
    BY <1>1, <1>4, <2>4 DEF PageFields
  <2> QED
    BY <2>1, <2>2, <2>3, <2>4
<1>7. /\ marks \subseteq marks' /\ marks' \subseteq marks \cup {"crossed", "together"}
      /\ Crosses(b[1], b[2]) => "crossed" \in marks'
      /\ Joins(b[1]) => "together" \in marks'
  BY <1>1
<1> QED
  BY <1>1, <1>2, <1>3, <1>5, <1>6, <1>7

LEMMA NavigateDoes ==
    ASSUME PageInv, NEW v \in Views, Navigate(v)
    PROVE  /\ server' = server /\ view' = v /\ page' = Blank /\ marks' = {}
           /\ \/ \A c \in Chains : Forgotten(chain[c], chain'[c])
              \/ \E m \in Chains :
                    /\ chain'[m] = Load(v)
                    /\ \A c \in Chains \ {m} : Forgotten(chain[c], chain'[c])
<1> DEFINE left == [c \in Chains |-> Abandoned(c)]
           free == {c \in Chains : left[c] = Idle}
<1>1. /\ \/ Wants(v) = {} /\ chain' = left
         \/ Wants(v) # {} /\ \E m \in free : chain' = [left EXCEPT ![m] = Load(v)]
      /\ view' = v /\ page' = Blank /\ marks' = {} /\ server' = server
  BY DEF Navigate
<1>2. \A c \in Chains : Forgotten(chain[c], left[c])
  BY AbandonedDoes
<1>3. CASE Wants(v) = {}
  BY <1>1, <1>2, <1>3
<1>4. CASE Wants(v) # {}
  <2>2. PICK m \in Chains : chain' = [left EXCEPT ![m] = Load(v)]
    BY <1>1, <1>4
  <2>3. chain'[m] = Load(v) /\ \A c \in Chains \ {m} : chain'[c] = left[c]
    BY <2>2
  <2> HIDE DEF left
  <2> QED
    BY <1>1, <1>2, <2>3
<1> QED
  BY <1>1, <1>3, <1>4

LEMMA ElsewhereDoes ==
    ASSUME Elsewhere
    PROVE  /\ SamePage /\ chain' = chain /\ marks' = marks \cup {"disturbed"}
           /\ \/ /\ current' = current
                 /\ \/ \E s \in SUBSET (server.listings \cup Listings) :
                           server' = [server EXCEPT !.listings = s]
                    \/ \E l \in server.listings :
                           IdsLeft /\ server' \in Outcomes("subscribe", l)
                    \/ \E x : server' \in Outcomes("unsubscribe", x)
                    \/ \E b \in Bots : server' \in Outcomes("publish", b)
              \/ \E b \in Bots, s \in BotStates \ {"none"} :
                    /\ server' = [server EXCEPT !.bots[b] = s]
                    /\ current' = [current EXCEPT ![b] = s]
              \/ \E b \in Bots : Reversioned(b)
<1>1. SamePage /\ chain' = chain /\ marks' = marks \cup {"disturbed"}
  BY DEF Elsewhere, Disturb, SamePage
<1>2. CASE /\ UNCHANGED current
           /\ \E l \in Listings : server' = [server EXCEPT !.listings =
                                    IF l \in @ THEN @ \ {l} ELSE @ \cup {l}]
  <2>1. PICK l \in Listings : server' = [server EXCEPT !.listings =
                                    IF l \in @ THEN @ \ {l} ELSE @ \cup {l}]
    BY <1>2
  <2>2. PICK s : s = IF l \in server.listings THEN server.listings \ {l}
                     ELSE server.listings \cup {l}
    OBVIOUS
  <2>3. server' = [server EXCEPT !.listings = s] /\ s \subseteq server.listings \cup Listings
    BY <2>1, <2>2
  <2> QED
    BY <1>1, <1>2, <2>3
<1>3. CASE /\ UNCHANGED current
           /\ \E b \in Bots : server' = [server EXCEPT !.listings = @ \ {b}]
  <2>1. PICK b \in Bots : server' = [server EXCEPT !.listings = @ \ {b}]
    BY <1>3
  <2>2. PICK s : s = server.listings \ {b}
    OBVIOUS
  <2>3. server' = [server EXCEPT !.listings = s] /\ s \subseteq server.listings \cup Listings
    BY <2>1, <2>2
  <2> QED
    BY <1>1, <1>3, <2>3
<1>4. CASE /\ UNCHANGED current
           /\ \/ \E l \in server.listings : /\ IdsLeft /\ Joined(l) # {}
                                             /\ server' \in Outcomes("subscribe", l)
              \/ \E s \in server.subs : server' \in Outcomes("unsubscribe", s.id)
              \/ \E b \in Bots : server' \in Outcomes("publish", b)
  BY <1>1, <1>4
<1>5. CASE \E b \in Bots : MovedElsewhere(b)
  <2>1. PICK b \in Bots, m \in Transitions \cup {<<"none", "draft">>} :
            /\ server' = [server EXCEPT !.bots[b] = m[2]]
            /\ current' = [current EXCEPT ![b] = m[2]]
    BY <1>5 DEF MovedElsewhere
  <2>2. m[2] \in BotStates \ {"none"}
    BY DEF Transitions, BotStates
  <2> QED
    BY <1>1, <2>1, <2>2
<1>6. CASE \E b \in Bots : Reversioned(b)
  BY <1>1, <1>6
<1> QED
  BY <1>2, <1>3, <1>4, <1>5, <1>6 DEF Elsewhere

-----------------------------------------------------------------------------
(* Ids that are free. *)

Numbers == INSTANCE FoldFacts WITH Op <- Over

Ids(rows) == {s.id : s \in rows}

\* The ids a chain has been told of.
Knows(k) == Ids(IF "subs" \in DOMAIN k.got THEN k.got["subs"] ELSE {})
            \cup (IF k.op \in Rowish THEN k.on ELSE {})

Known == Ids(server.subs) \cup Ids(page.shown.subs)
         \cup {page.selected, page.count} \cup page.drawn
         \cup UNION {Knows(chain[c]) : c \in Chains}

Asking(k) == k.op = "subscribe" /\ k.at = "sent"
Subscribing == {c \in Chains : Asking(chain[c])}

\* There is an id for every subscription that was asked for.
RoomForIds == Cardinality(Subscribing) <= Cardinality(FreshIds)

LEMMA GotRows ==
    ASSUME NEW g
    PROVE  Over(g, NoRows)["subs"] = IF "subs" \in DOMAIN g THEN g["subs"] ELSE {}
<1>1. "subs" \in DOMAIN NoRows /\ NoRows["subs"] = {}
  BY DEF NoRows
<1> QED
  BY <1>1 DEF Over

LEMMA FreshAreUnknown ==
    /\ FreshIds = (1..MaxSubs) \ Known
    /\ FreshIds' = (1..MaxSubs) \ Known'
<1>1. \A c \in Chains : Ids(Got(c).subs) \cup Asked(c) = Knows(chain[c])
  <2> TAKE c \in Chains
  <2>1. Got(c).subs = IF "subs" \in DOMAIN chain[c].got THEN chain[c].got["subs"] ELSE {}
    BY GotRows DEF Got
  <2>2. Asked(c) = IF chain[c].op \in Rowish THEN chain[c].on ELSE {}
    BY DEF Asked, Rowish
  <2> QED
    BY <2>1, <2>2 DEF Knows
<1>2. \A c \in Chains : Ids(Got(c)'.subs) \cup Asked(c)' = Knows(chain'[c])
  <2> TAKE c \in Chains
  <2>1. Got(c)'.subs = IF "subs" \in DOMAIN chain'[c].got THEN chain'[c].got["subs"] ELSE {}
    BY GotRows DEF Got
  <2>2. Asked(c)' = IF chain'[c].op \in Rowish THEN chain'[c].on ELSE {}
    BY DEF Asked, Rowish
  <2> QED
    BY <2>1, <2>2 DEF Knows
<1>3. Ids(server.subs \cup page.shown.subs) = Ids(server.subs) \cup Ids(page.shown.subs)
  BY DEF Ids
<1>4. Ids(server'.subs \cup page'.shown.subs) = Ids(server'.subs) \cup Ids(page'.shown.subs)
  BY DEF Ids
<1>5. FreshIds = (1..MaxSubs) \ Known
  BY <1>1, <1>3 DEF FreshIds, Known, Ids
<1>6. FreshIds' = (1..MaxSubs) \ Known'
  BY <1>2, <1>4 DEF FreshIds, Known, Ids
<1> QED
  BY <1>5, <1>6

LEMMA IdleKnows == Knows(Idle) = {} /\ \A v : Knows(Load(v)) = {}
<1>1. /\ Idle.got = << >> /\ Idle.op = "none"
      /\ \A v : Load(v).got = << >> /\ Load(v).op = "load"
  BY DEF Idle, Load
<1>2. DOMAIN << >> = {}
  OBVIOUS
<1> QED
  BY <1>1, <1>2 DEF Knows, Ids, Rowish

LEMMA SentKnows ==
    ASSUME NEW op, NEW x
    PROVE  Knows(Sent(op, x)) = IF op \in Rowish THEN {x} ELSE {}
<1>1. Sent(op, x).got = << >> /\ Sent(op, x).op = op /\ Sent(op, x).on = {x}
  BY DEF Idle, Sent
<1>2. DOMAIN << >> = {}
  OBVIOUS
<1> QED
  BY <1>1, <1>2 DEF Knows, Ids

\* What is told to nobody new, but of N, leaves the rest free.
LEMMA FreshKept ==
    ASSUME NEW N,
           Ids(server'.subs) \subseteq Known \cup N,
           Ids(page'.shown.subs) \subseteq Known \cup N,
           page'.selected \in Known \cup {0}, page'.count \in Known \cup {0},
           page'.drawn \subseteq Known \cup {0},
           \A c \in Chains : Knows(chain'[c]) \subseteq Known
    PROVE  FreshIds \ N \subseteq FreshIds'
<1>1. UNION {Knows(chain'[c]) : c \in Chains} \subseteq Known
  OBVIOUS
<1>2. Known' \subseteq Known \cup N \cup {0}
  BY <1>1 DEF Known
<1>3. 0 \notin 1..MaxSubs
  BY BoundAssumption
<1> QED
  BY <1>2, <1>3, FreshAreUnknown

LEMMA KnownParts ==
    /\ Ids(server.subs) \subseteq Known /\ Ids(page.shown.subs) \subseteq Known
    /\ page.selected \in Known /\ page.count \in Known /\ page.drawn \subseteq Known
    /\ \A c \in Chains : Knows(chain[c]) \subseteq Known
BY DEF Known

\* The steps that tell the page and its chains of nothing new.
LEMMA FreshSameKept ==
    ASSUME SamePage \/ page' = Blank, NEW N,
           Ids(server'.subs) \subseteq Known \cup N,
           \A c \in Chains : Knows(chain'[c]) \subseteq Known
    PROVE  FreshIds \ N \subseteq FreshIds'
<1>1. CASE SamePage
  BY <1>1, KnownParts, FreshKept DEF SamePage
<1>2. CASE page' = Blank
  <2>1. Ids(page'.shown.subs) = {}
    BY <1>2 DEF Ids, Blank, NoRows
  <2> QED
    BY <1>2, <2>1, FreshKept DEF Blank
<1> QED
  BY <1>1, <1>2

LEMMA FinitelyMany ==
    /\ IsFiniteSet(FreshIds) /\ IsFiniteSet(FreshIds')
    /\ \A S \in SUBSET Chains : IsFiniteSet(S)
<1>1. IsFiniteSet(1..MaxSubs) /\ IsFiniteSet(Chains)
  BY BoundAssumption, FS_Interval
<1>2. FreshIds \subseteq 1..MaxSubs /\ FreshIds' \subseteq 1..MaxSubs
  BY FreshAreUnknown
<1> QED
  BY <1>1, <1>2, FS_Subset

LEMMA FreshId ==
    ASSUME FreshIds # {}
    PROVE  Min(FreshIds) \in FreshIds /\ FreshIds \subseteq 1..MaxSubs
<1>1. FreshIds \subseteq 1..MaxSubs /\ FreshIds \subseteq Nat
  BY BoundAssumption, FreshAreUnknown
<1>2. \E n \in FreshIds : \A m \in FreshIds : n <= m
  BY <1>1, Numbers!LeastNatural
<1> QED
  BY <1>1, <1>2 DEF Min

LEMMA OneOut ==
    ASSUME NEW S, IsFiniteSet(S), NEW n
    PROVE  IsFiniteSet(S \ {n}) /\ Cardinality(S \ {n}) >= Cardinality(S) - 1
<1>1. Cardinality(S) \in Nat
  BY FS_CardinalityType
<1>2. CASE n \in S
  <2>1. Cardinality(S \ {n}) = Cardinality(S) - 1 /\ IsFiniteSet(S \ {n})
    BY <1>2, FS_RemoveElement
  <2> QED
    BY <1>1, <2>1
<1>3. CASE n \notin S
  <2>1. S \ {n} = S
    BY <1>3
  <2> QED
    BY <1>1, <2>1
<1> QED
  BY <1>2, <1>3

LEMMA OneMore ==
    ASSUME NEW S, IsFiniteSet(S), NEW n
    PROVE  IsFiniteSet(S \cup {n}) /\ Cardinality(S \cup {n}) <= Cardinality(S) + 1
<1>1. Cardinality(S) \in Nat
  BY FS_CardinalityType
<1>2. CASE n \in S
  <2>1. Cardinality(S \cup {n}) = Cardinality(S) /\ IsFiniteSet(S \cup {n})
    BY <1>2, FS_AddElement
  <2> QED
    BY <1>1, <2>1
<1>3. CASE n \notin S
  <2>1. Cardinality(S \cup {n}) = Cardinality(S) + 1 /\ IsFiniteSet(S \cup {n})
    BY <1>3, FS_AddElement
  <2> QED
    BY <1>1, <2>1
<1> QED
  BY <1>2, <1>3

\* A request less, an id less.
LEMMA RoomLess ==
    ASSUME RoomForIds, NEW c \in Subscribing, NEW n, Subscribing' \subseteq Subscribing \ {c},
           FreshIds \ {n} \subseteq FreshIds'
    PROVE  RoomForIds'
<1>1. Subscribing \subseteq Chains /\ Subscribing' \subseteq Chains
  BY DEF Subscribing
<1>2. IsFiniteSet(FreshIds) /\ IsFiniteSet(FreshIds') /\ IsFiniteSet(Subscribing)
      /\ IsFiniteSet(Subscribing \ {c})
  BY <1>1, FinitelyMany, FS_Subset
<1>3. /\ Cardinality(Subscribing \ {c}) = Cardinality(Subscribing) - 1
      /\ Cardinality(Subscribing') <= Cardinality(Subscribing \ {c})
      /\ Cardinality(Subscribing) \in Nat /\ Cardinality(Subscribing') \in Nat
  BY <1>1, <1>2, FinitelyMany, FS_RemoveElement, FS_Subset, FS_CardinalityType
<1>4. /\ Cardinality(FreshIds \ {n}) >= Cardinality(FreshIds) - 1
      /\ IsFiniteSet(FreshIds \ {n})
  BY <1>2, OneOut
<1>5. /\ Cardinality(FreshIds \ {n}) <= Cardinality(FreshIds')
      /\ Cardinality(FreshIds) \in Nat /\ Cardinality(FreshIds') \in Nat
      /\ Cardinality(FreshIds \ {n}) \in Nat
  BY <1>2, <1>4, FS_Subset, FS_CardinalityType
<1> QED
  BY <1>3, <1>4, <1>5 DEF RoomForIds

LEMMA RoomSame ==
    ASSUME RoomForIds, Subscribing' \subseteq Subscribing, FreshIds \subseteq FreshIds'
    PROVE  RoomForIds'
<1>1. Subscribing \subseteq Chains
  BY DEF Subscribing
<1>2. IsFiniteSet(FreshIds) /\ IsFiniteSet(FreshIds') /\ IsFiniteSet(Subscribing)
      /\ IsFiniteSet(Subscribing')
  BY <1>1, FinitelyMany
<1>3. /\ Cardinality(Subscribing') <= Cardinality(Subscribing)
      /\ Cardinality(FreshIds) <= Cardinality(FreshIds')
      /\ Cardinality(Subscribing) \in Nat /\ Cardinality(Subscribing') \in Nat
      /\ Cardinality(FreshIds) \in Nat /\ Cardinality(FreshIds') \in Nat
  BY <1>2, FS_Subset, FS_CardinalityType
<1> QED
  BY <1>3 DEF RoomForIds

\* An id was left for one more request, or for somebody else.
LEMMA RoomLeft ==
    ASSUME IdsLeft, NEW c, NEW n,
           \/ Subscribing' \subseteq Subscribing \cup {c} /\ FreshIds \subseteq FreshIds'
           \/ Subscribing' \subseteq Subscribing /\ FreshIds \ {n} \subseteq FreshIds'
    PROVE  RoomForIds'
<1>1. Subscribing \subseteq Chains /\ Subscribing' \subseteq Chains
  BY DEF Subscribing
<1>2. IsFiniteSet(FreshIds) /\ IsFiniteSet(FreshIds') /\ IsFiniteSet(Subscribing)
      /\ IsFiniteSet(Subscribing')
  BY <1>1, FinitelyMany
<1>3. /\ Cardinality(Subscribing) \in Nat /\ Cardinality(Subscribing') \in Nat
      /\ Cardinality(FreshIds) \in Nat /\ Cardinality(FreshIds') \in Nat
  BY <1>2, FS_CardinalityType
<1>4. Cardinality(Subscribing) < Cardinality(FreshIds)
  BY DEF IdsLeft, Subscribing, Asking
<1>5. CASE Subscribing' \subseteq Subscribing \cup {c} /\ FreshIds \subseteq FreshIds'
  <2>1. /\ IsFiniteSet(Subscribing \cup {c})
        /\ Cardinality(Subscribing \cup {c}) <= Cardinality(Subscribing) + 1
    BY <1>2, OneMore
  <2>2. /\ Cardinality(Subscribing') <= Cardinality(Subscribing \cup {c})
        /\ Cardinality(FreshIds) <= Cardinality(FreshIds')
        /\ Cardinality(Subscribing \cup {c}) \in Nat
    BY <1>2, <1>5, <2>1, FS_Subset, FS_CardinalityType
  <2> QED
    BY <1>3, <1>4, <2>1, <2>2 DEF RoomForIds
<1>6. CASE Subscribing' \subseteq Subscribing /\ FreshIds \ {n} \subseteq FreshIds'
  <2>1. /\ Cardinality(FreshIds \ {n}) >= Cardinality(FreshIds) - 1
        /\ IsFiniteSet(FreshIds \ {n})
    BY <1>2, OneOut
  <2>2. /\ Cardinality(Subscribing') <= Cardinality(Subscribing)
        /\ Cardinality(FreshIds \ {n}) <= Cardinality(FreshIds')
        /\ Cardinality(FreshIds \ {n}) \in Nat
    BY <1>2, <1>6, <2>1, FS_Subset, FS_CardinalityType
  <2> QED
    BY <1>3, <1>4, <2>1, <2>2 DEF RoomForIds
<1> QED
  BY <1>5, <1>6

-----------------------------------------------------------------------------
(* Types. *)

TypedInv == PageTyped /\ ChainsTyped /\ RoomForIds

LEMMA OutcomesTyped ==
    ASSUME PageTyped, FieldsOK, NEW op, NEW x, NEW t \in Outcomes(op, x),
           op \in {"subscribe", "publish"} => Aim(op, x),
           op = "subscribe" => FreshIds # {}
    PROVE  /\ \A r \in Resources : TypedTable(r, t[r])
           /\ \E l : t.subs \subseteq server.subs \cup {[id |-> Min(FreshIds), listing |-> l]}
           /\ op # "subscribe" => t.subs \subseteq server.subs
<1>1. /\ TableFields(server) /\ \A r \in Resources : TypedTable(r, server[r])
  BY DEF FieldsOK, PageTyped
<1>2. /\ server.subs \in SUBSET SubRows /\ server.listings \in SUBSET Offers
      /\ server.bots \in [Bots -> BotStates]
  BY <1>1 DEF TypedTable, Resources
<1>3. SUFFICES /\ t.subs \in SUBSET SubRows /\ t.listings \in SUBSET Offers
               /\ t.bots \in [Bots -> BotStates]
               /\ \E l : t.subs \subseteq server.subs \cup {[id |-> Min(FreshIds), listing |-> l]}
               /\ op # "subscribe" => t.subs \subseteq server.subs
  BY DEF TypedTable, Resources
<1>4. CASE op = "subscribe"
  <2>1. PICK l : l = x /\ t = [server EXCEPT !.subs = @ \cup Joined(l)]
    BY <1>4 DEF Outcomes
  <2>2. /\ t.subs = server.subs \cup Joined(l)
        /\ t.listings = server.listings /\ t.bots = server.bots
    BY <1>1, <2>1 DEF TableFields, Resources
  <2>3. PICK n : n = Min(FreshIds)
    OBVIOUS
  <2>4. n \in 1..MaxSubs
    BY <1>4, <2>3, FreshId
  <2>5. l \in Offers
    BY <1>4, <2>1 DEF Aim
  <2>6. Joined(l) \subseteq {[id |-> n, listing |-> l]}
    BY <2>3 DEF Joined
  <2>7. [id |-> n, listing |-> l] \in SubRows /\ [id |-> n, listing |-> l].id = n
    BY <2>4, <2>5 DEF SubRows
  <2>8. \A s \in Joined(l) : s \in SubRows /\ s.id = n
    BY <2>6, <2>7
  <2>9. t.subs \subseteq server.subs \cup {[id |-> n, listing |-> l]}
    BY <2>2, <2>6
  <2> QED
    BY <1>2, <1>4, <2>2, <2>3, <2>8, <2>9
<1>5. CASE op = "unsubscribe"
  <2>1. PICK s : t = [server EXCEPT !.subs = @ \ {s}]
    BY <1>5 DEF Outcomes
  <2>2. /\ t.subs = server.subs \ {s}
        /\ t.listings = server.listings /\ t.bots = server.bots
    BY <1>1, <2>1 DEF TableFields, Resources
  <2> QED
    BY <1>1, <1>2, <1>5, <2>2
<1>6. CASE op = "publish"
  <2>1. t = [server EXCEPT !.listings = @ \cup {x}] /\ x \in Bots
    BY <1>6 DEF Outcomes, Aim
  <2>2. /\ t.subs = server.subs
        /\ t.listings = server.listings \cup {x} /\ t.bots = server.bots
    BY <1>1, <2>1 DEF TableFields, Resources
  <2> QED
    BY <1>1, <1>2, <2>1, <2>2 DEF Offers
<1>7. CASE op \in {"replay", "run"}
  <2>1. t = server
    BY <1>7 DEF Outcomes
  <2> QED
    BY <1>1, <1>2, <2>1
<1>8. CASE op \notin {"subscribe", "unsubscribe", "replay", "publish", "run"}
  <2>1. PICK m \in Moves : t = [server EXCEPT !.bots[x] = m[3]]
    BY <1>8 DEF Outcomes
  <2>2. m[3] \in BotStates
    BY DEF Moves, BotStates
  <2>3. /\ t.subs = server.subs /\ t.listings = server.listings
        /\ t.bots = [server.bots EXCEPT ![x] = m[3]]
    BY <1>1, <2>1 DEF TableFields, Resources
  <2> QED
    BY <1>1, <1>2, <2>2, <2>3
<1> QED
  BY <1>4, <1>5, <1>6, <1>7, <1>8

\* A page's button is one of its own operations, about something it shows.
LEMMA ButtonsTyped ==
    ASSUME PageTyped, NEW b \in Buttons
    PROVE  b[1] \in OpsOf(view) \ {"load"} /\ b[1] \in Ops /\ Aim(b[1], b[2])
<1>1. page.shown.subs \in SUBSET SubRows /\ page.shown.listings \in SUBSET Offers
  BY DEF PageTyped, TypedTable, Resources
<1>2. CASE view = "marketplace"
  BY <1>1, <1>2 DEF Buttons, OpsOf, Ops, Aim, Rowish
<1>3. CASE view = "subscriptions"
  <2>1. b[1] \in {"replay", "unsubscribe"} /\ b[2] \in Ids(page.shown.subs)
    BY <1>3 DEF Buttons, Ids
  <2>2. b[2] \in 1..MaxSubs
    BY <1>1, <2>1 DEF Ids, SubRows
  <2> QED
    BY <1>3, <2>1, <2>2 DEF OpsOf, Ops, Aim, Rowish
<1>4. CASE view = "designer"
  <2>1. b[1] \in {"create", "submit", "qualify", "publish"} /\ b[2] \in Bots
    BY <1>4 DEF Buttons, InState, Unmade
  <2> QED
    BY <1>4, <2>1 DEF OpsOf, Ops, Aim, Rowish
<1>5. CASE view \notin {"marketplace", "subscriptions", "designer"}
  <2>1. view = "portfolio" /\ b[1] = "run"
    BY <1>5 DEF Buttons
  <2> QED
    BY <2>1 DEF OpsOf, Ops, Aim, Rowish
<1> QED
  BY <1>2, <1>3, <1>4, <1>5

LEMMA TypedChains ==
    /\ \A v : ChainTyped(Idle, v) /\ ChainTyped(Load(v), v)
    /\ \A b \in Buttons : PageTyped => ChainTyped(Sent(b[1], b[2]), view)
    /\ \A k, l, v, w : ChainTyped(k, v) /\ Forgotten(k, l) => ChainTyped(l, w)
<1>0. DOMAIN << >> = {} /\ \A v : Wants(v) \subseteq Resources
  BY DEF Wants, Resources
<1>1. ASSUME NEW v
      PROVE  ChainTyped(Idle, v)
  <2>1. /\ Idle.op = "none" /\ Idle.at = "idle" /\ Idle.mounted = FALSE
        /\ Idle.got = << >> /\ Idle.left = {}
    BY DEF Idle
  <2> QED
    BY <1>0, <2>1 DEF ChainTyped, Pressed
<1>2. ASSUME NEW v
      PROVE  ChainTyped(Load(v), v)
  <2>1. /\ Load(v).op = "load" /\ Load(v).at = "reading" /\ Load(v).on = {}
        /\ Load(v).got = << >> /\ Load(v).left = Wants(v)
    BY DEF Load, Idle
  <2> QED
    BY <1>0, <2>1 DEF ChainTyped, Pressed, OpsOf, Ops
<1>3. ASSUME NEW b \in Buttons, PageTyped
      PROVE  ChainTyped(Sent(b[1], b[2]), view)
  <2>1. PICK k : k = Sent(b[1], b[2])
    OBVIOUS
  <2>2. /\ k.op = b[1] /\ k.at = "sent" /\ k.on = {b[2]}
        /\ k.got = << >> /\ k.left = {}
    BY <2>1 DEF Sent, Idle
  <2>3. b[1] \in OpsOf(view) \ {"load"} /\ b[1] \in Ops /\ Aim(b[1], b[2])
    BY <1>3, ButtonsTyped
  <2>4. ChainTyped(k, view)
    BY <1>0, <2>2, <2>3 DEF ChainTyped, Pressed
  <2> QED
    BY <2>1, <2>4
<1>4. ASSUME NEW k, NEW l, NEW v, NEW w, ChainTyped(k, v), Forgotten(k, l)
      PROVE  ChainTyped(l, w)
  <2>1. CASE l = Idle
    BY <1>1, <2>1
  <2>2. CASE l # Idle
    BY <1>4, <2>2 DEF Forgotten, ChainTyped, Pressed
  <2> QED
    BY <2>1, <2>2
<1> QED
  BY <1>1, <1>2, <1>3, <1>4

LEMMA ForgottenAsks ==
    ASSUME NEW k, NEW l, Forgotten(k, l)
    PROVE  Knows(l) \subseteq Knows(k) /\ (Asking(l) => Asking(k))
<1>1. CASE l = Idle
  BY <1>1, IdleKnows, IdleFields DEF Asking
<1>2. CASE l # Idle
  BY <1>2 DEF Forgotten, Knows, Asking
<1> QED
  BY <1>1, <1>2

\* The steps of a chain that the server is not changed by.
LEMMA TypedByChain ==
    ASSUME TypedInv, NEW c \in Chains, Alone(c), view' = view, server' = server,
           marks' \subseteq marks \cup Excuses \cup {"refused"},
           ChainTyped(chain'[c], view), Knows(chain'[c]) \subseteq Known,
           Asking(chain'[c]) => Asking(chain[c]),
           page'.shown = [r \in Resources |-> page'.shown[r]],
           \A r \in Resources : TypedTable(r, page'.shown[r]),
           Ids(page'.shown.subs) \subseteq Known,
           page'.selected \in {0, page.selected},
           page'.count \in 0..MaxSubs, page'.count \in Known,
           page'.drawn \subseteq Known \cup {0},
           page'.busy \in {"no", page.busy}
    PROVE  TypedInv'
<1>1. PageTyped'
  BY BoundAssumption DEF TypedInv, PageTyped, Events
<1>2. ChainsTyped'
  BY DEF TypedInv, ChainsTyped, Alone
<1>3. \A d \in Chains : Knows(chain'[d]) \subseteq Known
  BY KnownParts DEF Alone
<1>4. FreshIds \ {} \subseteq FreshIds'
  BY <1>3, KnownParts, FreshKept
<1>5. Subscribing' \subseteq Subscribing
  BY DEF Subscribing, Alone
<1> QED
  BY <1>1, <1>2, <1>4, <1>5, RoomSame DEF TypedInv

\* The same, where the page stays.
LEMMA TypedPageStays ==
    ASSUME TypedInv, NEW c \in Chains, Alone(c), view' = view, server' = server,
           marks' \subseteq marks \cup Excuses \cup {"refused"},
           ChainTyped(chain'[c], view), Knows(chain'[c]) \subseteq Known,
           Asking(chain'[c]) => Asking(chain[c]),
           page'.shown = page.shown, page'.selected \in {0, page.selected},
           page'.count = page.count,
           page'.drawn \subseteq page.drawn \cup {0}, page'.busy \in {"no", page.busy}
    PROVE  TypedInv'
<1>1. PageTyped
  BY DEF TypedInv
<1>2. /\ page'.shown = [r \in Resources |-> page'.shown[r]]
      /\ \A r \in Resources : TypedTable(r, page'.shown[r])
      /\ page'.count \in 0..MaxSubs
  BY <1>1 DEF PageTyped
<1>3. /\ Ids(page'.shown.subs) \subseteq Known /\ page'.count \in Known
      /\ page'.drawn \subseteq Known \cup {0}
  BY KnownParts
<1> QED
  BY <1>2, <1>3, TypedByChain

\* What a request makes of the tables; only a subscription has a new id.
LEMMA ServeRows ==
    ASSUME PageInv, TypedInv, NEW c \in Chains, Serve(c)
    PROVE  /\ \A r \in Resources : TypedTable(r, server'[r])
           /\ \E l : server'.subs \subseteq
                        server.subs \cup {[id |-> Min(FreshIds), listing |-> l]}
           /\ chain[c].op # "subscribe" => server'.subs \subseteq server.subs
           /\ chain[c].op = "subscribe" => FreshIds # {} /\ c \in Subscribing
<1>1. PICK x \in chain[c].on : server' \in Outcomes(chain[c].op, x)
  BY ServeDoes
<1>2. chain[c].at = "sent"
  BY ServeDoes
<1>3. FieldsOK /\ PageTyped /\ ChainTyped(chain[c], view) /\ RoomForIds
  BY DEF PageInv, TypedInv, ChainsTyped
<1>4. Aim(chain[c].op, x)
  BY <1>2, <1>3 DEF ChainTyped, Pressed
<1>5. chain[c].op = "subscribe" => FreshIds # {} /\ c \in Subscribing
  <2> SUFFICES ASSUME chain[c].op = "subscribe"
               PROVE  FreshIds # {} /\ c \in Subscribing
    OBVIOUS
  <2>1. c \in Subscribing
    BY <1>2 DEF Subscribing, Asking
  <2>2. IsFiniteSet(Subscribing) /\ Subscribing \subseteq Chains
    BY FinitelyMany DEF Subscribing
  <2>3. Cardinality(Subscribing) # 0 /\ Cardinality(Subscribing) \in Nat
    BY <2>1, <2>2, FS_EmptySet, FS_CardinalityType
  <2>4. FreshIds = {} => Cardinality(FreshIds) = 0
    BY FS_EmptySet
  <2> QED
    BY <1>3, <2>1, <2>3, <2>4 DEF RoomForIds
<1> QED
  BY <1>1, <1>3, <1>4, <1>5, OutcomesTyped

LEMMA TypedServe ==
    ASSUME PageInv, TypedInv, NEW c \in Chains, Serve(c)
    PROVE  TypedInv'
<1>2. /\ chain[c].at = "sent" /\ Alone(c) /\ SamePage
      /\ chain[c].mounted =>
            /\ GoesOn(chain[c], chain'[c]) /\ chain'[c].at = "ok"
            /\ chain'[c].got = chain[c].got /\ chain'[c].left = chain[c].left
            /\ marks' = marks
      /\ ~chain[c].mounted => chain'[c] = Idle /\ marks' = marks \cup {"disturbed"}
  BY ServeDoes
<1>3. FieldsOK /\ PageTyped /\ ChainTyped(chain[c], view) /\ RoomForIds
  BY DEF PageInv, TypedInv, ChainsTyped
<1>5. chain[c].op = "subscribe" => FreshIds # {} /\ c \in Subscribing
  BY ServeRows
<1>6. /\ \A r \in Resources : TypedTable(r, server'[r])
      /\ Ids(server'.subs) \subseteq Known \cup {Min(FreshIds)}
      /\ chain[c].op # "subscribe" => Ids(server'.subs) \subseteq Known
  BY ServeRows, KnownParts DEF Ids
<1>7. PageTyped'
  BY <1>2, <1>3, <1>6 DEF PageTyped, SamePage, Excuses
<1>8. /\ ChainTyped(chain'[c], view) /\ Knows(chain'[c]) \subseteq Known
      /\ ~Asking(chain'[c])
  <2>1. CASE chain[c].mounted
    <3>1. Knows(chain'[c]) = Knows(chain[c])
      BY <1>2, <2>1 DEF GoesOn, Knows
    <3>2. ChainTyped(chain'[c], view)
      BY <1>2, <1>3, <2>1 DEF GoesOn, ChainTyped, Pressed
    <3> QED
      BY <1>2, <2>1, <3>1, <3>2, KnownParts DEF Asking
  <2>2. CASE ~chain[c].mounted
    BY <1>2, <2>2, TypedChains, IdleKnows, IdleFields DEF Asking
  <2> QED
    BY <2>1, <2>2
<1>9. ChainsTyped'
  BY <1>2, <1>8 DEF TypedInv, ChainsTyped, Alone, SamePage
<1>10. \A d \in Chains : Knows(chain'[d]) \subseteq Known
  BY <1>2, <1>8, KnownParts DEF Alone
<1>11. Subscribing' \subseteq Subscribing \ {c}
  BY <1>2, <1>8 DEF Subscribing, Alone
<1>12. RoomForIds'
  <2>1. CASE chain[c].op = "subscribe"
    <3>1. FreshIds \ {Min(FreshIds)} \subseteq FreshIds'
      BY <1>2, <1>6, <1>10, FreshSameKept
    <3> QED
      BY <1>3, <1>5, <1>11, <2>1, <3>1, RoomLess
  <2>2. CASE chain[c].op # "subscribe"
    <3>1. FreshIds \ {} \subseteq FreshIds'
      BY <1>2, <1>6, <1>10, <2>2, FreshSameKept
    <3> QED
      BY <1>3, <1>11, <3>1, RoomSame
  <2> QED
    BY <2>1, <2>2
<1> QED
  BY <1>7, <1>9, <1>12 DEF TypedInv

LEMMA TypedRefuse ==
    ASSUME PageInv, TypedInv, NEW c \in Chains, Refuse(c)
    PROVE  TypedInv'
<1>1. /\ chain[c].at = "sent" /\ Alone(c) /\ SamePage /\ server' = server
      /\ chain[c].mounted =>
            /\ GoesOn(chain[c], chain'[c]) /\ chain'[c].at = "refused"
            /\ chain'[c].got = chain[c].got /\ chain'[c].left = chain[c].left
      /\ ~chain[c].mounted => chain'[c] = Idle
      /\ marks' \subseteq marks \cup {"refused"}
  BY RefuseDoes
<1>2. /\ ChainTyped(chain'[c], view) /\ Knows(chain'[c]) \subseteq Known
      /\ ~Asking(chain'[c])
  <2>1. CASE chain[c].mounted
    <3>1. Knows(chain'[c]) = Knows(chain[c])
      BY <1>1, <2>1 DEF GoesOn, Knows
    <3>2. ChainTyped(chain'[c], view)
      BY <1>1, <2>1 DEF GoesOn, ChainTyped, Pressed, TypedInv, ChainsTyped
    <3> QED
      BY <1>1, <2>1, <3>1, <3>2, KnownParts DEF Asking
  <2>2. CASE ~chain[c].mounted
    BY <1>1, <2>2, TypedChains, IdleKnows, IdleFields DEF Asking
  <2> QED
    BY <2>1, <2>2
<1> QED
  BY <1>1, <1>2, TypedPageStays DEF SamePage

LEMMA TypedEnd ==
    ASSUME PageInv, TypedInv, NEW c \in Chains,
           Refused(c) \/ Shown(c) \/ Vanish(c) \/ Fail(c)
    PROVE  TypedInv'
<1>1. /\ ChainTyped(Idle, view) /\ Knows(Idle) \subseteq Known /\ ~Asking(Idle)
  BY TypedChains, IdleKnows, IdleFields DEF Asking
<1>2. \A op : Released(op) \in {"no", page.busy}
  BY DEF Released
<1>3. CASE Refused(c)
  BY <1>1, <1>2, <1>3, RefusedDoes, TypedPageStays
<1>4. CASE Vanish(c)
  BY <1>1, <1>4, VanishDoes, TypedPageStays DEF SamePage
<1>5. CASE Fail(c)
  <2>1. /\ Forgotten(chain[c], chain'[c]) /\ marks' = marks \cup {"disturbed"}
    BY <1>5, FailDoes
  <2>2. /\ ChainTyped(chain'[c], view) /\ Knows(chain'[c]) \subseteq Known
        /\ Asking(chain'[c]) => Asking(chain[c])
    BY <2>1, TypedChains, ForgottenAsks, KnownParts DEF TypedInv, ChainsTyped
  <2> QED
    BY <1>2, <1>5, <2>1, <2>2, FailDoes, TypedPageStays DEF Excuses
<1>6. CASE Shown(c)
  <2>1. /\ chain[c].mounted /\ chain[c].at = "ok" /\ chain[c].op \notin Refreshes
        /\ Alone(c) /\ chain'[c] = Idle
        /\ server' = server /\ view' = view /\ marks' = marks
        /\ page'.busy = Released(chain[c].op) /\ page'.shown = page.shown
        /\ page'.selected = page.selected
        /\ page'.count = IF chain[c].op = "replay" THEN One(chain[c].on) ELSE page.count
        /\ page'.drawn = IF chain[c].op = "replay" THEN chain[c].on
                         ELSE IF chain[c].op = "run" THEN {0} ELSE page.drawn
    BY <1>6, ShownDoes
  <2>2. CASE chain[c].op # "replay"
    BY <1>1, <1>2, <2>1, <2>2, TypedPageStays
  <2>3. CASE chain[c].op = "replay"
    <3>1. PICK x : chain[c].on = {x} /\ Aim("replay", x)
      BY <2>1, <2>3 DEF TypedInv, ChainsTyped, ChainTyped, Pressed
    <3>2. One(chain[c].on) = x
      BY <3>1, OneOf
    <3>3. x \in 1..MaxSubs /\ x \in Known
      BY <2>3, <3>1, KnownParts DEF Aim, Rowish, Knows
    <3>4. page'.count = x /\ page'.drawn = {x}
      BY <2>1, <2>3, <3>1, <3>2
    <3>5. /\ page.shown = [r \in Resources |-> page.shown[r]]
          /\ \A r \in Resources : TypedTable(r, page.shown[r])
      BY DEF TypedInv, PageTyped
    <3>6. x \in 0..MaxSubs
      BY <3>3, BoundAssumption
    <3>7. Ids(page'.shown.subs) \subseteq Known
      BY <2>1, KnownParts
    <3> QED
      BY <1>1, <1>2, <2>1, <3>3, <3>4, <3>5, <3>6, <3>7, TypedByChain
  <2> QED
    BY <2>2, <2>3
<1> QED
  BY <1>3, <1>4, <1>5, <1>6

LEMMA TypedStartRefresh ==
    ASSUME PageInv, TypedInv, NEW c \in Chains, StartRefresh(c)
    PROVE  TypedInv'
<1>1. /\ chain[c].at = "ok" /\ Alone(c) /\ server' = server /\ view' = view
      /\ GoesOn(chain[c], chain'[c]) /\ chain'[c].at = "reading"
      /\ chain'[c].got = chain[c].got /\ chain'[c].left = Wants(view)
      /\ page'.shown = page.shown /\ page'.count = page.count /\ page'.busy = page.busy
      /\ page'.selected = IF chain[c].clears THEN 0 ELSE page.selected
      /\ page'.drawn = IF chain[c].clears THEN {} ELSE page.drawn
      /\ marks' \subseteq marks \cup Excuses
  BY StartRefreshDoes DEF Excuses
<1>2. Wants(view) \subseteq Resources
  BY DEF Wants, Resources
<1>3. ChainTyped(chain'[c], view)
  BY <1>1, <1>2 DEF GoesOn, ChainTyped, Pressed, TypedInv, ChainsTyped
<1>4. Knows(chain'[c]) = Knows(chain[c]) /\ ~Asking(chain'[c])
  BY <1>1 DEF GoesOn, Knows, Asking
<1> QED
  BY <1>1, <1>3, <1>4, KnownParts, TypedPageStays

LEMMA TypedRead ==
    ASSUME PageInv, TypedInv, NEW c \in Chains, NEW r \in Resources, Read(c, r)
    PROVE  TypedInv'
<1>1. /\ chain[c].at = "reading" /\ Alone(c) /\ server' = server /\ SamePage
      /\ GoesOn(chain[c], chain'[c]) /\ chain'[c].at = "reading"
      /\ chain'[c].left \subseteq chain[c].left
      /\ marks' \subseteq marks \cup Excuses
      /\ \/ chain'[c].got = Over([x \in {r} |-> server[x]], chain[c].got)
         \/ chain'[c].got = chain[c].got
  BY ReadDoes DEF Excuses
<1>2. ChainTyped(chain[c], view) /\ PageTyped
  BY DEF TypedInv, ChainsTyped
<1>3. /\ DOMAIN chain'[c].got \subseteq DOMAIN chain[c].got \cup {r}
      /\ \A x \in DOMAIN chain'[c].got :
            \/ x \in DOMAIN chain[c].got /\ chain'[c].got[x] = chain[c].got[x]
            \/ x = r /\ chain'[c].got[x] = server[r]
  <2>1. CASE chain'[c].got = Over([x \in {r} |-> server[x]], chain[c].got)
    <3>1. PICK f : f = [x \in {r} |-> server[x]]
      OBVIOUS
    <3>2. DOMAIN f = {r} /\ f[r] = server[r]
      BY <3>1
    <3>3. PICK g, h : g = chain[c].got /\ h = chain'[c].got /\ h = Over(f, g)
      BY <2>1, <3>1
    <3>4. /\ DOMAIN h = DOMAIN f \cup DOMAIN g
          /\ \A x \in DOMAIN f : h[x] = f[x]
          /\ \A x \in DOMAIN g \ DOMAIN f : h[x] = g[x]
      BY <3>3 DEF Over
    <3> QED
      BY <3>2, <3>3, <3>4
  <2>2. CASE chain'[c].got = chain[c].got
    BY <2>2
  <2> QED
    BY <1>1, <2>1, <2>2
<1>4. ChainTyped(chain'[c], view)
  BY <1>1, <1>2, <1>3 DEF GoesOn, ChainTyped, Pressed, PageTyped
<1>5. Knows(chain'[c]) \subseteq Known
  <2>1. Knows(chain'[c]) \subseteq Knows(chain[c]) \cup Ids(server.subs)
    BY <1>1, <1>3 DEF GoesOn, Knows, Ids
  <2> QED
    BY <2>1, KnownParts
<1>6. ~Asking(chain'[c])
  BY <1>1 DEF Asking
<1> QED
  BY <1>1, <1>4, <1>5, <1>6, TypedPageStays DEF SamePage

LEMMA TypedRefreshed ==
    ASSUME PageInv, TypedInv, NEW c \in Chains, Refreshed(c)
    PROVE  TypedInv'
<1>1. /\ Alone(c) /\ chain'[c] = Idle
      /\ server' = server /\ view' = view /\ marks' = marks
      /\ page'.shown = Over(chain[c].got, page.shown)
      /\ page'.busy \in {"no", page.busy}
      /\ page'.selected = page.selected /\ page'.count = page.count
      /\ page'.drawn = page.drawn
  BY RefreshedDoes DEF Released
<1>2. /\ ChainTyped(Idle, view) /\ Knows(Idle) \subseteq Known /\ ~Asking(Idle)
  BY TypedChains, IdleKnows, IdleFields DEF Asking
<1>3. ChainTyped(chain[c], view) /\ PageTyped
  BY DEF TypedInv, ChainsTyped
<1>4. DOMAIN page.shown = Resources /\ DOMAIN chain[c].got \subseteq Resources
  BY <1>3 DEF PageTyped, ChainTyped
<1>5. /\ DOMAIN page'.shown = Resources
      /\ \A r \in Resources :
            \/ r \in DOMAIN chain[c].got /\ page'.shown[r] = chain[c].got[r]
            \/ page'.shown[r] = page.shown[r]
  <2>1. PICK f, g, h : f = chain[c].got /\ g = page.shown /\ h = page'.shown
    OBVIOUS
  <2>2. /\ DOMAIN h = DOMAIN f \cup DOMAIN g
        /\ \A x \in DOMAIN f : h[x] = f[x]
        /\ \A x \in DOMAIN g \ DOMAIN f : h[x] = g[x]
    <3>1. h = Over(f, g)
      BY <1>1, <2>1
    <3> QED
      BY <3>1 DEF Over
  <2> QED
    BY <1>4, <2>1, <2>2
<1>6. page'.shown = [r \in Resources |-> page'.shown[r]]
  BY <1>1, <1>4 DEF Over
<1>7. \A r \in Resources : TypedTable(r, page'.shown[r])
  BY <1>3, <1>5 DEF PageTyped, ChainTyped
<1>8. Ids(page'.shown.subs) \subseteq Known
  <2>1. Ids(page'.shown.subs) \subseteq Knows(chain[c]) \cup Ids(page.shown.subs)
    BY <1>5 DEF Knows, Resources
  <2> QED
    BY <2>1, KnownParts
<1>9. page.count \in 0..MaxSubs
  BY <1>3 DEF PageTyped
<1> QED
  BY <1>1, <1>2, <1>6, <1>7, <1>8, <1>9, KnownParts, TypedByChain

LEMMA TypedClick ==
    ASSUME PageInv, TypedInv, Click
    PROVE  TypedInv'
<1>1. PICK c \in Chains, b \in Buttons :
        /\ chain[c] = Idle /\ Alone(c)
        /\ chain'[c] = Sent(b[1], b[2])
        /\ b[1] = "subscribe" => IdsLeft
        /\ server' = server /\ view' = view
        /\ page'.shown = page.shown /\ page'.drawn = page.drawn
        /\ page'.selected = IF b[1] = "replay" THEN b[2] ELSE page.selected
        /\ page'.count = IF b[1] = "replay" THEN 0 ELSE page.count
        /\ page'.busy = IF b[1] = "subscribe" THEN b[2]
                        ELSE IF b[1] \in Waits THEN "yes" ELSE page.busy
        /\ marks' \subseteq marks \cup Events
  BY ClickDoes DEF Events
<1>2. PageTyped /\ ChainsTyped /\ RoomForIds
  BY DEF TypedInv
<1>3. b[1] \in OpsOf(view) \ {"load"} /\ b[1] \in Ops /\ Aim(b[1], b[2])
  BY <1>2, ButtonsTyped
<1>4. /\ b[1] = "subscribe" => b[2] \in Offers /\ view = "marketplace"
      /\ b[1] \in Waits \ {"subscribe"} => view # "marketplace"
      /\ b[1] \in Rowish => b[2] \in 1..MaxSubs /\ view = "subscriptions"
  BY <1>3 DEF OpsOf, Aim, Waits, Rowish
<1>5. b[1] \in Rowish => b[2] \in Known
  <2> SUFFICES ASSUME b[1] \in Rowish
               PROVE  b[2] \in Known
    OBVIOUS
  <2>1. b[2] \in Ids(page.shown.subs)
    BY <1>4 DEF Buttons, Ids
  <2> QED
    BY <2>1, KnownParts
<1>6. PageTyped'
  <2>1. page'.busy \in IF view = "marketplace" THEN {"no"} \cup Offers ELSE {"no", "yes"}
    BY <1>1, <1>2, <1>4 DEF PageTyped
  <2>2. page'.selected \in 0..MaxSubs /\ page'.count \in 0..MaxSubs
    BY <1>1, <1>2, <1>4, BoundAssumption DEF PageTyped, Rowish
  <2> QED
    BY <1>1, <1>2, <2>1, <2>2 DEF PageTyped
<1>7. ChainsTyped'
  BY <1>1, <1>2, TypedChains DEF ChainsTyped, Alone
<1>8. Knows(chain'[c]) \subseteq Known
  BY <1>1, <1>5, SentKnows
<1>9. \A d \in Chains : Knows(chain'[d]) \subseteq Known
  BY <1>1, <1>8, KnownParts DEF Alone
<1>10. FreshIds \ {} \subseteq FreshIds'
  <2>1. page'.selected \in Known \cup {0} /\ page'.count \in Known \cup {0}
    BY <1>1, <1>5, KnownParts DEF Rowish
  <2> QED
    BY <1>1, <1>9, <2>1, KnownParts, FreshKept
<1>11. Asking(chain'[c]) <=> b[1] = "subscribe"
  BY <1>1, IdleFields DEF Asking
<1>12. RoomForIds'
  <2>1. CASE b[1] = "subscribe"
    <3>1. Subscribing' \subseteq Subscribing \cup {c}
      BY <1>1 DEF Subscribing, Alone
    <3> QED
      BY <1>1, <1>10, <2>1, <3>1, RoomLeft
  <2>2. CASE b[1] # "subscribe"
    <3>1. Subscribing' \subseteq Subscribing
      BY <1>1, <1>11, <2>2 DEF Subscribing, Alone
    <3> QED
      BY <1>2, <1>10, <3>1, RoomSame
  <2> QED
    BY <2>1, <2>2
<1> QED
  BY <1>6, <1>7, <1>12 DEF TypedInv

\* The same of what happens elsewhere.
LEMMA ElsewhereRows ==
    ASSUME PageInv, TypedInv, Elsewhere
    PROVE  /\ \A r \in Resources : TypedTable(r, server'[r])
           /\ \/ server'.subs \subseteq server.subs
              \/ /\ IdsLeft /\ FreshIds # {}
                 /\ \E l : server'.subs \subseteq
                                server.subs \cup {[id |-> Min(FreshIds), listing |-> l]}
<1>2. PageTyped /\ FieldsOK /\ TableFields(server)
  BY DEF TypedInv, PageInv, FieldsOK
<1>3. /\ server.listings \in SUBSET Offers /\ server.subs \in SUBSET SubRows
      /\ server.bots \in [Bots -> BotStates]
  BY <1>2 DEF PageTyped, TypedTable, Resources
<1>4. CASE \E s \in SUBSET (server.listings \cup Listings) :
                server' = [server EXCEPT !.listings = s]
  <2>1. PICK s \in SUBSET (server.listings \cup Listings) :
            server' = [server EXCEPT !.listings = s]
    BY <1>4
  <2>2. server'.listings = s /\ server'.subs = server.subs /\ server'.bots = server.bots
    BY <1>2, <2>1 DEF TableFields, Resources
  <2>3. s \in SUBSET Offers
    BY <1>3 DEF Offers
  <2> QED
    BY <1>3, <2>2, <2>3 DEF TypedTable, Resources
<1>5. CASE \E b \in Bots, s \in BotStates \ {"none"} : server' = [server EXCEPT !.bots[b] = s]
  <2>1. PICK b \in Bots, s \in BotStates : server' = [server EXCEPT !.bots[b] = s]
    BY <1>5
  <2>2. /\ server'.listings = server.listings /\ server'.subs = server.subs
        /\ server'.bots = [server.bots EXCEPT ![b] = s]
    BY <1>2, <2>1 DEF TableFields, Resources
  <2>3. server'.bots \in [Bots -> BotStates]
    BY <1>3, <2>2
  <2> QED
    BY <1>3, <2>2, <2>3 DEF TypedTable, Resources
<1>6. CASE \E b \in Bots : Reversioned(b)
  BY <1>2, <1>6 DEF Reversioned, PageTyped
<1>7. CASE \E op, x : op # "subscribe" /\ server' \in Outcomes(op, x)
                      /\ (op = "publish" => x \in Bots)
  <2>1. PICK op, x : op # "subscribe" /\ server' \in Outcomes(op, x)
                     /\ (op = "publish" => x \in Bots)
    BY <1>7
  <2>2. op \in {"subscribe", "publish"} => Aim(op, x)
    BY <2>1 DEF Aim, Rowish
  <2> QED
    BY <1>2, <2>1, <2>2, OutcomesTyped
<1>8. CASE \E l \in server.listings : IdsLeft /\ server' \in Outcomes("subscribe", l)
  <2>1. PICK l \in server.listings : IdsLeft /\ server' \in Outcomes("subscribe", l)
    BY <1>8
  <2>2. Aim("subscribe", l)
    BY <1>3 DEF Aim, Rowish
  <2>3. FreshIds # {}
    <3> SUFFICES ASSUME FreshIds = {}
                 PROVE  FALSE
      OBVIOUS
    <3>1. Cardinality(FreshIds) = 0
      BY FS_EmptySet
    <3>2. IsFiniteSet(Subscribing)
      BY FinitelyMany DEF Subscribing
    <3>3. Cardinality(Subscribing) \in Nat
      BY <3>2, FS_CardinalityType
    <3> QED
      BY <2>1, <3>1, <3>3 DEF IdsLeft, Subscribing, Asking
  <2> QED
    BY <1>2, <2>1, <2>2, <2>3, OutcomesTyped
<1>9. /\ (\E x : server' \in Outcomes("unsubscribe", x)) =>
            \E op, x : op # "subscribe" /\ server' \in Outcomes(op, x)
                       /\ (op = "publish" => x \in Bots)
      /\ (\E b \in Bots : server' \in Outcomes("publish", b)) =>
            \E op, x : op # "subscribe" /\ server' \in Outcomes(op, x)
                       /\ (op = "publish" => x \in Bots)
  OBVIOUS
<1> QED
  BY <1>4, <1>5, <1>6, <1>7, <1>8, <1>9, ElsewhereDoes

LEMMA TypedElsewhere ==
    ASSUME PageInv, TypedInv, Elsewhere
    PROVE  TypedInv'
<1>1. SamePage /\ chain' = chain /\ marks' = marks \cup {"disturbed"}
  BY ElsewhereDoes
<1>2. PageTyped /\ ChainsTyped /\ RoomForIds
  BY DEF TypedInv
<1>3. PageTyped' /\ ChainsTyped'
  BY <1>1, <1>2, ElsewhereRows DEF PageTyped, ChainsTyped, SamePage, Excuses
<1>4. Subscribing' \subseteq Subscribing
  BY <1>1 DEF Subscribing
<1>5. CASE Ids(server'.subs) \subseteq Ids(server.subs)
  <2>1. FreshIds \ {} \subseteq FreshIds'
    BY <1>1, <1>5, KnownParts, FreshSameKept
  <2> QED
    BY <1>2, <1>3, <1>4, <2>1, RoomSame DEF TypedInv
<1>6. CASE /\ IdsLeft /\ FreshIds # {}
           /\ Ids(server'.subs) \subseteq Ids(server.subs) \cup {Min(FreshIds)}
  <2>1. FreshIds \ {Min(FreshIds)} \subseteq FreshIds'
    BY <1>1, <1>6, KnownParts, FreshSameKept
  <2>2. RoomForIds'
    BY <1>4, <1>6, <2>1, RoomLeft
  <2> QED
    BY <1>3, <2>2 DEF TypedInv
<1> QED
  BY <1>5, <1>6, ElsewhereRows DEF Ids

LEMMA TypedNavigate ==
    ASSUME PageInv, TypedInv, NEW v \in Views, Navigate(v)
    PROVE  TypedInv'
<1>1. /\ server' = server /\ view' = v /\ page' = Blank /\ marks' = {}
  BY NavigateDoes
<1>2. \A c \in Chains : chain'[c] = Load(v) \/ Forgotten(chain[c], chain'[c])
  BY NavigateDoes
<1>3. PageTyped /\ ChainsTyped /\ RoomForIds
  BY DEF TypedInv
<1>4. \A c \in Chains : ChainTyped(chain'[c], v)
  BY <1>2, <1>3, TypedChains DEF ChainsTyped
<1>5. \A c \in Chains : Knows(chain'[c]) \subseteq Known
  BY <1>2, IdleKnows, ForgottenAsks, KnownParts
<1>6. Subscribing' \subseteq Subscribing
  BY <1>2, IdleFields, ForgottenAsks DEF Subscribing, Asking
<1>7. FreshIds \ {} \subseteq FreshIds'
  BY <1>1, <1>5, KnownParts, FreshSameKept
<1>8. PageTyped'
  <2>1. /\ NoRows = [r \in Resources |-> NoRows[r]]
        /\ \A r \in Resources : TypedTable(r, NoRows[r])
    BY DEF NoRows, Resources, TypedTable, BotStates
  <2>2. /\ page'.shown = NoRows /\ page'.selected = 0 /\ page'.count = 0
        /\ page'.busy = "no"
    BY <1>1 DEF Blank
  <2> QED
    BY <1>1, <1>3, <2>1, <2>2, BoundAssumption DEF PageTyped
<1> QED
  BY <1>1, <1>3, <1>4, <1>6, <1>7, <1>8, RoomSame DEF TypedInv, ChainsTyped

LEMMA TypedInit == ASSUME Init PROVE TypedInv
<1>1. /\ \A c \in Chains : chain[c] = Idle
      /\ view = Home /\ page = Blank /\ marks = {}
      /\ server = [subs |-> {}, listings |-> Listings, bots |-> NoRows.bots]
  BY DEF Init
<1>2. PageTyped
  <2>1. /\ NoRows = [r \in Resources |-> NoRows[r]]
        /\ \A r \in Resources : TypedTable(r, NoRows[r])
    BY DEF NoRows, Resources, TypedTable, BotStates
  <2>2. /\ page.shown = NoRows /\ page.selected = 0 /\ page.count = 0
        /\ page.busy = "no"
    BY <1>1 DEF Blank
  <2>3. \A r \in Resources : TypedTable(r, server[r])
    BY <1>1 DEF NoRows, Resources, TypedTable, BotStates, Offers
  <2> QED
    BY <1>1, <2>1, <2>2, <2>3, BoundAssumption, HomeAssumption DEF PageTyped
<1>3. ChainsTyped
  BY <1>1, TypedChains DEF ChainsTyped
<1>4. RoomForIds
  <2>1. Subscribing = {}
    BY <1>1, IdleFields DEF Subscribing, Asking
  <2>2. Cardinality(Subscribing) = 0
    BY <2>1, FS_EmptySet
  <2>3. Cardinality(FreshIds) \in Nat
    BY FinitelyMany, FS_CardinalityType
  <2> QED
    BY <2>2, <2>3 DEF RoomForIds
<1> QED
  BY <1>2, <1>3, <1>4 DEF TypedInv

LEMMA TypedStutter == ASSUME TypedInv, UNCHANGED vars PROVE TypedInv'
<1>1. PageTyped' /\ ChainsTyped'
  BY DEF vars, TypedInv, PageTyped, ChainsTyped
<1>2. Subscribing' \subseteq Subscribing
  BY DEF vars, Subscribing
<1>3. FreshIds \ {} \subseteq FreshIds'
  BY KnownParts, FreshSameKept DEF vars, SamePage
<1> QED
  BY <1>1, <1>2, <1>3, RoomSame DEF TypedInv

LEMMA TypedNext == ASSUME PageInv, TypedInv, [Next]_vars PROVE TypedInv'
<1>1. CASE Elsewhere \/ Click \/ \E v \in Views : Navigate(v)
  BY <1>1, TypedElsewhere, TypedClick, TypedNavigate
<1>2. ASSUME NEW c \in Chains, Progress(c) \/ Fail(c) \/ Vanish(c)
      PROVE  TypedInv'
  <2>1. CASE Serve(c) \/ Refuse(c) \/ Refused(c) \/ Shown(c) \/ Vanish(c) \/ Fail(c)
    BY <2>1, TypedServe, TypedRefuse, TypedEnd
  <2>2. CASE StartRefresh(c) \/ (\E r \in Resources : Read(c, r)) \/ Refreshed(c)
    BY <2>2, TypedStartRefresh, TypedRead, TypedRefreshed
  <2> QED
    BY <1>2, <2>1, <2>2 DEF Progress
<1>3. CASE UNCHANGED vars
  BY <1>3, TypedStutter
<1> QED
  BY <1>1, <1>2, <1>3 DEF Next

\* A step brings at most one subscription, under an id nobody knows of.
LEMMA RowsChange ==
    ASSUME PageInv, TypedInv, [Next]_vars
    PROVE  \/ server'.subs \subseteq server.subs
           \/ /\ Min(FreshIds) \notin Known
              /\ \E l : server'.subs \subseteq
                            server.subs \cup {[id |-> Min(FreshIds), listing |-> l]}
<1>1. FreshIds # {} => Min(FreshIds) \notin Known
  BY FreshId, FreshAreUnknown
<1>2. CASE \E c \in Chains : Serve(c)
  BY <1>1, <1>2, ServeRows
<1>3. CASE Elsewhere
  BY <1>1, <1>3, ElsewhereRows
<1>4. \/ Elsewhere \/ server' = server
      \/ \E c \in Chains : Serve(c)
  BY DEF Next, vars, Progress, Click, Navigate, Refuse, Refused, Shown, StartRefresh, Read,
         Refreshed, Fail, Vanish
<1> QED
  BY <1>2, <1>3, <1>4

\* A row that somebody knows of and that is gone does not come back.
NoRow(y) == y \notin Ids(server.subs)

LEMMA RowsStayGone ==
    ASSUME PageInv, TypedInv, [Next]_vars, NEW y \in Known, NoRow(y)
    PROVE  NoRow(y)'
BY RowsChange DEF NoRow, Ids

\* Two subscriptions have two ids.
IdsDiffer == \A s, u \in server.subs : s.id = u.id => s = u

LEMMA IdsDifferNext ==
    ASSUME PageInv, TypedInv, IdsDiffer, [Next]_vars
    PROVE  IdsDiffer'
<1>1. \A s \in server.subs : s.id \in Known
  BY KnownParts DEF Ids
<1> QED
  BY <1>1, RowsChange DEF IdsDiffer

-----------------------------------------------------------------------------
(* Bots and their current versions. *)

\* There is a current version of every bot made, and of no other.
MirrorInv ==
    /\ current \in [Bots -> BotStates]
    /\ \A b \in Bots : current[b] = "none" <=> server["bots"][b] = "none"

LEMMA OutcomesMirror ==
    ASSUME FieldsOK, NEW op, NEW x, NEW t \in Outcomes(op, x)
    PROVE  IF op \in {"create", "submit", "qualify"}
           THEN \E m \in Moves : /\ m[1] = op /\ m[2] = current[x]
                                 /\ t["bots"] = [server["bots"] EXCEPT ![x] = m[3]]
           ELSE t["bots"] = server["bots"]
<1>1. TableFields(server)
  BY DEF FieldsOK
<1>2. CASE op = "subscribe"
  <2>1. PICK l : t = [server EXCEPT !.subs = @ \cup Joined(l)]
    BY <1>2 DEF Outcomes
  <2> QED
    BY <1>1, <1>2, <2>1 DEF TableFields, Resources
<1>3. CASE op = "unsubscribe"
  <2>1. PICK s \in server["subs"] : t = [server EXCEPT !.subs = @ \ {s}]
    BY <1>3 DEF Outcomes
  <2> QED
    BY <1>1, <1>3, <2>1 DEF TableFields, Resources
<1>4. CASE op \in {"replay", "run", "publish"}
  BY <1>4, OutcomesAreTables
<1>5. CASE op \notin {"subscribe", "unsubscribe", "replay", "run", "publish"}
  <2>1. PICK m \in Moves : /\ m[1] = op /\ m[2] = current[x]
                           /\ t = [server EXCEPT !.bots[x] = m[3]]
    BY <1>5 DEF Outcomes
  <2>2. t["bots"] = [server["bots"] EXCEPT ![x] = m[3]]
    BY <1>1, <2>1 DEF TableFields, Resources
  <2>3. op \in {"create", "submit", "qualify"}
    BY <2>1 DEF Moves
  <2> QED
    BY <2>1, <2>2, <2>3
<1> QED
  BY <1>2, <1>3, <1>4, <1>5

LEMMA MirrorNext ==
    ASSUME PageInv, TypedInv, MirrorInv, [Next]_vars
    PROVE  MirrorInv'
<1>1. FieldsOK /\ TableFields(server) /\ server["bots"] \in [Bots -> BotStates]
  BY DEF PageInv, FieldsOK, TypedInv, PageTyped, TypedTable, Resources
<1>2. CASE current' = current /\ server'["bots"] = server["bots"]
  BY <1>2 DEF MirrorInv
<1>3. ASSUME NEW b \in Bots, NEW s \in BotStates \ {"none"},
             server'["bots"] = [server["bots"] EXCEPT ![b] = s],
             current' = [current EXCEPT ![b] = s]
      PROVE  MirrorInv'
  BY <1>1, <1>3 DEF MirrorInv
<1>4. ASSUME NEW c \in Chains, Serve(c)
      PROVE  MirrorInv'
  <2>1. PICK x \in chain[c].on : /\ server' \in Outcomes(chain[c].op, x)
                                 /\ current' = Mirrored(chain[c].op, x, server')
    BY <1>4, ServeDoes
  <2>2. Aim(chain[c].op, x)
    <3>1. chain[c].at = "sent"
      BY <1>4, ServeDoes
    <3> QED
      BY <3>1 DEF TypedInv, ChainsTyped, ChainTyped, Pressed
  <2>3. CASE chain[c].op \in {"create", "submit", "qualify"}
    <3>1. PICK m \in Moves : server'["bots"] = [server["bots"] EXCEPT ![x] = m[3]]
      BY <1>1, <2>1, <2>3, OutcomesMirror
    <3>2. m[3] \in BotStates \ {"none"} /\ x \in Bots
      BY <2>2, <2>3 DEF Moves, BotStates, Aim
    <3>3. server'["bots"][x] = m[3]
      BY <1>1, <3>1, <3>2
    <3>4. current' = [current EXCEPT ![x] = m[3]]
      BY <2>1, <2>3, <3>3 DEF Mirrored
    <3> QED
      BY <1>3, <3>1, <3>2, <3>4
  <2>4. CASE chain[c].op \notin {"create", "submit", "qualify"}
    <3>1. server'["bots"] = server["bots"]
      BY <1>1, <2>1, <2>4, OutcomesMirror
    <3>2. current' = current
      BY <2>1, <2>4 DEF Mirrored
    <3> QED
      BY <1>2, <3>1, <3>2
  <2> QED
    BY <2>3, <2>4
<1>5. CASE Elsewhere
  <2>1. CASE \E s : server' = [server EXCEPT !.listings = s] /\ current' = current
    BY <1>1, <1>2, <2>1 DEF TableFields, Resources
  <2>2. CASE \E op \in {"subscribe", "unsubscribe", "publish"} : \E x :
                server' \in Outcomes(op, x) /\ current' = current
    BY <1>1, <1>2, <2>2, OutcomesMirror
  <2>3. CASE \E b \in Bots, s \in BotStates \ {"none"} :
                /\ server' = [server EXCEPT !.bots[b] = s]
                /\ current' = [current EXCEPT ![b] = s]
    BY <1>1, <1>3, <2>3 DEF TableFields, Resources
  <2>4. CASE \E b \in Bots : Reversioned(b)
    BY <1>1, <2>4 DEF Reversioned, MirrorInv, BotStates
  <2> QED
    BY <1>5, <2>1, <2>2, <2>3, <2>4, ElsewhereDoes
<1>6. \/ Elsewhere \/ (server' = server /\ current' = current)
      \/ \E c \in Chains : Serve(c)
  BY DEF Next, vars, Progress, Click, Navigate, Refuse, Refused, Shown, StartRefresh, Read,
         Refreshed, Fail, Vanish
<1> QED
  BY <1>2, <1>4, <1>5, <1>6

LEMMA RowsAtFirst == ASSUME Init PROVE IdsDiffer /\ MirrorInv
<1>1. /\ server = [subs |-> {}, listings |-> Listings, bots |-> NoRows.bots]
      /\ current = NoRows.bots
  BY DEF Init
<1> QED
  BY <1>1 DEF IdsDiffer, MirrorInv, NoRows, BotStates

-----------------------------------------------------------------------------
(* What the steps of a chain have in common. *)

LEMMA ChainDoes ==
    ASSUME PageInv, NEW c \in Chains, Progress(c) \/ Fail(c) \/ Vanish(c)
    PROVE  /\ Alone(c) /\ view' = view
           /\ marks \subseteq marks' /\ marks' \subseteq marks \cup Excuses \cup {"refused"}
           /\ \/ /\ chain'[c].mounted = FALSE
                 /\ page'.busy = IF chain[c].mounted THEN Released(chain[c].op)
                                 ELSE page.busy
              \/ /\ chain[c].mounted /\ GoesOn(chain[c], chain'[c])
                 /\ chain'[c].at \in Pressed => chain[c].at \in Pressed
                 /\ page'.busy = page.busy
<1>0. Idle.mounted = FALSE
  BY IdleFields
<1>1. CASE Serve(c)
  BY <1>0, <1>1, ServeDoes DEF SamePage, GoesOn, Pressed, Excuses
<1>2. CASE Refuse(c)
  BY <1>0, <1>2, RefuseDoes DEF SamePage, GoesOn, Pressed
<1>3. CASE Refused(c)
  BY <1>0, <1>3, RefusedDoes
<1>4. CASE Shown(c)
  BY <1>0, <1>4, ShownDoes
<1>5. CASE StartRefresh(c)
  BY <1>5, StartRefreshDoes DEF Pressed, Excuses
<1>6. CASE \E r \in Resources : Read(c, r)
  BY <1>6, ReadDoes DEF SamePage, Pressed, Excuses
<1>7. CASE Refreshed(c)
  BY <1>0, <1>7, RefreshedDoes
<1>8. CASE Fail(c)
  <2>1. chain'[c].mounted = FALSE
    BY <1>0, <1>8, FailDoes DEF Forgotten
  <2> QED
    BY <1>8, <2>1, FailDoes DEF Excuses
<1>9. CASE Vanish(c)
  BY <1>0, <1>9, VanishDoes DEF SamePage
<1> QED
  BY <1>1, <1>2, <1>3, <1>4, <1>5, <1>6, <1>7, <1>8, <1>9 DEF Progress

\* A page that comes has its load open and nothing else.
LEMMA Arrived ==
    ASSUME PageInv, NEW v \in Views, Navigate(v)
    PROVE  /\ view' = v /\ page' = Blank /\ marks' = {} /\ server' = server
           /\ \A c \in Chains : chain'[c].mounted => chain'[c] = Load(v)
           /\ \A c, d \in Chains : chain'[c].mounted /\ chain'[d].mounted => c = d
<1>1. \A k, l : Forgotten(k, l) => ~l.mounted
  BY IdleFields DEF Forgotten
<1> QED
  BY <1>1, NavigateDoes

-----------------------------------------------------------------------------
(* Buttons that wait. *)

Working == {c \in Chains : chain[c].mounted /\ chain[c].op \in Waits}

\* One piece of work at a time, for which a button waits, but where a second
\* subscription may be started; and a button that waits by its name, for its own.
BusyInv ==
    /\ view # "marketplace" \/ "together" \notin marks =>
        /\ page.busy # "no" <=> Working # {}
        /\ \A c, d \in Working : c = d
    /\ page.busy \in Offers => \E c \in Working : chain[c].on = {page.busy}

LEMMA BusyByChain ==
    ASSUME BusyInv, PageInv, PageTyped, PageTyped', NEW c \in Chains,
           Progress(c) \/ Fail(c) \/ Vanish(c)
    PROVE  BusyInv'
<1>1. Alone(c) /\ view' = view /\ marks \subseteq marks'
  BY ChainDoes
<1>2. CASE chain[c].mounted /\ GoesOn(chain[c], chain'[c]) /\ page'.busy = page.busy
  <2>1. Working' = Working /\ \A d \in Working : chain'[d].on = chain[d].on
    BY <1>1, <1>2 DEF Working, GoesOn, Alone
  <2> QED
    BY <1>1, <1>2, <2>1 DEF BusyInv
<1>3. CASE /\ chain'[c].mounted = FALSE
           /\ page'.busy = IF chain[c].mounted THEN Released(chain[c].op) ELSE page.busy
  <2>1. Working' = Working \ {c} /\ \A d \in Working \ {c} : chain'[d] = chain[d]
    BY <1>1, <1>3 DEF Working, Alone
  <2>2. CASE c \in Working
    <3>1. page'.busy = "no"
      BY <1>3, <2>2 DEF Released, Working
    <3>2. "no" \notin Offers
      BY NameAssumption
    <3> QED
      BY <1>1, <2>1, <2>2, <3>1, <3>2 DEF BusyInv
  <2>3. CASE c \notin Working
    <3>1. page'.busy = page.busy
      BY <1>3, <2>3 DEF Released, Working
    <3>2. Working' = Working
      BY <2>1, <2>3
    <3> QED
      BY <1>1, <2>1, <2>3, <3>1, <3>2 DEF BusyInv
  <2> QED
    BY <2>2, <2>3
<1> QED
  BY <1>2, <1>3, ChainDoes

LEMMA BusyClick ==
    ASSUME BusyInv, PageInv, TypedInv, Click
    PROVE  BusyInv'
<1>1. PICK c \in Chains, b \in Buttons :
        /\ chain[c] = Idle /\ Alone(c)
        /\ chain'[c] = Sent(b[1], b[2])
        /\ view' = view /\ marks \subseteq marks'
        /\ Joins(b[1]) => "together" \in marks'
        /\ page'.busy = IF b[1] = "subscribe" THEN b[2]
                        ELSE IF b[1] \in Waits THEN "yes" ELSE page.busy
  BY ClickDoes
<1>2. PageTyped
  BY DEF TypedInv
<1>3. b[1] \in OpsOf(view) \ {"load"} /\ Aim(b[1], b[2])
  BY <1>2, ButtonsTyped
<1>4. /\ chain'[c].mounted /\ chain'[c].op = b[1] /\ chain'[c].on = {b[2]}
      /\ ~chain[c].mounted
  BY <1>1, IdleFields DEF Sent, Idle
<1>5. /\ b[1] \in Waits => Working' = Working \cup {c}
      /\ b[1] \notin Waits => Working' = Working
      /\ \A d \in Working : d # c /\ chain'[d] = chain[d]
  BY <1>1, <1>4 DEF Working, Alone
<1>6. CASE b[1] = "subscribe"
  <2>1. view = "marketplace" /\ b[1] \in Waits
    BY <1>3, <1>6 DEF OpsOf, Waits, Rowish
  <2>2. b[2] # "no"
    BY <1>3, <1>6, NameAssumption DEF Aim
  <2>3. "together" \notin marks' => Working = {}
    <3>1. \A d \in Working : chain[d].op = "subscribe" /\ d \in Open
      BY <2>1 DEF Working, Open, Waits, TypedInv, ChainsTyped, ChainTyped, OpsOf
    <3> QED
      BY <1>1, <1>6, <3>1 DEF Joins
  <2> QED
    BY <1>1, <1>4, <1>5, <1>6, <2>1, <2>2, <2>3 DEF BusyInv
<1>7. CASE b[1] \in Waits \ {"subscribe"}
  <2>1. view # "marketplace" /\ view \in {"designer", "portfolio"}
    BY <1>3, <1>7 DEF OpsOf, Waits, Rowish
  <2>2. page.busy = "no"
    <3>1. CASE view = "portfolio"
      BY <3>1 DEF Buttons
    <3>2. CASE view = "designer"
      BY <1>7, <3>2 DEF Buttons, Waits
    <3> QED
      BY <2>1, <3>1, <3>2
  <2>3. Working = {} /\ "yes" \notin Offers
    BY <2>1, <2>2, NameAssumption DEF BusyInv
  <2> QED
    BY <1>1, <1>5, <1>7, <2>3 DEF BusyInv
<1>8. CASE b[1] \notin Waits
  <2>1. page'.busy = page.busy /\ Working' = Working
    BY <1>1, <1>5, <1>8 DEF Waits
  <2> QED
    BY <1>1, <1>5, <2>1 DEF BusyInv
<1> QED
  BY <1>6, <1>7, <1>8

LEMMA BusyNext == ASSUME BusyInv, PageInv, TypedInv, [Next]_vars PROVE BusyInv'
<1>1. CASE Click
  BY <1>1, BusyClick
<1>2. CASE \E v \in Views : Navigate(v)
  <2>1. PICK v \in Views : Navigate(v)
    BY <1>2
  <2>2. Working' = {}
    BY <2>1, Arrived, IdleFields DEF Working, Waits
  <2>3. page'.busy = "no" /\ "no" \notin Offers
    BY <2>1, Arrived, NameAssumption DEF Blank
  <2> QED
    BY <2>2, <2>3 DEF BusyInv
<1>3. CASE \E c \in Chains : Progress(c) \/ Fail(c) \/ Vanish(c)
  <2>1. PageTyped /\ PageTyped'
    BY TypedNext DEF TypedInv
  <2> QED
    BY <1>3, <2>1, BusyByChain
<1>4. CASE Elsewhere \/ UNCHANGED vars
  <2>1. chain' = chain /\ view' = view /\ page' = page /\ marks \subseteq marks'
    BY <1>4, ElsewhereDoes DEF vars, SamePage
  <2> QED
    BY <2>1 DEF BusyInv, Working
<1> QED
  BY <1>1, <1>2, <1>3, <1>4 DEF Next

-----------------------------------------------------------------------------
(* Rows. *)

\* The chains that may yet write the chart of the subscriptions page.
Drawing == {c \in Chains : chain[c].mounted /\ chain[c].op \in Rowish
                           /\ chain[c].at \in Pressed}

Replaying == \E c \in Drawing : chain[c].op = "replay" /\ chain[c].on = {page.selected}

\* One of them at a time: a replay is of the row highlighted, whose signals have
\* not been counted, and one that is refused has found it gone; unsubscribing
\* has removed its row, and clears the chart if that is the row highlighted.
\* So the chart is of that row, or that row is gone or being replayed.
RowsOK ==
    /\ page.selected = 0 => page.drawn = {}
    /\ page.count \notin {0, page.selected} => page.selected = 0 /\ NoRow(page.count)
    /\ \/ page.drawn \subseteq {page.selected} \/ Replaying
       \/ NoRow(page.selected) \/ "disturbed" \in marks
    /\ \A c, d \in Drawing : c = d
    /\ \A c \in Drawing :
        /\ chain[c].op = "replay" => chain[c].on = {page.selected} /\ page.count = 0
        /\ chain[c].op = "replay" /\ chain[c].at = "refused" => NoRow(page.selected)
        /\ chain[c].op = "unsubscribe" /\ chain[c].at = "ok" =>
                \A y \in chain[c].on : NoRow(y)
        /\ chain[c].clears => chain[c].on = {page.selected}

\* Whatever is crossed, the chart and the number are of one row.
RowInv ==
    view = "subscriptions" => ChartIsCounted /\ ("crossed" \notin marks => RowsOK)

LEMMA DrawingByChain ==
    ASSUME PageInv, NEW c \in Chains, Progress(c) \/ Fail(c) \/ Vanish(c)
    PROVE  /\ Drawing' \subseteq Drawing
           /\ \A d \in Drawing' : GoesOn(chain[d], chain'[d])
           /\ \A d \in Drawing' \ {c} : chain'[d] = chain[d]
           /\ \A d \in Drawing \ {c} : d \in Drawing'
<1>1. Alone(c)
  BY ChainDoes
<1>2. CASE chain'[c].mounted = FALSE
  BY <1>1, <1>2 DEF Drawing, Alone, GoesOn
<1>3. CASE /\ chain[c].mounted /\ GoesOn(chain[c], chain'[c])
           /\ chain'[c].at \in Pressed => chain[c].at \in Pressed
  BY <1>1, <1>3 DEF Drawing, Alone, GoesOn
<1> QED
  BY <1>2, <1>3, ChainDoes

\* It is an answer that keeps a chain among them, and a replay leaves them when
\* it is drawn, refused or fails.
LEMMA DrawingStays ==
    ASSUME PageInv, NEW c \in Chains, Progress(c) \/ Fail(c) \/ Vanish(c)
    PROVE  /\ c \in Drawing' => \/ Serve(c) /\ chain'[c].at = "ok"
                                \/ Refuse(c) /\ chain'[c].at = "refused"
           /\ c \in Drawing \ Drawing' /\ chain[c].op = "replay" =>
                Shown(c) \/ Refused(c) \/ Fail(c)
<1>0. Idle.mounted = FALSE
  BY IdleFields
<1>1. CASE Serve(c)
  <2>1. CASE chain[c].mounted
    <3>1. GoesOn(chain[c], chain'[c]) /\ chain'[c].at = "ok"
      BY <1>1, <2>1, ServeDoes
    <3>2. c \in Drawing => c \in Drawing'
      BY <3>1 DEF Drawing, GoesOn, Pressed
    <3> QED
      BY <1>1, <3>1, <3>2
  <2>2. CASE ~chain[c].mounted
    <3>1. chain'[c].mounted = FALSE
      BY <1>0, <1>1, <2>2, ServeDoes
    <3> QED
      BY <2>2, <3>1 DEF Drawing
  <2> QED
    BY <2>1, <2>2
<1>2. CASE Refuse(c)
  <2>1. CASE chain[c].mounted
    <3>1. GoesOn(chain[c], chain'[c]) /\ chain'[c].at = "refused"
      BY <1>2, <2>1, RefuseDoes
    <3>2. c \in Drawing => c \in Drawing'
      BY <3>1 DEF Drawing, GoesOn, Pressed
    <3> QED
      BY <1>2, <3>1, <3>2
  <2>2. CASE ~chain[c].mounted
    <3>1. chain'[c].mounted = FALSE
      BY <1>0, <1>2, <2>2, RefuseDoes
    <3> QED
      BY <2>2, <3>1 DEF Drawing
  <2> QED
    BY <2>1, <2>2
<1>3. CASE Refused(c) \/ Shown(c)
  BY <1>0, <1>3, RefusedDoes, ShownDoes DEF Drawing
<1>4. CASE Refreshed(c)
  BY <1>0, <1>4, RefreshedDoes DEF Drawing, Pressed
<1>5. CASE Vanish(c)
  BY <1>0, <1>5, VanishDoes DEF Drawing
<1>6. CASE StartRefresh(c)
  BY <1>6, StartRefreshDoes DEF Drawing, Pressed, Refreshes
<1>7. CASE \E r \in Resources : Read(c, r)
  BY <1>7, ReadDoes DEF Drawing, Pressed
<1>8. CASE Fail(c)
  BY <1>0, <1>8, FailDoes DEF Drawing, Forgotten
<1> QED
  BY <1>1, <1>2, <1>3, <1>4, <1>5, <1>6, <1>7, <1>8 DEF Progress

\* What is removed, and what is refused for being gone, is gone after it.
LEMMA RemovedRow ==
    ASSUME PageInv, TypedInv, IdsDiffer, NEW c \in Drawing
    PROVE  /\ Serve(c) /\ chain[c].op = "unsubscribe" =>
                \A y \in chain[c].on : NoRow(y)'
           /\ Refuse(c) /\ chain[c].op = "replay" => \A y \in chain[c].on : NoRow(y)'
<1>0. c \in Chains /\ FieldsOK
  BY DEF Drawing, PageInv
<1>1. ASSUME chain[c].at = "sent"
      PROVE  \E x : chain[c].on = {x}
  BY <1>0, <1>1 DEF TypedInv, ChainsTyped, ChainTyped, Pressed
<1>2. ASSUME Serve(c), chain[c].op = "unsubscribe"
      PROVE  \A y \in chain[c].on : NoRow(y)'
  <2>1. PICK x \in chain[c].on : server' \in Outcomes("unsubscribe", x)
    BY <1>0, <1>2, ServeDoes
  <2>2. chain[c].on = {x}
    BY <1>0, <1>1, <1>2, <2>1, ServeDoes
  <2>3. PICK s \in server.subs : s.id = x /\ server' = [server EXCEPT !.subs = @ \ {s}]
    BY <2>1 DEF Outcomes
  <2>4. server'.subs = server.subs \ {s}
    BY <1>0, <2>3 DEF FieldsOK, TableFields, Resources
  <2> QED
    BY <2>2, <2>3, <2>4 DEF IdsDiffer, NoRow, Ids
<1>3. ASSUME Refuse(c), chain[c].op = "replay"
      PROVE  \A y \in chain[c].on : NoRow(y)'
  <2>1. server' = server /\ \E x \in chain[c].on : Outcomes("replay", x) = {}
    BY <1>0, <1>3, RefuseDoes
  <2>2. PICK x : chain[c].on = {x} /\ Outcomes("replay", x) = {}
    BY <1>0, <1>1, <1>3, <2>1, RefuseDoes
  <2>3. \A s \in server.subs : s.id # x
    BY <2>2 DEF Outcomes
  <2> QED
    BY <2>1, <2>2, <2>3 DEF NoRow, Ids
<1> QED
  BY <1>2, <1>3

\* What a page of subscriptions does besides highlighting: it draws, it clears,
\* or it leaves the chart and the number alone.
Draws(c) == Shown(c) /\ chain[c].op = "replay"
Clears(c) == StartRefresh(c) /\ chain[c].clears

LEMMA ChartStays ==
    ASSUME PageInv, TypedInv, view = "subscriptions", NEW c \in Chains,
           Progress(c) \/ Fail(c) \/ Vanish(c), ~Draws(c), ~Clears(c)
    PROVE  /\ page'.selected = page.selected /\ page'.count = page.count
           /\ page'.drawn = page.drawn
<1>1. CASE Serve(c) \/ Refuse(c) \/ Vanish(c) \/ \E r \in Resources : Read(c, r)
  BY <1>1, ServeDoes, RefuseDoes, VanishDoes, ReadDoes DEF SamePage
<1>2. CASE Refused(c) \/ Refreshed(c) \/ Fail(c)
  BY <1>2, RefusedDoes, RefreshedDoes, FailDoes
<1>3. CASE Shown(c)
  <2>1. chain[c].op # "run"
    BY <1>3, ShownDoes DEF TypedInv, ChainsTyped, ChainTyped, OpsOf, Rowish
  <2> QED
    BY <1>3, <2>1, ShownDoes DEF Draws
<1>4. CASE StartRefresh(c)
  BY <1>4, StartRefreshDoes DEF Clears
<1> QED
  BY <1>1, <1>2, <1>3, <1>4 DEF Progress

LEMMA RowStays ==
    ASSUME PageInv, TypedInv, IdsDiffer, view = "subscriptions", RowsOK, NEW c \in Chains,
           Progress(c) \/ Fail(c) \/ Vanish(c), ~Draws(c), ~Clears(c)
    PROVE  RowsOK'
<1>1. /\ page'.selected = page.selected /\ page'.count = page.count
      /\ page'.drawn = page.drawn
  BY ChartStays
<1>2. /\ Drawing' \subseteq Drawing
      /\ \A d \in Drawing' : GoesOn(chain[d], chain'[d])
      /\ \A d \in Drawing' \ {c} : chain'[d] = chain[d]
      /\ \A d \in Drawing \ {c} : d \in Drawing'
  BY DrawingByChain
<1>3. marks \subseteq marks' /\ \A y \in Known : NoRow(y) => NoRow(y)'
  BY ChainDoes, RowsStayGone DEF Next
<1>4. page.selected \in Known /\ page.count \in Known
  BY KnownParts
<1>5. \A d \in Drawing : chain[d].on \subseteq Known
  <2>1. \A d \in Drawing : Knows(chain[d]) \subseteq Known /\ chain[d].op \in Rowish
    BY KnownParts DEF Drawing
  <2> QED
    BY <2>1 DEF Knows
<1>6. \/ page'.drawn \subseteq {page'.selected} \/ Replaying'
      \/ NoRow(page.selected)' \/ "disturbed" \in marks'
  <2>1. CASE Replaying
    <3>1. PICK d \in Drawing : chain[d].op = "replay" /\ chain[d].on = {page.selected}
      BY <2>1 DEF Replaying
    <3>2. CASE d \in Drawing'
      BY <1>1, <1>2, <3>1, <3>2 DEF Replaying, GoesOn
    <3>3. CASE d \notin Drawing'
      <4>1. d = c /\ (Refused(c) \/ Fail(c))
        BY <1>2, <3>1, <3>3, DrawingStays DEF Draws
      <4>2. CASE Refused(c)
        BY <1>3, <1>4, <3>1, <4>1, <4>2, RefusedDoes DEF RowsOK
      <4>3. CASE Fail(c)
        BY <4>3, FailDoes
      <4> QED
        BY <4>1, <4>2, <4>3
    <3> QED
      BY <3>2, <3>3
  <2>2. CASE ~Replaying
    BY <1>1, <1>3, <1>4, <2>2 DEF RowsOK
  <2> QED
    BY <2>1, <2>2
<1>7. ASSUME NEW d \in Drawing'
      PROVE  /\ chain'[d].op = "replay" => chain'[d].on = {page.selected} /\ page.count = 0
             /\ chain'[d].op = "replay" /\ chain'[d].at = "refused" =>
                    NoRow(page.selected)'
             /\ chain'[d].op = "unsubscribe" /\ chain'[d].at = "ok" =>
                    \A y \in chain'[d].on : NoRow(y)'
             /\ chain'[d].clears => chain'[d].on = {page.selected}
  <2>1. d \in Drawing /\ GoesOn(chain[d], chain'[d])
    BY <1>2
  <2>2. CASE d # c
    <3>1. chain'[d] = chain[d]
      BY <1>2, <2>2
    <3>2. /\ chain[d].op = "replay" => chain[d].on = {page.selected} /\ page.count = 0
          /\ chain[d].op = "replay" /\ chain[d].at = "refused" => NoRow(page.selected)
          /\ chain[d].op = "unsubscribe" /\ chain[d].at = "ok" =>
                \A y \in chain[d].on : NoRow(y)
          /\ chain[d].clears => chain[d].on = {page.selected}
      BY <2>1 DEF RowsOK
    <3>3. chain[d].on \subseteq Known
      BY <1>5, <2>1
    <3> QED
      BY <1>1, <1>3, <1>4, <3>1, <3>2, <3>3 DEF NoRow
  <2>3. CASE d = c
    <3>1. /\ chain[d].op = "replay" => chain[d].on = {page.selected} /\ page.count = 0
          /\ chain[d].clears => chain[d].on = {page.selected}
      BY <2>1 DEF RowsOK
    <3>2. \/ Serve(c) /\ chain'[c].at = "ok"
          \/ Refuse(c) /\ chain'[c].at = "refused"
      BY <2>3, DrawingStays
    <3>3. /\ chain'[d].op = chain[d].op /\ chain'[d].on = chain[d].on
          /\ chain'[d].clears = chain[d].clears
      BY <2>1 DEF GoesOn
    <3>4. CASE Serve(c) /\ chain'[c].at = "ok"
      <4>1. chain[c].op = "unsubscribe" => \A y \in chain[c].on : NoRow(y)'
        BY <2>1, <2>3, <3>4, RemovedRow
      <4> QED
        BY <2>3, <3>1, <3>3, <3>4, <4>1
    <3>5. CASE Refuse(c) /\ chain'[c].at = "refused"
      <4>1. chain[c].op = "replay" => \A y \in chain[c].on : NoRow(y)'
        BY <2>1, <2>3, <3>5, RemovedRow
      <4>2. chain[c].op = "replay" => page.selected \in chain[c].on
        BY <2>3, <3>1
      <4> QED
        BY <1>1, <2>3, <3>1, <3>3, <3>5, <4>1, <4>2 DEF NoRow
    <3> QED
      BY <3>2, <3>4, <3>5
  <2> QED
    BY <2>2, <2>3
<1>8. \A d, e \in Drawing' : d = e
  BY <1>2 DEF RowsOK
<1>9. page'.count \notin {0, page'.selected} => page'.selected = 0 /\ NoRow(page.count)'
  BY <1>1, <1>3, <1>4 DEF RowsOK
<1>10. page'.selected = 0 => page'.drawn = {}
  BY <1>1 DEF RowsOK
<1> QED
  BY <1>1, <1>6, <1>7, <1>8, <1>9, <1>10 DEF RowsOK, NoRow

LEMMA RowByChain ==
    ASSUME RowInv, PageInv, TypedInv, IdsDiffer, NEW c \in Chains,
           Progress(c) \/ Fail(c) \/ Vanish(c)
    PROVE  RowInv'
<1>1. view' = view /\ marks \subseteq marks' /\ [Next]_vars
  BY ChainDoes DEF Next
<1> SUFFICES ASSUME view = "subscriptions"
             PROVE  ChartIsCounted' /\ ("crossed" \notin marks' => RowsOK')
  BY <1>1 DEF RowInv
<1>2. ChartIsCounted /\ ("crossed" \notin marks' => RowsOK)
  BY <1>1 DEF RowInv
<1>3. CASE Draws(c)
  <2>1. /\ chain[c].mounted /\ chain[c].at = "ok" /\ chain'[c] = Idle
        /\ chain[c].op = "replay"
        /\ page'.selected = page.selected /\ page'.count = One(chain[c].on)
        /\ page'.drawn = chain[c].on /\ Alone(c)
    BY <1>3, ShownDoes DEF Draws
  <2>2. c \in Drawing
    BY <2>1 DEF Drawing, Pressed, Rowish
  <2>3. PICK x : chain[c].on = {x} /\ Aim("replay", x)
    BY <2>1 DEF TypedInv, ChainsTyped, ChainTyped, Pressed
  <2>4. x # 0 /\ One(chain[c].on) = x
    BY <2>3, OneOf DEF Aim, Rowish
  <2>5. ChartIsCounted'
    BY <2>1, <2>3, <2>4 DEF ChartIsCounted
  <2>6. ASSUME RowsOK
        PROVE  RowsOK'
    <3>1. x = page.selected /\ \A d \in Drawing : d = c
      BY <2>1, <2>2, <2>3, <2>6 DEF RowsOK
    <3>2. Drawing' = {}
      <4>1. c \notin Drawing'
        BY <2>1, IdleFields DEF Drawing
      <4> QED
        BY <3>1, <4>1, DrawingByChain
    <3>3. page'.selected # 0 /\ page'.count = page'.selected /\ page'.drawn = {page'.selected}
      BY <2>1, <2>3, <2>4, <3>1
    <3> QED
      BY <3>2, <3>3 DEF RowsOK
  <2> QED
    BY <1>2, <2>5, <2>6
<1>4. CASE Clears(c)
  <2>1. /\ chain[c].mounted /\ chain[c].at = "ok" /\ chain'[c].at = "reading"
        /\ chain[c].op \in Refreshes /\ chain[c].clears
        /\ page'.selected = 0 /\ page'.drawn = {} /\ page'.count = page.count
        /\ Alone(c) /\ server' = server
    BY <1>4, StartRefreshDoes DEF Clears
  <2>2. chain[c].op \in OpsOf("subscriptions") \ {"load"}
    BY <2>1 DEF TypedInv, ChainsTyped, ChainTyped, Pressed
  <2>3. c \in Drawing /\ chain[c].op = "unsubscribe"
    BY <2>1, <2>2 DEF Drawing, Pressed, Rowish, OpsOf, Refreshes
  <2>4. ASSUME RowsOK
        PROVE  RowsOK'
    <3>1. /\ \A d \in Drawing : d = c
          /\ chain[c].on = {page.selected} /\ NoRow(page.selected)
      BY <2>1, <2>3, <2>4 DEF RowsOK
    <3>2. Drawing' = {}
      <4>1. c \notin Drawing'
        BY <2>1 DEF Drawing, Pressed
      <4> QED
        BY <3>1, <4>1, DrawingByChain
    <3>3. page'.count # 0 => NoRow(page.count)'
      BY <2>1, <2>4, <3>1 DEF RowsOK, NoRow
    <3> QED
      BY <2>1, <3>2, <3>3 DEF RowsOK, NoRow
  <2> QED
    BY <1>2, <2>1, <2>4 DEF ChartIsCounted
<1>5. CASE ~Draws(c) /\ ~Clears(c)
  <2>1. /\ page'.selected = page.selected /\ page'.count = page.count
        /\ page'.drawn = page.drawn
    BY <1>5, ChartStays
  <2> QED
    BY <1>2, <1>5, <2>1, RowStays DEF ChartIsCounted
<1> QED
  BY <1>3, <1>4, <1>5

LEMMA RowClick ==
    ASSUME RowInv, PageInv, TypedInv, Click
    PROVE  RowInv'
<1>1. PICK c \in Chains, b \in Buttons :
        /\ chain[c] = Idle /\ Alone(c)
        /\ chain'[c] = Sent(b[1], b[2])
        /\ view' = view /\ server' = server
        /\ page'.drawn = page.drawn
        /\ page'.selected = IF b[1] = "replay" THEN b[2] ELSE page.selected
        /\ page'.count = IF b[1] = "replay" THEN 0 ELSE page.count
        /\ marks \subseteq marks'
        /\ Crosses(b[1], b[2]) => "crossed" \in marks'
  BY ClickDoes
<1> SUFFICES ASSUME view = "subscriptions"
             PROVE  ChartIsCounted' /\ ("crossed" \notin marks' => RowsOK')
  BY <1>1 DEF RowInv
<1>2. ChartIsCounted'
  BY <1>1 DEF RowInv, ChartIsCounted
<1> SUFFICES ASSUME "crossed" \notin marks'
             PROVE  RowsOK'
  BY <1>2
<1>3. b[1] \in Rowish /\ b[2] \in 1..MaxSubs
  BY ButtonsTyped DEF TypedInv, OpsOf, Aim
<1>4. Drawing = {} /\ RowsOK
  BY <1>1, <1>3 DEF RowInv, Crosses, Drawing, Writing, Open, Pressed, Rowish
<1>5. /\ chain'[c].op = b[1] /\ chain'[c].on = {b[2]} /\ chain'[c].at = "sent"
      /\ chain'[c].mounted
      /\ chain'[c].clears => b[1] = "unsubscribe" /\ page.selected = b[2]
      /\ b[2] # 0
  <2>1. PICK op, x : op = b[1] /\ x = b[2] /\ chain'[c] = Sent(op, x)
    BY <1>1
  <2>2. /\ Sent(op, x).op = op /\ Sent(op, x).at = "sent" /\ Sent(op, x).mounted
        /\ Sent(op, x).on = {x}
        /\ Sent(op, x).clears = (op = "unsubscribe" /\ page.selected = x)
    BY DEF Sent, Idle
  <2>3. b[2] # 0
    BY <1>3
  <2> QED
    BY <2>1, <2>2, <2>3
<1>6. Drawing' = {c}
  BY <1>1, <1>3, <1>4, <1>5 DEF Drawing, Alone, Pressed
<1>7. CASE b[1] = "replay"
  <2>1. Replaying'
    BY <1>1, <1>5, <1>6, <1>7 DEF Replaying
  <2> QED
    BY <1>1, <1>5, <1>6, <1>7, <2>1 DEF RowsOK
<1>8. CASE b[1] # "replay"
  <2>1. ~Replaying
    BY <1>4 DEF Replaying
  <2> QED
    BY <1>1, <1>4, <1>5, <1>6, <1>8, <2>1 DEF RowsOK, NoRow
<1> QED
  BY <1>7, <1>8

LEMMA RowNext == ASSUME RowInv, PageInv, TypedInv, IdsDiffer, [Next]_vars PROVE RowInv'
<1>1. CASE Click
  BY <1>1, RowClick
<1>2. CASE \E v \in Views : Navigate(v)
  <2>1. PICK v \in Views : Navigate(v)
    BY <1>2
  <2>2. Drawing' = {}
    BY <2>1, Arrived, IdleFields DEF Drawing, Rowish
  <2>3. page'.selected = 0 /\ page'.drawn = {} /\ page'.count = 0
    BY <2>1, Arrived DEF Blank
  <2> QED
    BY <2>2, <2>3 DEF RowInv, RowsOK, ChartIsCounted
<1>3. CASE \E c \in Chains : Progress(c) \/ Fail(c) \/ Vanish(c)
  BY <1>3, RowByChain
<1>4. CASE Elsewhere \/ UNCHANGED vars
  <2>1. chain' = chain /\ view' = view /\ page' = page /\ marks \subseteq marks'
    BY <1>4, ElsewhereDoes DEF vars, SamePage
  <2>2. \A y \in Known : NoRow(y) => NoRow(y)'
    BY RowsStayGone
  <2>3. page.selected \in Known /\ page.count \in Known
    BY KnownParts
  <2>4. \A d \in Drawing : chain[d].on \subseteq Known
    <3>1. \A d \in Drawing : Knows(chain[d]) \subseteq Known /\ chain[d].op \in Rowish
      BY KnownParts DEF Drawing
    <3> QED
      BY <3>1 DEF Knows
  <2>5. Drawing' = Drawing /\ Replaying' = Replaying
    BY <2>1 DEF Drawing, Replaying
  <2>6. ASSUME RowsOK
        PROVE  RowsOK'
    BY <2>1, <2>2, <2>3, <2>4, <2>5, <2>6 DEF RowsOK
  <2> QED
    BY <2>1, <2>6 DEF RowInv, ChartIsCounted
<1> QED
  BY <1>1, <1>2, <1>3, <1>4 DEF Next

-----------------------------------------------------------------------------
(* Chains of one row, and refreshes one at a time. *)

\* The chains whose buttons do not wait.
Plain == {c \in Chains : chain[c].mounted /\ chain[c].op \in Rowish \cup {"submit"}}
Distinct ==
    "crossed" \notin marks => \A c, d \in Plain : chain[c].on = chain[d].on => c = d

Refreshing == {c \in Chains : chain[c].at = "reading"}
OneRefresh == marks \cap Excuses = {} => \A c, d \in Refreshing : c = d

LEMMA DistinctNext ==
    ASSUME Distinct, PageInv, TypedInv, [Next]_vars
    PROVE  Distinct'
<1>1. CASE Click
  <2>1. PICK c \in Chains, b \in Buttons :
          /\ chain[c] = Idle /\ Alone(c)
          /\ chain'[c] = Sent(b[1], b[2])
          /\ marks \subseteq marks' /\ (Crosses(b[1], b[2]) => "crossed" \in marks')
    BY <1>1, ClickDoes
  <2> SUFFICES ASSUME "crossed" \notin marks'
               PROVE  \A e, d \in Plain' : chain'[e].on = chain'[d].on => e = d
    BY DEF Distinct
  <2>2. "crossed" \notin marks /\ ~Crosses(b[1], b[2])
    BY <2>1
  <2>3. chain'[c].on = {b[2]}
    BY <2>1 DEF Sent, Idle
  <2>4. \A d \in Plain : chain[d].on # {b[2]}
    BY <2>2 DEF Crosses, Plain, Open, Waits, Rowish
  <2>5. \A d \in Plain' \ {c} : d \in Plain /\ chain'[d] = chain[d]
    BY <2>1 DEF Plain, Alone
  <2> QED
    BY <2>2, <2>3, <2>4, <2>5 DEF Distinct
<1>2. CASE \E v \in Views : Navigate(v)
  <2>1. PICK v \in Views : Navigate(v)
    BY <1>2
  <2>2. Plain' = {}
    BY <2>1, Arrived, IdleFields DEF Plain, Rowish
  <2> QED
    BY <2>2 DEF Distinct
<1>3. CASE \E c \in Chains : Progress(c) \/ Fail(c) \/ Vanish(c)
  <2>1. PICK c \in Chains : Progress(c) \/ Fail(c) \/ Vanish(c)
    BY <1>3
  <2>2. /\ Alone(c) /\ marks \subseteq marks'
        /\ \/ chain'[c].mounted = FALSE
           \/ chain[c].mounted /\ GoesOn(chain[c], chain'[c])
    BY <2>1, ChainDoes
  <2>3. \A d \in Plain' : d \in Plain /\ chain'[d].on = chain[d].on
    BY <2>2 DEF Plain, Alone, GoesOn
  <2> QED
    BY <2>2, <2>3 DEF Distinct
<1>4. CASE Elsewhere \/ UNCHANGED vars
  <2>1. chain' = chain /\ marks \subseteq marks'
    BY <1>4, ElsewhereDoes DEF vars
  <2> QED
    BY <2>1 DEF Distinct, Plain
<1> QED
  BY <1>1, <1>2, <1>3, <1>4 DEF Next

LEMMA RefreshingByChain ==
    ASSUME PageInv, NEW c \in Chains, Progress(c) \/ Fail(c) \/ Vanish(c),
           ~StartRefresh(c)
    PROVE  Refreshing' \subseteq Refreshing
<1>1. chain'[c].at = "reading" => chain[c].at = "reading"
  <2>1. CASE Serve(c) \/ Refuse(c) \/ Vanish(c)
    BY <2>1, ServeDoes, RefuseDoes, VanishDoes, IdleFields
  <2>2. CASE Refused(c) \/ Shown(c) \/ Refreshed(c)
    BY <2>2, RefusedDoes, ShownDoes, RefreshedDoes, IdleFields
  <2>3. CASE Fail(c)
    BY <2>3, FailDoes, IdleFields DEF Forgotten
  <2>4. CASE \E r \in Resources : Read(c, r)
    BY <2>4, ReadDoes
  <2> QED
    BY <2>1, <2>2, <2>3, <2>4 DEF Progress
<1>2. Alone(c)
  BY ChainDoes
<1> QED
  BY <1>1, <1>2 DEF Refreshing, Alone

LEMMA OneRefreshNext ==
    ASSUME OneRefresh, PageInv, TypedInv, [Next]_vars
    PROVE  OneRefresh'
<1>1. CASE Click
  <2>1. PICK c \in Chains, b \in Buttons :
          /\ Alone(c) /\ chain'[c] = Sent(b[1], b[2])
          /\ marks \subseteq marks'
    BY <1>1, ClickDoes
  <2>2. Refreshing' \subseteq Refreshing
    BY <2>1, IdleFields DEF Refreshing, Alone
  <2> QED
    BY <2>1, <2>2 DEF OneRefresh
<1>2. CASE \E v \in Views : Navigate(v)
  <2>1. PICK v \in Views : Navigate(v)
    BY <1>2
  <2>2. \A c \in Refreshing' : chain'[c].mounted
    BY <2>1, NextPage DEF Refreshing, PageInv, ChainsOK, Allowed
  <2> QED
    BY <2>1, <2>2, Arrived DEF OneRefresh, Refreshing
<1>3. CASE \E c \in Chains : Progress(c) \/ Fail(c) \/ Vanish(c)
  <2>1. PICK c \in Chains : Progress(c) \/ Fail(c) \/ Vanish(c)
    BY <1>3
  <2>2. Alone(c) /\ marks \subseteq marks'
    BY <2>1, ChainDoes
  <2>3. CASE StartRefresh(c)
    <3>1. marks' \cap Excuses = {} => ~\E d \in Open : chain[d].at = "reading"
      BY <2>3, StartRefreshDoes DEF Excuses
    <3>2. \A d \in Refreshing : d \in Open
      BY DEF Refreshing, Open, PageInv, ChainsOK, Allowed
    <3>3. marks' \cap Excuses = {} => \A d \in Refreshing' : d = c
      BY <2>2, <3>1, <3>2 DEF Refreshing, Alone
    <3> QED
      BY <3>3 DEF OneRefresh
  <2>4. CASE ~StartRefresh(c)
    BY <2>1, <2>2, <2>4, RefreshingByChain DEF OneRefresh
  <2> QED
    BY <2>3, <2>4
<1>4. CASE Elsewhere \/ UNCHANGED vars
  <2>1. chain' = chain /\ marks \subseteq marks'
    BY <1>4, ElsewhereDoes DEF vars
  <2> QED
    BY <2>1 DEF OneRefresh, Refreshing
<1> QED
  BY <1>1, <1>2, <1>3, <1>4 DEF Next

-----------------------------------------------------------------------------
(* What a page offers. *)

\* Nothing excuses the page from being honoured.
Clean == marks \cap (Excuses \cup {"crossed"}) = {}

\* Requests under way.
Pending == {c \in Chains : chain[c].mounted /\ chain[c].at = "sent"}

\* What refreshes have read of table r.
Fetched(r) == {c \in Refreshing : r \in DOMAIN chain[c].got}

\* The ways a chain goes on while nothing excuses its page: its request is
\* served, it ends or is refused, or its refresh starts, reads or is shown.
Served(c) ==
    /\ chain[c].mounted /\ chain[c].at = "sent"
    /\ \E x : chain[c].on = {x} /\ server' \in Outcomes(chain[c].op, x)
    /\ page' = page /\ GoesOn(chain[c], chain'[c]) /\ chain'[c].at = "ok"

Settled(c) ==
    /\ server' = server /\ page'.shown = page.shown
    /\ ~(chain[c].mounted /\ chain[c].at \in {"ok", "reading"} /\ chain[c].op \in Refreshes)
    /\ chain[c].at # "reading" /\ chain'[c].at # "reading"

Restarted(c) ==
    /\ server' = server /\ page'.shown = page.shown
    /\ GoesOn(chain[c], chain'[c]) /\ chain[c].at = "ok" /\ chain'[c].at = "reading"
    /\ chain'[c].got = << >> /\ Refreshing = {} /\ Refreshing' = {c}

ReadMore(c) ==
    /\ server' = server /\ page' = page
    /\ GoesOn(chain[c], chain'[c]) /\ chain[c].at = "reading" /\ chain'[c].at = "reading"
    /\ \A r \in Resources : r \in DOMAIN chain'[c].got =>
        \/ chain'[c].got[r] = server[r]
        \/ r \in DOMAIN chain[c].got /\ chain'[c].got[r] = chain[c].got[r]

Renewed(c) ==
    /\ server' = server /\ chain'[c] = Idle
    /\ Refreshing = {c} /\ Refreshing' = {}
    /\ \A r \in Wants(view) : r \in DOMAIN chain[c].got /\ page'.shown[r] = chain[c].got[r]

LEMMA CleanStep ==
    ASSUME PageInv, TypedInv, OneRefresh, NEW c \in Chains,
           Progress(c) \/ Fail(c) \/ Vanish(c), Clean'
    PROVE  /\ Clean /\ view' = view /\ Alone(c) /\ c \notin Pending'
           /\ Served(c) \/ Settled(c) \/ Restarted(c) \/ ReadMore(c) \/ Renewed(c)
<1>1. view' = view /\ Alone(c) /\ marks \subseteq marks'
  BY ChainDoes
<1>2. Clean
  BY <1>1 DEF Clean
<1>3. Excuses \cap marks = {} /\ "disturbed" \notin marks' /\ "overlapped" \notin marks'
  BY <1>2 DEF Clean, Excuses
<1>4. CASE Serve(c)
  <2>1. PICK x \in chain[c].on : server' \in Outcomes(chain[c].op, x)
    BY <1>4, ServeDoes
  <2>2. /\ chain[c].at = "sent" /\ chain[c].mounted /\ page' = page
        /\ GoesOn(chain[c], chain'[c]) /\ chain'[c].at = "ok"
    BY <1>3, <1>4, ServeDoes DEF SamePage
  <2>3. chain[c].on = {x}
    BY <2>1, <2>2 DEF TypedInv, ChainsTyped, ChainTyped, Pressed
  <2>4. Served(c) /\ c \notin Pending'
    BY <2>1, <2>2, <2>3 DEF Served, Pending
  <2> QED
    BY <1>1, <1>2, <2>4
<1>5. CASE Refuse(c) \/ Vanish(c)
  <2>1. /\ server' = server /\ page' = page /\ chain[c].at = "sent"
        /\ chain'[c].at \in {"refused", "idle"}
    BY <1>5, RefuseDoes, VanishDoes, IdleFields DEF SamePage
  <2>2. Settled(c) /\ c \notin Pending'
    BY <2>1 DEF Settled, Pending
  <2> QED
    BY <1>1, <1>2, <2>2
<1>6. CASE Refused(c) \/ Shown(c)
  <2>1. /\ server' = server /\ page'.shown = page.shown /\ chain'[c] = Idle
        /\ \/ chain[c].at = "refused"
           \/ chain[c].at = "ok" /\ chain[c].op \notin Refreshes
    BY <1>6, RefusedDoes, ShownDoes
  <2>2. Settled(c) /\ c \notin Pending'
    BY <2>1, IdleFields DEF Settled, Pending
  <2> QED
    BY <1>1, <1>2, <2>2
<1>7. CASE StartRefresh(c)
  <2>1. /\ server' = server /\ page'.shown = page.shown
        /\ GoesOn(chain[c], chain'[c]) /\ chain[c].at = "ok" /\ chain'[c].at = "reading"
        /\ chain'[c].got = chain[c].got
        /\ ~\E d \in Open : chain[d].at = "reading"
    BY <1>3, <1>7, StartRefreshDoes
  <2>2. chain[c].got = << >>
    BY <2>1 DEF TypedInv, ChainsTyped, ChainTyped, Pressed
  <2>3. \A d \in Refreshing : d \in Open
    BY DEF Refreshing, Open, PageInv, ChainsOK, Allowed
  <2>4. Refreshing = {} /\ Refreshing' = {c}
    BY <1>1, <2>1, <2>3 DEF Refreshing, Alone
  <2>5. Restarted(c) /\ c \notin Pending'
    BY <2>1, <2>2, <2>4 DEF Restarted, Pending
  <2> QED
    BY <1>1, <1>2, <2>5
<1>8. CASE \E r \in Resources : Read(c, r)
  <2>1. PICK r \in Resources : Read(c, r)
    BY <1>8
  <2>2. /\ server' = server /\ page' = page
        /\ GoesOn(chain[c], chain'[c]) /\ chain[c].at = "reading"
        /\ chain'[c].at = "reading"
        /\ chain'[c].got = Over([x \in {r} |-> server[x]], chain[c].got)
    BY <1>3, <2>1, ReadDoes DEF SamePage
  <2>3. PICK f, g, h : /\ f = [x \in {r} |-> server[x]] /\ g = chain[c].got
                       /\ h = chain'[c].got /\ h = Over(f, g)
    BY <2>2
  <2>4. /\ DOMAIN h = DOMAIN f \cup DOMAIN g
        /\ \A x \in DOMAIN f : h[x] = f[x]
        /\ \A x \in DOMAIN g \ DOMAIN f : h[x] = g[x]
    BY <2>3 DEF Over
  <2>5. DOMAIN f = {r} /\ f[r] = server[r]
    BY <2>3
  <2>6. ReadMore(c) /\ c \notin Pending'
    BY <2>2, <2>3, <2>4, <2>5 DEF ReadMore, Pending
  <2> QED
    BY <1>1, <1>2, <2>6
<1>9. CASE Refreshed(c)
  <2>1. /\ server' = server /\ chain'[c] = Idle
        /\ chain[c].mounted /\ chain[c].at = "reading" /\ chain[c].left = {}
        /\ page'.shown = Over(chain[c].got, page.shown)
    BY <1>9, RefreshedDoes
  <2>2. c \in Refreshing /\ c \notin Refreshing'
    BY <2>1, IdleFields DEF Refreshing
  <2>3. Refreshing = {c} /\ Refreshing' = {}
    <3>1. \A d \in Refreshing : d = c
      BY <1>3, <2>2 DEF OneRefresh
    <3>2. ~StartRefresh(c)
      BY <2>1, StartRefreshDoes
    <3> QED
      BY <1>9, <2>2, <3>1, <3>2, RefreshingByChain DEF Progress
  <2>4. \A r \in Wants(view) : r \in DOMAIN chain[c].got
    BY <1>3, <2>1 DEF PageInv, Followed, Open
  <2>5. \A r \in DOMAIN chain[c].got : page'.shown[r] = chain[c].got[r]
    <3>1. PICK f, g, h : f = chain[c].got /\ g = page.shown /\ h = page'.shown /\ h = Over(f, g)
      BY <2>1
    <3>2. \A r \in DOMAIN f : h[r] = f[r]
      BY <3>1 DEF Over
    <3> QED
      BY <3>1, <3>2
  <2>6. Renewed(c) /\ c \notin Pending'
    BY <2>1, <2>3, <2>4, <2>5, IdleFields DEF Renewed, Pending
  <2> QED
    BY <1>1, <1>2, <2>6
<1>10. ~Fail(c)
  BY <1>3, FailDoes
<1> QED
  BY <1>4, <1>5, <1>6, <1>7, <1>8, <1>9, <1>10 DEF Progress

-----------------------------------------------------------------------------
(* The page's own invariants hold at the start, and of every step. *)

LEMMA NothingOpen ==
    ASSUME Init
    PROVE  BusyInv /\ RowInv /\ Distinct /\ OneRefresh /\ IdsDiffer /\ MirrorInv
<1>1. /\ \A c \in Chains : chain[c] = Idle
      /\ page.busy = "no" /\ page.selected = 0 /\ page.drawn = {} /\ page.count = 0
  BY DEF Init, Blank
<1>2. Working = {} /\ Drawing = {} /\ Plain = {} /\ Refreshing = {}
  BY <1>1, IdleFields DEF Working, Drawing, Plain, Refreshing
<1>3. page.busy \notin Offers
  BY <1>1, NameAssumption
<1> QED
  BY <1>1, <1>2, <1>3, RowsAtFirst
  DEF BusyInv, RowInv, RowsOK, ChartIsCounted, Distinct, OneRefresh

\* What is proved of the page together.
OpenInv == BusyInv /\ RowInv /\ Distinct /\ OneRefresh /\ IdsDiffer /\ MirrorInv

LEMMA PageHolds == Spec => [](PageInv /\ TypedInv /\ OpenInv)
<1>1. Init => PageInv /\ TypedInv /\ OpenInv
  BY InitPage, TypedInit, NothingOpen DEF OpenInv
<1>2. PageInv /\ TypedInv /\ OpenInv /\ [Next]_vars => (PageInv /\ TypedInv /\ OpenInv)'
  BY NextPage, TypedNext, BusyNext, RowNext, DistinctNext, OneRefreshNext, IdsDifferNext,
     MirrorNext DEF OpenInv
<1> QED
  BY <1>1, <1>2, PTL DEF Spec

LEMMA TablesTyped ==
    ASSUME NEW t, t = [r \in Resources |-> t[r]], \A r \in Resources : TypedTable(r, t[r])
    PROVE  t \in Tables
<1>1. t.subs \in SUBSET SubRows /\ t.listings \in SUBSET Offers /\ t.bots \in [Bots -> BotStates]
  BY DEF Resources, TypedTable
<1>2. t = [subs |-> t.subs, listings |-> t.listings, bots |-> t.bots]
  BY DEF Resources
<1> QED
  BY <1>1, <1>2 DEF Tables

LEMMA PagesAreSound == ASSUME PageInv, TypedInv, BusyInv, MirrorInv PROVE PagesSound
<1>1. PageTyped /\ ChainsTyped
  BY DEF TypedInv
<1>2. TypeOK
  <2>1. server \in Tables /\ page.shown \in Tables
    BY <1>1, TablesTyped DEF PageInv, FieldsOK, TableFields, PageTyped
  <2>2. page.busy \in {"no", "yes"} \cup Offers
    BY <1>1 DEF PageTyped
  <2>3. \A c \in Chains :
          /\ chain[c].op \in Ops \cup {"none"}
          /\ chain[c].at \in {"idle", "sent", "ok", "refused", "reading"}
          /\ DOMAIN chain[c].got \cup chain[c].left \subseteq Resources
    BY <1>1 DEF ChainsTyped, ChainTyped, Pressed
  <2> QED
    BY <1>1, <2>1, <2>2, <2>3 DEF TypeOK, PageTyped, MirrorInv
<1>3. {c \in Open : chain[c].op \in Waits} = Working
  BY DEF Open, Working
<1>4. "together" \notin marks =>
        Cardinality(Working) = IF page.busy = "no" THEN 0 ELSE 1
  <2> SUFFICES ASSUME "together" \notin marks
               PROVE  Cardinality(Working) = IF page.busy = "no" THEN 0 ELSE 1
    OBVIOUS
  <2>1. CASE Working = {}
    BY <2>1, FS_EmptySet DEF BusyInv
  <2>2. CASE Working # {}
    <3>1. PICK c : Working = {c}
      <4>1. PICK c \in Working : TRUE
        BY <2>2
      <4>2. \A d \in Working : d = c
        BY <4>1 DEF BusyInv
      <4> QED
        BY <4>1, <4>2
    <3> QED
      BY <2>2, <3>1, FS_Singleton DEF BusyInv
  <2> QED
    BY <2>1, <2>2
<1>5. ButtonsWaitForWork
  BY <1>3, <1>4 DEF ButtonsWaitForWork, BusyInv
<1> QED
  BY <1>2, <1>5 DEF PagesSound

\* The tables, the page and its chains keep their types; a page's button waits
\* exactly as long as one piece of its work is under way, unless a subscription
\* was started in the marketplace while another one was open, when the first to
\* end gives back the button of the other; and a button that waits by the name
\* of its listing waits for work on that listing (the busy states of
\* Marketplace.tsx, DesignerStudio.tsx and Portfolio.tsx, given back in `finally`).
THEOREM PagesAlwaysSound == Spec => []PagesSound
BY PageHolds, PagesAreSound, PTL DEF OpenInv

\* The chart of the subscriptions page and the number of signals above it are of
\* one row, whatever is clicked while what is open.  Unless a replay or an
\* unsubscribe was started before the last one was answered, or for a row whose
\* last request was open: nothing is drawn while no row is highlighted; a number
\* that is not the highlighted row's is that of a row unsubscribed, and no row is
\* highlighted; and the chart of another row is there only while the highlighted
\* row's replay is under way, or when that row is gone or something failed or
\* changed elsewhere (openReplay and unsubscribe in MySubscriptions.tsx).
THEOREM ReplaysAlwaysOfRow == Spec => []ReplayIsOfRow
<1>1. RowInv => ReplayIsOfRow
  <2> SUFFICES ASSUME RowsOK
               PROVE  ChartIsOfRow
    BY DEF RowInv, ReplayIsOfRow
  <2>1. Drawing \subseteq Writing
    BY DEF Drawing, Writing, Open, Pressed
  <2>2. Replaying => \E c \in Writing : chain[c].op = "replay" /\ chain[c].on = {page.selected}
    BY <2>1 DEF Replaying
  <2>3. \A y : NoRow(y) => \A s \in server.subs : s.id # y
    BY DEF NoRow, Ids
  <2> QED
    BY <2>2, <2>3 DEF RowsOK, ChartIsOfRow
<1> QED
  BY <1>1, PageHolds, PTL DEF OpenInv

-----------------------------------------------------------------------------
(* What a request changes, and what of a page's chains another step keeps. *)

LEMMA OutcomesChange ==
    ASSUME FieldsOK, NEW op, NEW x, NEW t \in Outcomes(op, x)
    PROVE  /\ op = "subscribe" => t["listings"] = server["listings"]
           /\ op = "unsubscribe" =>
                \E s \in server["subs"] : s.id = x /\ t["subs"] = server["subs"] \ {s}
           /\ op \in {"replay", "run"} => t = server
           /\ op = "publish" => t["bots"] = server["bots"]
<1>1. TableFields(server)
  BY DEF FieldsOK
<1>2. CASE op = "subscribe"
  <2>1. PICK l : t = [server EXCEPT !.subs = @ \cup Joined(l)]
    BY <1>2 DEF Outcomes
  <2> QED
    BY <1>1, <1>2, <2>1 DEF TableFields, Resources
<1>3. CASE op = "unsubscribe"
  <2>1. PICK s \in server["subs"] : s.id = x /\ t = [server EXCEPT !.subs = @ \ {s}]
    BY <1>3 DEF Outcomes
  <2>2. t["subs"] = server["subs"] \ {s}
    BY <1>1, <2>1 DEF TableFields, Resources
  <2> QED
    BY <1>3, <2>1, <2>2
<1>4. CASE op \in {"replay", "run", "publish"}
  BY <1>4, OutcomesAreTables
<1> QED
  BY <1>2, <1>3, <1>4

\* A step of chain c with nothing that excuses the page.
CleanlyOn(c) ==
    /\ view' = view /\ Alone(c) /\ c \notin Pending'
    /\ Served(c) \/ Settled(c) \/ Restarted(c) \/ ReadMore(c) \/ Renewed(c)

LEMMA PendingKept ==
    ASSUME NEW c \in Chains, CleanlyOn(c)
    PROVE  \A d \in Pending' : d \in Pending /\ d # c /\ chain'[d] = chain[d]
BY DEF CleanlyOn, Alone, Pending

LEMMA NothingFetched ==
    ASSUME PageInv, NEW v \in Views, Navigate(v), NEW r
    PROVE  Fetched(r)' = {} /\ Pending' = {} /\ page'.shown = NoRows
<1>1. \A c \in Chains : chain'[c].mounted => chain'[c] = Load(v)
  BY Arrived
<1>2. Load(v).got = << >> /\ Load(v).at = "reading"
  BY DEF Load, Idle
<1>3. DOMAIN << >> = {}
  OBVIOUS
<1>4. \A c \in Refreshing' : chain'[c].mounted
  <2>1. PageInv'
    BY NextPage DEF Next
  <2> QED
    BY <2>1 DEF Refreshing, PageInv, ChainsOK, Allowed
<1>5. \A c \in Refreshing' : DOMAIN chain'[c].got = {}
  BY <1>1, <1>2, <1>3, <1>4 DEF Refreshing
<1>6. page'.shown = NoRows
  BY Arrived DEF Blank
<1> QED
  BY <1>1, <1>2, <1>5, <1>6 DEF Fetched, Pending

\* A click sends its request and fetches nothing.
LEMMA PendingAtClick ==
    ASSUME NEW c \in Chains, Alone(c), chain[c] = Idle, NEW op, NEW x,
           chain'[c] = Sent(op, x)
    PROVE  /\ Pending' \subseteq Pending \cup {c}
           /\ \A d \in Pending : d # c /\ chain'[d] = chain[d]
           /\ chain'[c].op = op /\ chain'[c].on = {x}
<1>1. chain'[c].at = "sent" /\ chain'[c].op = op /\ chain'[c].on = {x} /\ ~chain[c].mounted
  BY IdleFields DEF Sent, Idle
<1> QED
  BY <1>1 DEF Pending, Alone

LEMMA FetchedAtClick ==
    ASSUME NEW c \in Chains, Alone(c), chain'[c].at # "reading", NEW r
    PROVE  \A d \in Fetched(r)' : d \in Fetched(r) /\ chain'[d] = chain[d]
BY DEF Fetched, Refreshing, Alone

-----------------------------------------------------------------------------
(* The marketplace and the portfolio page show what is there. *)

Within(r) ==
    /\ page.shown[r] \subseteq server[r]
    /\ \A c \in Fetched(r) : chain[c].got[r] \subseteq server[r]

LEMMA WithinByChain ==
    ASSUME NEW r \in Resources, Within(r), r \in Wants(view), NEW c \in Chains, CleanlyOn(c),
           server[r] \subseteq server'[r]
    PROVE  Within(r)'
<1>1. Alone(c)
  BY DEF CleanlyOn
<1>2. \A d \in Chains \ {c} : d \in Fetched(r)' => d \in Fetched(r) /\ chain'[d] = chain[d]
  BY <1>1 DEF Alone, Fetched, Refreshing
<1>3. SUFFICES /\ page'.shown[r] \subseteq server'[r]
               /\ c \in Fetched(r)' => chain'[c].got[r] \subseteq server'[r]
  BY <1>2 DEF Within, Fetched, Refreshing
<1>4. CASE Served(c) \/ Settled(c)
  BY <1>4 DEF Served, Settled, Within, Fetched, Refreshing
<1>5. CASE Restarted(c)
  <2>1. DOMAIN << >> = {}
    OBVIOUS
  <2> QED
    BY <1>5, <2>1 DEF Restarted, Within, Fetched
<1>6. CASE ReadMore(c)
  BY <1>6 DEF ReadMore, Within, Fetched, Refreshing
<1>7. CASE Renewed(c)
  BY <1>7 DEF Renewed, Within, Fetched
<1> QED
  BY <1>4, <1>5, <1>6, <1>7 DEF CleanlyOn

LEMMA WithinAtClick ==
    ASSUME NEW r, Within(r), PageInv, Click
    PROVE  Within(r)'
<1>1. PICK c \in Chains, b \in Buttons :
        /\ chain[c] = Idle /\ Alone(c) /\ chain'[c] = Sent(b[1], b[2])
        /\ server' = server /\ page'.shown = page.shown
  BY ClickDoes
<1>2. \A d \in Fetched(r)' : d \in Fetched(r) /\ chain'[d] = chain[d]
  <2>1. chain'[c].at # "reading"
    BY <1>1, IdleFields
  <2> QED
    BY <1>1, <2>1, FetchedAtClick
<1> QED
  BY <1>1, <1>2 DEF Within

LEMMA WithinAtFirst ==
    ASSUME PageInv, NEW v \in Views, Navigate(v), NEW r \in {"subs", "listings"}
    PROVE  Within(r)'
<1>1. Fetched(r)' = {} /\ page'.shown = NoRows
  BY NothingFetched
<1>2. NoRows[r] = {}
  BY DEF NoRows
<1> QED
  BY <1>1, <1>2 DEF Within

\* The requests under way will be served.
MarketOK ==
    view = "marketplace" =>
        /\ Within("listings")
        /\ \A c \in Pending : chain[c].op = "subscribe" => chain[c].on \subseteq server["listings"]

Covered(y) == \A k \in y : k[1] = "listing" => \E s \in server["subs"] : s.listing = k[2]

PortfolioOK ==
    view = "portfolio" =>
        /\ Within("subs")
        /\ \A c \in Pending : chain[c].op = "run" => \A y \in chain[c].on : Covered(y)

LEMMA ServedOps ==
    ASSUME TypedInv, NEW c \in Chains, Served(c)
    PROVE  chain[c].op \in OpsOf(view) \ {"load"}
BY DEF TypedInv, ChainsTyped, ChainTyped, Served, Pressed

LEMMA MarketByChain ==
    ASSUME MarketOK, PageInv, TypedInv, NEW c \in Chains, CleanlyOn(c)
    PROVE  MarketOK'
<1> SUFFICES ASSUME view = "marketplace"
             PROVE  /\ Within("listings")'
                    /\ \A d \in Pending' : chain'[d].op = "subscribe" =>
                            chain'[d].on \subseteq server'["listings"]
  BY DEF MarketOK, CleanlyOn
<1>1. server'["listings"] = server["listings"]
  <2>1. CASE Served(c)
    <3>1. PICK x : server' \in Outcomes(chain[c].op, x)
      BY <2>1 DEF Served
    <3>2. chain[c].op = "subscribe"
      BY <2>1, ServedOps DEF OpsOf
    <3> QED
      BY <3>1, <3>2, OutcomesChange DEF PageInv
  <2> QED
    BY <2>1 DEF CleanlyOn, Settled, Restarted, ReadMore, Renewed
<1>2. "listings" \in Wants(view) /\ "listings" \in Resources
  BY DEF Wants, Resources
<1>3. Within("listings")'
  BY <1>1, <1>2, WithinByChain DEF MarketOK
<1> QED
  BY <1>1, <1>3, PendingKept DEF MarketOK

LEMMA PortfolioByChain ==
    ASSUME PortfolioOK, PageInv, TypedInv, NEW c \in Chains, CleanlyOn(c)
    PROVE  PortfolioOK'
<1> SUFFICES ASSUME view = "portfolio"
             PROVE  /\ Within("subs")'
                    /\ \A d \in Pending' : chain'[d].op = "run" =>
                            \A y \in chain'[d].on : Covered(y)'
  BY DEF PortfolioOK, CleanlyOn
<1>1. server' = server
  <2>1. CASE Served(c)
    <3>1. PICK x : server' \in Outcomes(chain[c].op, x)
      BY <2>1 DEF Served
    <3>2. chain[c].op = "run"
      BY <2>1, ServedOps DEF OpsOf
    <3> QED
      BY <3>1, <3>2, OutcomesChange DEF PageInv
  <2> QED
    BY <2>1 DEF CleanlyOn, Settled, Restarted, ReadMore, Renewed
<1>2. "subs" \in Wants(view) /\ "subs" \in Resources
  BY DEF Wants, Resources
<1>3. Within("subs")'
  BY <1>1, <1>2, WithinByChain DEF PortfolioOK
<1> QED
  BY <1>1, <1>3, PendingKept DEF PortfolioOK, Covered

LEMMA MarketAtClick ==
    ASSUME MarketOK, PageInv, TypedInv, Click
    PROVE  MarketOK'
<1>1. PICK c \in Chains, b \in Buttons :
        /\ chain[c] = Idle /\ Alone(c) /\ chain'[c] = Sent(b[1], b[2])
        /\ server' = server /\ view' = view /\ page'.shown = page.shown
  BY ClickDoes
<1> SUFFICES ASSUME view = "marketplace"
             PROVE  MarketOK'
  BY <1>1 DEF MarketOK
<1>2. Within("listings")'
  BY WithinAtClick DEF MarketOK
<1>3. b[2] \in server["listings"]
  <2>1. b[2] \in page.shown.listings
    BY DEF Buttons
  <2> QED
    BY <2>1 DEF MarketOK, Within
<1>4. PICK op, x : op = b[1] /\ x = b[2] /\ chain'[c] = Sent(op, x)
  BY <1>1
<1>5. /\ Pending' \subseteq Pending \cup {c} /\ chain'[c].on = {x}
      /\ \A d \in Pending : d # c /\ chain'[d] = chain[d]
  <2>1. Alone(c) /\ chain[c] = Idle
    BY <1>1
  <2> QED
    BY <1>4, <2>1, PendingAtClick
<1> QED
  BY <1>1, <1>2, <1>3, <1>4, <1>5 DEF MarketOK

LEMMA PortfolioAtClick ==
    ASSUME PortfolioOK, PageInv, TypedInv, Click
    PROVE  PortfolioOK'
<1>1. PICK c \in Chains, b \in Buttons :
        /\ chain[c] = Idle /\ Alone(c) /\ chain'[c] = Sent(b[1], b[2])
        /\ server' = server /\ view' = view /\ page'.shown = page.shown
  BY ClickDoes
<1> SUFFICES ASSUME view = "portfolio"
             PROVE  PortfolioOK'
  BY <1>1 DEF PortfolioOK
<1>2. Within("subs")'
  BY WithinAtClick DEF PortfolioOK
<1>3. Covered(b[2])
  <2>1. b[2] \subseteq Rows
    BY DEF Buttons
  <2>2. \A k \in Rows : k[1] = "listing" => k[2] \in Subscribed
    BY DEF Rows
  <2>3. \A l \in Subscribed : \E s \in server["subs"] : s.listing = l
    BY DEF Subscribed, PortfolioOK, Within
  <2> QED
    BY <2>1, <2>2, <2>3 DEF Covered
<1>4. PICK op, x : op = b[1] /\ x = b[2] /\ chain'[c] = Sent(op, x)
  BY <1>1
<1>5. /\ Pending' \subseteq Pending \cup {c} /\ chain'[c].on = {x}
      /\ \A d \in Pending : d # c /\ chain'[d] = chain[d]
  <2>1. Alone(c) /\ chain[c] = Idle
    BY <1>1
  <2> QED
    BY <1>4, <2>1, PendingAtClick
<1> QED
  BY <1>1, <1>2, <1>3, <1>4, <1>5 DEF PortfolioOK, Covered

-----------------------------------------------------------------------------
(* The subscriptions page: a row that is no longer there has a chain open that *)
(* has removed it, so that another request about it crosses that one.          *)

Gone(x, ats) ==
    \E c \in Chains : /\ chain[c].mounted /\ chain[c].op = "unsubscribe"
                      /\ chain[c].on = {x} /\ chain[c].at \in ats

SubsOK ==
    view = "subscriptions" =>
        /\ \A x \in Ids(page.shown["subs"]) :
            x \in Ids(server["subs"]) \/ Gone(x, {"ok", "reading"})
        /\ \A c \in Fetched("subs") : \A x \in Ids(chain[c].got["subs"]) :
            x \in Ids(server["subs"]) \/ Gone(x, {"ok"})
        /\ \A c \in Pending :
            chain[c].op \in Rowish => chain[c].on \subseteq Ids(server["subs"])

\* Who has removed a row stays open until the page is renewed.
LEMMA GoneStays ==
    ASSUME NEW c \in Chains, Alone(c), NEW x
    PROVE  /\ Gone(x, {"ok"}) /\ chain[c].at # "ok" => Gone(x, {"ok"})'
           /\ /\ Gone(x, {"ok", "reading"})
              /\ ~(chain[c].mounted /\ chain[c].at \in {"ok", "reading"}
                   /\ chain[c].op \in Refreshes)
              => Gone(x, {"ok", "reading"})'
           /\ /\ Gone(x, {"ok", "reading"}) /\ GoesOn(chain[c], chain'[c])
              /\ chain'[c].at \in {"ok", "reading"}
              => Gone(x, {"ok", "reading"})'
           /\ Gone(x, {"ok"})' => Gone(x, {"ok", "reading"})'
BY DEF Gone, Alone, GoesOn, Refreshes

LEMMA SubsServed ==
    ASSUME SubsOK, view = "subscriptions", PageInv, TypedInv, Distinct, Clean,
           NEW c \in Chains, CleanlyOn(c), Served(c)
    PROVE  SubsOK'
<1>1. PICK x : /\ chain[c].on = {x} /\ server' \in Outcomes(chain[c].op, x)
  BY DEF Served
<1>2. /\ chain[c].mounted /\ chain[c].at = "sent" /\ page' = page /\ Alone(c)
      /\ GoesOn(chain[c], chain'[c]) /\ chain'[c].at = "ok" /\ view' = view
  BY DEF Served, CleanlyOn
<1>3. chain[c].op \in Rowish
  BY ServedOps DEF OpsOf
<1>4. \A y \in Ids(server["subs"]) :
        \/ y \in Ids(server'["subs"])
        \/ y = x /\ chain[c].op = "unsubscribe"
  <2>1. CASE chain[c].op = "replay"
    BY <1>1, <2>1, OutcomesChange DEF PageInv
  <2>2. CASE chain[c].op = "unsubscribe"
    <3>1. PICK s \in server["subs"] : s.id = x /\ server'["subs"] = server["subs"] \ {s}
      BY <1>1, <2>2, OutcomesChange DEF PageInv
    <3> QED
      BY <2>2, <3>1 DEF Ids
  <2> QED
    BY <1>3, <2>1, <2>2 DEF Rowish
<1>5. chain[c].op = "unsubscribe" => Gone(x, {"ok"})'
  BY <1>1, <1>2 DEF Gone, GoesOn
<1>6. \A y : /\ Gone(y, {"ok"}) => Gone(y, {"ok"})'
             /\ Gone(y, {"ok", "reading"}) => Gone(y, {"ok", "reading"})'
             /\ Gone(y, {"ok"})' => Gone(y, {"ok", "reading"})'
  BY <1>2, GoneStays
<1>7. \A y \in Ids(page'.shown["subs"]) :
        y \in Ids(server'["subs"]) \/ Gone(y, {"ok", "reading"})'
  BY <1>2, <1>4, <1>5, <1>6 DEF SubsOK
<1>8. \A d \in Fetched("subs")' : d \in Fetched("subs") /\ chain'[d] = chain[d]
  BY <1>2 DEF Fetched, Refreshing, Alone
<1>9. \A d \in Fetched("subs")' : \A y \in Ids(chain'[d].got["subs"]) :
        y \in Ids(server'["subs"]) \/ Gone(y, {"ok"})'
  BY <1>4, <1>5, <1>6, <1>8 DEF SubsOK
<1>10. ASSUME NEW d \in Pending', chain'[d].op \in Rowish
       PROVE  chain'[d].on \subseteq Ids(server'["subs"])
  <2>1. d \in Pending /\ d # c /\ chain'[d] = chain[d]
    BY PendingKept
  <2>2. d \in Plain /\ c \in Plain /\ d \in Chains
    BY <1>2, <1>3, <1>10, <2>1 DEF Plain, Pending
  <2>3. chain[d].on # {x}
    BY <1>1, <2>1, <2>2 DEF Distinct, Clean
  <2>4. PICK y : chain[d].on = {y}
    BY <2>1, <2>2 DEF TypedInv, ChainsTyped, ChainTyped, Pending, Pressed
  <2> QED
    BY <1>4, <1>10, <2>1, <2>3, <2>4 DEF SubsOK
<1> QED
  BY <1>7, <1>9, <1>10 DEF SubsOK

LEMMA SubsByChain ==
    ASSUME SubsOK, PageInv, TypedInv, Distinct, Clean, NEW c \in Chains, CleanlyOn(c)
    PROVE  SubsOK'
<1> SUFFICES ASSUME view = "subscriptions"
             PROVE  SubsOK'
  BY DEF SubsOK, CleanlyOn
<1>1. Alone(c) /\ \A d \in Pending' : d \in Pending /\ d # c /\ chain'[d] = chain[d]
  BY PendingKept DEF CleanlyOn
<1>2. \A d \in Chains \ {c} : d \in Fetched("subs")' =>
        d \in Fetched("subs") /\ chain'[d] = chain[d]
  BY <1>1 DEF Alone, Fetched, Refreshing
<1>3. ASSUME server' = server,
             \A x \in Ids(page'.shown["subs"]) :
                x \in Ids(server["subs"]) \/ Gone(x, {"ok", "reading"})',
             \A d \in Fetched("subs")' : \A x \in Ids(chain'[d].got["subs"]) :
                x \in Ids(server["subs"]) \/ Gone(x, {"ok"})'
      PROVE  SubsOK'
  BY <1>1, <1>3 DEF SubsOK
<1>4. CASE Settled(c)
  <2>1. /\ server' = server /\ page'.shown = page.shown /\ c \notin Fetched("subs")'
        /\ ~(chain[c].mounted /\ chain[c].at \in {"ok", "reading"} /\ chain[c].op \in Refreshes)
    BY <1>4 DEF Settled, Fetched, Refreshing
  <2>2. \A x : /\ Gone(x, {"ok"}) => Gone(x, {"ok"})'
               /\ Gone(x, {"ok", "reading"}) => Gone(x, {"ok", "reading"})'
    BY <1>1, <2>1 DEF Gone, Alone, Refreshes
  <2> QED
    BY <1>2, <1>3, <2>1, <2>2 DEF SubsOK, Fetched, Refreshing
<1>5. CASE Restarted(c)
  <2>1. DOMAIN << >> = {}
    OBVIOUS
  <2>2. Fetched("subs")' = {} /\ server' = server /\ page'.shown = page.shown
    BY <1>5, <2>1 DEF Restarted, Fetched
  <2>3. \A x : Gone(x, {"ok", "reading"}) => Gone(x, {"ok", "reading"})'
    BY <1>1, <1>5, GoneStays DEF Restarted
  <2> QED
    BY <1>3, <2>2, <2>3 DEF SubsOK
<1>6. CASE ReadMore(c)
  <2>1. /\ server' = server /\ page' = page /\ chain[c].at = "reading"
        /\ chain'[c].at = "reading" /\ GoesOn(chain[c], chain'[c])
        /\ "subs" \in DOMAIN chain'[c].got =>
            \/ chain'[c].got["subs"] = server["subs"]
            \/ "subs" \in DOMAIN chain[c].got /\ chain'[c].got["subs"] = chain[c].got["subs"]
    BY <1>6 DEF ReadMore, Resources
  <2>2. \A x : /\ Gone(x, {"ok"}) => Gone(x, {"ok"})'
               /\ Gone(x, {"ok", "reading"}) => Gone(x, {"ok", "reading"})'
    BY <1>1, <2>1, GoneStays
  <2>3. \A d \in Fetched("subs")' : \A x \in Ids(chain'[d].got["subs"]) :
          x \in Ids(server["subs"]) \/ Gone(x, {"ok"})'
    BY <1>2, <2>1, <2>2 DEF SubsOK, Fetched, Refreshing
  <2> QED
    BY <1>3, <2>1, <2>2, <2>3 DEF SubsOK
<1>7. CASE Renewed(c)
  <2>1. /\ server' = server /\ c \in Refreshing /\ Refreshing' = {}
        /\ "subs" \in DOMAIN chain[c].got /\ page'.shown["subs"] = chain[c].got["subs"]
    BY <1>7 DEF Renewed, Wants
  <2>2. \A x : Gone(x, {"ok"}) => Gone(x, {"ok", "reading"})'
    BY <1>1, <2>1, GoneStays DEF Refreshing
  <2>3. Fetched("subs")' = {} /\ c \in Fetched("subs")
    BY <2>1 DEF Fetched
  <2> QED
    BY <1>3, <2>1, <2>2, <2>3 DEF SubsOK
<1> QED
  BY <1>4, <1>5, <1>6, <1>7, SubsServed DEF CleanlyOn

LEMMA SubsAtClick ==
    ASSUME SubsOK, PageInv, TypedInv, Click, Clean'
    PROVE  SubsOK'
<1>1. PICK c \in Chains, b \in Buttons :
        /\ chain[c] = Idle /\ Alone(c) /\ chain'[c] = Sent(b[1], b[2])
        /\ server' = server /\ view' = view /\ page'.shown = page.shown
        /\ marks \subseteq marks' /\ (Crosses(b[1], b[2]) => "crossed" \in marks')
  BY ClickDoes
<1> SUFFICES ASSUME view = "subscriptions"
             PROVE  SubsOK'
  BY <1>1 DEF SubsOK
<1>2. PICK op, x : op = b[1] /\ x = b[2] /\ chain'[c] = Sent(op, x)
  BY <1>1
<1>3. /\ Pending' \subseteq Pending \cup {c} /\ chain'[c].on = {x}
      /\ \A d \in Pending : d # c /\ chain'[d] = chain[d]
  <2>1. Alone(c) /\ chain[c] = Idle
    BY <1>1
  <2> QED
    BY <1>2, <2>1, PendingAtClick
<1>4. \A d \in Fetched("subs")' : d \in Fetched("subs") /\ chain'[d] = chain[d]
  <2>1. chain'[c].at # "reading"
    BY <1>1, IdleFields
  <2> QED
    BY <1>1, <2>1, FetchedAtClick
<1>5. \A y : /\ Gone(y, {"ok"}) => Gone(y, {"ok"})'
             /\ Gone(y, {"ok", "reading"}) => Gone(y, {"ok", "reading"})'
  BY <1>1, IdleFields DEF Gone, Alone
<1>6. x \in Ids(server["subs"])
  <2>1. x \in Ids(page.shown["subs"])
    BY <1>2 DEF Buttons, Ids
  <2>2. ~Gone(x, {"ok", "reading"})
    BY <1>1, <1>2 DEF Clean, Crosses, Gone, Open, Waits
  <2> QED
    BY <2>1, <2>2 DEF SubsOK
<1> QED
  BY <1>1, <1>3, <1>4, <1>5, <1>6 DEF SubsOK

-----------------------------------------------------------------------------
(* The designer's page: a bot shown in another state than its own has been  *)
(* moved from there by a chain that is open.                                *)

Moved(b, from, to, ats) ==
    \E c \in Chains : /\ chain[c].mounted /\ chain[c].on = {b} /\ chain[c].at \in ats
                      /\ <<chain[c].op, from, to>> \in Moves

\* What the page shows of bot b, and what a refresh has read of it.
BotShown(b) ==
    LET h == page.shown["bots"][b]
        s == server["bots"][b]
    IN  h = "none" \/ h = s \/ Moved(b, h, s, {"ok", "reading"})

BotRead(b) ==
    LET h == page.shown["bots"][b]
        s == server["bots"][b]
    IN  \A c \in Fetched("bots") :
            LET g == chain[c].got["bots"][b]
            IN  /\ g = s \/ Moved(b, g, s, {"ok"})
                /\ h = "none" \/ h = g \/ \E m \in Moves : m[2] = h /\ m[3] = g

\* A request about b finds it as the button had it, and as refreshes have read it.
BotAsked(b) ==
    \A d \in Pending : chain[d].on = {b} =>
        /\ chain[d].op = "publish" => server["bots"][b] = "listed"
        /\ chain[d].op # "publish" =>
            /\ \E m \in Moves : m[1] = chain[d].op /\ m[2] = server["bots"][b]
            /\ page.shown["bots"][b] \in {"none", server["bots"][b]}
            /\ \A c \in Fetched("bots") : chain[c].got["bots"][b] = server["bots"][b]

BotsOK ==
    view = "designer" => \A b \in Bots : BotShown(b) /\ BotRead(b) /\ BotAsked(b)

\* Which operation moves a bot on is told by its state.
LEMMA OneMove ==
    \A m, n \in Moves : m[2] = n[2] => m[1] = n[1] /\ m[1] \in {"create", "submit", "qualify"}
BY DEF Moves

\* Who has moved a bot stays open until the page is renewed.
LEMMA MovedStays ==
    ASSUME NEW c \in Chains, Alone(c), NEW b, NEW p, NEW q
    PROVE  /\ Moved(b, p, q, {"ok"}) /\ chain[c].at # "ok" => Moved(b, p, q, {"ok"})'
           /\ /\ Moved(b, p, q, {"ok", "reading"})
              /\ ~(chain[c].mounted /\ chain[c].at \in {"ok", "reading"}
                   /\ chain[c].op \in Refreshes)
              => Moved(b, p, q, {"ok", "reading"})'
           /\ /\ Moved(b, p, q, {"ok", "reading"}) /\ GoesOn(chain[c], chain'[c])
              /\ chain'[c].at \in {"ok", "reading"}
              => Moved(b, p, q, {"ok", "reading"})'
           /\ Moved(b, p, q, {"ok"})' => Moved(b, p, q, {"ok", "reading"})'
<1>1. \A op : <<op, p, q>> \in Moves => op \in Refreshes
  BY DEF Moves, Refreshes
<1> QED
  BY <1>1 DEF Moved, Alone, GoesOn

\* While nothing is crossed, two requests about a bot that move it are one.
LEMMA OneMover ==
    ASSUME BusyInv, Distinct, Clean, view = "designer", TypedInv,
           NEW c \in Pending, NEW d \in Pending, chain[c].on = chain[d].on,
           chain[c].op = chain[d].op, chain[c].op \in {"create", "submit", "qualify"}
    PROVE  c = d
<1>1. CASE chain[c].op = "submit"
  BY <1>1 DEF Distinct, Clean, Plain, Pending
<1>2. CASE chain[c].op \in {"create", "qualify"}
  BY <1>2 DEF BusyInv, Working, Waits, Pending
<1> QED
  BY <1>1, <1>2

LEMMA BotsServed ==
    ASSUME BotsOK, view = "designer", PageInv, TypedInv, BusyInv, Distinct, Clean,
           NEW c \in Chains, CleanlyOn(c), Served(c), NEW b \in Bots
    PROVE  BotShown(b)' /\ BotRead(b)' /\ BotAsked(b)'
<1>1. PICK x : /\ chain[c].on = {x} /\ server' \in Outcomes(chain[c].op, x)
  BY DEF Served
<1>2. /\ chain[c].mounted /\ chain[c].at = "sent" /\ page' = page /\ Alone(c)
      /\ GoesOn(chain[c], chain'[c]) /\ chain'[c].at = "ok" /\ c \in Pending
  BY DEF Served, CleanlyOn, Pending
<1>3. chain[c].op \in {"create", "submit", "qualify", "publish"}
  BY ServedOps DEF OpsOf
<1>4. \A d \in Pending' : d \in Pending /\ d # c /\ chain'[d] = chain[d]
  BY PendingKept
<1>5. \A d \in Fetched("bots")' : d \in Fetched("bots") /\ chain'[d] = chain[d]
  BY <1>2 DEF Fetched, Refreshing, Alone
<1>6. \A p, q : /\ Moved(b, p, q, {"ok"}) => Moved(b, p, q, {"ok"})'
                /\ Moved(b, p, q, {"ok", "reading"}) => Moved(b, p, q, {"ok", "reading"})'
                /\ Moved(b, p, q, {"ok"})' => Moved(b, p, q, {"ok", "reading"})'
  BY <1>2, MovedStays
<1>7. BotShown(b) /\ BotRead(b) /\ BotAsked(b)
  BY DEF BotsOK
<1>8. CASE chain[c].op = "publish" \/ b # x
  <2>1. server'["bots"][b] = server["bots"][b]
    <3>1. CASE chain[c].op = "publish"
      BY <1>1, <3>1, OutcomesChange DEF PageInv
    <3>2. CASE chain[c].op # "publish" /\ b # x
      <4>1. PICK m \in Moves : server'["bots"] = [server["bots"] EXCEPT ![x] = m[3]]
        BY <1>1, <1>3, <3>2, OutcomesMirror DEF PageInv
      <4>2. server["bots"] \in [Bots -> BotStates]
        BY DEF TypedInv, PageTyped, TypedTable, Resources
      <4> QED
        BY <3>2, <4>1, <4>2
    <3> QED
      BY <1>8, <3>1, <3>2
  <2>2. BotShown(b)'
    BY <1>2, <1>6, <1>7, <2>1 DEF BotShown
  <2>3. BotRead(b)'
    BY <1>2, <1>5, <1>6, <1>7, <2>1 DEF BotRead
  <2>4. BotAsked(b)'
    BY <1>2, <1>4, <1>5, <1>7, <2>1 DEF BotAsked
  <2> QED
    BY <2>2, <2>3, <2>4
<1>9. CASE chain[c].op # "publish" /\ b = x
  <2>1. PICK m \in Moves :
          /\ m[1] = chain[c].op /\ m[2] = server["bots"][b]
          /\ server'["bots"] = [server["bots"] EXCEPT ![b] = m[3]]
    <3>1. PICK m \in Moves :
            /\ m[1] = chain[c].op
            /\ server'["bots"] = [server["bots"] EXCEPT ![b] = m[3]]
      BY <1>1, <1>3, <1>9, OutcomesMirror DEF PageInv
    <3>2. PICK n \in Moves : n[1] = chain[c].op /\ n[2] = server["bots"][b]
      BY <1>1, <1>2, <1>7, <1>9 DEF BotAsked
    <3>3. n[2] = m[2]
      BY <3>1, <3>2 DEF Moves
    <3> QED
      BY <3>1, <3>2, <3>3
  <2>2. server'["bots"][b] = m[3]
    BY <2>1 DEF TypedInv, PageTyped, TypedTable, Resources
  <2>3. PICK p, q : /\ p = server["bots"][b] /\ q = server'["bots"][b]
                    /\ <<chain[c].op, p, q>> \in Moves
    BY <2>1, <2>2 DEF Moves
  <2>4. Moved(b, p, q, {"ok"})' /\ Moved(b, p, q, {"ok", "reading"})'
    BY <1>1, <1>2, <1>9, <2>3 DEF Moved, GoesOn
  <2>5. /\ page.shown["bots"][b] \in {"none", server["bots"][b]}
        /\ \A d \in Fetched("bots") : chain[d].got["bots"][b] = server["bots"][b]
    BY <1>1, <1>2, <1>7, <1>9 DEF BotAsked
  <2>6. BotShown(b)'
    <3>1. page'.shown["bots"][b] \in {"none", p}
      BY <1>2, <2>3, <2>5
    <3> QED
      BY <2>3, <2>4, <3>1 DEF BotShown
  <2>7. BotRead(b)'
    <3>1. \A d \in Fetched("bots")' : chain'[d].got["bots"][b] = p
      BY <1>5, <2>3, <2>5
    <3>2. page'.shown["bots"][b] \in {"none", p}
      BY <1>2, <2>3, <2>5
    <3>3. \E n \in Moves : n[2] = p /\ n[3] = q
      BY <2>1, <2>2, <2>3
    <3> QED
      BY <2>3, <2>4, <3>1, <3>2, <3>3 DEF BotRead
  <2>8. ASSUME NEW d \in Pending', chain'[d].on = {b}
        PROVE  FALSE
    <3>1. d \in Pending /\ d # c /\ chain[d].on = {b}
      BY <1>4, <2>8
    <3>2. chain[d].op = "publish" => m[2] = "listed"
      BY <1>7, <2>1, <3>1 DEF BotAsked
    <3>3. chain[d].op # "publish"
      BY <3>2 DEF Moves
    <3>4. PICK n \in Moves : n[1] = chain[d].op /\ n[2] = server["bots"][b]
      BY <1>7, <3>1, <3>3 DEF BotAsked
    <3>5. chain[d].op = chain[c].op /\ chain[c].op \in {"create", "submit", "qualify"}
      BY <2>1, <3>4, OneMove
    <3> QED
      BY <1>1, <1>2, <1>9, <3>1, <3>5, OneMover
  <2>9. BotAsked(b)'
    BY <2>8 DEF BotAsked
  <2> QED
    BY <2>6, <2>7, <2>9
<1> QED
  BY <1>8, <1>9

LEMMA BotsByChain ==
    ASSUME BotsOK, PageInv, TypedInv, BusyInv, Distinct, Clean, NEW c \in Chains, CleanlyOn(c)
    PROVE  BotsOK'
<1> SUFFICES ASSUME view = "designer", NEW b \in Bots
             PROVE  BotShown(b)' /\ BotRead(b)' /\ BotAsked(b)'
  BY DEF BotsOK, CleanlyOn
<1>1. /\ Alone(c) /\ \A d \in Pending' : d \in Pending /\ d # c /\ chain'[d] = chain[d]
      /\ BotShown(b) /\ BotRead(b) /\ BotAsked(b)
  BY PendingKept DEF CleanlyOn, BotsOK
<1>2. \A d \in Chains \ {c} : d \in Fetched("bots")' =>
        d \in Fetched("bots") /\ chain'[d] = chain[d]
  BY <1>1 DEF Alone, Fetched, Refreshing
<1>3. CASE Settled(c)
  <2>1. /\ server' = server /\ page'.shown = page.shown /\ c \notin Fetched("bots")'
        /\ chain[c].at # "reading"
        /\ ~(chain[c].mounted /\ chain[c].at \in {"ok", "reading"} /\ chain[c].op \in Refreshes)
    BY <1>3 DEF Settled, Fetched, Refreshing
  <2>2. \A p, q : /\ Moved(b, p, q, {"ok"}) => Moved(b, p, q, {"ok"})'
                  /\ Moved(b, p, q, {"ok", "reading"}) => Moved(b, p, q, {"ok", "reading"})'
    <3>1. \A op, p, q : <<op, p, q>> \in Moves => op \in Refreshes
      BY DEF Moves, Refreshes
    <3> QED
      BY <1>1, <2>1, <3>1 DEF Moved, Alone
  <2>3. Fetched("bots")' \subseteq Fetched("bots") \ {c}
    BY <1>2, <2>1 DEF Fetched, Refreshing
  <2>4. BotShown(b)'
    BY <1>1, <2>1, <2>2 DEF BotShown
  <2>5. BotRead(b)'
    BY <1>1, <1>2, <2>1, <2>2, <2>3 DEF BotRead, Fetched, Refreshing
  <2>6. BotAsked(b)'
    BY <1>1, <1>2, <2>1, <2>3 DEF BotAsked, Fetched, Refreshing
  <2> QED
    BY <2>4, <2>5, <2>6
<1>4. CASE Restarted(c)
  <2>1. DOMAIN << >> = {}
    OBVIOUS
  <2>2. Fetched("bots")' = {} /\ server' = server /\ page'.shown = page.shown
    BY <1>4, <2>1 DEF Restarted, Fetched
  <2>3. \A p, q : Moved(b, p, q, {"ok", "reading"}) => Moved(b, p, q, {"ok", "reading"})'
    BY <1>1, <1>4, MovedStays DEF Restarted
  <2>4. BotShown(b)'
    BY <1>1, <2>2, <2>3 DEF BotShown
  <2>5. BotRead(b)' /\ BotAsked(b)'
    BY <1>1, <2>2 DEF BotRead, BotAsked
  <2> QED
    BY <2>4, <2>5
<1>5. CASE ReadMore(c)
  <2>1. /\ server' = server /\ page' = page /\ chain[c].at = "reading"
        /\ chain'[c].at = "reading" /\ GoesOn(chain[c], chain'[c])
        /\ "bots" \in DOMAIN chain'[c].got =>
            \/ chain'[c].got["bots"] = server["bots"]
            \/ "bots" \in DOMAIN chain[c].got /\ chain'[c].got["bots"] = chain[c].got["bots"]
    BY <1>5 DEF ReadMore, Resources
  <2>2. \A p, q : /\ Moved(b, p, q, {"ok"}) => Moved(b, p, q, {"ok"})'
                  /\ Moved(b, p, q, {"ok", "reading"}) => Moved(b, p, q, {"ok", "reading"})'
    BY <1>1, <2>1, MovedStays
  <2>3. \A d \in Fetched("bots")' :
          \/ chain'[d].got["bots"][b] = server["bots"][b]
          \/ d \in Fetched("bots") /\ chain'[d].got["bots"][b] = chain[d].got["bots"][b]
    BY <1>2, <2>1 DEF Fetched, Refreshing
  <2>4. BotShown(b)'
    BY <1>1, <2>1, <2>2 DEF BotShown
  <2>5. LET h == page.shown["bots"][b]
            s == server["bots"][b]
        IN  h = "none" \/ h = s \/ \E m \in Moves : m[2] = h /\ m[3] = s
    BY <1>1 DEF BotShown, Moved
  <2>6. BotRead(b)'
    BY <1>1, <2>1, <2>2, <2>3, <2>5 DEF BotRead
  <2>7. BotAsked(b)'
    BY <1>1, <2>1, <2>3 DEF BotAsked
  <2> QED
    BY <2>4, <2>6, <2>7
<1>6. CASE Renewed(c)
  <2>1. /\ server' = server /\ c \in Refreshing /\ Refreshing' = {}
        /\ "bots" \in DOMAIN chain[c].got /\ page'.shown["bots"] = chain[c].got["bots"]
    BY <1>6 DEF Renewed, Wants
  <2>2. Fetched("bots")' = {} /\ c \in Fetched("bots")
    BY <2>1 DEF Fetched
  <2>3. \A p, q : Moved(b, p, q, {"ok"}) => Moved(b, p, q, {"ok", "reading"})'
    BY <1>1, <2>1, MovedStays DEF Refreshing
  <2>4. BotShown(b)'
    BY <1>1, <2>1, <2>2, <2>3 DEF BotShown, BotRead
  <2>5. BotRead(b)' /\ BotAsked(b)'
    BY <1>1, <2>1, <2>2 DEF BotRead, BotAsked
  <2> QED
    BY <2>4, <2>5
<1> QED
  BY <1>3, <1>4, <1>5, <1>6, BotsServed DEF CleanlyOn

\* A button for what a bot is shown as finds it so.
LEMMA BotAskedAtClick ==
    ASSUME view = "designer", NEW b \in Bots, BotShown(b), BotRead(b), BusyInv, Clean,
           NEW op, <<op, b>> \in Buttons, ~Crosses(op, b)
    PROVE  /\ op = "publish" => server["bots"][b] = "listed"
           /\ op # "publish" =>
                /\ \E m \in Moves : m[1] = op /\ m[2] = server["bots"][b]
                /\ page.shown["bots"][b] \in {"none", server["bots"][b]}
                /\ \A c \in Fetched("bots") : chain[c].got["bots"][b] = server["bots"][b]
<1> DEFINE h == page.shown["bots"][b]
           s == server["bots"][b]
<1>1. \/ op = "submit" /\ h = "draft"
      \/ op = "create" /\ s = "none" /\ page.busy = "no"
      \/ op = "qualify" /\ h = "evaluation" /\ page.busy = "no"
      \/ op = "publish" /\ h = "listed"
  BY DEF Buttons, InState, Unmade
<1>2. \A p, q, ats : ~Moved(b, p, q, ats) \/ <<"qualify", p, q>> \in Moves
                     \/ <<"create", p, q>> \in Moves
  BY DEF Moved, Moves, Crosses, Open, Waits
<1>3. page.busy = "no" =>
        \A p, q, ats : ~Moved(b, p, q, ats) \/ <<"submit", p, q>> \in Moves
  BY DEF BusyInv, Working, Moved, Moves, Waits
<1>4. CASE op = "publish"
  BY <1>1, <1>4, <1>2 DEF BotShown, Moves
<1>5. CASE op = "submit"
  <2>1. h = s /\ s = "draft"
    BY <1>1, <1>2, <1>5 DEF BotShown, Moves
  <2>2. \A c \in Fetched("bots") : chain[c].got["bots"][b] = s
    BY <1>2, <2>1 DEF BotRead, Moves
  <2> QED
    BY <1>5, <2>1, <2>2 DEF Moves
<1>6. CASE op = "qualify"
  <2>1. h = s /\ s = "evaluation"
    BY <1>1, <1>2, <1>3, <1>6 DEF BotShown, Moves
  <2>2. \A c \in Fetched("bots") : chain[c].got["bots"][b] = s
    BY <1>2, <2>1 DEF BotRead, Moves
  <2> QED
    BY <1>6, <2>1, <2>2 DEF Moves
<1>7. CASE op = "create"
  <2>1. h = s /\ s = "none"
    BY <1>1, <1>2, <1>7 DEF BotShown, Moves
  <2>2. \A c \in Fetched("bots") : chain[c].got["bots"][b] = s
    BY <1>2, <2>1 DEF BotRead, Moves
  <2> QED
    BY <1>7, <2>1, <2>2 DEF Moves
<1> QED
  BY <1>1, <1>4, <1>5, <1>6, <1>7

LEMMA BotsAtClick ==
    ASSUME BotsOK, PageInv, TypedInv, BusyInv, Click, Clean'
    PROVE  BotsOK'
<1>1. PICK c \in Chains, k \in Buttons :
        /\ chain[c] = Idle /\ Alone(c) /\ chain'[c] = Sent(k[1], k[2])
        /\ server' = server /\ view' = view /\ page'.shown = page.shown
        /\ marks \subseteq marks' /\ (Crosses(k[1], k[2]) => "crossed" \in marks')
  BY ClickDoes
<1> SUFFICES ASSUME view = "designer", NEW b \in Bots
             PROVE  BotShown(b)' /\ BotRead(b)' /\ BotAsked(b)'
  BY <1>1 DEF BotsOK
<1>2. PICK op, x : op = k[1] /\ x = k[2] /\ chain'[c] = Sent(op, x)
  BY <1>1
<1>3. /\ Pending' \subseteq Pending \cup {c} /\ chain'[c].op = op /\ chain'[c].on = {x}
      /\ \A d \in Pending : d # c /\ chain'[d] = chain[d]
  <2>1. Alone(c) /\ chain[c] = Idle
    BY <1>1
  <2> QED
    BY <1>2, <2>1, PendingAtClick
<1>4. \A d \in Fetched("bots")' : d \in Fetched("bots") /\ chain'[d] = chain[d]
  <2>1. chain'[c].at # "reading"
    BY <1>1, IdleFields
  <2> QED
    BY <1>1, <2>1, FetchedAtClick
<1>5. \A p, q : /\ Moved(b, p, q, {"ok"}) => Moved(b, p, q, {"ok"})'
                /\ Moved(b, p, q, {"ok", "reading"}) => Moved(b, p, q, {"ok", "reading"})'
  BY <1>1, IdleFields DEF Moved, Alone
<1>6. BotShown(b) /\ BotRead(b) /\ BotAsked(b) /\ Clean /\ ~Crosses(op, x)
  BY <1>1, <1>2 DEF BotsOK, Clean
<1>7. BotShown(b)' /\ BotRead(b)'
  BY <1>1, <1>4, <1>5, <1>6 DEF BotShown, BotRead
<1>8. x = b =>
        /\ op = "publish" => server["bots"][b] = "listed"
        /\ op # "publish" =>
            /\ \E m \in Moves : m[1] = op /\ m[2] = server["bots"][b]
            /\ page.shown["bots"][b] \in {"none", server["bots"][b]}
            /\ \A d \in Fetched("bots") : chain[d].got["bots"][b] = server["bots"][b]
  <2>1. k = <<op, x>>
    BY <1>2 DEF Buttons
  <2> QED
    BY <1>6, <2>1, BotAskedAtClick
<1>9. BotAsked(b)'
  <2> SUFFICES ASSUME NEW d \in Pending', chain'[d].on = {b}
               PROVE  /\ chain'[d].op = "publish" => server["bots"][b] = "listed"
                      /\ chain'[d].op # "publish" =>
                        /\ \E m \in Moves : m[1] = chain'[d].op /\ m[2] = server["bots"][b]
                        /\ page.shown["bots"][b] \in {"none", server["bots"][b]}
                        /\ \A e \in Fetched("bots") :
                                chain[e].got["bots"][b] = server["bots"][b]
    BY <1>1, <1>4 DEF BotAsked
  <2>1. CASE d = c
    BY <1>3, <1>8, <2>1
  <2>2. CASE d # c
    BY <1>3, <1>6, <2>2 DEF BotAsked
  <2> QED
    BY <2>1, <2>2
<1> QED
  BY <1>7, <1>9

-----------------------------------------------------------------------------
(* A page whose buttons say what is there is not refused for it. *)

Offered == Clean => "refused" \notin marks /\ MarketOK /\ PortfolioOK /\ SubsOK /\ BotsOK

LEMMA OfferedIsServed ==
    ASSUME TypedInv, MirrorInv, MarketOK, PortfolioOK, SubsOK, BotsOK,
           NEW c \in Pending, NEW x \in chain[c].on, ~Superseded(chain[c].op, x)
    PROVE  Outcomes(chain[c].op, x) # {}
<1>1. /\ chain[c].op \in OpsOf(view) \ {"load"} /\ chain[c].on = {x}
      /\ Aim(chain[c].op, x)
  BY DEF TypedInv, ChainsTyped, ChainTyped, Pending, Pressed
<1>2. CASE chain[c].op = "subscribe"
  <2>1. view = "marketplace"
    BY <1>1, <1>2 DEF OpsOf, Rowish
  <2>2. x \in {x} \cap server.listings
    BY <1>1, <1>2, <2>1 DEF MarketOK
  <2> QED
    BY <1>2, <2>2 DEF Outcomes
<1>3. CASE chain[c].op \in Rowish
  <2>1. view = "subscriptions"
    BY <1>1, <1>3 DEF OpsOf, Rowish
  <2>2. PICK s \in server.subs : s.id = x
    BY <1>1, <1>3, <2>1 DEF SubsOK, Ids
  <2> QED
    BY <1>3, <2>2 DEF Outcomes, Rowish
<1>4. CASE chain[c].op = "run"
  <2>1. view = "portfolio"
    BY <1>1, <1>4 DEF OpsOf, Rowish
  <2>2. Covered(x)
    BY <1>1, <1>4, <2>1 DEF PortfolioOK
  <2> QED
    BY <1>4, <2>2 DEF Outcomes, Covered
<1>5. CASE chain[c].op \in {"create", "submit", "qualify", "publish"}
  <2>1. view = "designer" /\ x \in Bots
    BY <1>1, <1>5 DEF OpsOf, Rowish, Aim
  <2>2. BotAsked(x)
    BY <2>1 DEF BotsOK
  <2>3. CASE chain[c].op = "publish"
    <3>1. server.bots[x] = "listed"
      BY <1>1, <2>2, <2>3 DEF BotAsked
    <3> QED
      BY <2>3, <3>1 DEF Outcomes
  <2>4. CASE chain[c].op # "publish"
    <3>1. PICK m \in Moves : m[1] = chain[c].op /\ m[2] = server.bots[x]
      BY <1>1, <2>2, <2>4 DEF BotAsked
    <3>2. current[x] = server["bots"][x]
      BY <1>5, <2>1, <2>4, <3>1 DEF Superseded, MirrorInv, Moves
    <3> QED
      BY <1>5, <2>4, <3>1, <3>2 DEF Outcomes
  <2> QED
    BY <2>3, <2>4
<1> QED
  BY <1>1, <1>2, <1>3, <1>4, <1>5 DEF OpsOf, Rowish

LEMMA RefusedByChain ==
    ASSUME PageInv, TypedInv, MirrorInv, Clean, MarketOK, PortfolioOK, SubsOK, BotsOK,
           NEW c \in Chains, Progress(c) \/ Fail(c) \/ Vanish(c), "refused" \in marks'
    PROVE  "refused" \in marks
<1>1. CASE Refuse(c)
  <2>1. \/ marks' = marks
        \/ /\ chain[c].at = "sent" /\ chain[c].mounted
           /\ \E x \in chain[c].on :
                /\ Outcomes(chain[c].op, x) = {} /\ ~Superseded(chain[c].op, x)
    BY <1>1, RefuseDoes
  <2> QED
    BY <2>1, OfferedIsServed DEF Pending
<1>2. CASE Serve(c) \/ Refused(c) \/ Shown(c) \/ Refreshed(c) \/ Fail(c) \/ Vanish(c)
  <2>1. CASE Serve(c)
    BY <2>1, ServeDoes
  <2>2. CASE Fail(c)
    BY <2>2, FailDoes
  <2>3. CASE Refused(c) \/ Shown(c) \/ Refreshed(c) \/ Vanish(c)
    BY <2>3, RefusedDoes, ShownDoes, RefreshedDoes, VanishDoes
  <2> QED
    BY <1>2, <2>1, <2>2, <2>3
<1>3. CASE StartRefresh(c)
  BY <1>3, StartRefreshDoes
<1>4. CASE \E r \in Resources : Read(c, r)
  <2>1. PICK r \in Resources : Read(c, r)
    BY <1>4
  <2>2. marks' = marks \/ marks' = marks \cup {"disturbed"}
    BY <2>1, ReadDoes
  <2> QED
    BY <2>2
<1> QED
  BY <1>1, <1>2, <1>3, <1>4 DEF Progress

LEMMA OfferedAtFirst ==
    ASSUME PageInv, NEW v \in Views, Navigate(v)
    PROVE  Offered'
<1>1. /\ marks' = {} /\ page'.shown = NoRows /\ Pending' = {}
      /\ \A r : Fetched(r)' = {}
  BY Arrived, NothingFetched
<1>2. Within("subs")' /\ Within("listings")'
  BY WithinAtFirst
<1>3. NoRows["subs"] = {} /\ \A b \in Bots : NoRows["bots"][b] = "none"
  BY DEF NoRows
<1>4. MarketOK' /\ PortfolioOK'
  BY <1>1, <1>2 DEF MarketOK, PortfolioOK
<1>5. SubsOK'
  BY <1>1, <1>3 DEF SubsOK, Ids
<1>6. BotsOK'
  BY <1>1, <1>3 DEF BotsOK, BotShown, BotRead, BotAsked
<1> QED
  BY <1>1, <1>4, <1>5, <1>6 DEF Offered

LEMMA OfferedNext ==
    ASSUME Offered, PageInv, TypedInv, OpenInv, [Next]_vars
    PROVE  Offered'
<1>1. CASE Click
  <2> SUFFICES ASSUME Clean' PROVE Offered'
    BY DEF Offered
  <2>1. marks \subseteq marks' /\ marks' \subseteq marks \cup {"crossed", "together"}
    BY <1>1, ClickDoes
  <2>2. Clean /\ "refused" \notin marks'
    BY <2>1 DEF Clean, Offered
  <2> QED
    BY <1>1, <2>2, MarketAtClick, PortfolioAtClick, SubsAtClick, BotsAtClick
    DEF Offered, OpenInv
<1>2. CASE \E v \in Views : Navigate(v)
  BY <1>2, OfferedAtFirst
<1>3. CASE \E c \in Chains : Progress(c) \/ Fail(c) \/ Vanish(c)
  <2> SUFFICES ASSUME Clean' PROVE Offered'
    BY DEF Offered
  <2>1. PICK c \in Chains : Progress(c) \/ Fail(c) \/ Vanish(c)
    BY <1>3
  <2>2. Clean /\ CleanlyOn(c)
    BY <2>1, CleanStep DEF OpenInv, CleanlyOn
  <2>3. "refused" \notin marks'
    BY <2>1, <2>2, RefusedByChain DEF Offered, OpenInv
  <2> QED
    BY <2>2, <2>3, MarketByChain, PortfolioByChain, SubsByChain, BotsByChain
    DEF Offered, OpenInv
<1>4. CASE Elsewhere
  BY <1>4, ElsewhereDoes DEF Offered, Clean, Excuses
<1>5. CASE UNCHANGED vars
  <2>1. /\ server' = server /\ page' = page /\ chain' = chain
        /\ marks' = marks /\ view' = view
    BY <1>5 DEF vars
  <2>2. MarketOK' = MarketOK /\ PortfolioOK' = PortfolioOK
    BY <2>1 DEF MarketOK, PortfolioOK, Within, Covered, Fetched, Refreshing, Pending
  <2>3. SubsOK' = SubsOK
    BY <2>1 DEF SubsOK, Gone, Fetched, Refreshing, Pending
  <2>4. BotsOK' = BotsOK
    BY <2>1 DEF BotsOK, BotShown, BotRead, BotAsked, Moved, Fetched, Refreshing, Pending
  <2> QED
    BY <2>1, <2>2, <2>3, <2>4 DEF Offered, Clean
<1> QED
  BY <1>1, <1>2, <1>3, <1>4, <1>5 DEF Next

LEMMA OfferedInit == ASSUME Init PROVE Offered
<1>1. marks = {} /\ view = Home /\ Wants(Home) = {}
  BY HomeAssumption DEF Init
<1>2. view \notin {"marketplace", "portfolio", "subscriptions", "designer"}
  BY <1>1 DEF Wants, Resources
<1> QED
  BY <1>1, <1>2 DEF Offered, MarketOK, PortfolioOK, SubsOK, BotsOK

\* No request of a page is refused for what the tables say, in whatever order
\* its requests, their answers and its refreshes come, unless somebody else has
\* changed the tables, a fetch has failed, two refreshes of the page have
\* overlapped, a button was clicked for a row whose last request was not
\* finished with, or the bot it is about has a version newer than the one whose
\* state the server mirrors and the page shows (the buttons that Marketplace.tsx,
\* MySubscriptions.tsx, DesignerStudio.tsx and Portfolio.tsx show for what they
\* have fetched; strategy/models.py 98-110).
THEOREM OffersAlwaysHonoured == Spec => []OffersAreHonoured
<1>1. Init => PageInv /\ TypedInv /\ OpenInv /\ Offered
  BY InitPage, TypedInit, NothingOpen, OfferedInit DEF OpenInv
<1>2. PageInv /\ TypedInv /\ OpenInv /\ [Next]_vars => (PageInv /\ TypedInv /\ OpenInv)'
  BY NextPage, TypedNext, BusyNext, RowNext, DistinctNext, OneRefreshNext, IdsDifferNext,
     MirrorNext DEF OpenInv
<1>3. PageInv /\ TypedInv /\ OpenInv /\ Offered /\ [Next]_vars => Offered'
  BY OfferedNext
<1>4. Offered => OffersAreHonoured
  BY DEF Offered, Clean, OffersAreHonoured
<1> QED
  BY <1>1, <1>2, <1>3, <1>4, PTL DEF Spec
=============================================================================
