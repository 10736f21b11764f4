-------------------------------- MODULE Pages --------------------------------
(***************************************************************************)
(* The web client's pages beside the chart (packages/web/src: App,         *)
(* Marketplace, MySubscriptions, DesignerStudio, Portfolio): what one user *)
(* sees of the server's tables and what the buttons of the page ask for.   *)
(*                                                                         *)
(* One page is mounted at a time.  A click or a mount starts a chain of    *)
(* callbacks: the request, and the refresh of the page after its answer.   *)
(* Chains of one page overlap and are answered in any order.  A page that  *)
(* is left forgets its state; a request it has sent still reaches the      *)
(* server.  The tables are the user's view of Subscription, Marketplace    *)
(* and BotLifecycle, whose requests are one step here; everything that     *)
(* another session or another user does to them is Elsewhere.              *)
(***************************************************************************)
EXTENDS Integers, FiniteSetsExt

CONSTANTS
    Listings,   \* listings of other designers
    Bots,       \* bots the user may come to own
    Views,      \* the views the user's role is offered
    Home,       \* the one shown at first, the dashboard, which is Chart's
    Chains,     \* bound: chains of callbacks that may be open at a time
    MaxSubs     \* bound: subscriptions the page or the server know of

VARIABLES
    server,     \* tables: the user's subscriptions, active listings, own bots
                \* with the state mirrored onto each (bots.state)
    current,    \* the state of each bot's current version (bot_versions.state)
    view,       \* the mounted page
    page,       \* its state
    chain,      \* what each chain of callbacks is doing
    marks       \* history of the mounted page: what went on around it

vars == <<server, current, view, page, chain, marks>>

-----------------------------------------------------------------------------
(* Data. *)

Resources == {"subs", "listings", "bots"}

\* The listing of an own bot goes by the bot's name.
Offers == Listings \cup Bots
SubRows == [id: 1..MaxSubs, listing: Offers]

\* "off" stands for suspended, delisted and what follows: the page has no
\* button for any of them.
BotStates == {"none", "draft", "evaluation", "listed", "off"}
Tables == [subs: SUBSET SubRows, listings: SUBSET Offers,
           bots: [Bots -> BotStates]]
NoRows == [subs |-> {}, listings |-> {}, bots |-> [b \in Bots |-> "none"]]

\* What a page fetches when it is mounted and whenever it refreshes.
Wants(v) ==
    CASE v = "marketplace" -> {"listings", "subs"}
      [] v = "subscriptions" -> {"subs"}
      [] v = "designer" -> {"bots"}
      [] v = "portfolio" -> Resources
      [] OTHER -> {}

\* The dashboard fetches none of them.
ASSUME HomeAssumption == Home \in Views /\ Wants(Home) = {}

\* A button that waits for a listing is told from one that just waits, or not.
ASSUME NameAssumption == {"no", "yes"} \cap Offers = {}

ASSUME BoundAssumption == IsFiniteSet(Chains) /\ MaxSubs \in Nat

\* A page: its copy of the tables, the row highlighted, whose signals it
\* counts and what its chart shows (0 stands for a portfolio's curve), and
\* the button that waits.
Blank == [shown |-> NoRows, selected |-> 0, count |-> 0, drawn |-> {},
          busy |-> "no"]

Ops == {"load", "subscribe", "unsubscribe", "replay", "create", "submit",
        "qualify", "publish", "run"}

\* Mutant: submitting a bot does not refresh.
RefreshesButSubmit == {"load", "subscribe", "unsubscribe", "create", "qualify"}

Refreshes == {"load", "subscribe", "unsubscribe", "create", "submit", "qualify"}

Waits == {"subscribe", "create", "qualify", "publish", "run"}

\* A chain: its operation and object, whether its closure saw the object
\* selected, the tables its refresh has got and those it waits for.
Idle == [op |-> "none", on |-> {}, at |-> "idle", mounted |-> FALSE,
         clears |-> FALSE, got |-> << >>, left |-> {}]
Sent(op, x) == [Idle EXCEPT !.op = op, !.on = {x}, !.at = "sent", !.mounted = TRUE,
                            !.clears = op = "unsubscribe" /\ page.selected = x]
Load(v) == [Idle EXCEPT !.op = "load", !.at = "reading", !.mounted = TRUE,
                        !.left = Wants(v)]

\* Tables, with those that were fetched in place of theirs.
Over(fetched, tables) ==
    [r \in DOMAIN fetched \cup DOMAIN tables |->
        IF r \in DOMAIN fetched THEN fetched[r] ELSE tables[r]]

Got(c) == Over(chain[c].got, NoRows)
Asked(c) == IF chain[c].op \in {"replay", "unsubscribe"} THEN chain[c].on ELSE {}

\* What may make the mounted page's copy of the tables an old one: a change by
\* someone else or a fetch that failed, or two refreshes open at a time.
Excuses == {"disturbed", "overlapped"}

\* What else is told of its life: two chains crossed, two subscribe requests
\* were open together, an offer was refused.
Events == {"crossed", "together", "refused"}

Free == {c \in Chains : chain[c] = Idle}
Open == {c \in Chains : chain[c].mounted}
Writing == {c \in Open : chain[c].at \in {"sent", "ok", "refused"}}

Init ==
    /\ server \in [subs: {{}}, listings: {Listings}, bots: {NoRows.bots}]
    /\ current = NoRows.bots
    /\ view = Home /\ page = Blank
    /\ chain = [c \in Chains |-> Idle]
    /\ marks = {}

-----------------------------------------------------------------------------
(* The server. *)

\* One of s, the one there is or any.
One(s) == CHOOSE x \in s : TRUE

\* Ids nobody knows of: an id is never given out again while one could tell.
FreshIds ==
    (1..MaxSubs)
    \ ({s.id : s \in server.subs \cup page.shown.subs}
       \cup {page.selected, page.count} \cup page.drawn
       \cup UNION {{s.id : s \in Got(c).subs} \cup Asked(c) : c \in Chains})

\* The row an answered subscribe has made, unless there is one.
Joined(l) == IF \E s \in server.subs : s.listing = l THEN {}
             ELSE {[id |-> Min(FreshIds), listing |-> l]}

\* What the requests of the page do to the current version of a bot.
Moves == {<<"create", "none", "draft">>, <<"submit", "draft", "evaluation">>,
          <<"qualify", "evaluation", "listed">>,
          <<"qualify", "evaluation", "off">>}

\* The transitions that may be asked for elsewhere; a suspended version can be
\* listed again.
Transitions ==
    {<<"draft", "evaluation">>, <<"evaluation", "listed">>,
     <<"evaluation", "off">>, <<"evaluation", "draft">>,
     <<"listed", "off">>, <<"off", "listed">>}

\* The tables after a request, for each way it can be served; none if it is
\* refused for what the tables say.
Outcomes(op, x) ==
    CASE op = "subscribe" ->
            {[server EXCEPT !.subs = @ \cup Joined(l)] :
                l \in {x} \cap server.listings}
      [] op = "unsubscribe" ->
            {[server EXCEPT !.subs = @ \ {s}] : s \in {s \in server.subs : s.id = x}}
      [] op = "replay" -> {server : s \in {s \in server.subs : s.id = x}}
      [] op = "publish" ->
            {[server EXCEPT !.listings = @ \cup {b}] :
                b \in {b \in {x} : server.bots[b] = "listed"}}
      [] op = "run" ->
            {server : y \in {y \in {x} :
                \A k \in y : k[1] = "listing" =>
                                \E s \in server.subs : s.listing = k[2]}}
      [] OTHER ->
            {[server EXCEPT !.bots[x] = m[3]] :
                m \in {m \in Moves : m[1] = op /\ m[2] = current[x]}}

\* The current versions after a request: whatever moves one mirrors its state
\* onto the bot.
Mirrored(op, x, t) ==
    IF op \in {"create", "submit", "qualify"} THEN [current EXCEPT ![x] = t.bots[x]]
    ELSE current

\* The state shown of the bot is that of an earlier version: a new version is
\* a draft, and publishing it leaves the bot's state as it was.
Superseded(op, x) == op \in {"submit", "qualify"} /\ server.bots[x] # current[x]

\* Another subscription fits the bound, whatever is open.
IdsLeft ==
    Cardinality({c \in Chains : chain[c].op = "subscribe" /\ chain[c].at = "sent"})
        < Cardinality(FreshIds)

\* The request is served.  One of a page that was left changes the tables
\* behind the page now mounted.
Serve(c) ==
    /\ chain[c].at = "sent"
    /\ \E x \in chain[c].on : \E t \in Outcomes(chain[c].op, x) :
        /\ server' = t
        /\ current' = Mirrored(chain[c].op, x, t)
        /\ chain' = [chain EXCEPT ![c] = IF chain[c].mounted
                                         THEN [@ EXCEPT !.at = "ok"] ELSE Idle]
        /\ marks' = IF chain[c].mounted THEN marks
                    ELSE marks \cup {"disturbed"}
    /\ UNCHANGED <<view, page>>

\* It is refused: for what the tables say, which is told of the page if its
\* copy should have known, or for what was typed into a form.
Refuse(c) ==
    /\ chain[c].at = "sent"
    /\ \E x \in chain[c].on :
        LET stale == Outcomes(chain[c].op, x) = {}
            told == chain[c].mounted /\ ~Superseded(chain[c].op, x)
        IN  /\ stale \/ chain[c].op \in {"create", "publish", "run"}
            /\ marks' = IF stale /\ told /\ marks \cap Excuses = {}
                        THEN marks \cup {"refused"} ELSE marks
    /\ chain' = [chain EXCEPT ![c] = IF chain[c].mounted
                                     THEN [@ EXCEPT !.at = "refused"] ELSE Idle]
    /\ UNCHANGED <<server, current, view, page>>

\* Bound: of changes elsewhere and fetches that fail, one in the life of a page.
Disturb == "disturbed" \notin marks /\ marks' = marks \cup {"disturbed"}

\* Bots not made yet, one for each create that is open.
Unmade == {b \in Bots : server.bots[b] = "none"}
          \ UNION {chain[c].on : c \in {c \in Chains : chain[c].op = "create"}}

\* A bot is made, or its current version moved, in another session of the user.
MovedElsewhere(b) ==
    \E m \in Transitions \cup {<<"none", "draft">>} :
        /\ m[1] = current[b] /\ (m[1] = "none" => b \in Unmade)
        /\ server' = [server EXCEPT !.bots[b] = m[2]]
        /\ current' = [current EXCEPT ![b] = m[2]]

\* POST /bots/{id}/versions: the new version is a draft, and the state shown
\* of the bot stays.
Reversioned(b) ==
    /\ current[b] # "none"
    /\ current' = [current EXCEPT ![b] = "draft"]
    /\ UNCHANGED server

\* Other sessions of the user, other designers and the platform.
Elsewhere ==
    /\ \/ /\ \/ \E l \in Listings :
                   server' = [server EXCEPT !.listings =
                                IF l \in @ THEN @ \ {l} ELSE @ \cup {l}]
             \/ \E b \in Bots : server' = [server EXCEPT !.listings = @ \ {b}]
             \/ \E l \in server.listings : /\ IdsLeft /\ Joined(l) # {}
                                           /\ server' \in Outcomes("subscribe", l)
             \/ \E s \in server.subs : server' \in Outcomes("unsubscribe", s.id)
             \/ \E b \in Bots : server' \in Outcomes("publish", b)
          /\ UNCHANGED current
       \/ \E b \in Bots : MovedElsewhere(b) \/ Reversioned(b)
    /\ Disturb
    /\ UNCHANGED <<view, page, chain>>

-----------------------------------------------------------------------------
(* Views and buttons. *)

\* What remains of a chain nobody waits for: a change it has asked for.
Abandoned(c) == IF chain[c].at = "sent" /\ chain[c].op \notin {"replay", "run"}
                THEN [chain[c] EXCEPT !.mounted = FALSE, !.clears = FALSE] ELSE Idle

\* The page is unmounted and another one mounted, which loads its tables.
Navigate(v) ==
    LET left == [c \in Chains |-> Abandoned(c)]
        free == {c \in Chains : left[c] = Idle}
    IN  /\ v # view
        /\ IF Wants(v) = {} THEN chain' = left
           ELSE \E c \in free : chain' = [left EXCEPT ![c] = Load(v)]
        /\ view' = v /\ page' = Blank /\ marks' = {}
        /\ UNCHANGED <<server, current>>

Subscribed == {s.listing : s \in page.shown.subs}

\* Mutant: the rows are built from the listings.
RowsOfListings ==
    {<<"listing", l>> : l \in page.shown.listings}
        \cup {<<"bot", b>> : b \in {b \in Bots : page.shown.bots[b] # "none"}}

\* The rows of the portfolio page.
Rows == {<<"listing", l>> : l \in Subscribed}
        \cup {<<"bot", b>> : b \in {b \in Bots : page.shown.bots[b] # "none"}}

InState(state) == {b \in Bots : page.shown.bots[b] = state}

\* The buttons that can be clicked, and what for.  Submitting a bot does not
\* wait, and in the marketplace only the button last clicked does.
Buttons ==
    CASE view = "marketplace" ->
            {"subscribe"} \X {l \in page.shown.listings \ Subscribed : page.busy # l}
      [] view = "subscriptions" ->
            {"replay", "unsubscribe"} \X {s.id : s \in page.shown.subs}
      [] view = "designer" ->
            ({"submit"} \X InState("draft"))
            \cup IF page.busy # "no" THEN {}
                 ELSE ({"create"} \X Unmade) \cup ({"qualify"} \X InState("evaluation"))
                      \cup ({"publish"} \X InState("listed"))
      [] view = "portfolio" /\ page.busy = "no" -> {"run"} \X (SUBSET Rows \ {{}})
      [] OTHER -> {}

\* Another chain of the page, one whose button does not wait, is about the
\* same row, or both write the chart.
Crosses(op, x) ==
    \/ \E c \in Open : chain[c].on = {x} /\ chain[c].op \notin Waits
    \/ /\ op \in {"replay", "unsubscribe"}
       /\ \E c \in Writing : chain[c].op \in {"replay", "unsubscribe"}

\* Another subscription of the page is under way.
Joins(op) == op = "subscribe" /\ \E c \in Open : chain[c].op = "subscribe"

\* Mutant: the number of signals stays.
HighlightedOnly(x) == [page EXCEPT !.selected = x]

\* openReplay until its request.
Highlighted(x) == [page EXCEPT !.selected = x, !.count = 0]

\* A button is clicked: it waits or its row is highlighted, and the request
\* is sent.
Click ==
    /\ \E b \in Buttons, c \in Free :
        LET op == b[1]
            x == b[2]
        IN  /\ op = "subscribe" => IdsLeft
            /\ chain' = [chain EXCEPT ![c] = Sent(op, x)]
            /\ page' = CASE op = "subscribe" -> [page EXCEPT !.busy = x]
                         [] op \in Waits \ {"subscribe"} -> [page EXCEPT !.busy = "yes"]
                         [] op = "replay" -> Highlighted(x)
                         [] OTHER -> page
            /\ marks' = marks \cup {e \in {"crossed"} : Crosses(op, x)}
                              \cup {e \in {"together"} : Joins(op)}
    /\ UNCHANGED <<server, current, view>>

-----------------------------------------------------------------------------
(* Answers. *)

\* The chain ends; `finally` gives the button back.
Ended(c) == [chain EXCEPT ![c] = Idle]

\* Mutant: the designer's page gives back only the button of its form.
ReleasedAfterCreate(op) == IF op \in Waits \ {"qualify", "publish"} THEN "no" ELSE page.busy

Released(op) == IF op \in Waits THEN "no" ELSE page.busy

\* A refusal is told and nothing else is done.
Refused(c) ==
    /\ c \in Open /\ chain[c].at = "refused"
    /\ page' = [page EXCEPT !.busy = Released(chain[c].op)]
    /\ chain' = Ended(c)
    /\ UNCHANGED <<server, current, view, marks>>

\* What no refresh follows: a replay or a portfolio's curve is drawn, whatever
\* is selected by then, or a listing has been published.
Shown(c) ==
    /\ c \in Open /\ chain[c].at = "ok" /\ chain[c].op \notin Refreshes
    /\ page' = [page EXCEPT
            !.drawn = IF chain[c].op = "replay" THEN chain[c].on
                      ELSE IF chain[c].op = "run" THEN {0} ELSE @,
            !.count = IF chain[c].op = "replay" THEN One(chain[c].on) ELSE @,
            !.busy = Released(chain[c].op)]
    /\ chain' = Ended(c)
    /\ UNCHANGED <<server, current, view, marks>>

\* Unsubscribing clears the chart if, at the click, it was this row's; then,
\* as after every other change, the page asks for its tables again.
StartRefresh(c) ==
    /\ c \in Open /\ chain[c].at = "ok" /\ chain[c].op \in Refreshes
    /\ page' = IF chain[c].clears THEN [page EXCEPT !.selected = 0, !.drawn = {}] ELSE page
    /\ chain' = [chain EXCEPT ![c].at = "reading", ![c].left = Wants(view)]
    /\ marks' = IF marks \cap Excuses = {} /\ \E d \in Open : chain[d].at = "reading"
                THEN marks \cup {"overlapped"} ELSE marks
    /\ UNCHANGED <<server, current, view>>

\* One table is read, or its answer is an error.
Read(c, r) ==
    /\ chain[c].at = "reading" /\ r \in chain[c].left
    /\ \/ chain' = [chain EXCEPT ![c].left = @ \ {r},
                                 ![c].got = Over([x \in {r} |-> server[x]], @)]
          /\ marks' = marks
       \/ chain' = [chain EXCEPT ![c].left = @ \ {r}]
          /\ Disturb
    /\ UNCHANGED <<server, current, view, page>>

\* All are answered: the page shows what it got.
Refreshed(c) ==
    /\ chain[c].at = "reading" /\ chain[c].left = {}
    /\ page' = [page EXCEPT !.shown = Over(chain[c].got, @),
                            !.busy = Released(chain[c].op)]
    /\ chain' = Ended(c)
    /\ UNCHANGED <<server, current, view, marks>>

\* A fetch fails: the chain ends, and a request it has sent may yet arrive.
Fail(c) ==
    /\ c \in Open
    /\ page' = [page EXCEPT !.busy = Released(chain[c].op)]
    /\ chain' = [chain EXCEPT ![c] = Abandoned(c)]
    /\ Disturb
    /\ UNCHANGED <<server, current, view>>

\* A request nobody waits for never arrives.
Vanish(c) ==
    /\ chain[c].at = "sent" /\ ~chain[c].mounted
    /\ chain' = Ended(c)
    /\ UNCHANGED <<server, current, view, page, marks>>

Progress(c) ==
    \/ Serve(c) \/ Refuse(c) \/ Refused(c) \/ Shown(c) \/ StartRefresh(c)
    \/ (\E r \in Resources : Read(c, r)) \/ Refreshed(c)

Next ==
    \/ Elsewhere \/ Click
    \/ \E v \in Views : Navigate(v)
    \/ \E c \in Chains : Progress(c) \/ Fail(c) \/ Vanish(c)

Spec == Init /\ [][Next]_vars

-----------------------------------------------------------------------------
(* Properties. *)

TypeOK ==
    /\ server \in Tables /\ page.shown \in Tables
    /\ current \in [Bots -> BotStates]
    /\ view \in Views
    /\ page.selected \in 0..MaxSubs /\ page.count \in 0..MaxSubs
    /\ page.busy \in {"no", "yes"} \cup Offers
    /\ \A c \in Chains :
        /\ chain[c].op \in Ops \cup {"none"}
        /\ chain[c].at \in {"idle", "sent", "ok", "refused", "reading"}
        /\ DOMAIN chain[c].got \cup chain[c].left \subseteq Resources
    /\ marks \subseteq Excuses \cup Events

\* A button waits as long as one piece of work is under way, and for that
\* piece.  In the marketplace a second subscription may be started before the
\* first one has ended, and the first to end then gives back the button of the
\* other (Marketplace 68-70, DesignerStudio 144-146, Portfolio 166-168).
ButtonsWaitForWork ==
    LET working == {c \in Open : chain[c].op \in Waits}
    IN  /\ "together" \notin marks =>
            Cardinality(working) = IF page.busy = "no" THEN 0 ELSE 1
        /\ page.busy \in Offers => \E c \in working : chain[c].on = {page.busy}

PagesSound == TypeOK /\ ButtonsWaitForWork

\* When nothing is open the page shows the tables as they are, unless they
\* changed elsewhere, a fetch failed or two of its refreshes overlapped:
\* each of its own changes has been followed by a refresh that saw it.
QuietPageIsCurrent ==
    Open = {} /\ marks \cap Excuses = {} =>
        \A r \in Wants(view) : page.shown[r] = server[r]

\* What a page offers is not refused for what the tables say, unless they
\* changed elsewhere, the row's last request was not finished with, or the
\* bot has a version newer than the one whose state it shows, which the page
\* cannot tell (strategy/models.py 98-110, DesignerStudio 258-263).
OffersAreHonoured ==
    "refused" \in marks => marks \cap (Excuses \cup {"crossed"}) # {}

\* A chart and the number above it are of one row, in whatever order replays
\* and unsubscribes are answered (MySubscriptions 71-110).
ChartIsCounted == page.drawn # {} /\ page.count # 0 => page.drawn = {page.count}

\* If no replay or unsubscribe was started before the last one was answered,
\* that row is the one highlighted; the chart of another one is left only while
\* the highlighted row's replay is under way, or has found the row gone or
\* failed; and a number without a highlighted row is that of a row unsubscribed.
ChartIsOfRow ==
    LET gone(id) == \A s \in server.subs : s.id # id
        asked == \E c \in Writing : chain[c].op = "replay" /\ chain[c].on = {page.selected}
    IN  /\ page.selected = 0 => page.drawn = {}
        /\ page.count \notin {0, page.selected} => page.selected = 0 /\ gone(page.count)
        /\ ~ page.drawn \subseteq {page.selected} =>
                asked \/ gone(page.selected) \/ "disturbed" \in marks

ReplayIsOfRow ==
    view = "subscriptions" =>
        ChartIsCounted /\ ("crossed" \notin marks => ChartIsOfRow)
=============================================================================
