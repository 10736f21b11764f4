# A TLA+ model of MutualFund

This directory models MutualFund, a marketplace on which designers publish trading bots and users
subscribe to their signals: a FastAPI backend over PostgreSQL (`backend/src/mutualfund`) and a React
single-page client (`packages/web/src`). The modules are translated from the source; TLC checks them
on small instances and TLAPS proves the theorems of seven of them for every value of their
constants. Paths below are relative to `src/backend/src/mutualfund` unless they start with
`packages/` or name a document.

1. [The system](#1-the-system)
2. [What is hard in it](#2-what-is-hard-in-it)
3. [The modules](#3-the-modules)
4. [How the code is abstracted](#4-how-the-code-is-abstracted)
5. [The runs](#5-the-runs)
6. [Fairness and deadlock](#6-fairness-and-deadlock)
7. [The proofs](#7-the-proofs)
8. [Where code and documents disagree](#8-where-code-and-documents-disagree)
9. [What is not modelled](#9-what-is-not-modelled)
10. [The plan](#10-the-plan)

## 1. The system

One process serves HTTP and WebSocket requests as coroutines of one event loop. Each request opens a
`UnitOfWork` (a SQLAlchemy session, one transaction at READ COMMITTED); every `await` lets another
request run, and nothing in the code locks a row or a table: what orders concurrent requests are the
unique constraints of the schema and PostgreSQL's own row locks.

| Component | Its state | Its operations | What it must keep |
|---|---|---|---|
| Event ledger (M10, `ledger/ledger.py`) | table `ledger_entries`: streams of entries chained by hash | `append`, `replay`, `verify` | one unbroken chain per stream; an alteration is found where it was made |
| Unit of work (`foundation/uow.py`) | the open transaction of a request | enter, commit, rollback, exit | all or nothing becomes visible; it ends |
| Bots and versions (M3, `strategy/`) | tables `bots`, `bot_versions` | create, publish a version, transition, qualify | versions are numbered without gaps and never rewritten |
| Lifecycle and qualification (M4, `lifecycle/`) | the state of a version, the audit log | `transition`, `evaluate` | versions follow the diagram; every move is on record; a stamp is earned by the version that carries it |
| Audit log (`foundation/audit.py`) | table `audit_events` | `record` | agrees with the tables |
| Marketplace (M12, `marketplace/`) | table `listings` | publish, set status, browse | a listing advertises the record of the version it offers |
| Subscriptions and billing (M11, `subscription/`) | tables `subscriptions`, `billing_entries`, a signal stream per bot in the ledger | subscribe, unsubscribe, replay | one subscription and one charge for it, on a complete stream |
| Sandbox execution (M5, `execution/`) | cash and positions of a `SandboxLedger` | `submit`, `mark` | the ledger replays to the account |
| Risk and sizing (M6, `risk/`) | none | sizer, order check, guardrails | never short, never in debt, halted at the limits |
| Live sandbox session (`realtime/sandbox_session.py`) | account, peak, closes, one transaction per tick | start, tick, end | what is committed is a whole number of ticks; a version is listed on its own ledger |
| Backtest (M8, `backtest/`) | none after its rollback | `run` | trades as the live session does |
| Performance (M10, `ledger/performance.py`) | none | `from_events` | says what the events show |
| Strategies (M9, `strategy/library/`) | none | `evaluate` of `sma_cross`, `momentum`, `agent` | one entry at a time |
| Portfolio (M7, `portfolio/`) | none | combine backtests by weight | bounded by its legs |
| Identity (M1, `iam/`) | tables `users`, `identities`, `refresh_tokens` | login, dev login, refresh, logout, bootstrap | one user per address; a token is exchanged once |
| Web session (`packages/web/src/auth.tsx`) | the token pair in `localStorage` | call, refresh and retry, load the user, sign in, sign out | what is stored can be used |
| Chart (`packages/web/src/SignalChart.tsx`) | mode, bars, markers, cursor, timeframe, what is drawn | socket and fetch callbacks, clicks, playback | shows its source, as of its cursor |
| Pages (`App`, `Marketplace`, `MySubscriptions`, `DesignerStudio`, `Portfolio` under `packages/web/src`) | the view mounted, its copy of the tables, the button that waits, the row highlighted and what its chart shows | switch view, click, answer, refresh | a quiet page shows the tables; a button waits for work under way; a replay belongs to its row |
| Indicators (`packages/web/src/indicators.ts`) | none | candles, averages, RSI, VWAP, levels | on scale, without lookahead |

They interact in four ways. *Through the database*: the marketplace reads the rows the lifecycle
writes; a subscription reads the listing and appends to the ledger. *By calls inside one
transaction*: a session's tick signals, sizes, checks, fills, appends and commits. *By messages*:
the client's fetches and its sockets, which answer in any order and may be late. *Through shared
browser storage*: the tabs of one browser share one token pair.

## 2. What is hard in it

* **Read, await, decide, write.** Every request of the lifecycle, marketplace, subscription and
  identity modules decides on rows it read before other requests committed.
* **Partial writes.** The ORM writes only the columns that changed from what *this* request loaded,
  so two requests can each write half of a row.
* **Unique keys as locks.** An insert of a key another open transaction holds waits for it, and
  fails or succeeds when that one ends; a request can hold one such key and wait for another.
* **Abandonment.** A client leaves, or the server stops, at any await; the transaction rolls back
  and everything in memory is lost, though some messages were sent.
* **Answers out of order.** Fetches, sockets and timers of the chart call back after the mode,
  window or timeframe they belonged to has gone; a refresh answers after a sign-out.
* **Copies.** A page acts on the rows it fetched last. Its refreshes overlap, closures see the
  selection of an earlier render, and a request of a page that was left still reaches the server.
* **Boundaries.** Zero quantities, empty windows, flat prices, rounding, weights that sum to zero.

`PROJECT.json` lists each hazard at its line with the properties that speak of it; where no property
does, its note says why.

## 3. The modules

```
AppendOnlyLog  <=  EventLedger  --- EventLedgerProofs
                                           (<= : is implemented by)
LifecycleContract <= BotLifecycle
                        `-- Marketplace --- MarketplaceProofs    (of both)
Subscription --- SubscriptionProofs        (streams as EventLedger orders them)
Trading   Performance   Strategies
    `----------+------------'
            Backtest --+-- SandboxSession --+-- TradingProofs (of both) --- FoldFacts
                       `-- Portfolio -------'
Identity --- WebSession --- WebSessionProofs
Chart --- ChartProofs --- FoldFacts
Pages --- PagesProofs   (tables as Marketplace, BotLifecycle, Subscription change them)
Indicators --- IndicatorFeed
```

Each specification `X` that is run has a module `MCX` with the values of its constants and, for
some, a history variable, and a `.cfg`. The proofs of a property that is stated over such a variable
extend `MCX`.

**EventLedger** (`ledger/`, `foundation/uow.py`). `committed` are the rows others can read, `uow`
the sessions: phase, tenant, stream, flushed rows and the entry being inserted. `Enter` opens a unit
of work; `ReadTail` is `append` up to its flush (the SELECT of the last entry and the entry built on
it); `Flush` and `FlushConflict` are the two ends of the INSERT, possible when no other open
transaction holds the key; `Commit`, `Rollback`, `ExitClean`, `ExitRaising` end it. `Verify` is
`verify()`. **AppendOnlyLog** is what other sessions are promised: a log per stream that grows by
whole transactions.

**BotLifecycle** (`strategy/models.py`, `strategy/router.py`, `lifecycle/`). `bots`, `versions`,
`audit` are the tables; `req` holds for each request where it is and what it has loaded. Each
endpoint is a chain of actions, one per await: `PublishLoadBot`/`PublishCommit`,
`TransitionLoadBot`/`TransitionLoadVersion`/`TransitionCommit`, and for `qualify` the five steps
`QualifyLoadBot`, `QualifyLoadVersion`, `QualifyReloadBot`, `QualifyReloadVersion`, `QualifyCommit`,
which have the backtest in the middle. `Mirror` is the elided update of `bots.state`.
**LifecycleContract** is the diagram of one version's life with the record of it.

**Marketplace** extends BotLifecycle: `sale` holds requests on listings, which read the bot, the
version and, after a backtest, the listing, then write it. `traces` are the versions whose
publication's backtest has committed its events with the listing.

**Subscription** (`subscription/`, and the replay socket of `realtime/router.py`). A subscribe
request loads the listing, looks for a subscription, inserts it and its charge (`SubscribeInsert`),
checks the stream and appends the history signal by signal (`ReadTail`, `Flush`), and commits;
`Abandon` and the two conflicts end it otherwise. `Republish` and `SetStatus` are what Marketplace
does to a listing meanwhile. MCSubscription remembers the listings whose stream two requests were
filling at once.

**Trading** are the formulas of one equity: fills across the spread with slippage and commission,
the account after a fill, the sizer, the order check and the guardrails. **Performance** derives
trades, P&L and drawdown from events and applies the qualification criteria. **Strategies** are the
three registered strategies; the agent confirms with the stub's rule or, when Claude is the client,
with any verdict. **Backtest** folds these over closes. **SandboxSession** is the live session as
one action per await of a tick: `view` is what its transaction sees of the session's rows, `saved`
what is committed, `told` what the client was sent; `Abort` may happen at every stage. **Portfolio**
runs one backtest per bot and combines the curves.

**Identity** (`iam/`): logins, refreshes and logouts as read and commit steps, `Boot` as the start
of the server with its root-admin bootstrap, expiry, of a token that is not revoked, as a step of
the clock. **WebSession** adds the browser: `store` is `localStorage`, `flow` the chain of callbacks
of each request, from a call over its refresh to its retry. Between any two steps the page may be
reloaded or closed (`PageLeft`) or the connection fail (`FetchFails`): the request is then `gone`,
reaches the server or not (`NeverArrives`), and what it is answered nobody hears (`AnswerUnheard`).

**Pages**: `server` is what one user can see of the tables: own subscriptions, active listings, own
bots with the state mirrored onto each (`bots.state`); `current` the state of each bot's current
version, which submitting and qualifying check and which a new version (`Reversioned`) takes back to
draft behind the mirror. `page` is the mounted page: its copy of the tables, the row highlighted,
the number of signals told, what its chart shows, the button that waits. `chain` holds the chains of
callbacks, from `Click` over the request (`Serve`, `Refuse`) to what its answer does: `Shown` for a
replay or a curve, `StartRefresh`, `Read` and `Refreshed` for everything that asks for the tables
again. `Navigate` forgets a page, `Abandoned` says what is left of its requests, and `Elsewhere` is
every change by other sessions, designers and the platform to what the page can see, new versions
and transitions of the user's own bots included.

**Chart**: one action per browser event with all effects React runs for it. A bar is its time;
`drawn` is what the chart library was last given. **Indicators** are pure functions with fractions
for floating-point numbers; **IndicatorFeed** feeds them bars.

## 4. How the code is abstracted

* A SHA-256 digest is the sequence of what it digested: free of collisions.
* A definition of a bot (strategy, parameters, universe) is a model value; in BotLifecycle and
  Marketplace its backtest passes or not as the constant `Qualifying` says, and a listing's record
  is the definition it was computed from. SandboxSession has the criteria themselves.
* Money is an integer in `1/Scale` of a price tick; ratios are compared by multiplying out. Fees are
  whole units per share; the code's rounding of a fee to cents is not modelled.
* The Sharpe ratio is a free choice wherever it is defined.
* Writes take effect at the commit. PostgreSQL holds the row locks of flushed rows until then, and
  the requests write rows in one order, so no other request can see or interleave with them.
* A request that fails for a reason of its own (validation, permission, not found) changes nothing
  and is a refusal step.
* `NextKey` and the like keep the schema's unique constraints: an insert whose key was committed
  meanwhile fails.
* In Subscription a listing is re-published with a later version, one or several on. A
  re-publication of the version already listed, which changes the price, and an older version
  written last by overlapping publications, which Marketplace has, are left out of it.
* History variables (`overlapped`, `shared`, `lost`, and `marks` in Pages) only observe. One action
  reads them for a bound: in Pages one change from elsewhere or failed fetch happens in the life of
  a page.

## 5. The runs

A property whose name ends in `UnlessOverlapped` says what requests served one at a time keep; what
is left of it when they overlap is said by the other properties of the run. Conjunctions stand for
one question each; their parts are named definitions.

| Run | Instance | Properties |
|---|---|---|
| `ledger` | 2 tenants, 1 stream, 2 events, 3 sessions, entries 0..2 | `TypeOK`; `ChainIntact`; `AlterationLocated`; `RecordOnlyGrows` (implements AppendOnlyLog); `FlushReturns` |
| `lifecycle` | 1 bot, a definition that qualifies and one that does not, 2 requests, 2 versions, 5 audit records, symmetric requests | `TablesSound` (types, contiguous numbers, stamps on record); `AuditTellsState`; `RowsTellUnlessOverlapped` (stamps by the version's own backtest, the bot in the state of its last record); `FollowsContractUnlessOverlapped` (steps of LifecycleContract) |
| `lifecycle_record` | the same, 4 audit records | `QualifiedByOwnRecord`, **violated** |
| `market` | 1 bot, 1 lifecycle request, 2 sellers, 3 listings, 3 audit records | `ListingsSound` (types, at most one listing per overlapping publication, only bots once listed are offered, records come of backtests in the ledger); `ListingsTellUnlessOverlapped` (one listing per bot, with the record of the version it points to) |
| `market_draft` | 1 seller, 2 audit records | `OfferedVersionWasListed`, **violated** |
| `subscription` | 2 users, 1 listing and the demo stream, 2 requests, versions of 2 and 1 signals, free and paid, 2 subscriptions | `SubscriptionsSound` (types, one each, subscribers have signals); `StreamsSound` (whole histories; one, and the subscriber's own version's, unless requests filled the stream together or the listing was republished); `BilledOnJoining`; `RequestsEnd` |
| `session` | 7 ticks, every sequence of closes 7, 12, 20, 30; spread 1, slippage 5 %, cash 800, entries of 50 %, cap 33 %, daily loss 8 %, drawdown 25 % | `LedgerIsTheTruth` (types, the stream replays to the account, marks are reproducible, what is committed is within one tick of what happened); `NeverShortNeverOwing`; `BacktestAgrees`; `RecordShowsLedger` (wins are gains of cash, drawdown is the worst fall); `ListedOnItsLedger`; `TradesCostEquity`; `TradesWithinLimits` (what is traded on the stream is at an equity above the loss limit and within the drawdown of every mark before) |
| `identity` | 2 requests of any tabs, symmetric, with pages left and connections failing at any point; a Google login with the root admin's address, a dev login, an unverified login with the same address, 3 tokens, restarts | `AccountsSound` (types, identities linked by email, the configured root admin serves); `RotatedOnceUnlessShared`; `StoredTokenWorks`; `DroppedForCause` (a page clears working tokens only if what it had read was another tab's too, was exchanged in an answer no page heard, or had ended) |
| `chart` | 3 bars, windows of all, some and none of them, timeframes of 1 and 2 minutes, speeds 1 and 2, 2 sockets or fetches pending, 1 automatic and 1 manual marker | `ShowsItsSource` (types, one feed, the window asked for, "live" means open); `DrawnIsCurrent`; `TradesOnCandles`; `LoadedPageStays`; `PlaybackEnds` |
| `indicators` | every feed of 5 bars, drifts -4, 0, 3, gaps of 1 and 3 minutes, days of 4 minutes, weeks of 2 days, lengths 2 and 3 | `CandlesTellBars` (candles cover the bars, levels are those of completed periods); `LinesOnScale` (averages, RSI, VWAP); `NoRepaint` |
| `pages` | 1 listing and 1 bot, 5 views, 2 chains of callbacks, symmetric, 2 subscription ids, one disturbance a page, bots at rest on the subscriptions page | `PagesSound` (types, buttons wait for work under way); `QuietPageIsCurrent`; `OffersAreHonoured` (unless a newer version is behind the state shown); `ReplayIsOfRow` (chart and number are of one row, and which) |
| `portfolio` | 3 bots, one per strategy, on 2 symbols, every feed of 4 bars of closes 9, 12, 16; weights uneven, all zero, one zero, one negative | `BoundedByLegs`; `OneEntryAtATime` |

Why the bounds are enough for the questions asked:

* *ledger*: one session builds on an uncommitted row of its own (entries 1 and 2 of one
  transaction), a second waits for the key, a third reads; the second tenant shares the stream id,
  which the unique index does not tell apart. Three entries have a first, a middle and a last.
* *lifecycle, market*: an overlap is between two requests; a second version is what a first one's
  result can be misapplied to. Three listings are one more than two overlapping publications can
  make.
* *subscription*: a waiting cycle, a doubled stream and a doubled subscription each need two
  requests and two signals.
* *session*: the averages are of one and two closes, so every three closes may hold a cross; seven
  ticks hold two round trips, both halts (held and flat), refused and blocked orders, a profit and a
  loss. Versions both pass and fail the policy.
* *identity*: two requests are enough to hold one token at once, and for one to answer nobody while
  the other uses what it left in the store; two of the three logins have one address, verified and
  not, and the third has the root admin's.
* *chart*: three bars off the minute, as the demo feed's are, fill two candles of two minutes, and
  speed 2 overshoots the last.
* *pages*: an answer out of order needs two chains; a replay drawn in another row's place needs two
  subscriptions, which are to the listing and to the own bot once that is published; an id is given
  out again only when nobody can tell. While the subscriptions page, which shows no bot, is mounted,
  the designer has no bot or one that shows as listed (`BotsAtRest` in MCPages): bots in other
  states are followed on the pages that read them. One disturbance suffices to excuse a property,
  and every page that is mounted may have its own.
* *indicators*: five bars cross a day and a week, with and without gaps; WMA, Hull and RSI of
  lengths 2 and 3 are past their seeds.
* *portfolio*: the agent's RSI has two changes; four bars let each strategy enter, leave and enter
  again.

Symmetry is used only in runs without liveness properties, over sets whose members no definition
tells apart.

The two violations are single-property runs whose counterexamples are schedules of the code; section
8 tells them.

## 6. Fairness and deadlock

* **EventLedger, Subscription.** A coroutine between two awaits runs to the next one, and an open
  transaction goes on until it ends: weak fairness of the steps of a request. An INSERT that waits
  for a key is enabled each time its holder ends and disabled when another takes the key; PostgreSQL
  queues waiters for a transaction and wakes them in turn, so the INSERT is strongly fair. That a
  client keeps asking is not assumed, nor that an append which *may* be made is.
* **Chart.** Only the playback timer is fair, while the page is mounted (`setInterval`,
  `packages/web/src/SignalChart.tsx:600`). Users, servers and networks owe nothing.
* The other runs have safety properties only, and assume nothing. That a page's button comes back is
  left to `PagesSound`: fetches have no timeout, so nothing in the code makes an answer arrive.

Deadlock is checked in `ledger`, `subscription`, `identity` and `pages`. It is not in the others
because their systems do stop: a session and a backtest end, an error unmounts the chart, and bounds
on versions, audit records, listings and bars end the rest.

## 7. The proofs

**EventLedgerProofs**, for any sets of tenants, streams, events and sessions and any bound.
`ChainIntact` is not inductive: a session's next entry is built from rows it read before waiting.
The invariant `IInv` adds that sessions only hold rows of their own stream (`Owned`), that keys are
unique among committed rows and between them and a session's flushed ones, that one session at a
time has flushed rows of a stream (`SingleWriter`), and that every committed, flushed and *pending*
entry is linked to its predecessor in what its session sees. `FlushIsExclusive` and
`PublishPreservesIInv` carry the argument: when the index lets an INSERT through, no other open
transaction has flushed to that stream, because sessions see no gaps; and the pending entry, linked
to what its session sees, stays linked when rows are published. From `IInv` follow
`TypeCorrectness`, `OneWriterPerStream`, `ChainIntegrity` (`ChainVerifies`: what is linked and
unique passes `verify`) and `AlterationIsLocated` (`AlteredEntryIsReported`: the other entries'
links are checked against stored hashes, which an altered payload leaves alone).

It also proves that EventLedger implements AppendOnlyLog (`LedgerImplementsLog`, the property
`RecordOnlyGrows`). The mapping, `Record`, replays each stream: an entry's place is the number of
entries before it. From `IInv` a stream is a chain without gaps, so that place is the entry's own
number (`ReplayOfChain`, by counting) and later entries do not move it (`ReplayExtends`); a commit
is one `AppendBatch` of its stream's log, or a stutter if it has no rows, and every other step is a
stutter.

**MarketplaceProofs** is first about the lifecycle, for any bots, definitions, requests and bounds.
`IInv` types the tables and what every open request holds, has versions contiguous, and says that
the number a request has read is not ahead of the table's (`ReadsAreOld`). That last part is what
makes the unique constraint sufficient: a request that finds the next number free must have read the
last one. From it: `LifecycleTypes`, `NumbersAreContiguous`, `SnapshotsAreFrozen` (an action
property: no definition is rewritten), `StampsAreOnRecord`, which needs the step facts
`VersionsKept` and `AuditGrows`, and their conjunction `TablesAlwaysSound`, which the run checks.

`AuditInv` is about the log, however requests overlap. A version's state is where the version's last
record leads, and every record leaves a state that was the version's before: a transition that finds
the state moved on by another request writes only what its own load differs in, so its record may
skip back but never invents a state. From it `LogTellsState`.

`AloneInv` is about requests served one at a time: until two have been open together, what the open
one has read is what the tables hold (`RowsTell` and what `req` has loaded). Each commit keeps it,
because nothing moved between its reads and its writes; once `overlapped` is true it says nothing.
From it `RowsTellAlone`, and `FollowsContractAlone`: under the mapping each step is a step of
LifecycleContract or a stutter.

**FoldFacts** has what the proofs of the trading, of the chart and of the ids on the pages need
about `FoldLeft`: its value at the empty sequence and at one longer by an element, and what a
maximum over a set of naturals is. The module writes the fold out (`Fold`, `Greatest`) and is
instantiated once per operator folded; a proof that cites its theorems unfolds `FoldLeft` and `Max`
to match. Its facts are by induction on the length, with a *set* of sequences in the place of a
predicate (`SequenceInduction`), which the provers can instantiate.

**TradingProofs** is first about the session, for any feed, fill model, sizes, limits and length of
session. `Sound` says that the account is typed, never short and, under `RoomForCosts`, never in
debt: a purchase happens only from a flat account, whose equity is its cash. `RoomForCosts` is the
assumption that the cost of a share above its mark fits in what the sizing fraction leaves;
`AccountStaysLongAndSolvent` holds under it. `FillsAreConservative` is an action property proved
with the same invariant. `Guarded` is about the limits: every mark on the stream is no more than the
running peak, every trade on it was made at an equity within both limits, of the start and of the
marks before it, and an order is submitted only after the check, against a peak no lower than those
marks; an event appended later does not change what an earlier bar replays to
(`EarlierFillsWithin`). From it `TradesAlwaysWithinLimits`.

`Truth` adds what is on the ledger: folding the stream gives the account, each mark is the equity of
the events before it at its bar, what is committed is a prefix of the stream that ends with a mark,
and the client knows its fills and at most one more. Each appended event is one step of the fold
(`LedgerAlwaysTells`). `Backtests` says that a backtest of the closes consumed so far is in the
state of the session, stage by stage of a tick; the bar that comes is one `BacktestStep`
(`BacktestAlwaysAgrees`). `Records` is about the fold of the performance record: a session's fills
alternate between an entry from a flat account and an exit of all of it, so that the average cost is
the price of the last entry, and without commission a trade wins exactly if the round trip left more
cash (`WinsAlwaysCashGains`). The running peak of the drawdown finds the worst fall between any two
marks (`WorstFall`), if no mark is negative: the code skips peaks that are not positive.
`RecordAlwaysShows` and `ListedAlwaysOnLedger` are therefore stated under `RoomForCosts`, which
keeps equity from falling below zero; the instance that is run has it.

**TradingProofs** goes on with the portfolio, for any legs, weights, feeds and length of the window.
`LegsBacktested` is about every leg after any number of bars (`IsLeg`): it is long or flat, its
fills have bought and sold in turn, and it holds something exactly if the last one bought. No
strategy buys unless it is flat or sells unless it holds (`SignalsGated`, where an agent only ever
turns a signal of the averages into none), and what the sizer sells is the whole position
(`FillKeepsAccount`): both are needed for a bar to keep it (`BarKeepsLeg`), whatever a halt or a
refused order does in between. `Combined` says where the result comes from. From it
`OneEntryAlways`. The shares of a whole are never all zero (`SharesOfAWhole`), so a bar of the
portfolio is the capital times a weighted sum, which lies between two of the numbers it weighs
(`WeightedMean`). For the drawdown, the fall recorded of the portfolio is one between two bars of
its curve (`FallOfCurve`); when a weighted sum of naturals falls, one of them falls as deep,
relative to where it was (`OneFallsAsDeep`, by comparing the sums of both sides leg by leg); and
what is recorded of that leg bounds that fall, through the same rounding (`SpreadFallsLess`).
`AlwaysBoundedByLegs` is stated under `RoomForCosts`: a leg whose equity is negative has no drawdown
on record, since the code skips peaks that are not positive, and could draw the portfolio down
unseen; the instance that is run has room. The weights are those of `BoundedByLegs`: without a
negative one.

**SubscriptionProofs**, for any users, listings, prices, versions and concurrent requests. `IInv`
types the tables and says what a request holds at each stage (`TaskOK`): past its check it has
signals to append, or found some, or its version emits none. The key of a row inserted and not
committed is nobody else's, open or committed (`KeysHeldOnce`), nor is its id (`IdsGivenOnce`), and
the requests that may yet insert a row fit the bound on ids (`Counted`). `InsertKeeps` takes the
first two from the unique constraint; `CommitKeeps` makes the row visible with the stream it relies
on, where streams never shrink (`CommitStreams`). From it: `SubscriptionsAlwaysSound`, and
`AlwaysBilledOnJoining`, whose step is a commit (`CommitBills`): the row's key identifies the
request and so the price it was shown, and its id the one charge there is. `StreamInv` has every
stream a concatenation of whole histories (`StreamsAlwaysSound`): a request appends only while it
fills, one commit adds what it has appended, and a stream with more than one history, or with
another than that of the version a subscriber joined for, is one that two requests filled together
or whose listing was republished.

**MarketplaceProofs** goes on with the marketplace, for any listings and concurrent requests, on the
lifecycle or on listings. `MarketInv` adds to the lifecycle's `IInv` that every state `listed` in a
table or in what a request has loaded is on the audit record (`ListedOnRecord`: a mirror may be
stale but never invented), what the requests on listings have read (`SaleOK`), and `Counted`: a
bot's listings and the publications that have found none are together no more than the requests. A
publication finds none only while there is none (`SaleMoves`), and inserting takes it out of those
that will (`InsertKeeps`); the columns of a lost update mix, but never the bot's (`UpdateKeeps`).
From it: `ListingsAlwaysSound`, the bound on duplicate listings, that only bots that were listed are
offered, and that every record shown has its backtest in the ledger: a lost update takes the record
of a publication that has committed or leaves the one there was (`RecordsReproducible`).
`SalesAlone` is what holds until two requests on listings have been open together: the open one has
read the listing as it is, and every listing has the record of the version it points to, because
definitions are frozen whatever the lifecycle does. From it `ListingsTellAlone`.

**WebSessionProofs**, for any logins, tabs, root addresses and bound on tokens. `WebInv` types the
tables, what each request has read (`ServedOK`) and what its chain holds (`ChainOK`: a chain waits
in the stage its request is in). `Rotation` is the argument for `RotatedOnce`: a request that is
about to exchange a token has read it as live, a token something was exchanged for is revoked, so
nothing was exchanged for it yet, and it stays so because two chains that hold one token are
recorded in `shared`. `Fits` bounds the tokens issued together with the requests that may yet be
given one. `Accounts` has emails unique (an insert whose key is free), and under `SteadyLogins` (a
subject has one email, and no dev login is in a root admin's name, as in the instance that is run)
every identity and every user a login has found carries the login's email; from it
`AccountsAlwaysSound`, where a dev login's change of role cannot reach the root admin.

`TokensTraced` follows each token: one in an answer under way is nobody's and works (`FreshTokens`);
one that was exchanged waits for that answer or is held by nobody and not stored (`SpentTokens`);
only what does not work is refused (`RefusedTokens`). A token exchanged in an answer nobody hears is
`Unheard`, from when its page is gone. Every step is one of four: it moves no token (`Quietly`),
delivers an answer (`Delivered`), issues a token (`Issued`) or is a restart. From it:
`StoredTokenAlwaysWorks` and the action property `DroppedOnlyForCause`. The latter needs the excuse
of an unheard answer: a page holding a token that was exchanged in one may clear the pair of a
sign-in made since. That takes four tokens, one more than the run has.

**PagesProofs**, for any listings, bots, views and number of chains. `Followed` says of each table
the page wants: it is shown as it is, or a refresh is due (`Due`) or under way; and what an open
refresh has read is as it is, unless another one is due, whose start will be recorded as an overlap.
A change by the page makes a refresh due (`ServeStep`; publishing does not refresh, and the
designer's page does not want what it changes), so what is being read when the change comes is read
again. With nothing open only the first is left: `QuietPagesAlwaysCurrent`.

`TypedInv` types the page and its chains, with `RoomForIds`: a free id for every subscription asked
for. `BusyInv` has at most one waiting piece of work off the marketplace, and there one for the
listing whose button waits (`PagesAlwaysSound`); `RowInv` one chain at a time that may still draw,
unless chains crossed, and says what the chart and the number are left at when that chain is
refused, fails or unsubscribes the row (`ReplaysAlwaysOfRow`). `Offered` is the argument for
`OffersAlwaysHonoured`, as long as nothing excuses the page: what it shows, and what its refresh has
read, differs from the tables only by what an open chain of the page has changed (`Gone`, `Moved`),
so that a click on such a row would cross that chain; and every request under way finds the tables
as its button had them (`MarketOK`, `PortfolioOK`, `SubsOK`, `BotsOK`), because chains whose buttons
do not wait are of different rows (`Distinct`) and refreshes come one at a time (`OneRefresh`). Of a
bot whose current version the mirror lags behind it claims nothing: submitting or qualifying it may
be refused (`Superseded`).

**ChartProofs**, for any feed, windows, timeframes, speeds, trades and bounds on what is under way.
`Sound` types the page (`Typed`) and has three parts. `Connections`: of all sockets only the live
one can still open or send, and of all fetches one that is not cancelled is the one last asked for;
so whatever calls back later changes nothing but its own row, or comes from the source the page is
on. `Sources`: the bars held are then what that source has sent, a prefix of the feed or the window
asked for. `Pictures`: the candles drawn are those of the bars up to the cursor in the timeframe
selected, and every marker that was not set by hand stands at the time of one of those bars. Each
event that changes what is held runs the effect that draws it all (`Redrawn`), draws the markers
again (`Remarked`), or leaves the page neither loaded nor following. The numbers behind it are that
a window is a stretch of a rising feed (`WindowIsBars`), so that slicing at the cursor and finding
the markers up to its bar agree (`OrdersOnCandles`), that the trades of a window stand at its bars,
one a bar at most (`TradesAreMarks`), and that clearing keeps exactly the orders (`ClearedIsMarks`).
From it: `SourceAlwaysShown`, `DrawnAlwaysCurrent`, `TradesAlwaysOnCandles`, and, with
`FailsBeforeFirst` (an effect throws at a cursor before the first bar only, and such a cursor comes
of an empty window only), `LoadedPageAlwaysStays`. `ChartAssumption` has the bars of the feed at
increasing times, because `DemoFeed` adds a step to its clock before each, timeframes of whole
minutes with 1m among them, and finitely many trades.

The proofs use the assumptions named in the modules (`MaxSeqAssumption`, `LifecycleAssumption`,
`TradingAssumption`, `PerformanceAssumption`, `StrategyAssumption`, `SessionAssumption`,
`PortfolioAssumption`, `SubscriptionAssumption`, `MarketAssumption`, `IdentityAssumption`,
`HomeAssumption`, `NameAssumption`, `BoundAssumption`, `ChartAssumption`); TLC evaluates them in the
runs.

*Only model-checked*: liveness (`FlushReturns`, `RequestsEnd`, `PlaybackEnds`), which the prover
cannot treat under fairness; the indicators, whose recursive definitions keep their modules from the
prover (`CandlesTellBars`, `LinesOnScale`, `NoRepaint`); and the two properties that are violated.

## 8. Where code and documents disagree

Found as violations:

* **`lifecycle_record`.** `qualify` backtests one version, then re-reads the *current* version and
  stamps that (`strategy/router.py:260`). A version published and moved to evaluation meanwhile is
  qualified by another one's result, against `strategy/models.py:49`.
* **`market_draft`.** `publish` looks at the bot's mirrored state and offers its current version
  (`marketplace/service.py:55`); after a new version of a listed bot is created, a draft is offered,
  against `marketplace/models.py:3`.

Noticed while modelling; the models do what the code does:

* *Lifecycle*: `POST /bots/{id}/transition` lists a version without qualification; a stale request
  may leave `bots.state` another state than the last record's.
* *Marketplace*: two overlapping first publications make two listings, after which every further one
  fails; overlapping re-publications mix columns; a listing stays active when its bot is suspended
  (REQUIREMENTS.md:38 says otherwise); publishing commits its backtest's fills to the ledger.
* *Subscription*: two subscribe requests can both find the stream empty, the second appending after
  the first commits (`subscription/service.py:166`, against "once ... (idempotent)", 164);
  `StreamsSound` names this exception; a subscriber of a later version reads the first version's
  signals (`subscription/service.py:66`, against `subscription/router.py:55`); who unsubscribes and
  returns is charged again; ledger stream ids are not isolated per tenant
  (IMPLEMENTATION_PLAN_M5_M10.md:64).
* *Session*: without `max_ticks` (`realtime/router.py:80`) it never qualifies and its version stays
  in evaluation, against `realtime/sandbox_session.py:7`; fill costs can take an approved order over
  the weight cap (`risk/model.py:4`); a halt also blocks exits; the daily loss limit is measured
  against the cash of the session's start for as long as it runs (`realtime/sandbox_session.py:117`
  and 164, `backtest/service.py:129`), where `risk/guardrails.py:4` says intraday, line 16
  "day-start equity", `config.py:54` "on the day" and REQUIREMENTS.md:194 daily: a halt while flat
  never ends, and `TradesWithinLimits` claims no more than what the code compares;
  `settings.slippage_bps` and `equity_commission_per_share` are not passed to the `SandboxLedger`.
* *Identity*: an unverified login on a known address always fails with 500; bootstrap lowercases its
  address, logins do not; an invalid refresh token gives 500.
* *Web session*: when nobody hears the answer to a committed refresh (page reloaded or closed,
  connection lost, restart), the stored token is spent and the next call ends in a 401
  (`packages/web/src/auth.tsx:42`); `StoredTokenWorks` names this exception; two tabs that refresh
  together can clear the pair the faster one stored; a refresh that answers after a sign-out puts a
  live pair back; the tokens of a Google login never reach the store.
* *Chart*: Play on an empty window moves the cursor to -1 and an effect throws, which unmounts the
  page (`packages/web/src/SignalChart.tsx:604`); `LoadedPageStays` names this exception. A late
  `onclose` of a left socket says "closed" over the live one; manual markers keep the candle they
  were set on when the timeframe changes; a new window does not reset their count.
* *Portfolio*: negative weights are accepted, and take the portfolio out of the bounds of its legs;
  an agent driven by Claude need not decide alike live and in a backtest; re-publishing overwrites a
  listing's snapshot (`portfolio/router.py:4` says frozen).
* *Pages*: a replay fetched earlier, or an unsubscribe whose closure saw another row selected, may
  be answered last and change the chart of the row now highlighted
  (`packages/web/src/MySubscriptions.tsx:72` and 102); `ReplayIsOfRow` names this exception, and
  these: a replay that is refused leaves the chart of the row before under the new highlight (lines
  72-75), and after unsubscribing the highlighted row its number of signals stays displayed (line
  150). After a new version of a bot the page goes on offering what its mirrored state allows, and
  qualifying is refused with 409 (`strategy/models.py:98`, `strategy/router.py:241`);
  `OffersAreHonoured` names this exception. Submitting a bot does not wait, so it can be clicked
  twice (`packages/web/src/DesignerStudio.tsx:149`), and in the marketplace a second subscription
  gives the first one's button back (`packages/web/src/Marketplace.tsx:69`). A fetch that fails
  leaves a page with its old rows; two refreshes answered in the other order do, too.

## 9. What is not modelled

* **Option pricing and positions**: no session or backtest trades an option; the options-leverage
  check has nothing to check.
* **FixedQuantity and VolatilityTarget sizers**: no caller. Planned below.
* **Market data (M2)**: read-only, stateless, and not read by sessions or backtests, which use the
  demo feed.
* **OAuth with Google**: an external service; Identity takes what it asserts as input. The
  permission dependency is a lookup in a constant lattice.
* **Contents of forms**, what they are refused for (prices, capital, a version's parameters: one
  refusal step), a seller's own withdrawn listing put back, the earnings and qualification panels
  and the weights beside a portfolio's rows: they hold what is typed or fetched and no decision of
  the client reads them. `types.ts` and `main.tsx` have no state.
* **Migrations**: no revisions. **M13 to M15**: described in ARCHITECTURE.md, not implemented.
* Texts, prices' formatting, logging, HTTP codes beyond success and failure.

## 10. The plan

Done, in this order: the ledger and its proofs, the lifecycle and its proofs, marketplace,
subscriptions, the trading session with backtest and performance, its proofs, identity and the web
session, the chart and its indicators, strategies and portfolio, the client's pages with the
look-ups of the portfolio's router, the proofs of subscriptions, the ledger's refinement, the proofs
of the marketplace, those of identity and the web session, that of the pages, the lifecycle's audit
log and contract, the folds of the session, its ledger, backtest and record, the streams of
subscriptions, what the pages' buttons offer, the proofs of the chart and those of the portfolio.

To extend:

1. *Marketplace with Subscription*: one module in which real publications move the listing a
   subscription has loaded, instead of Subscription's `Republish`.
2. *Trading*: the remaining sizers, a fee rounded to cents, and several instruments in one account,
   where the weight cap bites.

Every safety property that is run is proved, but for those of the indicators and the two that are
violated. Left to prove is what a module with the extensions above would claim.
