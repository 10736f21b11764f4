----------------------------- MODULE Marketplace -----------------------------
(***************************************************************************)
(* M12: listings of the marketplace (marketplace/service.py, router.py,    *)
(* models.py), composed with the lifecycle of the bots they offer.         *)
(*                                                                         *)
(* Publishing reads the bot, its versions and, after a backtest of seconds *)
(* to minutes, the bot's listing, and then writes the listing.  Nothing is *)
(* locked in between, and of a row that exists only the columns that       *)
(* differ from the loaded ones are written.                                *)
(***************************************************************************)
EXTENDS BotLifecycle

CONSTANTS
    Listings,   \* ids of listings
    Sellers     \* the requests that work on listings, served concurrently

ASSUME MarketAssumption == IsFiniteSet(Sellers) /\ None \notin Listings

VARIABLES
    listings,   \* table listings: the rows that exist, by id
    traces,     \* the versions whose publication's backtest has committed
                \* with the listing: its events are in the ledger
    sale        \* what each request on listings is doing and has read

marketVars == <<listings, traces, sale>>
allVars == <<lifecycleVars, marketVars>>

Status == {"active", "paused", "withdrawn"}

\* record stands for the columns computed from the version's definition:
\* symbol, strategy_id and track_record.
ListingRows == [bot: Bots, bot_version: Numbers, record: Definitions,
                status: Status]

\* A request on listings: the bot and the version it has loaded, the listing
\* it writes (None for a new one) as it has loaded it, the status it asks for.
SaleStages == {"idle", "publish:bot", "publish:version", "publish:listing",
               "status:listing"}
SaleStates ==
    [at: SaleStages, bot: Bots \cup {None}, row: BotRows \cup {None},
     version: VersionRows \cup {None}, listing: Listings \cup {None},
     loaded: ListingRows \cup {None}, status: Status \cup {"none"}]
NoSale == [at |-> "idle", bot |-> None, row |-> None, version |-> None,
           listing |-> None, loaded |-> None, status |-> "none"]

-----------------------------------------------------------------------------
(* Operations. *)

MarketInit ==
    /\ Init
    /\ listings = << >>
    /\ traces = {}
    /\ sale = [p \in Sellers |-> NoSale]

\* An HTTP error: the unit of work rolls back, backtest included.
SaleRefused(p) ==
    /\ sale' = [sale EXCEPT ![p] = NoSale]
    /\ UNCHANGED <<listings, traces>>

\* POST /market/listings: get_bot.
PublishListingLoadBot(p, b) ==
    /\ sale[p].at = "idle"
    /\ b \in DOMAIN bots
    /\ sale' = [sale EXCEPT ![p].at = "publish:bot", ![p].bot = b,
                            ![p].row = bots[b]]
    /\ UNCHANGED <<listings, traces>>

\* Mutant: publish does not look at the state of the bot.
OfferableAlways(p) == TRUE

\* `bot.state != "listed"` refuses; the state is that of the loaded bot.
Offerable(p) == sale[p].row.state = "listed"

SoldKey(p) == <<sale[p].bot, sale[p].row.current_version>>

PublishListingLoadVersion(p) ==
    /\ sale[p].at = "publish:bot"
    /\ Offerable(p)
    /\ sale' = [sale EXCEPT ![p].at = "publish:version",
                            ![p].version = versions[SoldKey(p)]]
    /\ UNCHANGED <<listings, traces>>

PublishListingNotListed(p) ==
    sale[p].at = "publish:bot" /\ ~Offerable(p) /\ SaleRefused(p)

\* _for_bot, after the backtest of the version.
ListingsOf(b) == {l \in DOMAIN listings : listings[l].bot = b}

\* Mutant: the existing listing is not looked for.
PublishListingFindNone(p) ==
    /\ sale[p].at = "publish:version"
    /\ sale' = [sale EXCEPT ![p].at = "publish:listing"]
    /\ UNCHANGED <<listings, traces>>

PublishListingFind(p) ==
    /\ sale[p].at = "publish:version"
    /\ \/ /\ ListingsOf(sale[p].bot) = {}
          /\ sale' = [sale EXCEPT ![p].at = "publish:listing"]
       \/ \E l \in ListingsOf(sale[p].bot) :
            /\ ListingsOf(sale[p].bot) = {l}
            /\ sale' = [sale EXCEPT ![p].at = "publish:listing",
                                    ![p].listing = l,
                                    ![p].loaded = listings[l]]
    /\ UNCHANGED <<listings, traces>>

\* scalar_one_or_none raises when the bot has several listings.
PublishListingAmbiguous(p) ==
    /\ sale[p].at = "publish:version"
    /\ Cardinality(ListingsOf(sale[p].bot)) > 1
    /\ SaleRefused(p)

\* What a publication writes, with the backtest's record.
Offer(p) == [bot |-> sale[p].bot, bot_version |-> sale[p].row.current_version,
             record |-> sale[p].version.definition, status |-> "active"]

\* An UPDATE by the ORM: of the present row, the columns in which the new
\* row differs from the loaded one.
Updated(present, loaded, new) ==
    [c \in DOMAIN present |->
        IF new[c] = loaded[c] THEN present[c] ELSE new[c]]

PublishListingInsert(p, l) ==
    /\ sale[p].at = "publish:listing"
    /\ sale[p].listing = None
    /\ l \notin DOMAIN listings
    /\ listings' = With(listings, l, Offer(p))
    /\ traces' = traces \cup {SoldKey(p)}
    /\ sale' = [sale EXCEPT ![p] = NoSale]

PublishListingUpdate(p) ==
    /\ sale[p].at = "publish:listing"
    /\ sale[p].listing # None
    /\ listings' = [listings EXCEPT
            ![sale[p].listing] = Updated(@, sale[p].loaded, Offer(p))]
    /\ traces' = traces \cup {SoldKey(p)}
    /\ sale' = [sale EXCEPT ![p] = NoSale]

\* POST /market/listings/{id}/status.
SetStatusLoad(p, l, status) ==
    /\ sale[p].at = "idle"
    /\ l \in DOMAIN listings
    /\ sale' = [sale EXCEPT ![p].at = "status:listing", ![p].listing = l,
                            ![p].loaded = listings[l], ![p].status = status]
    /\ UNCHANGED <<listings, traces>>

SetStatusCommit(p) ==
    /\ sale[p].at = "status:listing"
    /\ LET new == [sale[p].loaded EXCEPT !.status = sale[p].status]
       IN  listings' = [listings EXCEPT
                ![sale[p].listing] = Updated(@, sale[p].loaded, new)]
    /\ sale' = [sale EXCEPT ![p] = NoSale]
    /\ UNCHANGED traces

SaleNext ==
    \E p \in Sellers :
        \/ \E b \in Bots : PublishListingLoadBot(p, b)
        \/ PublishListingLoadVersion(p) \/ PublishListingNotListed(p)
        \/ PublishListingFind(p) \/ PublishListingAmbiguous(p)
        \/ \E l \in Listings : PublishListingInsert(p, l)
        \/ PublishListingUpdate(p)
        \/ \E l \in Listings, status \in Status : SetStatusLoad(p, l, status)
        \/ SetStatusCommit(p)

MarketNext ==
    \/ LifecycleNext /\ UNCHANGED marketVars
    \/ SaleNext /\ UNCHANGED lifecycleVars

MarketSpec == MarketInit /\ [][MarketNext]_allVars

-----------------------------------------------------------------------------
(* Properties. *)

MarketTypeOK ==
    /\ DOMAIN listings \subseteq Listings
    /\ \A l \in DOMAIN listings : listings[l] \in ListingRows
    /\ traces \subseteq Keys
    /\ sale \in [Sellers -> SaleStates]

\* A listing advertises the record of the very version it points to
\* (marketplace/service.py 3-5, "the real, reproducible record").  Two
\* overlapping publications can leave the columns of two versions in a row.
ListingTellsVersion ==
    \A l \in DOMAIN listings :
        LET k == <<listings[l].bot, listings[l].bot_version>>
        IN  /\ k \in DOMAIN versions
            /\ listings[l].record = versions[k].definition

\* A bot has one listing, however often it is published
\* (tests/marketplace/test_marketplace_service.py 69).  Two overlapping first
\* publications make two, and then every further one fails.
OneListingPerBot ==
    \A b \in Bots : Cardinality(ListingsOf(b)) <= 1

\* Overlapping publications make at most one listing of a bot each: as soon
\* as one exists, a publication that starts finds it, or fails.
OneListingPerOverlap ==
    \A b \in Bots : Cardinality(ListingsOf(b)) <= Cardinality(Sellers)

\* Only a bot that has had a version listed is ever offered, whatever
\* happens to it during the backtest.
OfferedOnceListed ==
    \A l \in DOMAIN listings :
        \E i \in DOMAIN audit : /\ audit[i].version[1] = listings[l].bot
                                /\ audit[i].to = "listed"

\* Every record shown is reproducible: a backtest of one of the bot's versions
\* computed it and has its events in the ledger, even where a row mixes the
\* columns of overlapping publications (marketplace/service.py 3-5).
RecordsReproducible ==
    \A l \in DOMAIN listings :
        \E k \in traces : /\ k[1] = listings[l].bot /\ k \in DOMAIN versions
                          /\ versions[k].definition = listings[l].record

\* What the listings keep at every commit, however publications overlap.
ListingsSound ==
    /\ MarketTypeOK /\ OneListingPerOverlap
    /\ OfferedOnceListed /\ RecordsReproducible

WasListed(k) ==
    \E i \in DOMAIN audit : audit[i].version = k /\ audit[i].to = "listed"

\* The version a listing offers has itself been listed (marketplace/models.py
\* 3, "one *qualified* (Listed) bot version").  publish looks at the bot's
\* mirrored state, which a new draft version does not change.
OfferedVersionWasListed ==
    \A l \in DOMAIN listings :
        WasListed(<<listings[l].bot, listings[l].bot_version>>)
=============================================================================
