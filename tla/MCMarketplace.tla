---------------------------- MODULE MCMarketplace ----------------------------
(***************************************************************************)
(* Instances of Marketplace for TLC, with a history variable that tells    *)
(* whether requests on listings have ever overlapped: what a publication   *)
(* guarantees alone is more than what two at a time do.                    *)
(***************************************************************************)
EXTENDS Marketplace, TLC

VARIABLE salesOverlapped

\* Two requests on listings are open together.
SalesOverlap ==
    \E p, q \in Sellers : p # q /\ sale[p].at # "idle" /\ sale[q].at # "idle"

MCMarketInit == MarketInit /\ salesOverlapped = FALSE

MCMarketNext ==
    /\ MarketNext
    /\ salesOverlapped' = (salesOverlapped \/ SalesOverlap')

MCMarketSpec == MCMarketInit /\ [][MCMarketNext]_<<allVars, salesOverlapped>>

\* Ids of listings are interchangeable, and so are the requests on them.
MarketSymmetry == Permutations(Listings) \cup Permutations(Sellers)

\* Requests on listings that do not overlap keep one listing per bot, with the
\* record of the version it points to, however often the bot is published and
\* whatever its lifecycle does meanwhile (marketplace/service.py 67-79,
\* tests/marketplace/test_marketplace_service.py 69).
ListingsTellUnlessOverlapped ==
    ~salesOverlapped => OneListingPerBot /\ ListingTellsVersion
=============================================================================
