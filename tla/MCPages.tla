------------------------------ MODULE MCPages ------------------------------
(* An instance of Pages for TLC: a designer with one bot and two listings to
   subscribe to. *)
EXTENDS Pages, TLC

AllViews == {"dashboard", "marketplace", "subscriptions", "designer", "portfolio"}

\* One chain is as good as another.
ChainSymmetry == Permutations(Chains)

\* Bound: while the subscriptions page is mounted, which shows no bot and asks
\* nothing of one, the designer has none or one that shows as listed.
BotsAtRest ==
    view = "subscriptions" =>
        \A b \in Bots : server.bots[b] \in {"none", "listed"}

MCSpec == Init /\ [][Next /\ BotsAtRest']_vars
=============================================================================
