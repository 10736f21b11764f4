--------------------------- MODULE MCBotLifecycle ---------------------------
(***************************************************************************)
(* Instances of BotLifecycle for TLC, with a history variable that tells   *)
(* whether two requests have ever been open together: requests served one  *)
(* at a time keep the lifecycle's contract, overlapping ones less.         *)
(***************************************************************************)
EXTENDS BotLifecycle, TLC

VARIABLE overlapped

\* Requests are interchangeable.
Symmetry == Permutations(Requests)

Overlap == \E r, s \in Requests : r # s /\ req[r].at # "idle" /\ req[s].at # "idle"

MCInit == Init /\ overlapped = FALSE
MCNext == LifecycleNext /\ overlapped' = (overlapped \/ Overlap')
MCSpec == MCInit /\ [][MCNext]_<<lifecycleVars, overlapped>>

\* While requests are served one at a time, every step is one that
\* LifecycleContract allows: versions move along the diagram only, and each
\* move is on the record (lifecycle/lifecycle.py 56-81).
FollowsContractUnlessOverlapped ==
    [][\/ overlapped'
       \/ Contract!Next
       \/ UNCHANGED <<[k \in DOMAIN versions |-> versions[k].state], audit>>
      ]_lifecycleVars

\* Requests served one at a time mark as qualified only versions whose own
\* backtest passes the policy, and leave the bot in the state its last record
\* tells; a result or a transition committed on stale reads does neither
\* (strategy/router.py 222, 227-278).
RowsTellUnlessOverlapped ==
    ~overlapped => QualifiedByOwnRecord /\ MirrorFollowsTransitions
=============================================================================
