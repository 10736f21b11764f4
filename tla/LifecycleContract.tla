-------------------------- MODULE LifecycleContract --------------------------
(***************************************************************************)
(* What the lifecycle of a bot promises, version by version: a version     *)
(* starts as a draft, moves only along the diagram                         *)
(*   Draft -> Evaluation -> Listed -> Suspended/Delisted                   *)
(*         -> Liquidation -> Retired                                       *)
(* (REQUIREMENTS.md:33, IMPLEMENTATION_PLAN_PHASE3.md:89), and the audit   *)
(* log holds every move, so that replaying a version's records from        *)
(* "draft" walks its whole life.                                           *)
(***************************************************************************)
EXTENDS Sequences

CONSTANTS
    Versions,   \* identities of bot versions
    Allowed     \* state -> the set of states that may follow it

VARIABLES
    state,      \* the state of each version that exists
    log         \* the audit records, oldest first

Init == state = << >> /\ log = << >>

\* A new version appears, as a draft, and nothing else changes.
Fork(v) ==
    /\ v \notin DOMAIN state
    /\ DOMAIN state' = DOMAIN state \cup {v}
    /\ state'[v] = "draft"
    /\ \A w \in DOMAIN state : state'[w] = state[w]
    /\ UNCHANGED log

\* One version moves to a state its present state allows, on the record.
Move(v, to) ==
    /\ v \in DOMAIN state
    /\ to \in Allowed[state[v]]
    /\ state' = [state EXCEPT ![v] = to]
    /\ log' = Append(log, [version |-> v, from |-> state[v], to |-> to])

Next == \E v \in Versions :
            \/ Fork(v)
            \/ \E to \in DOMAIN Allowed : Move(v, to)

Spec == Init /\ [][Next]_<<state, log>>
=============================================================================
