---------------------------- MODULE BotLifecycle ----------------------------
(***************************************************************************)
(* M3 and M4: bots, their versions and the lifecycle of a version          *)
(* (strategy/models.py, strategy/router.py, lifecycle/).                   *)
(*                                                                         *)
(* A request reads rows, awaits, decides on what it read and writes.  The  *)
(* ORM writes only the columns whose value differs from the one that was   *)
(* loaded; a written row stays locked until the commit, and requests write *)
(* the version before the bot.  So the writes of a request take effect     *)
(* together, at its commit, on rows that other requests may have changed   *)
(* since they were read.                                                   *)
(***************************************************************************)
EXTENDS Integers, Sequences, FiniteSets

CONSTANTS
    Bots,
    Definitions,    \* strategy, parameters and universe of a version
    Qualifying,     \* the definitions whose backtest passes the policy
    Requests,       \* requests of the bots' designer, served concurrently
    MaxVersion,     \* bound: versions of a bot
    MaxAudit        \* bound: audit records

ASSUME LifecycleAssumption ==
    /\ Qualifying \subseteq Definitions
    /\ MaxVersion \in Nat \ {0}
    /\ MaxAudit \in Nat

VARIABLES
    bots,       \* table bots: current_version and state of each bot
    versions,   \* table bot_versions, by bot and version number
    audit,      \* the bot_state_changed records of table audit_events
    req         \* what each request is doing and what it has read

lifecycleVars == <<bots, versions, audit, req>>

-----------------------------------------------------------------------------
(* States and rows. *)

BotState == {"draft", "evaluation", "listed", "suspended", "delisted",
             "liquidation", "retired"}

\* _ALLOWED: the states a version may move to.
Allowed ==
    [draft |-> {"evaluation"},
     evaluation |-> {"listed", "delisted", "draft"},
     listed |-> {"suspended", "delisted"},
     suspended |-> {"listed", "delisted"},
     delisted |-> {"liquidation"},
     liquidation |-> {"retired"},
     retired |-> {}]

Numbers == 1..MaxVersion
Keys == Bots \X Numbers
BotRows == [current_version: Numbers, state: BotState]
VersionRows == [definition: Definitions, state: BotState, qualified: BOOLEAN]
AuditRows == [version: Keys, from: BotState, to: BotState]

\* A request: its operation and how far it is, the bot it names, the
\* definition it publishes or has backtested, the state it asks for, and the
\* bot row and the version row it has loaded.
None == [none |-> TRUE]
Stages == {"idle",
           "publish:bot",
           "transition:bot", "transition:version",
           "qualify:bot", "qualify:backtest", "qualify:rebot", "qualify:version"}
RequestStates ==
    [at: Stages, bot: Bots \cup {None},
     definition: Definitions \cup {None}, to: BotState \cup {"none"},
     row: BotRows \cup {None}, version: VersionRows \cup {None}]
Idle == [at |-> "idle", bot |-> None, definition |-> None, to |-> "none",
         row |-> None, version |-> None]

\* The key of the version a request takes for the bot's current one.
CurrentKey(r) == <<req[r].bot, req[r].row.current_version>>

-----------------------------------------------------------------------------
(* Steps the requests share. *)

\* Another audit record fits the bound, whatever the open requests do.
AuditHasRoom ==
    Len(audit) + Cardinality({r \in Requests : req[r].at # "idle"}) < MaxAudit

\* get_bot, the first step of every request.
LoadBot(r, b, request) ==
    /\ req[r].at = "idle"
    /\ b \in DOMAIN bots
    /\ req' = [req EXCEPT ![r] = [request EXCEPT !.bot = b, !.row = bots[b]]]
    /\ UNCHANGED <<bots, versions, audit>>

\* versions(bot_id), then the one whose number is the loaded current_version.
LoadVersion(r, stage) ==
    /\ req' = [req EXCEPT ![r].at = stage,
                          ![r].version = versions[CurrentKey(r)]]
    /\ UNCHANGED <<bots, versions, audit>>

\* An HTTP error or a failed commit: the unit of work rolls back.
Refuse(r) ==
    /\ req' = [req EXCEPT ![r] = Idle]
    /\ UNCHANGED <<bots, versions, audit>>

\* `bot.state = current.state`: the column is written if it differs from the
\* loaded value.
Mirror(r, state) ==
    bots' = IF state = req[r].row.state THEN bots
            ELSE [bots EXCEPT ![req[r].bot].state = state]

\* Mutant: the record takes `from` after the assignment.
TransitionFromAfter(r, to, stamp) ==
    LET k == CurrentKey(r)
    IN  /\ versions' = [versions EXCEPT ![k].state = to,
                                        ![k].qualified = @ \/ stamp]
        /\ audit' = Append(audit, [version |-> k, from |-> to, to |-> to])
        /\ Mirror(r, to)
        /\ req' = [req EXCEPT ![r] = Idle]

\* BotLifecycle.transition, the mirror and the commit; `from` is the state
\* of the loaded version, and stamp tells whether qualified_policy is set.
Transition(r, to, stamp) ==
    LET k == CurrentKey(r)
    IN  /\ versions' = [versions EXCEPT ![k].state = to,
                                        ![k].qualified = @ \/ stamp]
        /\ audit' = Append(audit, [version |-> k,
                                   from |-> req[r].version.state, to |-> to])
        /\ Mirror(r, to)
        /\ req' = [req EXCEPT ![r] = Idle]

-----------------------------------------------------------------------------
(* Operations. *)

Init ==
    /\ bots = << >>
    /\ versions = << >>
    /\ audit = << >>
    /\ req = [r \in Requests |-> Idle]

\* f with x mapped to y.
With(f, x, y) == [z \in DOMAIN f \cup {x} |-> IF z = x THEN y ELSE f[z]]

Draft(d) == [definition |-> d, state |-> "draft", qualified |-> FALSE]

\* POST /bots: the bot and its version 1, in one transaction on new rows.
CreateBot(b, d) ==
    /\ b \notin DOMAIN bots
    /\ bots' = With(bots, b, [current_version |-> 1, state |-> "draft"])
    /\ versions' = With(versions, <<b, 1>>, Draft(d))
    /\ UNCHANGED <<audit, req>>

\* POST /bots/{id}/versions.
PublishLoadBot(r, b, d) == 
    LoadBot(r, b, [Idle EXCEPT !.at = "publish:bot", !.definition = d])

\* The version published: the number after the one read.
NextKey(r) == <<req[r].bot, req[r].row.current_version + 1>>

\* uq_botversion_bot_version.
NumberIsFree(r) == NextKey(r) \notin DOMAIN versions

\* Mutant: current_version keeps its value.
PublishCommitNoBump(r) ==
    /\ req[r].at = "publish:bot"
    /\ req[r].row.current_version < MaxVersion
    /\ NumberIsFree(r)
    /\ versions' = With(versions, NextKey(r), Draft(req[r].definition))
    /\ req' = [req EXCEPT ![r] = Idle]
    /\ UNCHANGED <<bots, audit>>

PublishCommit(r) ==
    /\ req[r].at = "publish:bot"
    /\ req[r].row.current_version < MaxVersion
    /\ NumberIsFree(r)
    /\ versions' = With(versions, NextKey(r), Draft(req[r].definition))
    /\ bots' = [bots EXCEPT ![req[r].bot].current_version = NextKey(r)[2]]
    /\ req' = [req EXCEPT ![r] = Idle]
    /\ UNCHANGED audit

\* The number is taken, or the parameters fail the strategy's schema.
PublishRefused(r) == req[r].at = "publish:bot" /\ Refuse(r)

\* POST /bots/{id}/transition.
TransitionLoadBot(r, b, to) ==
    /\ AuditHasRoom
    /\ LoadBot(r, b, [Idle EXCEPT !.at = "transition:bot", !.to = to])

\* Mutant: can_transition is not consulted.
TransitionLoadVersionUnchecked(r) ==
    /\ req[r].at = "transition:bot"
    /\ LoadVersion(r, "transition:version")

TransitionLoadVersion(r) ==
    /\ req[r].at = "transition:bot"
    /\ req[r].to \in Allowed[versions[CurrentKey(r)].state]
    /\ LoadVersion(r, "transition:version")

TransitionRefused(r) ==
    /\ req[r].at = "transition:bot"
    /\ req[r].to \notin Allowed[versions[CurrentKey(r)].state]
    /\ Refuse(r)

TransitionCommit(r) ==
    /\ req[r].at = "transition:version"
    /\ Transition(r, req[r].to, FALSE)

\* POST /bots/{id}/qualify, step 1: read the version under evaluation.
QualifyLoadBot(r, b) ==
    AuditHasRoom /\ LoadBot(r, b, [Idle EXCEPT !.at = "qualify:bot"])

QualifyLoadVersion(r) ==
    /\ req[r].at = "qualify:bot"
    /\ versions[CurrentKey(r)].state = "evaluation"
    /\ req' = [req EXCEPT
                ![r].at = "qualify:backtest",
                ![r].definition = versions[CurrentKey(r)].definition]
    /\ UNCHANGED <<bots, versions, audit>>

QualifyRefused(r) ==
    /\ req[r].at = "qualify:bot"
    /\ versions[CurrentKey(r)].state # "evaluation"
    /\ Refuse(r)

\* Step 2 backtests what was read and rolls back; step 3 reads the bot and
\* its current version again.
QualifyReloadBot(r) ==
    /\ req[r].at = "qualify:backtest"
    /\ req' = [req EXCEPT ![r].at = "qualify:rebot",
                          ![r].row = bots[req[r].bot]]
    /\ UNCHANGED <<bots, versions, audit>>

QualifyReloadVersion(r) ==
    /\ req[r].at = "qualify:rebot"
    /\ LoadVersion(r, "qualify:version")

\* QualificationService.evaluate: where a result takes a version.
Outcome(passed, state) ==
    IF passed /\ state = "evaluation" THEN "listed"
    ELSE IF ~passed /\ state = "evaluation" THEN "delisted"
    ELSE IF ~passed /\ state = "listed" THEN "suspended"
    ELSE state

\* Mutant: the stamp does not wait for the verdict.
StampedUnjudged(passed, state) == state = "evaluation"

\* Whether qualified_policy is set.
Stamped(passed, state) == passed /\ state = "evaluation"

\* The result of step 2 judges the version of step 3.
QualifyCommit(r) ==
    LET passed == req[r].definition \in Qualifying
        state == req[r].version.state
        to == Outcome(passed, state)
    IN  /\ req[r].at = "qualify:version"
        /\ \/ /\ to # state
              /\ Transition(r, to, Stamped(passed, state))
           \/ /\ to = state
              /\ Mirror(r, state)
              /\ req' = [req EXCEPT ![r] = Idle]
              /\ UNCHANGED <<versions, audit>>

LifecycleNext ==
    \/ \E b \in Bots, d \in Definitions : CreateBot(b, d)
    \/ \E r \in Requests :
        \/ \E b \in Bots, d \in Definitions : PublishLoadBot(r, b, d)
        \/ PublishCommit(r) \/ PublishRefused(r)
        \/ \E b \in Bots, to \in BotState : TransitionLoadBot(r, b, to)
        \/ TransitionLoadVersion(r) \/ TransitionRefused(r)
        \/ TransitionCommit(r)
        \/ \E b \in Bots : QualifyLoadBot(r, b)
        \/ QualifyLoadVersion(r) \/ QualifyRefused(r)
        \/ QualifyReloadBot(r) \/ QualifyReloadVersion(r)
        \/ QualifyCommit(r)

LifecycleSpec == Init /\ [][LifecycleNext]_lifecycleVars

-----------------------------------------------------------------------------
(* Properties. *)

TypeOK ==
    /\ DOMAIN bots \subseteq Bots
    /\ \A b \in DOMAIN bots : bots[b] \in BotRows
    /\ DOMAIN versions \subseteq Keys
    /\ \A k \in DOMAIN versions : versions[k] \in VersionRows
    /\ audit \in Seq(AuditRows)
    /\ req \in [Requests -> RequestStates]

\* A bot's versions are numbered 1..current_version, however publications
\* race: each takes the number after the one it read, and the unique
\* constraint refuses the loser (models.py 39-41, 97-110).
VersionsContiguous ==
    /\ \A k \in DOMAIN versions : k[1] \in DOMAIN bots
    /\ \A b \in DOMAIN bots :
        {n \in Numbers : <<b, n>> \in DOMAIN versions}
            = 1..bots[b].current_version

\* A version is a frozen snapshot: no step rewrites the definition a number
\* stands for, and versions never disappear (models.py 3-5, "the history a
\* buyer relied on can never be rewritten").
DefinitionsFrozen ==
    [][\A k \in DOMAIN versions :
          /\ k \in DOMAIN versions'
          /\ versions'[k].definition = versions[k].definition]_lifecycleVars

\* Where the log has the records of one version, and of one bot.
RecordsOf(k) == {i \in DOMAIN audit : audit[i].version = k}
RecordsOfBot(b) == {i \in DOMAIN audit : audit[i].version[1] = b}

\* The last of some records leads to a state, "draft" when there are none.
LastLeadsTo(records, state) ==
    /\ records = {} => state = "draft"
    /\ \A i \in records : (\A j \in records : j <= i) => audit[i].to = state

\* The states a version has been in before its record i.
StatesBefore(k, i) == {"draft"} \cup {audit[j].to : j \in {j \in RecordsOf(k) : j < i}}

\* The audit log and the table agree on where every version is, even when
\* transitions overlap: the last record of a version leads to its state, and
\* each record leaves a state the version was once in.
AuditTellsState ==
    \A k \in DOMAIN versions :
        /\ LastLeadsTo(RecordsOf(k), versions[k].state)
        /\ \A i \in RecordsOf(k) : audit[i].from \in StatesBefore(k, i)

\* qualified_policy is set only on versions that went from evaluation to
\* listed, and a qualified version stays marked as such.
QualifiedWasListed ==
    \A k \in DOMAIN versions :
        versions[k].qualified =>
            \E i \in DOMAIN audit :
                audit[i] = [version |-> k, from |-> "evaluation", to |-> "listed"]

\* What the tables keep at every commit, however requests overlap: their
\* types, the numbering of versions, and no stamp without a listing.
TablesSound == TypeOK /\ VersionsContiguous /\ QualifiedWasListed

\* The lifecycle of every version as promised by LifecycleContract, seen in
\* the tables.
Contract == INSTANCE LifecycleContract
    WITH Versions <- Keys,
         state <- [k \in DOMAIN versions |-> versions[k].state],
         log <- audit

\* Only a version whose own backtest passes the policy is marked qualified
\* (models.py 49, "The qualification bar this version last cleared").  A
\* version published or moved to evaluation while another one is being
\* backtested breaks it.
QualifiedByOwnRecord ==
    \A k \in DOMAIN versions :
        versions[k].qualified => versions[k].definition \in Qualifying

\* bots.state is the state the last transition of the bot led to, "draft"
\* before any: it follows the versions' transitions and not publications
\* (strategy/router.py 222).
MirrorFollowsTransitions ==
    \A b \in DOMAIN bots : LastLeadsTo(RecordsOfBot(b), bots[b].state)
=============================================================================
