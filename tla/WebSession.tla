------------------------------ MODULE WebSession ------------------------------
(***************************************************************************)
(* The web client's session (packages/web/src/auth.tsx) over Identity: the *)
(* tabs of one browser share the token pair in localStorage, and each      *)
(* fetch, refresh, sign-in and sign-out runs as a chain of callbacks that  *)
(* reads the store at one moment and writes it at another.  A page may be  *)
(* reloaded or closed, and a connection may fail, between any two of these *)
(* steps: what has been sent may reach the server all the same.            *)
(***************************************************************************)
EXTENDS Identity

VARIABLES
    store,      \* localStorage: the refresh token (0 for none), and whether
                \* the access token beside it is still accepted
    flow,       \* what the chain of callbacks of each request is doing
    gone,       \* the requests no page waits for any more
    shared,     \* history: tokens that two chains held at once
    lost        \* history: tokens exchanged or signed out in an answer that
                \* no page has heard

vars == <<users, identities, tokens, configured, req, store, flow, gone, shared,
          lost>>

clientVars == <<store, flow, gone, shared, lost>>

-----------------------------------------------------------------------------

Empty == [access |-> FALSE, refresh |-> 0]
Stores == [access: BOOLEAN, refresh: 0..MaxTokens]

\* A chain: an api call or the loadMe of a mounting page until its 401 is
\* answered, a sign-in, a sign-out; `token` is what it has read of the store.
NoFlow == [at |-> "none", kind |-> "none", token |-> 0]
Kinds == {"api", "me", "login", "logout"}
FlowStages == {"none", "unauthorized", "sent", "asked"}

Sends(kind, j) == [at |-> "sent", kind |-> kind, token |-> j]

\* The tokens chains other than f are about to exchange.
HeldByOthers(f) ==
    {flow[g].token : g \in {g \in Requests \ {f} : flow[g].kind \in {"api", "me"}}}

\* The bound MaxTokens, applied where work that may need a token starts.
Room ==
    LET busy == {f \in Requests : flow[f].at # "none" \/ req[f].at # "idle"}
    IN  Len(tokens) + Cardinality(busy) < MaxTokens

-----------------------------------------------------------------------------
(* A call whose access token is not accepted, and its retry. *)

\* api(): the access token is missing or has expired and the server says 401.
\* (A call that is accepted changes nothing.)
Call(f, kind) ==
    /\ flow[f].at = "none" /\ req[f].at = "idle" /\ Room
    /\ kind \in {"api", "me"}
    /\ ~store.access
    /\ flow' = [flow EXCEPT ![f] = [at |-> "unauthorized", kind |-> kind,
                                    token |-> 0]]
    /\ UNCHANGED <<identityVars, store, gone, shared, lost>>

\* tryRefresh() reads the refresh token and posts it.
TryRefresh(f) ==
    /\ flow[f].at = "unauthorized"
    /\ store.refresh # 0
    /\ flow' = [flow EXCEPT ![f] = Sends(flow[f].kind, store.refresh)]
    /\ shared' = shared \cup ({store.refresh} \cap HeldByOthers(f))
    /\ UNCHANGED <<identityVars, store, gone, lost>>

\* Mutant: every call that stays unauthorized clears it.
AfterFailureAlways(kind) == Empty

\* What a call that stays unauthorized leaves in the store: loadMe clears it.
AfterFailure(kind) == IF kind = "me" THEN Empty ELSE store

\* No refresh token is left to try.
NothingToTry(f) ==
    /\ flow[f].at = "unauthorized"
    /\ store.refresh = 0
    /\ store' = AfterFailure(flow[f].kind)
    /\ flow' = [flow EXCEPT ![f] = NoFlow]
    /\ UNCHANGED <<identityVars, gone, shared, lost>>

\* The request reaches the server, which reads the record and answers or
\* goes on to the exchange.
RefreshArrives(f) ==
    /\ flow[f].at = "sent" /\ flow[f].kind \in {"api", "me"}
    /\ RefreshRead(f, flow[f].token) \/ RefreshRefused(f, flow[f].token)
    /\ flow' = [flow EXCEPT ![f].at = "asked"]
    /\ UNCHANGED <<store, gone, shared, lost>>

\* Mutant: only the access token is stored.
RefreshAnsweredAccessOnly(f) ==
    LET jti == req[f].token
    IN  /\ flow[f].at = "asked" /\ flow[f].kind \in {"api", "me"} /\ f \notin gone
        /\ Answered(f)
        /\ store' = IF jti = 0 THEN AfterFailure(flow[f].kind)
                    ELSE [store EXCEPT !.access = TRUE]
        /\ flow' = [flow EXCEPT ![f] = NoFlow]
        /\ UNCHANGED <<gone, shared, lost>>

\* setTokens and the retry of the call, or the 401 is final.
RefreshAnswered(f) ==
    LET jti == req[f].token
    IN  /\ flow[f].at = "asked" /\ flow[f].kind \in {"api", "me"} /\ f \notin gone
        /\ Answered(f)
        /\ store' = IF jti = 0 THEN AfterFailure(flow[f].kind)
                    ELSE [access |-> TRUE, refresh |-> jti]
        /\ flow' = [flow EXCEPT ![f] = NoFlow]
        /\ UNCHANGED <<gone, shared, lost>>

-----------------------------------------------------------------------------
(* Sign-in and sign-out. *)

\* devLogin(), from the sign-in form, which a tab shows while it knows of no
\* principal, whatever the other tabs have stored.
SignIn(f, l) ==
    /\ flow[f].at = "none" /\ Room
    /\ FindIdentity(f, l)
    /\ flow' = [flow EXCEPT ![f] = [at |-> "asked", kind |-> "login",
                                    token |-> 0]]
    /\ UNCHANGED <<store, gone, shared, lost>>

SignInAnswered(f) ==
    LET jti == req[f].token
    IN  /\ flow[f].at = "asked" /\ flow[f].kind = "login" /\ f \notin gone
        /\ Answered(f)
        /\ store' = IF jti = 0 THEN store
                    ELSE [access |-> TRUE, refresh |-> jti]
        /\ flow' = [flow EXCEPT ![f] = NoFlow]
        /\ UNCHANGED <<gone, shared, lost>>

\* logout() reads the refresh token and posts it.
SignOut(f) ==
    /\ flow[f].at = "none" /\ req[f].at = "idle"
    /\ store.refresh # 0
    /\ flow' = [flow EXCEPT ![f] = Sends("logout", store.refresh)]
    /\ UNCHANGED <<identityVars, store, gone, shared, lost>>

SignOutArrives(f) ==
    /\ flow[f].at = "sent" /\ flow[f].kind = "logout"
    /\ LogoutCommit(f, flow[f].token)
    /\ flow' = [flow EXCEPT ![f].at = "asked"]
    /\ UNCHANGED <<store, gone, shared, lost>>

\* Whatever the answer, the tokens are cleared.
SignOutAnswered(f) ==
    /\ flow[f].at = "asked" /\ flow[f].kind = "logout" /\ f \notin gone
    /\ Answered(f)
    /\ store' = Empty
    /\ flow' = [flow EXCEPT ![f] = NoFlow]
    /\ UNCHANGED <<gone, shared, lost>>

-----------------------------------------------------------------------------
(* Pages that are left, connections that fail. *)

\* The page of the chain is reloaded or closed: nobody waits for what it sent.
PageLeft(f) ==
    /\ f \notin gone /\ flow[f].at # "none"
    /\ IF flow[f].at = "unauthorized"
       THEN flow' = [flow EXCEPT ![f] = NoFlow] /\ gone' = gone
       ELSE flow' = flow /\ gone' = gone \cup {f}
    /\ UNCHANGED <<identityVars, store, shared, lost>>

\* The fetch rejects before its answer is there: the chain ends with the
\* exception, which only a sign-out catches, and clears the tokens.
FetchFails(f) ==
    /\ f \notin gone /\ flow[f].at \in {"sent", "asked"}
    /\ gone' = gone \cup {f}
    /\ store' = IF flow[f].kind = "logout" THEN Empty ELSE store
    /\ UNCHANGED <<identityVars, flow, shared, lost>>

\* What was sent never reaches the server.
NeverArrives(f) ==
    /\ f \in gone /\ flow[f].at = "sent"
    /\ flow' = [flow EXCEPT ![f] = NoFlow]
    /\ gone' = gone \ {f}
    /\ UNCHANGED <<identityVars, store, shared, lost>>

\* The answer to f tells of an exchange that was made, or of a sign-out.
Renews(f) == flow[f].kind \in {"api", "me"} /\ req[f].at = "done" /\ req[f].token # 0
SignsOut(f) == flow[f].kind = "logout" /\ flow[f].at = "asked"

\* The tokens of which the answers to these requests tell so.
Told(fs) == {flow[f].token : f \in {f \in fs : Renews(f) \/ SignsOut(f)}}

\* It is answered, and no page hears it.
AnswerUnheard(f) ==
    /\ f \in gone /\ flow[f].at = "asked"
    /\ Answered(f)
    /\ flow' = [flow EXCEPT ![f] = NoFlow]
    /\ gone' = gone \ {f}
    /\ lost' = lost \cup Told({f})
    /\ UNCHANGED <<store, shared>>

-----------------------------------------------------------------------------
(* The server's steps, time and restarts. *)

\* The access token beside the refresh token expires.
AccessExpires ==
    /\ store.access
    /\ store' = [store EXCEPT !.access = FALSE]
    /\ UNCHANGED <<identityVars, flow, gone, shared, lost>>

\* An OAuth callback answers the browser's navigation, not the client: its
\* token pair reaches no store.
ForeignLogin(r, l) ==
    /\ flow[r].at = "none" /\ Room
    /\ FindIdentity(r, l)
    /\ UNCHANGED clientVars

ForeignAnswered(r) ==
    /\ flow[r].at = "none"
    /\ Answered(r)
    /\ UNCHANGED clientVars

Serve(r) ==
    /\ LinkByEmail(r) \/ LoginCommit(r) \/ LoginRefused(r) \/ RefreshCommit(r)
    /\ UNCHANGED clientVars

Expire == /\ \E j \in DOMAIN tokens : TokenExpires(j)
          /\ UNCHANGED clientVars

\* A restart fails the fetches that wait for an answer: a sign-out clears the
\* tokens all the same, any other chain just ends.
ServerRestarts(e) ==
    LET under == {f \in Requests : flow[f].at \in {"sent", "asked"}}
    IN  /\ Restart(e)
        /\ store' = IF \E f \in under \ gone : flow[f].kind = "logout" THEN Empty
                    ELSE store
        /\ flow' = [f \in Requests |-> IF f \in under THEN NoFlow ELSE flow[f]]
        /\ gone' = {}
        /\ lost' = lost \cup Told(Requests)
        /\ shared' = shared

WebInit ==
    /\ Init
    /\ store = Empty
    /\ flow = [f \in Requests |-> NoFlow]
    /\ gone = {} /\ shared = {} /\ lost = {}

FlowStep(f) ==
    \/ TryRefresh(f) \/ NothingToTry(f)
    \/ RefreshArrives(f) \/ RefreshAnswered(f)
    \/ SignInAnswered(f) \/ SignOutArrives(f) \/ SignOutAnswered(f)
    \/ PageLeft(f) \/ FetchFails(f) \/ NeverArrives(f) \/ AnswerUnheard(f)
    \/ Serve(f) \/ ForeignAnswered(f)

\* Logins by OAuth come from the browser's navigation, dev logins from the
\* client's form.
WebNext ==
    \/ \E f \in Requests :
        \/ FlowStep(f)
        \/ \E kind \in {"api", "me"} : Call(f, kind)
        \/ \E l \in Logins : IF l.role = "any" THEN ForeignLogin(f, l)
                             ELSE SignIn(f, l)
        \/ SignOut(f)
    \/ AccessExpires
    \/ Expire
    \/ \E e \in RootEmails \cup {"unset"} : ServerRestarts(e)

WebSpec == WebInit /\ [][WebNext]_vars

-----------------------------------------------------------------------------
(* Properties. *)

TypeOK ==
    /\ IdentityTypeOK
    /\ store \in Stores
    /\ \A f \in Requests :
        /\ flow[f].at \in FlowStages
        /\ flow[f].kind \in Kinds \cup {"none"}
        /\ flow[f].token \in 0..Len(tokens)
    /\ gone \subseteq {f \in Requests : flow[f].at \in {"sent", "asked"}}
    /\ shared \cup lost \subseteq DOMAIN tokens

\* What the identity tables and the browser keep, however logins overlap and
\* whenever the server starts again.
AccountsSound == TypeOK /\ LinkedByEmail /\ RootAdminServes

\* A refresh token is exchanged once, unless two requests held it at once: each
\* exchange then gives a live token and one of them is lost
\* (iam/service.py 142-160, "rotate: revoke the old").
RotatedOnceUnlessShared ==
    \A j, k \in DOMAIN tokens :
        (tokens[j].from = tokens[k].from /\ tokens[j].from \notin {0} \cup shared)
            => j = k

\* A sign-out of token j has reached the server, and its answer is under way.
Leaving(j) == \E f \in Requests : SignsOut(f) /\ flow[f].token = j

\* The answer with j's successor is on its way to the page that will store it.
Renewing(j) == \E f \in Requests \ gone : Renews(f) /\ flow[f].token = j

\* j has been exchanged, or signed out, and no page has heard or will hear so.
Unheard(j) == j \in lost \/ \E f \in gone : Renews(f) /\ flow[f].token = j

\* The stored refresh token can be used as long as it lasts, or its successor
\* is about to replace it; the exceptions are a sign-out under way, and an
\* answer that reaches no page, which was reloaded or closed, or lost its
\* connection, after the server had written (auth.tsx 41-53): no other tab,
\* sign-in or restart leaves a token in the store that is spent.
StoredTokenWorks ==
    LET j == store.refresh
    IN  j = 0 \/ Live(j) \/ tokens[j].expired \/ Renewing(j) \/ Leaving(j)
        \/ Unheard(j)

\* Token j has expired or was signed out, and nothing was given for it.
Ended(j) == j # 0 /\ ~Live(j) /\ \A k \in DOMAIN tokens : tokens[k].from # j

\* A chain ends, or is given up by its page.
Ends(f) == flow[f] # NoFlow /\ (flow'[f] = NoFlow \/ f \in gone' \ gone)

\* Tokens that still work are dropped by a sign-out or by a mounting page, and
\* by the page only if the token it had read was another request's as well, was
\* exchanged in an answer that no page heard, or ended before it could be
\* exchanged (auth.tsx 73-81 and 108-123).  A page whose refresh came second
\* does drop the tokens the first one has stored.
DroppedForCause ==
    [][store' = Empty /\ Live(store.refresh) =>
        \E f \in Requests :
            /\ Ends(f)
            /\ \/ flow[f].kind = "logout"
               \/ /\ flow[f].kind = "me"
                  /\ flow[f].token \in shared \cup lost \/ Ended(flow[f].token)]_vars
=============================================================================
