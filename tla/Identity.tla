------------------------------- MODULE Identity -------------------------------
(***************************************************************************)
(* M1: users, their federated identities and their refresh tokens          *)
(* (iam/service.py, tokens.py, router.py, models.py, bootstrap.py).        *)
(*                                                                         *)
(* A request reads rows, awaits, and writes in one transaction whose       *)
(* effects appear at its commit; an insert whose unique key was committed  *)
(* by another request meanwhile fails, and the request with it.  One       *)
(* tenant, the configured default, owns every row.                         *)
(***************************************************************************)
EXTENDS Integers, Sequences, FiniteSets, Functions

CONSTANTS
    Emails,
    Lower,          \* str.lower() on Emails
    Logins,         \* what providers assert of who logs in, and dev logins
    Requests,       \* requests served concurrently
    RootEmails,     \* values root_admin_email may have at a start
    MaxTokens       \* bound: refresh tokens ever issued

VARIABLES
    users,          \* table users; an id is a position
    identities,     \* table identities: subject -> user id
    tokens,         \* table refresh_tokens; a jti is a position
    configured,     \* settings.root_admin_email, or "unset"
    req             \* what each request is doing and has read

identityVars == <<users, identities, tokens, configured, req>>

-----------------------------------------------------------------------------
(* Rows. *)

Role == {"user", "designer", "admin", "root_admin"}

UserRows == [email: Emails, verified: BOOLEAN, role: Role]

\* expired tells that expires_at has passed; `from` is the token this one was
\* exchanged for, 0 for a login: a history of the rotation.
TokenRows ==
    [user: Nat \ {0}, revoked: BOOLEAN, expired: BOOLEAN, from: 0..MaxTokens]

\* subject stands for provider and provider_subject; role is the one a dev
\* login asks for, "any" for other providers.
LoginInfos ==
    [subject: STRING, email: Emails, verified: BOOLEAN, role: Role \cup {"any"}]

ASSUME IdentityAssumption ==
    /\ Lower \in [Emails -> Emails]
    /\ RootEmails \subseteq Emails
    /\ Logins \subseteq LoginInfos
    /\ IsFiniteSet(Requests) /\ MaxTokens \in Nat

\* A request: its stage, the login it serves, the token it presents and, in
\* the answer, the one it was given (0 for an error), the user it has found
\* (0 for none) with the role read, and whether the identity existed.
NoLogin == [subject |-> "none", email |-> "none", verified |-> FALSE, role |-> "any"]
Idle == [at |-> "idle", login |-> NoLogin, token |-> 0, user |-> 0, role |-> "any",
         known |-> FALSE]
Stages == {"idle", "login:link", "login:write", "refresh", "done"}
Answer(jti) == [Idle EXCEPT !.at = "done", !.token = jti]

Live(j) == j \in DOMAIN tokens /\ ~tokens[j].revoked /\ ~tokens[j].expired

WithEmail(us, e) == {u \in DOMAIN us : us[u].email = e}

-----------------------------------------------------------------------------
(* Steps the requests share. *)

\* The token of a new pair, for user u in place of token j.
NewToken(u, j) == [user |-> u, revoked |-> FALSE, expired |-> FALSE, from |-> j]

\* An error answers the request and rolls its transaction back.
Refuse(r) ==
    /\ req' = [req EXCEPT ![r] = Answer(0)]
    /\ UNCHANGED <<users, identities, tokens, configured>>

\* The answer reaches the client.
Answered(r) ==
    /\ req[r].at = "done"
    /\ req' = [req EXCEPT ![r] = Idle]
    /\ UNCHANGED <<users, identities, tokens, configured>>

-----------------------------------------------------------------------------
(* Operations. *)

\* Mutant: a user that exists keeps its role.
BootCreatesOnly(us, e) ==
    IF WithEmail(us, Lower[e]) = {}
    THEN Append(us, [email |-> Lower[e], verified |-> TRUE, role |-> "root_admin"])
    ELSE us

\* ensure_root_admin: the configured user exists, as root admin.
Boot(us, e) ==
    LET mine == WithEmail(us, Lower[e])
    IN  IF mine = {}
        THEN Append(us, [email |-> Lower[e], verified |-> TRUE,
                         role |-> "root_admin"])
        ELSE [u \in DOMAIN us |->
                IF u \in mine THEN [us[u] EXCEPT !.role = "root_admin"] ELSE us[u]]

\* The tables after a start with this configuration.
Started(us, e) == IF e = "unset" THEN us ELSE Boot(us, e)

Init ==
    /\ configured \in RootEmails \cup {"unset"}
    /\ users = Started(<< >>, configured)
    /\ identities = << >>
    /\ tokens = << >>
    /\ req = [r \in Requests |-> Idle]

\* The server stops, open requests roll back without an answer, and it
\* starts with another configuration; it serves nobody before the bootstrap.
Restart(e) ==
    /\ configured' = e
    /\ users' = Started(users, e)
    /\ req' = [r \in Requests |-> Idle]
    /\ UNCHANGED <<identities, tokens>>

\* login_with_oauth or dev_login, the first step: the identity and its user.
FindIdentity(r, l) ==
    /\ req[r].at = "idle"
    /\ LET q == [Idle EXCEPT !.login = l]
           u == identities[l.subject]
       IN  req' = [req EXCEPT ![r] =
            IF l.subject \in DOMAIN identities
            THEN [q EXCEPT !.at = "login:write", !.user = u,
                           !.role = users[u].role, !.known = TRUE]
            ELSE [q EXCEPT !.at = IF l.verified THEN "login:link"
                                  ELSE "login:write"]]
    /\ UNCHANGED <<users, identities, tokens, configured>>

\* Account linking: the user with the verified email, if there is one.
LinkByEmail(r) ==
    /\ req[r].at = "login:link"
    /\ LET mine == WithEmail(users, req[r].login.email)
       IN  req' = [req EXCEPT
            ![r].at = "login:write",
            ![r].user = IF mine = {} THEN 0 ELSE CHOOSE u \in mine : TRUE,
            ![r].role = IF mine = {} THEN "any"
                        ELSE users[CHOOSE u \in mine : TRUE].role]
    /\ UNCHANGED <<users, identities, tokens, configured>>

\* uq_user_tenant_email and uq_identity_provider_subject.
KeysAreFree(r) ==
    LET q == req[r]
    IN  /\ q.user = 0 => WithEmail(users, q.login.email) = {}
        /\ ~q.known => q.login.subject \notin DOMAIN identities

\* The row of the user: a new one has role user, and dev_login writes the
\* role it asks for if it differs from the one it has read.
UsersAfterLogin(r) ==
    LET q == req[r]
        l == q.login
    IN  IF q.user = 0
        THEN Append(users, [email |-> l.email, verified |-> l.verified,
                            role |-> IF l.role = "any" THEN "user" ELSE l.role])
        ELSE IF l.role \in {"any", q.role} THEN users
        ELSE [users EXCEPT ![q.user].role = l.role]

\* The user, its identity and the record of its refresh token are inserted.
LoginCommit(r) ==
    LET q == req[r]
        u == IF q.user = 0 THEN Len(users) + 1 ELSE q.user
    IN  /\ q.at = "login:write"
        /\ KeysAreFree(r)
        /\ users' = UsersAfterLogin(r)
        /\ identities' = IF q.known THEN identities
                         ELSE [s \in DOMAIN identities \cup {q.login.subject} |->
                                IF s = q.login.subject THEN u ELSE identities[s]]
        /\ tokens' = Append(tokens, NewToken(u, 0))
        /\ req' = [req EXCEPT ![r] = Answer(Len(tokens) + 1)]
        /\ UNCHANGED configured

LoginRefused(r) ==
    /\ req[r].at = "login:write"
    /\ ~KeysAreFree(r)
    /\ Refuse(r)

\* POST /auth/refresh: the record of the token j is read and checked.
RefreshRead(r, j) ==
    /\ req[r].at = "idle"
    /\ Live(j)
    /\ req' = [req EXCEPT ![r] = [Idle EXCEPT !.at = "refresh", !.token = j]]
    /\ UNCHANGED <<users, identities, tokens, configured>>

RefreshRefused(r, j) ==
    /\ req[r].at = "idle"
    /\ ~Live(j)
    /\ Refuse(r)

\* Mutant: the exchanged token is not revoked.
RefreshCommitKeepsOld(r) ==
    LET j == req[r].token
    IN  /\ req[r].at = "refresh"
        /\ tokens' = Append(tokens, NewToken(tokens[j].user, j))
        /\ req' = [req EXCEPT ![r] = Answer(Len(tokens) + 1)]
        /\ UNCHANGED <<users, identities, configured>>

\* The token is revoked and a pair issued in its place.
RefreshCommit(r) ==
    LET j == req[r].token
    IN  /\ req[r].at = "refresh"
        /\ tokens' = Append([tokens EXCEPT ![j].revoked = TRUE],
                            NewToken(tokens[j].user, j))
        /\ req' = [req EXCEPT ![r] = Answer(Len(tokens) + 1)]
        /\ UNCHANGED <<users, identities, configured>>

\* POST /auth/logout: whatever was read, the write is `revoked = true`; a
\* token past its lifetime fails to verify and is left alone.
LogoutCommit(r, j) ==
    /\ req[r].at = "idle"
    /\ tokens' = [tokens EXCEPT ![j].revoked = @ \/ ~tokens[j].expired]
    /\ req' = [req EXCEPT ![r] = Answer(0)]
    /\ UNCHANGED <<users, identities, configured>>

\* The lifetime of a refresh token ends; that of a revoked one tells nothing
\* apart, since it is refused already.
TokenExpires(j) ==
    /\ Live(j)
    /\ tokens' = [tokens EXCEPT ![j].expired = TRUE]
    /\ UNCHANGED <<users, identities, configured, req>>

-----------------------------------------------------------------------------
(* Properties. *)

IdentityTypeOK ==
    /\ users \in Seq(UserRows)
    /\ IsFiniteSet(DOMAIN identities)
    /\ \A s \in DOMAIN identities : identities[s] \in DOMAIN users
    /\ tokens \in Seq(TokenRows)
    /\ configured \in Emails \cup {"unset"}
    /\ \A r \in Requests : req[r].at \in Stages /\ req[r].user \in 0..Len(users)

\* Every identity belongs to the one user that has its email, however logins
\* of several providers overlap (iam/service.py 68-116, REQUIREMENTS.md:145).
LinkedByEmail ==
    \A l \in Logins :
        l.subject \in DOMAIN identities =>
            WithEmail(users, l.email) = {identities[l.subject]}

\* Whoever logged in first and whatever the configuration was before, the
\* configured address has a root admin once the server serves, unless a dev
\* login in its name asks for another role (iam/bootstrap.py 20-47).
RootAdminServes ==
    configured # "unset" =>
        \E u \in DOMAIN users :
            users[u].email = Lower[configured] /\ users[u].role = "root_admin"
=============================================================================
