------------------------------- MODULE Access -------------------------------
(***************************************************************************)
(* Users, their tokens and what the tokens permit.                         *)
(*                                                                         *)
(* A handler is a request thread in POST /auth/register, /auth/login or    *)
(* /auth/refresh.  What get_current_principal and require_permission       *)
(* answer depends on the token and the stores alone and changes nothing:   *)
(* it is the operator Permitted.  Roles store permission codes, access     *)
(* tokens store role codes, refresh tokens only whose they are.            *)
(*                                                                         *)
(* No endpoint deactivates a user, assigns roles or edits a role yet; the  *)
(* fields the code reads are changed here by an administrator (external).  *)
(* Passwords, signatures and API keys, which no endpoint accepts, are left *)
(* out, as are requests without a token, which Settings.auth_required      *)
(* admits or not.  Time is in minutes: no request lasts that long.         *)
(***************************************************************************)
EXTENDS Naturals, FiniteSets

CONSTANTS
    Handler,       \* request threads
    User,          \* user ids to come
    Email,         \* email addresses, in lower case
    Role,          \* role codes
    Permission,    \* permission codes
    Backends,      \* persistence_backend: subset of {"memory", "postgres"}
    AccessTtl,     \* Settings.jwt_access_token_minutes
    RefreshTtl,    \* Settings.jwt_refresh_token_days, in minutes
    MaxTime,       \* bound: minutes
    MaxIssued,     \* bound: token pairs
    MaxAdmin       \* bound: changes made by the administrator

VARIABLES
    backend,   \* the configured backend
    now,       \* the time
    users,     \* users[u]: the row or object, or NoUser
    byEmail,   \* InMemoryUserRepository._by_email
    roles,     \* roles[r]: the permissions of role r
    tokens,    \* the tokens handed out
    issued,    \* number of token pairs handed out
    req,       \* req[h]: the request of handler h
    admin,     \* number of changes by the administrator
    off,       \* history: when a user was last seen active
    without    \* history: when a user was last seen with a role

vars == <<backend, now, users, byEmail, roles, tokens, issued, req, admin, off, without>>
-----------------------------------------------------------------------------
NoUser == [email |-> "none", active |-> FALSE, roles |-> {}]
Idle == [pc |-> "idle", id |-> "none", user |-> NoUser, seen |-> NoUser]
Nobody == "nobody"

ASSUME AccessConstants ==
    /\ Backends \subseteq {"memory", "postgres"} /\ Backends # {}
    /\ AccessTtl \in Nat \ {0} /\ RefreshTtl \in Nat \ {0}
    /\ MaxTime \in Nat /\ MaxIssued \in Nat /\ MaxAdmin \in Nat
    /\ Nobody \notin User /\ NoUser.email \notin Email    \* None is no id, no address

Init ==
    /\ backend \in Backends
    /\ now = 0
    /\ users = [u \in User |-> NoUser]
    /\ byEmail = [e \in Email |-> Nobody]
    /\ roles \in [Role -> SUBSET Permission]
    /\ tokens = {} /\ issued = 0 /\ admin = 0
    /\ req = [h \in Handler |-> Idle]
    /\ off = [u \in User |-> 0]
    /\ without = [u \in User |-> [r \in Role |-> 0]]
-----------------------------------------------------------------------------
\* UserRepository.get_by_email
GetByEmail(e) ==
    IF backend = "memory" THEN byEmail[e]
    ELSE IF \E u \in User : users[u].email = e
         THEN CHOOSE u \in User : users[u].email = e ELSE Nobody

\* Mutant: both tokens live as long as a refresh token.
LiveLong(t, type) == t.type = type /\ now < t.iat + RefreshTtl

\* decode_token with expected_type
Live(t, type) ==
    /\ t.type = type
    /\ now < t.iat + (IF type = "access" THEN AccessTtl ELSE RefreshTtl)

\* _resolve_permissions: the permissions the roles have now.
Resolved(codes) == UNION {roles[r] : r \in codes}

\* get_current_principal and require_permission(p), for a request with token t.
Permitted(t, p) == Live(t, "access") /\ p \in Resolved(t.roles)

\* _issue_tokens
Mint(u, codes) ==
    {[type |-> "access", sub |-> u, roles |-> codes, iat |-> now],
     [type |-> "refresh", sub |-> u, roles |-> {}, iat |-> now]}

Issue(u, codes) ==
    /\ issued < MaxIssued
    /\ issued' = issued + 1
    /\ tokens' = tokens \cup Mint(u, codes)

\* The histories, for any change of the users or the time.
Witness ==
    /\ off' = [u \in User |-> IF users[u].active THEN now ELSE off[u]]
    /\ without' = [u \in User |-> [r \in Role |->
                    IF r \in users[u].roles THEN now ELSE without[u][r]]]

Put(h, r) == req' = [req EXCEPT ![h] = r]
-----------------------------------------------------------------------------
\* RegisterUserUseCase.execute: the check ...
RegisterCheck(h) ==
    /\ req[h].pc = "idle"
    /\ \E e \in Email, codes \in SUBSET Role :
         /\ GetByEmail(e) = Nobody /\ codes # {}
         /\ Put(h, [Idle EXCEPT !.pc = "insert",
                       !.user = [email |-> e, active |-> TRUE, roles |-> codes]])
    /\ UNCHANGED <<backend, now, users, byEmail, roles, tokens, issued, admin, off, without>>

\* Mutant: the column email is not unique.
NotRefused(e) == FALSE

\* UserORM.email is unique.
Refused(e) == backend = "postgres" /\ \E u \in User : users[u].email = e

\* ... and the save, under a new id.
RegisterSave(h) ==
    /\ req[h].pc = "insert"
    /\ LET new == req[h].user
       IN \/ /\ Refused(new.email)
             /\ UNCHANGED <<users, byEmail>>
          \/ /\ ~Refused(new.email)
             /\ \E u \in User :
                  /\ users[u] = NoUser
                  /\ users' = [users EXCEPT ![u] = new]
                  /\ byEmail' = [byEmail EXCEPT ![new.email] = u]
    /\ Put(h, Idle) /\ Witness
    /\ UNCHANGED <<backend, now, roles, tokens, issued, admin>>

\* AuthenticateUserUseCase.execute, with the right password ...
LoginRead(h) ==
    /\ req[h].pc = "idle"
    /\ \E e \in Email :
         LET u == GetByEmail(e)
         IN /\ u # Nobody /\ users[u].active
            /\ Put(h, [Idle EXCEPT !.pc = "load", !.id = u, !.user = users[u]])
    /\ UNCHANGED <<backend, now, users, byEmail, roles, tokens, issued, admin, off, without>>

\* ... save(), which reads the row again ...
LoginLoad(h) ==
    /\ req[h].pc = "load"
    /\ Put(h, [req[h] EXCEPT !.pc = "save", !.seen = users[req[h].id]])
    /\ UNCHANGED <<backend, now, users, byEmail, roles, tokens, issued, admin, off, without>>

\* The row after an UPDATE of the columns in which `user` differs from `seen`.
Merged(row, user, seen) ==
    [row EXCEPT !.active = IF user.active = seen.active THEN @ ELSE user.active,
                !.roles = IF user.roles = seen.roles THEN @ ELSE user.roles]

\* ... and writes what differs.  The tokens are for the user as saved.
LoginSave(h) ==
    /\ req[h].pc = "save"
    /\ LET u == req[h].id
           row == IF backend = "memory" THEN users[u]
                  ELSE Merged(users[u], req[h].user, req[h].seen)
       IN /\ users' = [users EXCEPT ![u] = row]
          /\ byEmail' = [byEmail EXCEPT ![row.email] = u]
          /\ Issue(u, row.roles)
    /\ Put(h, Idle) /\ Witness
    /\ UNCHANGED <<backend, now, roles, admin>>

\* Mutant: whether the user is active is not asked.
RefreshAnyway ==
    /\ \E t \in tokens : Live(t, "refresh") /\ Issue(t.sub, users[t.sub].roles)
    /\ UNCHANGED <<backend, now, users, byEmail, roles, req, admin, off, without>>

\* POST /auth/refresh
Refresh ==
    /\ \E t \in tokens : /\ Live(t, "refresh") /\ users[t.sub].active
                         /\ Issue(t.sub, users[t.sub].roles)
    /\ UNCHANGED <<backend, now, users, byEmail, roles, req, admin, off, without>>
-----------------------------------------------------------------------------
\* The administrator deactivates or reactivates a user, assigns other roles, ...
ChangeUser ==
    /\ admin < MaxAdmin /\ admin' = admin + 1
    /\ \E u \in User :
         /\ users[u] # NoUser
         /\ \/ users' = [users EXCEPT ![u].active = ~@]
            \/ \E codes \in SUBSET Role :
                 codes # users[u].roles /\ users' = [users EXCEPT ![u].roles = codes]
    /\ Witness
    /\ UNCHANGED <<backend, now, byEmail, roles, tokens, issued, req>>

\* ... or saves a role with other permissions (RoleRepository.save).
ChangeRole ==
    /\ admin < MaxAdmin /\ admin' = admin + 1
    /\ \E r \in Role, ps \in SUBSET Permission :
         roles[r] # ps /\ roles' = [roles EXCEPT ![r] = ps]
    /\ UNCHANGED <<backend, now, users, byEmail, tokens, issued, req, off, without>>

\* A minute passes; requests are shorter.
Tick ==
    /\ now < MaxTime /\ now' = now + 1
    /\ \A h \in Handler : req[h] = Idle
    /\ Witness
    /\ UNCHANGED <<backend, users, byEmail, roles, tokens, issued, req, admin>>

Next == \/ \E h \in Handler : \/ RegisterCheck(h) \/ RegisterSave(h)
                              \/ LoginRead(h) \/ LoginLoad(h) \/ LoginSave(h)
        \/ Refresh \/ ChangeUser \/ ChangeRole \/ Tick

Spec == Init /\ [][Next]_vars
-----------------------------------------------------------------------------
TypeOK ==
    /\ backend \in Backends /\ now \in 0..MaxTime
    /\ \A u \in User : users[u] = NoUser \/
         users[u] \in [email: Email, active: BOOLEAN, roles: SUBSET Role]
    /\ byEmail \in [Email -> User \cup {Nobody}]
    /\ roles \in [Role -> SUBSET Permission]
    /\ \A t \in tokens : t.sub \in User /\ t.roles \subseteq Role /\ t.iat \in 0..now
    /\ \A h \in Handler : req[h].pc \in {"idle", "insert", "load", "save"}
    /\ issued \in 0..MaxIssued /\ admin \in 0..MaxAdmin

\* Whoever was deactivated is out within the life of an access token, whatever
\* requests were under way and however many refresh tokens are left.
DeactivatedIsOut ==
    \A t \in tokens, p \in Permission :
        Permitted(t, p) => users[t.sub].active \/ now < off[t.sub] + AccessTtl

\* A permission is granted because of a role that has it now, and that the
\* user has, or had within the life of an access token.
GrantIsFresh ==
    \A t \in tokens, p \in Permission :
        Permitted(t, p) => \E r \in t.roles :
            /\ p \in roles[r]
            /\ r \in users[t.sub].roles \/ now < without[t.sub][r] + AccessTtl

\* Two registrations of one address at the same time leave one user in
\* PostgreSQL, so that get_by_email finds at most one row; in memory the
\* address leads to one of those registered with it.
EmailFindsItsUser ==
    /\ backend = "postgres" =>
         \A u, v \in User : users[u] # NoUser /\ users[u].email = users[v].email => u = v
    /\ \A e \in Email : LET u == GetByEmail(e) IN
         IF u = Nobody THEN \A v \in User : users[v].email # e ELSE users[u].email = e
=============================================================================
