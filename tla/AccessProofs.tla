---------------------------- MODULE AccessProofs ----------------------------
(***************************************************************************)
(* Proofs about Access, for any number of request threads, users, roles    *)
(* and tokens and for both backends.                                       *)
(*                                                                         *)
(* A token outlives the state it was minted from, so what it permits is    *)
(* bounded through the histories: a token is no younger than the last time *)
(* its user was seen active, and no younger, for each of its roles, than   *)
(* the last time its user was seen with the role.  Logins under way carry  *)
(* the user as it was read; the clock stands still for them, so a user     *)
(* deactivated meanwhile was last seen active now.                         *)
(***************************************************************************)
EXTENDS Access, TLAPS

Account == [email: Email, active: BOOLEAN, roles: SUBSET Role]
Known == Account \cup {NoUser}
Token == [type: {"access", "refresh"}, sub: User, roles: SUBSET Role, iat: Nat]
Request == [pc: {"idle", "insert", "load", "save"}, id: User \cup {"none"},
            user: Known, seen: Known]

Typed ==
    /\ backend \in {"memory", "postgres"} /\ backend \in Backends
    /\ now \in Nat /\ now <= MaxTime
    /\ users \in [User -> Known]
    /\ byEmail \in [Email -> User \cup {Nobody}]
    /\ roles \in [Role -> SUBSET Permission]
    /\ tokens \subseteq Token
    /\ issued \in 0..MaxIssued /\ admin \in 0..MaxAdmin
    /\ req \in [Handler -> Request]
    /\ off \in [User -> Nat] /\ without \in [User -> [Role -> Nat]]

\* Nothing is seen before it happens.
SeenByNow ==
    /\ \A t \in tokens : t.iat <= now
    /\ \A u \in User : off[u] <= now
    /\ \A u \in User, r \in Role : without[u][r] <= now

\* What the requests under way hold.
RequestsHold == \A h \in Handler :
    /\ req[h].pc = "insert" => req[h].user \in Account /\ req[h].user.active
    /\ req[h].pc \in {"load", "save"} =>
         /\ req[h].id \in User
         /\ users[req[h].id] # NoUser
         /\ req[h].user \in Account /\ req[h].user.active
         /\ users[req[h].id].active \/ off[req[h].id] = now
    /\ req[h].pc = "save" => req[h].seen \in Account

\* A token is no younger than its user's last moment of activity, ...
IssuedWhileActive == \A t \in tokens : users[t.sub].active \/ t.iat <= off[t.sub]

\* ... nor, for each role it carries, than its user's last moment with it.
IssuedWithRoles == \A t \in tokens : \A r \in t.roles :
    r \in users[t.sub].roles \/ t.iat <= without[t.sub][r]

\* In PostgreSQL an address has one row; in memory the index and the objects
\* agree.
AddressesAgree ==
    /\ backend = "postgres" =>
         \A u, v \in User : users[u] # NoUser /\ users[u].email = users[v].email => u = v
    /\ \A u \in User : users[u] # NoUser => byEmail[users[u].email] # Nobody
    /\ \A e \in Email : byEmail[e] # Nobody => users[byEmail[e]].email = e

Inductive == /\ Typed /\ SeenByNow /\ RequestsHold
             /\ IssuedWhileActive /\ IssuedWithRoles /\ AddressesAgree

-----------------------------------------------------------------------------
(***************************************************************************)
(* What single rows and requests are.                                      *)
(***************************************************************************)

\* The placeholder is no account, since its address is none.
LEMMA NoUserIsNoAccount == /\ NoUser \notin Account /\ NoUser \in Known
                           /\ NoUser.active = FALSE /\ NoUser.roles = {}
BY AccessConstants DEF Account, Known, NoUser

\* An idle request is a request.
LEMMA IdleIsARequest == Idle \in Request /\ Idle.pc = "idle"
BY DEF Idle, Request, Known

\* UserORM rows keep their address through the administrator's changes.
LEMMA ChangedAccount ==
    ASSUME NEW a \in Account
    PROVE  /\ [a EXCEPT !.active = ~@] \in Account
           /\ [a EXCEPT !.active = ~@].email = a.email
           /\ [a EXCEPT !.active = ~@].active = ~a.active
           /\ [a EXCEPT !.active = ~@].roles = a.roles
           /\ \A codes \in SUBSET Role :
                /\ [a EXCEPT !.roles = codes] \in Account
                /\ [a EXCEPT !.roles = codes].email = a.email
                /\ [a EXCEPT !.roles = codes].active = a.active
                /\ [a EXCEPT !.roles = codes].roles = codes
BY DEF Account

\* What a login writes back is an account with the row's address, and it is
\* active when the row is or when the login's copy is and the row read was not.
LEMMA MergedAccount ==
    ASSUME NEW row \in Account, NEW user \in Account, NEW seen \in Account, user.active
    PROVE  /\ Merged(row, user, seen) \in Account
           /\ Merged(row, user, seen).email = row.email
           /\ row.active => Merged(row, user, seen).active
BY DEF Account, Merged

\* The token pair that _issue_tokens returns.
LEMMA MintedTokens ==
    ASSUME NEW u \in User, NEW codes \in SUBSET Role, now \in Nat
    PROVE  /\ Mint(u, codes) \subseteq Token
           /\ \A t \in Mint(u, codes) : t.sub = u /\ t.iat = now /\ t.roles \subseteq codes
BY DEF Mint, Token

\* The histories only move forward, and to now for what is true now.
LEMMA WitnessForward ==
    ASSUME Typed, SeenByNow, Witness
    PROVE  /\ off' \in [User -> Nat] /\ without' \in [User -> [Role -> Nat]]
           /\ \A u \in User : off[u] <= off'[u] /\ off'[u] <= now
           /\ \A u \in User : users[u].active => off'[u] = now
           /\ \A u \in User, r \in Role :
                without[u][r] <= without'[u][r] /\ without'[u][r] <= now
           /\ \A u \in User, r \in Role : r \in users[u].roles => without'[u][r] = now
<1>1. off' \in [User -> Nat]
  BY DEF Typed, Witness
<1>2. without' \in [User -> [Role -> Nat]]
  BY DEF Typed, Witness
<1>3. \A u \in User : off'[u] = IF users[u].active THEN now ELSE off[u]
  BY DEF Witness
<1>4. \A u \in User, r \in Role :
        without'[u][r] = IF r \in users[u].roles THEN now ELSE without[u][r]
  BY DEF Witness
<1>5. \A u \in User : off[u] \in Nat /\ off[u] <= now
  BY DEF Typed, SeenByNow
<1>6. \A u \in User, r \in Role : without[u][r] \in Nat /\ without[u][r] <= now
  BY DEF Typed, SeenByNow
<1>7. now \in Nat
  BY DEF Typed
<1> QED BY <1>1, <1>2, <1>3, <1>4, <1>5, <1>6, <1>7
-----------------------------------------------------------------------------
(***************************************************************************)
(* Steps that write users under the histories' eyes.                       *)
(***************************************************************************)

\* Tokens stay no younger than their histories when users are written under
\* Witness: whoever loses activity or a role is recorded as of now.
LEMMA HistoriesCover ==
    ASSUME Typed, SeenByNow, Witness, IssuedWhileActive, IssuedWithRoles
    PROVE  \A t \in tokens : /\ t.iat <= off'[t.sub]
                             /\ \A r \in t.roles : t.iat <= without'[t.sub][r]
<1> SUFFICES ASSUME NEW t \in tokens
             PROVE  /\ t.iat <= off'[t.sub]
                    /\ \A r \in t.roles : t.iat <= without'[t.sub][r]
  OBVIOUS
<1>1. /\ t.sub \in User /\ t.roles \subseteq Role /\ t.iat \in Nat /\ t.iat <= now
      /\ now \in Nat
  BY DEF Typed, Token, SeenByNow
<1>2. off[t.sub] \in Nat /\ off'[t.sub] \in Nat
  BY <1>1, WitnessForward DEF Typed
<1>3. t.iat <= off'[t.sub]
  BY <1>1, <1>2, WitnessForward DEF IssuedWhileActive
<1>4. ASSUME NEW r \in t.roles PROVE t.iat <= without'[t.sub][r]
  <2>1. r \in Role /\ without[t.sub][r] \in Nat /\ without'[t.sub][r] \in Nat
    BY <1>1, WitnessForward DEF Typed
  <2> QED BY <1>1, <2>1, WitnessForward DEF IssuedWithRoles
<1> QED BY <1>3, <1>4

\* A request that waits keeps what it holds when some accounts change: its
\* user stays an account, and was last seen active now if it no longer is.
LEMMA WaitingHold ==
    ASSUME Typed, SeenByNow, RequestsHold, Witness, UNCHANGED now,
           NEW h \in Handler, req'[h] = req[h],
           \A u \in User : users[u] # NoUser => users'[u] # NoUser
    PROVE  /\ req'[h].pc = "insert" => req'[h].user \in Account /\ req'[h].user.active
           /\ req'[h].pc \in {"load", "save"} =>
                /\ req'[h].id \in User
                /\ users'[req'[h].id] # NoUser
                /\ req'[h].user \in Account /\ req'[h].user.active
                /\ users'[req'[h].id].active \/ off'[req'[h].id] = now'
           /\ req'[h].pc = "save" => req'[h].seen \in Account
<1>1. req[h].pc = "insert" => req[h].user \in Account /\ req[h].user.active
  BY DEF RequestsHold
<1>2. req[h].pc = "save" => req[h].seen \in Account
  BY DEF RequestsHold
<1>3. ASSUME req[h].pc \in {"load", "save"}
      PROVE  /\ req[h].id \in User
             /\ users'[req[h].id] # NoUser
             /\ req[h].user \in Account /\ req[h].user.active
             /\ off'[req[h].id] = now'
  <2>1. /\ req[h].id \in User /\ users[req[h].id] # NoUser
        /\ req[h].user \in Account /\ req[h].user.active
        /\ users[req[h].id].active \/ off[req[h].id] = now
    BY <1>3 DEF RequestsHold
  <2>2. off[req[h].id] \in Nat /\ off'[req[h].id] \in Nat /\ now \in Nat
    BY <2>1, WitnessForward DEF Typed
  <2>3. /\ off[req[h].id] <= off'[req[h].id] /\ off'[req[h].id] <= now
        /\ users[req[h].id].active => off'[req[h].id] = now
    BY <2>1, WitnessForward
  <2>4. off'[req[h].id] = now
    BY <2>1, <2>2, <2>3
  <2> QED BY <2>1, <2>4
<1> QED BY <1>1, <1>2, <1>3
-----------------------------------------------------------------------------
(***************************************************************************)
(* One lemma per action.                                                   *)
(***************************************************************************)

\* A step that changes nothing but the request of one handler keeps what is
\* not about requests.
LEMMA RequestOnly ==
    ASSUME Inductive, NEW h \in Handler, NEW r \in Request, Put(h, r),
           UNCHANGED <<backend, now, users, byEmail, roles, tokens, issued, admin, off, without>>,
           r.pc = "insert" => r.user \in Account /\ r.user.active,
           r.pc \in {"load", "save"} =>
                /\ r.id \in User /\ users[r.id] # NoUser
                /\ r.user \in Account /\ r.user.active
                /\ users[r.id].active \/ off[r.id] = now,
           r.pc = "save" => r.seen \in Account
    PROVE  Inductive'
<1>1. req' \in [Handler -> Request] /\ req'[h] = r /\ \A k \in Handler \ {h} : req'[k] = req[k]
  BY DEF Inductive, Typed, Put
<1>2. Typed'
  BY <1>1 DEF Inductive, Typed
<1>3. RequestsHold'
  BY <1>1 DEF Inductive, RequestsHold
<1>4. SeenByNow' /\ IssuedWhileActive' /\ IssuedWithRoles' /\ AddressesAgree'
  BY DEF Inductive, SeenByNow, IssuedWhileActive, IssuedWithRoles, AddressesAgree
<1> QED BY <1>2, <1>3, <1>4 DEF Inductive

\* RegisterUserUseCase.execute, the check.
LEMMA RegisterCheckKeeps ==
    ASSUME Inductive, NEW h \in Handler, RegisterCheck(h) PROVE Inductive'
<1>1. PICK e \in Email, codes \in SUBSET Role :
        Put(h, [Idle EXCEPT !.pc = "insert",
                   !.user = [email |-> e, active |-> TRUE, roles |-> codes]])
  BY DEF RegisterCheck
<1> DEFINE r == [Idle EXCEPT !.pc = "insert",
                   !.user = [email |-> e, active |-> TRUE, roles |-> codes]]
<1>2. r \in Request /\ r.pc = "insert" /\ r.user \in Account /\ r.user.active
  BY DEF Idle, Request, Known, Account
<1>3. UNCHANGED <<backend, now, users, byEmail, roles, tokens, issued, admin, off, without>>
  BY DEF RegisterCheck
<1> QED BY <1>1, <1>2, <1>3, RequestOnly

\* AuthenticateUserUseCase.execute, the reading of the user.
LEMMA LoginReadKeeps ==
    ASSUME Inductive, NEW h \in Handler, LoginRead(h) PROVE Inductive'
<1>1. PICK e \in Email :
        /\ GetByEmail(e) # Nobody /\ users[GetByEmail(e)].active
        /\ Put(h, [Idle EXCEPT !.pc = "load", !.id = GetByEmail(e),
                               !.user = users[GetByEmail(e)]])
  BY DEF LoginRead
<1> DEFINE u == GetByEmail(e)
           r == [Idle EXCEPT !.pc = "load", !.id = u, !.user = users[u]]
<1>2. u \in User
  BY <1>1 DEF GetByEmail, Inductive, Typed
<1>3. users[u] \in Known /\ users[u].active
  BY <1>1, <1>2 DEF Inductive, Typed
<1>4. users[u] \in Account /\ users[u] # NoUser
  BY <1>3, NoUserIsNoAccount DEF Known
<1>5. r \in Request /\ r.pc = "load" /\ r.id = u /\ r.user = users[u]
  <2> HIDE DEF u
  <2> QED BY <1>2, <1>3 DEF Idle, Request, Known
<1>6. UNCHANGED <<backend, now, users, byEmail, roles, tokens, issued, admin, off, without>>
  BY DEF LoginRead
<1>7. Put(h, r)
  BY <1>1
<1> HIDE DEF r, u
<1> QED BY <1>2, <1>3, <1>4, <1>5, <1>6, <1>7, RequestOnly

\* UserRepository.save, the reading of the row.
LEMMA LoginLoadKeeps ==
    ASSUME Inductive, NEW h \in Handler, LoginLoad(h) PROVE Inductive'
<1> DEFINE r == [req[h] EXCEPT !.pc = "save", !.seen = users[req[h].id]]
<1>1. req[h] \in Request /\ req[h].pc = "load"
  BY DEF LoginLoad, Inductive, Typed
<1>2. /\ req[h].id \in User /\ users[req[h].id] # NoUser
      /\ req[h].user \in Account /\ req[h].user.active
      /\ users[req[h].id].active \/ off[req[h].id] = now
  BY <1>1 DEF Inductive, RequestsHold
<1>3. users[req[h].id] \in Account
  BY <1>2 DEF Inductive, Typed, Known
<1>4. /\ r \in Request /\ r.pc = "save" /\ r.id = req[h].id /\ r.user = req[h].user
      /\ r.seen = users[req[h].id]
  BY <1>1, <1>3 DEF Request, Known
<1>5. UNCHANGED <<backend, now, users, byEmail, roles, tokens, issued, admin, off, without>>
  BY DEF LoginLoad
<1>6. Put(h, r)
  BY DEF LoginLoad
<1> HIDE DEF r
<1> QED BY <1>2, <1>3, <1>4, <1>5, <1>6, RequestOnly

\* Tokens stay covered by the histories through a step that writes users
\* under Witness and mints tokens for users as they are then.
LEMMA TokensCovered ==
    ASSUME Inductive, Witness, now' = now,
           \A t \in tokens' \ tokens :
               /\ t \in Token /\ t.iat = now
               /\ users'[t.sub].active \/ off'[t.sub] = now
               /\ t.roles \subseteq users'[t.sub].roles
    PROVE  /\ tokens' \subseteq Token /\ SeenByNow'
           /\ IssuedWhileActive' /\ IssuedWithRoles'
<1>1. now \in Nat /\ tokens \subseteq Token /\ Typed /\ SeenByNow
  BY DEF Inductive, Typed
<1>2. tokens' \subseteq Token
  BY <1>1
<1>3. /\ \A v \in User : off'[v] \in Nat /\ off'[v] <= now
      /\ \A v \in User, r \in Role : without'[v][r] <= now
  BY <1>1, WitnessForward
<1>4. \A t \in tokens' : t.iat \in Nat /\ t.iat <= now
  BY <1>1 DEF Token, SeenByNow
<1>5. SeenByNow'
  BY <1>3, <1>4 DEF SeenByNow
<1>6. ASSUME NEW t \in tokens'
      PROVE  /\ users'[t.sub].active \/ t.iat <= off'[t.sub]
             /\ \A r \in t.roles : r \in users'[t.sub].roles \/ t.iat <= without'[t.sub][r]
  <2>1. CASE t \in tokens
    BY <1>1, <2>1, HistoriesCover DEF Inductive
  <2>2. CASE t \in tokens' \ tokens
    BY <1>1, <2>2
  <2> QED BY <2>1, <2>2
<1>7. IssuedWhileActive' /\ IssuedWithRoles'
  BY <1>6 DEF IssuedWhileActive, IssuedWithRoles
<1> QED BY <1>2, <1>5, <1>7

\* The save of RegisterUserUseCase.execute.
LEMMA RegisterSaveKeeps ==
    ASSUME Inductive, NEW h \in Handler, RegisterSave(h) PROVE Inductive'
<1> DEFINE new == req[h].user
<1>1. new \in Account /\ new.active
  BY DEF Inductive, RequestsHold, RegisterSave
<1>2. /\ Put(h, Idle) /\ Witness
      /\ UNCHANGED <<backend, now, roles, tokens, issued, admin>>
  BY DEF RegisterSave
<1>3. /\ req' \in [Handler -> Request] /\ req'[h] = Idle
      /\ \A k \in Handler \ {h} : req'[k] = req[k]
  BY <1>2, IdleIsARequest DEF Inductive, Typed, Put
<1>4. Typed /\ SeenByNow /\ RequestsHold /\ AddressesAgree
  BY DEF Inductive
<1>5. /\ users' \in [User -> Known] /\ byEmail' \in [Email -> User \cup {Nobody}]
      /\ \A u \in User : users[u] # NoUser => users'[u] # NoUser
      /\ AddressesAgree'
  <2>1. CASE UNCHANGED <<users, byEmail>>
    BY <1>2, <1>4, <2>1 DEF Typed, AddressesAgree
  <2>2. ASSUME ~Refused(new.email), NEW u \in User, users[u] = NoUser,
               users' = [users EXCEPT ![u] = new],
               byEmail' = [byEmail EXCEPT ![new.email] = u]
        PROVE  /\ users' \in [User -> Known] /\ byEmail' \in [Email -> User \cup {Nobody}]
               /\ \A v \in User : users[v] # NoUser => users'[v] # NoUser
               /\ AddressesAgree'
    <3> HIDE DEF new
    <3>1. new.email \in Email /\ new \in Known /\ new # NoUser
      BY <1>1, NoUserIsNoAccount DEF Account, Known
    <3>2. /\ users' \in [User -> Known] /\ users'[u] = new
          /\ \A v \in User \ {u} : users'[v] = users[v]
      BY <1>4, <2>2, <3>1 DEF Typed
    <3>3. /\ byEmail' \in [Email -> User \cup {Nobody}] /\ byEmail'[new.email] = u
          /\ \A e \in Email \ {new.email} : byEmail'[e] = byEmail[e]
      BY <1>4, <2>2, <3>1 DEF Typed
    <3>4. \A v \in User : users[v] # NoUser => users'[v] # NoUser
      BY <2>2, <3>1, <3>2
    <3>5. ASSUME backend = "postgres", NEW v \in User, NEW w \in User,
                 users'[v] # NoUser, users'[v].email = users'[w].email
          PROVE  v = w
      <4>1. \A x \in User : users[x].email # new.email
        BY <2>2, <3>5 DEF Refused
      <4>2. \A x \in User \ {u} : users'[x].email # new.email
        BY <3>2, <4>1
      <4> QED BY <1>4, <3>2, <3>5, <4>2 DEF AddressesAgree
    <3>6. \A v \in User : users'[v] # NoUser => byEmail'[users'[v].email] # Nobody
      <4>1. \A v \in User : users[v] # NoUser => users[v].email \in Email
        BY <1>4 DEF Typed, Known, Account
      <4>2. u # Nobody
        BY AccessConstants
      <4> QED BY <1>4, <3>1, <3>2, <3>3, <4>1, <4>2 DEF AddressesAgree
    <3>7. \A e \in Email : byEmail'[e] # Nobody => users'[byEmail'[e]].email = e
      <4>1. NoUser.email \notin Email
        BY AccessConstants
      <4>2. \A e \in Email : byEmail[e] # Nobody => byEmail[e] \in User /\ byEmail[e] # u
        BY <1>4, <2>2, <4>1 DEF Typed, AddressesAgree
      <4> QED BY <1>4, <3>1, <3>2, <3>3, <4>2 DEF AddressesAgree
    <3>8. AddressesAgree'
      BY <1>2, <3>5, <3>6, <3>7 DEF AddressesAgree
    <3> QED BY <3>2, <3>3, <3>4, <3>8
  <2> QED BY <2>1, <2>2 DEF RegisterSave
<1>6. RequestsHold'
  BY <1>2, <1>3, <1>4, <1>5, IdleIsARequest, WaitingHold DEF RequestsHold
<1>7. tokens' \subseteq Token /\ SeenByNow' /\ IssuedWhileActive' /\ IssuedWithRoles'
  BY <1>2, TokensCovered
<1>8. Typed'
  BY <1>2, <1>3, <1>4, <1>5, WitnessForward DEF Typed
<1> QED BY <1>5, <1>6, <1>7, <1>8 DEF Inductive

\* Rewriting the account of one user, with its address kept and entered in
\* the index, keeps the addresses in agreement.
LEMMA RewriteKeepsAddresses ==
    ASSUME Typed, AddressesAgree, UNCHANGED backend, NEW u \in User, users[u] # NoUser,
           NEW row \in Account, row.email = users[u].email,
           users' = [users EXCEPT ![u] = row],
           byEmail' \in {byEmail, [byEmail EXCEPT ![row.email] = u]}
    PROVE  /\ users' \in [User -> Known] /\ users'[u] = row
           /\ byEmail' \in [Email -> User \cup {Nobody}]
           /\ \A v \in User : users[v] # NoUser => users'[v] # NoUser
           /\ AddressesAgree'
<1>1. row.email \in Email /\ row \in Known /\ row # NoUser /\ u # Nobody
  BY NoUserIsNoAccount, AccessConstants DEF Account, Known
<1>2. /\ users' \in [User -> Known] /\ users'[u] = row
      /\ \A v \in User \ {u} : users'[v] = users[v]
  BY <1>1 DEF Typed
<1>3. \A v \in User : users'[v].email = users[v].email /\ (users'[v] = NoUser <=> users[v] = NoUser)
  BY <1>1, <1>2
<1>4. /\ byEmail' \in [Email -> User \cup {Nobody}]
      /\ \A e \in Email : byEmail'[e] = byEmail[e] \/ (e = row.email /\ byEmail'[e] = u)
  BY <1>1 DEF Typed
<1>5. \A v \in User : users'[v] # NoUser => byEmail'[users'[v].email] # Nobody
  <2>1. \A v \in User : users[v] # NoUser => users[v].email \in Email
    BY DEF Typed, Known, Account
  <2> QED BY <1>1, <1>3, <1>4, <2>1 DEF AddressesAgree
<1>6. \A e \in Email : byEmail'[e] # Nobody => users'[byEmail'[e]].email = e
  <2>1. \A e \in Email : byEmail[e] # Nobody => byEmail[e] \in User
    BY DEF Typed
  <2> QED BY <1>1, <1>2, <1>3, <1>4, <2>1 DEF AddressesAgree
<1>7. AddressesAgree'
  BY <1>3, <1>5, <1>6 DEF AddressesAgree
<1> QED BY <1>2, <1>3, <1>4, <1>7

\* The save of a login, which writes what differs and mints the tokens.
LEMMA LoginSaveKeeps ==
    ASSUME Inductive, NEW h \in Handler, LoginSave(h) PROVE Inductive'
<1> DEFINE u == req[h].id
           row == IF backend = "memory" THEN users[u]
                  ELSE Merged(users[u], req[h].user, req[h].seen)
<1>1. /\ u \in User /\ users[u] # NoUser /\ req[h].user \in Account /\ req[h].user.active
      /\ req[h].seen \in Account
      /\ users[u].active \/ off[u] = now
  BY DEF Inductive, RequestsHold, LoginSave
<1>2. Typed /\ SeenByNow /\ RequestsHold /\ AddressesAgree
  BY DEF Inductive
<1>3. users[u] \in Account
  BY <1>1, <1>2 DEF Typed, Known
<1>4. row \in Account /\ row.email = users[u].email /\ (users[u].active => row.active)
  BY <1>1, <1>3, MergedAccount
<1>5. /\ users' = [users EXCEPT ![u] = row]
      /\ byEmail' = [byEmail EXCEPT ![row.email] = u]
      /\ Issue(u, row.roles)
      /\ Put(h, Idle) /\ Witness
      /\ UNCHANGED <<backend, now, roles, admin>>
  BY DEF LoginSave
<1> HIDE DEF row, u
<1>6. /\ req' \in [Handler -> Request] /\ req'[h] = Idle
      /\ \A k \in Handler \ {h} : req'[k] = req[k]
  BY <1>2, <1>5, IdleIsARequest DEF Typed, Put
<1>7. /\ users' \in [User -> Known] /\ users'[u] = row
      /\ byEmail' \in [Email -> User \cup {Nobody}]
      /\ \A v \in User : users[v] # NoUser => users'[v] # NoUser
      /\ AddressesAgree'
  BY <1>1, <1>2, <1>4, <1>5, RewriteKeepsAddresses
<1>8. RequestsHold'
  BY <1>2, <1>5, <1>6, <1>7, IdleIsARequest, WaitingHold DEF RequestsHold
<1>9. tokens' \subseteq Token /\ SeenByNow' /\ IssuedWhileActive' /\ IssuedWithRoles'
  <2>1. tokens' = tokens \cup Mint(u, row.roles)
    BY <1>5 DEF Issue
  <2>2. row.roles \in SUBSET Role
    BY <1>4 DEF Account
  <2>3. row.active \/ off'[u] = now
    <3>1. off[u] \in Nat /\ off'[u] \in Nat /\ now \in Nat /\ off[u] <= off'[u] /\ off'[u] <= now
      BY <1>1, <1>2, <1>5, WitnessForward DEF Typed
    <3> QED BY <1>1, <1>4, <3>1
  <2>4. \A t \in Mint(u, row.roles) :
          t \in Token /\ t.sub = u /\ t.iat = now /\ t.roles \subseteq row.roles
    BY <1>1, <1>2, <2>2, MintedTokens DEF Typed
  <2>5. \A t \in Mint(u, row.roles) :
          /\ t \in Token /\ t.iat = now
          /\ users'[t.sub].active \/ off'[t.sub] = now
          /\ t.roles \subseteq users'[t.sub].roles
    BY <1>7, <2>3, <2>4
  <2> QED BY <1>5, <2>1, <2>5, TokensCovered
<1>10. issued' \in 0..MaxIssued
  BY <1>2, <1>5, AccessConstants DEF Typed, Issue
<1>11. Typed'
  BY <1>2, <1>5, <1>6, <1>7, <1>9, <1>10, WitnessForward DEF Typed
<1> QED BY <1>7, <1>8, <1>9, <1>11 DEF Inductive

\* POST /auth/refresh, which asks for the user again.
LEMMA RefreshKeeps ==
    ASSUME Inductive, Refresh PROVE Inductive'
<1>1. PICK old \in tokens : users[old.sub].active /\ Issue(old.sub, users[old.sub].roles)
  BY DEF Refresh
<1> DEFINE u == old.sub
           minted == Mint(u, users[u].roles)
<1>2. UNCHANGED <<backend, now, users, byEmail, roles, req, admin, off, without>>
  BY DEF Refresh
<1>3. u \in User /\ users[u] \in Known /\ now \in Nat /\ tokens \subseteq Token
  BY DEF Inductive, Typed, Token
<1>4. users[u].roles \in SUBSET Role
  BY <1>3, NoUserIsNoAccount DEF Known, Account
<1>5. \A t \in minted : t \in Token /\ t.sub = u /\ t.iat = now /\ t.roles \subseteq users[u].roles
  BY <1>3, <1>4, MintedTokens
<1>6. tokens' = tokens \cup minted /\ issued' \in 0..MaxIssued
  BY <1>1, AccessConstants DEF Issue, Inductive, Typed
<1> HIDE DEF minted
<1>7. Typed'
  BY <1>2, <1>3, <1>5, <1>6 DEF Inductive, Typed
<1>8. SeenByNow'
  BY <1>2, <1>3, <1>5, <1>6 DEF Inductive, SeenByNow
<1>9. IssuedWhileActive'
  BY <1>1, <1>2, <1>5, <1>6 DEF Inductive, IssuedWhileActive
<1>10. IssuedWithRoles'
  BY <1>2, <1>5, <1>6 DEF Inductive, IssuedWithRoles
<1>11. RequestsHold' /\ AddressesAgree'
  BY <1>2 DEF Inductive, RequestsHold, AddressesAgree
<1> QED BY <1>7, <1>8, <1>9, <1>10, <1>11 DEF Inductive

\* The administrator deactivates or reactivates a user or assigns roles.
LEMMA ChangeUserKeeps ==
    ASSUME Inductive, ChangeUser PROVE Inductive'
<1>1. PICK u \in User :
        /\ users[u] # NoUser
        /\ \/ users' = [users EXCEPT ![u].active = ~@]
           \/ \E codes \in SUBSET Role : users' = [users EXCEPT ![u].roles = codes]
  BY DEF ChangeUser
<1>2. /\ Witness /\ admin < MaxAdmin /\ admin' = admin + 1
      /\ UNCHANGED <<backend, now, byEmail, roles, tokens, issued, req>>
  BY DEF ChangeUser
<1>3. Typed /\ SeenByNow /\ RequestsHold /\ AddressesAgree
  BY DEF Inductive
<1>4. users[u] \in Account
  BY <1>1, <1>3 DEF Typed, Known
<1>5. PICK row \in Account : row.email = users[u].email /\ users' = [users EXCEPT ![u] = row]
  <2>1. CASE users' = [users EXCEPT ![u].active = ~@]
    <3>1. users' = [users EXCEPT ![u] = [users[u] EXCEPT !.active = ~@]]
      BY <2>1
    <3> QED BY <1>4, <3>1, ChangedAccount
  <2>2. ASSUME NEW codes \in SUBSET Role, users' = [users EXCEPT ![u].roles = codes]
        PROVE  \E row \in Account :
                 row.email = users[u].email /\ users' = [users EXCEPT ![u] = row]
    <3>1. users' = [users EXCEPT ![u] = [users[u] EXCEPT !.roles = codes]]
      BY <2>2
    <3> QED BY <1>4, <3>1, ChangedAccount
  <2> QED BY <1>1, <2>1, <2>2
<1>6. /\ users' \in [User -> Known]
      /\ \A v \in User : users[v] # NoUser => users'[v] # NoUser
      /\ AddressesAgree'
  BY <1>1, <1>2, <1>3, <1>5, RewriteKeepsAddresses
<1>7. RequestsHold'
  BY <1>2, <1>3, <1>6, WaitingHold DEF RequestsHold
<1>8. tokens' \subseteq Token /\ SeenByNow' /\ IssuedWhileActive' /\ IssuedWithRoles'
  BY <1>2, TokensCovered
<1>9. Typed'
  BY <1>2, <1>3, <1>6, <1>8, WitnessForward, AccessConstants DEF Typed
<1> QED BY <1>6, <1>7, <1>8, <1>9 DEF Inductive

\* RoleRepository.save: no token stores a permission.
LEMMA ChangeRoleKeeps ==
    ASSUME Inductive, ChangeRole PROVE Inductive'
<1>1. Typed'
  BY AccessConstants DEF Inductive, Typed, ChangeRole
<1>2. SeenByNow' /\ RequestsHold' /\ IssuedWhileActive' /\ IssuedWithRoles' /\ AddressesAgree'
  BY DEF ChangeRole, Inductive, SeenByNow, RequestsHold, IssuedWhileActive, IssuedWithRoles,
         AddressesAgree
<1> QED BY <1>1, <1>2 DEF Inductive

\* A minute passes between requests.
LEMMA TickKeeps ==
    ASSUME Inductive, Tick PROVE Inductive'
<1>1. /\ now < MaxTime /\ now' = now + 1 /\ Witness
      /\ \A h \in Handler : req[h] = Idle
      /\ UNCHANGED <<backend, users, byEmail, roles, tokens, issued, req, admin>>
  BY DEF Tick
<1>2. Typed /\ SeenByNow /\ now \in Nat
  BY DEF Inductive, Typed
<1>3. Typed'
  BY <1>1, <1>2, WitnessForward, AccessConstants DEF Typed
<1>4. SeenByNow'
  <2>1. \A t \in tokens : t.iat \in Nat /\ t.iat <= now
    BY <1>2 DEF Typed, Token, SeenByNow
  <2>2. \A u \in User : off'[u] \in Nat /\ off'[u] <= now
    BY <1>1, <1>2, WitnessForward
  <2>3. \A u \in User, r \in Role : without'[u][r] \in Nat /\ without'[u][r] <= now
    BY <1>1, <1>2, WitnessForward
  <2> QED BY <1>1, <1>2, <2>1, <2>2, <2>3 DEF SeenByNow
<1>5. RequestsHold'
  BY <1>1, IdleIsARequest DEF RequestsHold
<1>6. IssuedWhileActive' /\ IssuedWithRoles'
  BY <1>1, HistoriesCover DEF Inductive, IssuedWhileActive, IssuedWithRoles
<1>7. AddressesAgree'
  BY <1>1 DEF Inductive, AddressesAgree
<1> QED BY <1>3, <1>4, <1>5, <1>6, <1>7 DEF Inductive
-----------------------------------------------------------------------------
(***************************************************************************)
(* The invariant holds, and gives the properties.                          *)
(***************************************************************************)

\* Before the first registration there is nothing to break.
LEMMA InitInductive == Init => Inductive
<1> SUFFICES ASSUME Init PROVE Inductive
  OBVIOUS
<1>1. Typed
  BY AccessConstants, IdleIsARequest, NoUserIsNoAccount DEF Init, Typed
<1>2. SeenByNow /\ IssuedWhileActive /\ IssuedWithRoles
  BY DEF Init, SeenByNow, IssuedWhileActive, IssuedWithRoles
<1>3. RequestsHold
  BY IdleIsARequest DEF Init, RequestsHold
<1>4. AddressesAgree
  BY DEF Init, AddressesAgree
<1> QED BY <1>1, <1>2, <1>3, <1>4 DEF Inductive

\* Every step keeps it.
LEMMA NextKeeps == Inductive /\ [Next]_vars => Inductive'
<1> SUFFICES ASSUME Inductive, [Next]_vars PROVE Inductive'
  OBVIOUS
<1>1. ASSUME NEW h \in Handler, RegisterCheck(h) PROVE Inductive'
  BY <1>1, RegisterCheckKeeps
<1>2. ASSUME NEW h \in Handler, RegisterSave(h) PROVE Inductive'
  BY <1>2, RegisterSaveKeeps
<1>3. ASSUME NEW h \in Handler, LoginRead(h) PROVE Inductive'
  BY <1>3, LoginReadKeeps
<1>4. ASSUME NEW h \in Handler, LoginLoad(h) PROVE Inductive'
  BY <1>4, LoginLoadKeeps
<1>5. ASSUME NEW h \in Handler, LoginSave(h) PROVE Inductive'
  BY <1>5, LoginSaveKeeps
<1>6. CASE Refresh
  BY <1>6, RefreshKeeps
<1>7. CASE ChangeUser
  BY <1>7, ChangeUserKeeps
<1>8. CASE ChangeRole
  BY <1>8, ChangeRoleKeeps
<1>9. CASE Tick
  BY <1>9, TickKeeps
<1>10. CASE UNCHANGED vars
  BY <1>10 DEF vars, Inductive, Typed, SeenByNow, RequestsHold, IssuedWhileActive,
               IssuedWithRoles, AddressesAgree
<1> QED BY <1>1, <1>2, <1>3, <1>4, <1>5, <1>6, <1>7, <1>8, <1>9, <1>10 DEF Next

\* The inductive invariant holds in every reachable state.
LEMMA InductiveAlways == Spec => []Inductive
BY InitInductive, NextKeeps, PTL DEF Spec

\* The stores, the tokens and the requests under way always have their types.
THEOREM TypeCorrect == Spec => []TypeOK
<1>1. Inductive => TypeOK
  <2> SUFFICES ASSUME Inductive PROVE TypeOK
    OBVIOUS
  <2>1. /\ backend \in Backends /\ now \in 0..MaxTime
        /\ byEmail \in [Email -> User \cup {Nobody}] /\ roles \in [Role -> SUBSET Permission]
        /\ issued \in 0..MaxIssued /\ admin \in 0..MaxAdmin
    BY AccessConstants DEF Inductive, Typed
  <2>2. \A u \in User : users[u] = NoUser \/ users[u] \in Account
    BY DEF Inductive, Typed, Known
  <2>3. \A t \in tokens : t.sub \in User /\ t.roles \subseteq Role /\ t.iat \in 0..now
    BY DEF Inductive, Typed, SeenByNow, Token
  <2>4. \A h \in Handler : req[h].pc \in {"idle", "insert", "load", "save"}
    BY DEF Inductive, Typed, Request
  <2> QED BY <2>1, <2>2, <2>3, <2>4 DEF TypeOK, Account
<1> QED BY <1>1, InductiveAlways, PTL

\* A deactivated user holds no token that works for longer than an access
\* token lives, through any mix of logins, refreshes and changes of users.
THEOREM DeactivationTakesEffect == Spec => []DeactivatedIsOut
<1>1. Inductive => DeactivatedIsOut
  <2> SUFFICES ASSUME Inductive, NEW t \in tokens, Live(t, "access"), ~users[t.sub].active
               PROVE  now < off[t.sub] + AccessTtl
    BY DEF DeactivatedIsOut, Permitted
  <2>1. t.sub \in User /\ t.iat \in Nat /\ off[t.sub] \in Nat /\ now \in Nat
    BY DEF Inductive, Typed, Token
  <2>2. t.iat <= off[t.sub]
    BY DEF Inductive, IssuedWhileActive
  <2>3. now < t.iat + AccessTtl
    BY DEF Live
  <2> QED BY <2>1, <2>2, <2>3, AccessConstants
<1> QED BY <1>1, InductiveAlways, PTL

\* require_permission grants for a role that has the permission now and that
\* the user has, or had within the life of an access token.
THEOREM GrantsAreFresh == Spec => []GrantIsFresh
<1>1. Inductive => GrantIsFresh
  <2> SUFFICES ASSUME Inductive, NEW t \in tokens, NEW p \in Permission, Permitted(t, p)
               PROVE  \E r \in t.roles :
                        /\ p \in roles[r]
                        /\ r \in users[t.sub].roles \/ now < without[t.sub][r] + AccessTtl
    BY DEF GrantIsFresh
  <2>1. PICK r \in t.roles : p \in roles[r]
    BY DEF Permitted, Resolved
  <2>2. t.sub \in User /\ t.iat \in Nat /\ r \in Role /\ now \in Nat
    BY DEF Inductive, Typed, Token
  <2>3. without[t.sub][r] \in Nat
    BY <2>2 DEF Inductive, Typed
  <2>4. r \in users[t.sub].roles \/ t.iat <= without[t.sub][r]
    BY DEF Inductive, IssuedWithRoles
  <2>5. now < t.iat + AccessTtl
    BY DEF Permitted, Live
  <2>6. r \in users[t.sub].roles \/ now < without[t.sub][r] + AccessTtl
    BY <2>2, <2>3, <2>4, <2>5, AccessConstants
  <2> QED BY <2>1, <2>6
<1> QED BY <1>1, InductiveAlways, PTL

\* However registrations of one address interleave, get_by_email finds the
\* user registered with it, and in PostgreSQL there is one.
THEOREM AddressesFindTheirUser == Spec => []EmailFindsItsUser
<1>1. Inductive => EmailFindsItsUser
  <2> SUFFICES ASSUME Inductive PROVE EmailFindsItsUser
    OBVIOUS
  <2>1. backend = "postgres" =>
          \A u, v \in User : users[u] # NoUser /\ users[u].email = users[v].email => u = v
    BY DEF Inductive, AddressesAgree
  <2>2. ASSUME NEW e \in Email
        PROVE  IF GetByEmail(e) = Nobody THEN \A v \in User : users[v].email # e
               ELSE users[GetByEmail(e)].email = e
    <3>1. CASE backend = "memory"
      <4>1. GetByEmail(e) = byEmail[e]
        BY <3>1 DEF GetByEmail
      <4>2. \A v \in User : users[v].email = e => users[v] # NoUser
        BY AccessConstants
      <4> QED BY <4>1, <4>2 DEF Inductive, AddressesAgree
    <3>2. CASE backend # "memory"
      <4>1. CASE \E u \in User : users[u].email = e
        <5>1. GetByEmail(e) \in User /\ users[GetByEmail(e)].email = e
          BY <3>2, <4>1 DEF GetByEmail
        <5> QED BY <5>1, AccessConstants
      <4>2. CASE ~\E u \in User : users[u].email = e
        BY <3>2, <4>2 DEF GetByEmail
      <4> QED BY <4>1, <4>2
    <3> QED BY <3>1, <3>2
  <2> QED BY <2>1, <2>2 DEF EmailFindsItsUser
<1> QED BY <1>1, InductiveAlways, PTL
=============================================================================
