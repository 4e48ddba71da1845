------------------------- MODULE CredentialsProofs -------------------------
(***************************************************************************)
(* Credentials for every set of users, processes, requests, tokens, codes  *)
(* and settings.  A version read under a check and found again in the      *)
(* write stands for everything the check saw, because whatever changes     *)
(* credentials counts the version up (RequestsRemember).                   *)
(***************************************************************************)
EXTENDS Credentials, FiniteSetTheorems, TLAPS

(* The first states are of the right types and hold no session.            *)
LEMMA InitHolds == Init => CredentialsInv
<1> SUFFICES ASSUME Init PROVE CredentialsInv
    OBVIOUS
<1> USE OwnerAssumption, ConfigAssumption, PasswordAssumption, ProcessAssumption
<1>1. FreshSession \in Session
    BY DEF FreshSession, Session, Life, Secrets, Keys
<1>2. FreshCode \in Code
    BY DEF FreshCode, Code, Life
<1>3. NoRequest \in Request
    BY DEF NoRequest, Request, Secrets
<1>4. user \in [Users -> User]
    BY DEF Init, User, Secrets, Keys
<1>5. TypeOK
    BY <1>1, <1>2, <1>3, <1>4 DEF Init, TypeOK, Keys, NoRequest
<1>6. SessionsAreCurrent
    BY DEF Init, SessionsAreCurrent, Live, FreshSession
<1>7. RequestsRemember
    BY DEF Init, RequestsRemember, NoRequest
<1> QED
    BY <1>5, <1>6, <1>7 DEF CredentialsInv

(* What ending sessions, and spending codes, does to a table.              *)
LEMMA WithoutFacts ==
  ASSUME TypeOK, NEW T
  PROVE  /\ Without(T) \in [Tokens -> Session]
         /\ \A t \in Tokens :
              \/ Without(T)[t] = session[t] /\ ~(Live(t) /\ t \in T)
              \/ Live(t) /\ t \in T /\ Without(T)[t] = Gone(t)
<1>1. ASSUME NEW t \in Tokens
      PROVE  session[t] \in Session /\ Gone(t) \in Session
    BY DEF TypeOK, Gone, Session, Life
<1> QED
    BY <1>1 DEF Without

LEMMA WithoutCodesType ==
  ASSUME TypeOK, NEW C
  PROVE  WithoutCodes(C) \in [Codes -> Code]
<1>1. ASSUME NEW c \in Codes
      PROVE  code[c] \in Code /\ Spent(c) \in Code
    BY DEF TypeOK, Spent, Code, Life
<1> QED
    BY <1>1 DEF WithoutCodes

LEMMA ChangedType ==
  ASSUME TypeOK, NEW u \in Users, NEW password \in Secrets, NEW active \in BOOLEAN, NEW key \in Keys
  PROVE  Changed(u, password, active, key) \in User
<1>1. user[u].version \in Nat
    BY DEF TypeOK, User
<1> QED
    BY <1>1 DEF Changed, User

LEMMA NoRequestType == NoRequest \in Request
    BY OwnerAssumption, PasswordAssumption, ProcessAssumption DEF NoRequest, Request, Secrets

LEMMA EndingType ==
  ASSUME TypeOK, NEW q \in Requests, Ending(q)
  PROVE  /\ request' \in [Requests -> Request]
         /\ \A o \in Requests : request'[o].op = "reset" => request'[o].code \in Codes
    BY NoRequestType DEF TypeOK, Ending, NoRequest

-----------------------------------------------------------------------------
(* The shape of steps.  A quiet step changes no credentials and makes no   *)
(* session; a renewal changes the credentials of users U, counting their   *)
(* versions up, and leaves none of their sessions.                         *)

Same(t) ==
  /\ session[t].state = "live"
  /\ session'[t].user = session[t].user /\ session'[t].version = session[t].version
  /\ session'[t].key = session[t].key /\ session'[t].proved = session[t].proved
NoNewSession == \A t \in Tokens : session'[t].state = "live" => Same(t)

Renewed(U) ==
  /\ user' \in [Users -> User]
  /\ \A u \in Users \ U : user'[u] = user[u]
  /\ \A u \in U : user'[u].version = user[u].version + 1
  /\ \A t \in Tokens : session'[t].state = "live" => session[t].user \notin U

(* Sessions that stay are current after a renewal, of no user perhaps.     *)
LEMMA StayCurrent ==
  ASSUME TypeOK, SessionsAreCurrent, NEW U \in SUBSET Users, Renewed(U), NoNewSession
  PROVE  SessionsAreCurrent'
<1> SUFFICES ASSUME NEW t \in Tokens, session'[t].state = "live"
             PROVE  Current(t)'
    BY DEF SessionsAreCurrent, Live
<1>1. Same(t) /\ session[t].user \in Users
    BY DEF NoNewSession, TypeOK, Session
<1>2. Current(t)
    BY <1>1 DEF SessionsAreCurrent, Live, Same
<1>3. user'[session[t].user] = user[session[t].user]
    BY <1>1 DEF Renewed
<1> QED
    BY <1>1, <1>2, <1>3 DEF Current, Same

(* A request that stays as it was still remembers.                         *)
LEMMA StillRemembers ==
  ASSUME TypeOK, NEW U \in SUBSET Users, Renewed(U), NEW q \in Requests, Remembers(request[q]),
         request'[q] = request[q],
         \A p \in Processes : request[q].process = p => config'[p] = config[p]
  PROVE  Remembers(request[q])'
<1> DEFINE r == request[q]
<1>1. r \in Request /\ r.user \in Users /\ r.process \in Processes /\ r.version \in Nat
    BY DEF TypeOK, Request
<1>2. user[r.user].version \in Nat
    BY <1>1 DEF TypeOK, User
<1>3. CASE r.user \in U
  <2>1. user'[r.user].version = user[r.user].version + 1
      BY <1>3 DEF Renewed
  <2>2. r.version <= user[r.user].version
      BY DEF Remembers
  <2>3. r.version <= user'[r.user].version /\ r.version # user'[r.user].version
      BY <1>1, <1>2, <2>1, <2>2
  <2> QED
      BY <2>3 DEF Remembers
<1>4. CASE r.user \notin U
  <2>1. user'[r.user] = user[r.user] /\ config'[r.process] = config[r.process]
      BY <1>1, <1>4 DEF Renewed
  <2>2. r.user = Owner => user'[Owner] = user[Owner]
      BY <2>1
  <2> QED
      BY <2>1, <2>2 DEF Remembers
<1> QED
    BY <1>3, <1>4

(* So if no request is at a write that was not there before, all remember. *)
LEMMA StillRemember ==
  ASSUME TypeOK, RequestsRemember, NEW U \in SUBSET Users, Renewed(U),
         \A q \in Requests :
           \/ request'[q].op \notin {"login", "change"}
           \/ /\ request'[q] = request[q]
              /\ \A p \in Processes : request[q].process = p => config'[p] = config[p]
  PROVE  RequestsRemember'
<1> SUFFICES ASSUME NEW q \in Requests, request'[q].op \in {"login", "change"}
             PROVE  Remembers(request[q])'
    BY DEF RequestsRemember
<1>1. /\ request'[q] = request[q]
      /\ \A p \in Processes : request[q].process = p => config'[p] = config[p]
    OBVIOUS
<1>2. Remembers(request[q])
    BY <1>1 DEF RequestsRemember
<1> QED
    BY <1>1, <1>2, StillRemembers

(* Steps that leave credentials alone renew those of nobody.               *)
LEMMA NobodyRenewed ==
  ASSUME TypeOK, UNCHANGED user
  PROVE  Renewed({})
    BY DEF Renewed, TypeOK

LEMMA SessionsUntouched ==
  ASSUME UNCHANGED session
  PROVE  NoNewSession
    BY DEF NoNewSession, Same

(* Ending sessions makes none.                                             *)
LEMMA WithoutEnds ==
  ASSUME TypeOK, NEW T, session' = Without(T)
  PROVE  /\ session' \in [Tokens -> Session]
         /\ NoNewSession
         /\ \A t \in Tokens : session'[t].state = "live" => Live(t) /\ t \notin T
<1>1. session' \in [Tokens -> Session]
    BY WithoutFacts
<1>2. ASSUME NEW t \in Tokens, session'[t].state = "live"
      PROVE  session'[t] = session[t] /\ Live(t) /\ t \notin T
  <2>1. session[t] \in Session
      BY DEF TypeOK
  <2>2. Gone(t).state = "ended"
      BY <2>1 DEF Gone, Session
  <2>3. session'[t] = session[t] /\ ~(Live(t) /\ t \in T)
      BY <1>2, <2>2, WithoutFacts
  <2> QED
      BY <1>2, <2>3 DEF Live
<1>3. NoNewSession
    BY <1>2 DEF NoNewSession, Same, Live
<1> QED
    BY <1>1, <1>2, <1>3

(* A request that ends leaves the others as they are.                      *)
LEMMA EndingOthers ==
  ASSUME TypeOK, NEW q \in Requests, Ending(q)
  PROVE  \A o \in Requests : request'[o].op = "none" \/ request'[o] = request[o]
    BY DEF TypeOK, Ending, NoRequest

-----------------------------------------------------------------------------
(* A step of a request that writes no credentials.                         *)

QuietTables == UNCHANGED <<now, config, user, code>>

LEMMA EndingKeeps ==
  ASSUME CredentialsInv, NEW q \in Requests, Ending(q), QuietTables,
         session' \in [Tokens -> Session], NoNewSession
  PROVE  CredentialsInv'
<1> TypeOK /\ SessionsAreCurrent /\ RequestsRemember
    BY DEF CredentialsInv
<1>1. Renewed({})
    BY NobodyRenewed DEF QuietTables
<1>2. TypeOK'
    BY EndingType DEF TypeOK, QuietTables
<1>3. RequestsRemember'
    BY <1>1, EndingOthers, StillRemember DEF QuietTables
<1>4. SessionsAreCurrent'
    BY <1>1, StayCurrent
<1> QED
    BY <1>2, <1>3, <1>4 DEF CredentialsInv

(* One request goes on, and where it is about to write it remembers.       *)
LEMMA GoingOnKeeps ==
  ASSUME CredentialsInv, NEW q \in Requests, NEW r \in Request,
         request' = [request EXCEPT ![q] = r],
         r.op \in {"login", "change"} => Remembers(r), r.op = "reset" => r.code \in Codes,
         QuietTables, session' \in [Tokens -> Session], NoNewSession
  PROVE  CredentialsInv'
<1> TypeOK /\ SessionsAreCurrent /\ RequestsRemember
    BY DEF CredentialsInv
<1>1. Renewed({})
    BY NobodyRenewed DEF QuietTables
<1>2. TypeOK'
    BY DEF TypeOK, QuietTables
<1>3. SessionsAreCurrent'
    BY <1>1, StayCurrent
<1>4. ASSUME NEW o \in Requests, request'[o].op \in {"login", "change"}
      PROVE  Remembers(request[o])'
  <2>1. CASE o = q
    <3>1. request'[o] = r
        BY <2>1 DEF TypeOK
    <3>2. Remembers(r)
        BY <1>4, <3>1
    <3> QED
        BY <3>1, <3>2 DEF Remembers, QuietTables
  <2>2. CASE o # q
    <3>1. request'[o] = request[o]
        BY <2>2 DEF TypeOK
    <3>2. Remembers(request[o])
        BY <1>4, <3>1 DEF RequestsRemember
    <3> QED
        BY <3>1, <3>2 DEF Remembers, QuietTables
  <2> QED
      BY <2>1, <2>2
<1>5. RequestsRemember'
    BY <1>4 DEF RequestsRemember
<1> QED
    BY <1>2, <1>3, <1>5 DEF CredentialsInv

LEMMA CheckLoginKeeps ==
  ASSUME CredentialsInv, NEW q \in Requests, NEW p \in Processes, NEW u \in Users,
         NEW typed \in Passwords, NEW previous \in Tokens \cup {NoToken},
         CheckLogin(q, p, u, typed, previous)
  PROVE  CredentialsInv'
<1> DEFINE r == [NoRequest EXCEPT !.op = "login", !.process = p, !.user = u, !.proved = typed,
                         !.version = user[u].version, !.token = previous, !.at = now]
<1> TypeOK
    BY DEF CredentialsInv
<1>1. user[u].version \in Nat /\ now \in Nat
    BY DEF TypeOK, User
<1>2. r \in Request
    BY <1>1, NoRequestType DEF Request, Secrets
<1>3. /\ r.user = u /\ r.proved = typed /\ r.version = user[u].version /\ r.process = p
      /\ r.op = "login"
    BY NoRequestType DEF Request
<1>4. user[u].active /\ user[u].password = typed /\ (u = Owner => config[p] = user[Owner].key)
    BY DEF CheckLogin
<1>5. Remembers(r)
  <2> HIDE DEF r
  <2> QED
      BY <1>1, <1>3, <1>4 DEF Remembers
<1>6. request' = [request EXCEPT ![q] = r] /\ QuietTables /\ UNCHANGED session
    BY DEF CheckLogin, QuietTables
<1>7. session' \in [Tokens -> Session] /\ NoNewSession
    BY <1>6, SessionsUntouched DEF TypeOK
<1> HIDE DEF r
<1> QED
    BY <1>2, <1>3, <1>5, <1>6, <1>7, GoingOnKeeps

LEMMA AdmitKeeps ==
  ASSUME CredentialsInv, NEW q \in Requests, NEW p \in Processes, NEW t \in Tokens, Admit(q, p, t)
  PROVE  CredentialsInv'
<1> DEFINE r == [NoRequest EXCEPT !.op = IF TouchDue(t, now) THEN "touch" ELSE "admitted",
                         !.process = p, !.user = session[t].user, !.token = t, !.at = now]
<1> TypeOK
    BY DEF CredentialsInv
<1>1. session[t].user \in Users /\ now \in Nat
    BY DEF TypeOK, Session
<1>2. r \in Request /\ r.op \in {"touch", "admitted"}
    BY <1>1, NoRequestType DEF Request
<1>3. request' = [request EXCEPT ![q] = r] /\ QuietTables /\ UNCHANGED session
    BY DEF Admit, QuietTables
<1>4. session' \in [Tokens -> Session] /\ NoNewSession
    BY <1>3, SessionsUntouched DEF TypeOK
<1> HIDE DEF r
<1> QED
    BY <1>2, <1>3, <1>4, GoingOnKeeps

LEMMA TouchesKeep ==
  ASSUME CredentialsInv, NEW q \in Requests, Touch(q) \/ TouchBusy(q)
  PROVE  CredentialsInv'
<1> DEFINE r == [request[q] EXCEPT !.op = "admitted"]
<1> TypeOK
    BY DEF CredentialsInv
<1>1. request[q] \in Request
    BY DEF TypeOK
<1>2. r \in Request /\ r.op = "admitted"
    BY <1>1 DEF Request
<1>3. request' = [request EXCEPT ![q] = r] /\ QuietTables
    BY DEF Touch, TouchBusy, QuietTables
<1>4. session' \in [Tokens -> Session] /\ NoNewSession
  <2>1. CASE UNCHANGED session
      BY <2>1, SessionsUntouched DEF TypeOK
  <2>2. CASE ~UNCHANGED session
    <3> DEFINE k == request[q].token
               at == request[q].at
    <3>1. session' = [session EXCEPT ![k].seen = at] /\ at \in Nat
        BY <1>1, <2>2 DEF Touch, TouchBusy, Request
    <3> HIDE DEF at, k
    <3>2. ASSUME NEW t \in Tokens
          PROVE  /\ session'[t] \in Session
                 /\ session'[t].state = "live" => Same(t)
      <4>1. session[t] \in Session
          BY DEF TypeOK
      <4>2. session'[t] = session[t] \/ session'[t] = [session[t] EXCEPT !.seen = at]
          BY <3>1 DEF TypeOK
      <4> QED
          BY <3>1, <4>1, <4>2 DEF Same, Session
    <3>3. session' = [t \in Tokens |-> session'[t]]
        BY <3>1 DEF TypeOK
    <3> QED
        BY <3>2, <3>3 DEF NoNewSession
  <2> QED
      BY <2>1, <2>2
<1> HIDE DEF r
<1> QED
    BY <1>2, <1>3, <1>4, GoingOnKeeps

LEMMA CheckChangeKeeps ==
  ASSUME CredentialsInv, NEW q \in Requests, NEW typed \in Passwords, CheckChange(q, typed)
  PROVE  CredentialsInv'
<1> DEFINE u == request[q].user
           r == [request[q] EXCEPT !.op = "change", !.proved = typed, !.version = user[u].version]
<1> TypeOK
    BY DEF CredentialsInv
<1>1. request[q] \in Request /\ u \in Users
    BY DEF TypeOK, Request
<1>2. user[u].version \in Nat
    BY <1>1 DEF TypeOK, User
<1>3. r \in Request
    BY <1>1, <1>2 DEF Request, Secrets
<1>4. r.user = u /\ r.proved = typed /\ r.version = user[u].version /\ r.op = "change"
    BY <1>1 DEF Request
<1>5. user[u].active /\ user[u].password = typed
    BY DEF CheckChange
<1>6. request' = [request EXCEPT ![q] = r] /\ QuietTables /\ UNCHANGED session
    BY DEF CheckChange, QuietTables
<1>7. session' \in [Tokens -> Session] /\ NoNewSession
    BY <1>6, SessionsUntouched DEF TypeOK
<1> HIDE DEF r, u
<1>8. Remembers(r)
    BY <1>2, <1>4, <1>5 DEF Remembers
<1> QED
    BY <1>3, <1>4, <1>6, <1>7, <1>8, GoingOnKeeps

LEMMA CheckResetKeeps ==
  ASSUME CredentialsInv, NEW q \in Requests, NEW p \in Processes, NEW c \in Codes, CheckReset(q, p, c)
  PROVE  CredentialsInv'
<1> DEFINE r == [NoRequest EXCEPT !.op = "reset", !.process = p, !.code = c]
<1> TypeOK
    BY DEF CredentialsInv
<1>1. r \in Request /\ r.op = "reset" /\ r.code = c
    BY NoRequestType DEF Request
<1>2. request' = [request EXCEPT ![q] = r] /\ QuietTables /\ UNCHANGED session
    BY DEF CheckReset, QuietTables
<1>3. session' \in [Tokens -> Session] /\ NoNewSession
    BY <1>2, SessionsUntouched DEF TypeOK
<1> HIDE DEF r
<1> QED
    BY <1>1, <1>2, <1>3, GoingOnKeeps

(* Ending sessions, or only the request.                                   *)
LEMMA EndingSessionsKeeps ==
  ASSUME CredentialsInv, NEW q \in Requests,
         \/ RefuseLogin(q) \/ Answer(q) \/ Logout(q) \/ RevokeOthers(q)
         \/ \E t \in Tokens : Revoke(q, t)
  PROVE  CredentialsInv'
<1> TypeOK
    BY DEF CredentialsInv
<1>1. Ending(q) /\ QuietTables
    BY DEF RefuseLogin, Answer, Logout, RevokeOthers, Revoke, QuietTables
<1>2. UNCHANGED session \/ \E T \in SUBSET Tokens : session' = Without(T)
  <2>1. CASE RefuseLogin(q) \/ Answer(q)
      BY <2>1 DEF RefuseLogin, Answer
  <2>2. CASE Logout(q)
    <3>1. session' = Without({request[q].token} \cap Tokens)
        BY <2>2 DEF Logout, Without
    <3> QED
        BY <3>1
  <2>3. CASE RevokeOthers(q)
    <3>1. SessionsOf(request[q].user) \ {request[q].token} \in SUBSET Tokens
        BY DEF SessionsOf
    <3> QED
        BY <2>3, <3>1 DEF RevokeOthers
  <2>4. ASSUME NEW t \in Tokens, Revoke(q, t) PROVE \E T \in SUBSET Tokens : session' = Without(T)
    <3>1. SessionsOf(request[q].user) \cap {t} \in SUBSET Tokens
        OBVIOUS
    <3> QED
        BY <2>4, <3>1 DEF Revoke
  <2> QED
      BY <2>1, <2>2, <2>3, <2>4
<1>3. session' \in [Tokens -> Session] /\ NoNewSession
    BY <1>2, WithoutEnds, SessionsUntouched DEF TypeOK
<1> QED
    BY <1>1, <1>3, EndingKeeps

(* The session a login writes is current, because the check it rests on    *)
(* still holds: the version has not moved, and requests remember.          *)
LEMMA WriteLoginSession ==
  ASSUME CredentialsInv, NEW q \in Requests, NEW t \in Tokens, NEW at \in 0..now,
         NEW K \in SUBSET Tokens, WriteLogin(q, t, at, K)
  PROVE  /\ session' \in [Tokens -> Session]
         /\ session[t].state = "fresh" /\ session'[t].state = "live"
         /\ session'[t].user = request[q].user /\ session'[t].proved = request[q].proved
         /\ Current(t)'
         /\ \A s \in Tokens \ {t} :
              session'[s] = session[s] \/ (Live(s) /\ session'[s] = Gone(s))
<1> DEFINE r == request[q]
           T == {s \in Tokens : StaleAt(s, at)} \cup (SessionsOf(r.user) \ K)
           new == [state |-> "live", user |-> r.user, version |-> r.version,
                   key |-> IF r.user = Owner THEN config[r.process] ELSE NoConfig,
                   proved |-> r.proved, expires |-> at + SessionTime, seen |-> at]
<1> TypeOK /\ RequestsRemember
    BY DEF CredentialsInv
<1>1. /\ r \in Request /\ r.user \in Users /\ r.version \in Nat /\ r.proved \in Secrets
      /\ r.process \in Processes /\ config[r.process] \in Keys
    BY DEF TypeOK, Request
<1>2. at \in Nat /\ at + SessionTime \in Nat
    BY TimeAssumption DEF TypeOK
<1>3. new \in Session
    BY <1>1, <1>2 DEF Session, Life, Keys
<1>4. /\ session' = [Without(T) EXCEPT ![t] = new]
      /\ r.op = "login" /\ Unchanged(r) /\ session[t] = FreshSession /\ UNCHANGED user
    BY DEF WriteLogin
<1>5. Remembers(r)
    BY <1>4 DEF RequestsRemember
<1>6. /\ new.state = "live" /\ new.user = r.user /\ new.version = r.version
      /\ new.proved = r.proved
      /\ new.key = IF r.user = Owner THEN config[r.process] ELSE NoConfig
    OBVIOUS
<1> HIDE DEF new, T, r
<1>7. session' \in [Tokens -> Session] /\ session'[t] = new
    BY <1>3, <1>4, WithoutFacts
<1>8. Current(t)'
    BY <1>1, <1>4, <1>5, <1>6, <1>7 DEF Current, Remembers, Unchanged
<1>9. \A s \in Tokens \ {t} : session'[s] = session[s] \/ (Live(s) /\ session'[s] = Gone(s))
    BY <1>4, WithoutFacts
<1>10. session'[t].user = request[q].user /\ session'[t].proved = request[q].proved
    BY <1>6, <1>7 DEF r
<1> QED
    BY <1>4, <1>6, <1>7, <1>8, <1>9, <1>10 DEF FreshSession

LEMMA WriteLoginKeeps ==
  ASSUME CredentialsInv, NEW q \in Requests, NEW t \in Tokens, NEW at \in 0..now,
         NEW K \in SUBSET Tokens, WriteLogin(q, t, at, K)
  PROVE  CredentialsInv'
<1> TypeOK /\ SessionsAreCurrent /\ RequestsRemember
    BY DEF CredentialsInv
<1>1. Ending(q) /\ QuietTables
    BY DEF WriteLogin, QuietTables
<1>2. TypeOK'
    BY <1>1, EndingType, WriteLoginSession DEF TypeOK, QuietTables
<1>3. RequestsRemember'
    BY <1>1, EndingOthers, NobodyRenewed, StillRemember DEF QuietTables
<1>4. ASSUME NEW s \in Tokens, session'[s].state = "live"
      PROVE  Current(s)'
  <2>1. CASE s = t
      BY <2>1, WriteLoginSession
  <2>2. CASE s # t
    <3>1. session[s] \in Session
        BY DEF TypeOK
    <3>2. Gone(s).state = "ended"
        BY <3>1 DEF Gone, Session
    <3>3. session'[s] = session[s]
        BY <1>4, <2>2, <3>2, WriteLoginSession
    <3>4. Current(s)
        BY <1>4, <3>3 DEF SessionsAreCurrent, Live
    <3> QED
        BY <1>1, <3>3, <3>4 DEF Current, QuietTables
  <2> QED
      BY <2>1, <2>2
<1>5. SessionsAreCurrent'
    BY <1>4 DEF SessionsAreCurrent, Live
<1> QED
    BY <1>2, <1>3, <1>5 DEF CredentialsInv

-----------------------------------------------------------------------------
(* Steps that renew credentials.                                           *)

(* What changes is one user, whose sessions end.                           *)
LEMMA OneRenewed ==
  ASSUME TypeOK, NEW u \in Users, NEW password \in Secrets, NEW active \in BOOLEAN, NEW key \in Keys,
         user' = [user EXCEPT ![u] = Changed(u, password, active, key)],
         session' = Without(SessionsOf(u))
  PROVE  /\ Renewed({u}) /\ NoNewSession /\ session' \in [Tokens -> Session]
         /\ user'[u].password = password /\ user'[u].active = active /\ user'[u].key = key
<1>1. Changed(u, password, active, key) \in User
    BY ChangedType
<1>2. /\ user' \in [Users -> User] /\ user'[u] = Changed(u, password, active, key)
      /\ \A o \in Users \ {u} : user'[o] = user[o]
    BY <1>1 DEF TypeOK
<1>3. user'[u].version = user[u].version + 1
    BY <1>2 DEF Changed
<1>4. /\ NoNewSession /\ session' \in [Tokens -> Session]
      /\ \A t \in Tokens : session'[t].state = "live" => Live(t) /\ t \notin SessionsOf(u)
    BY WithoutEnds
<1>5. \A t \in Tokens : session'[t].state = "live" => session[t].user # u
    BY <1>4 DEF SessionsOf
<1>6. Renewed({u})
    BY <1>2, <1>3, <1>5 DEF Renewed
<1> QED
    BY <1>2, <1>4, <1>6 DEF Changed

(* All of them together.                                                   *)
LEMMA AllRenewed ==
  ASSUME TypeOK, RevokeAll
  PROVE  /\ Renewed(Users) /\ NoNewSession /\ session' \in [Tokens -> Session]
         /\ \A u \in Users : user'[u].password = user[u].password
<1>1. ASSUME NEW u \in Users
      PROVE  /\ Changed(u, user[u].password, user[u].active, user[u].key) \in User
             /\ user'[u] = Changed(u, user[u].password, user[u].active, user[u].key)
  <2>1. user[u].password \in Secrets /\ user[u].active \in BOOLEAN /\ user[u].key \in Keys
      BY DEF TypeOK, User
  <2> QED
      BY <2>1, ChangedType DEF RevokeAll
<1>2. user' = [u \in Users |-> Changed(u, user[u].password, user[u].active, user[u].key)]
    BY DEF RevokeAll
<1>3. user' \in [Users -> User]
    BY <1>1, <1>2
<1>4. ASSUME NEW u \in Users
      PROVE  user'[u].version = user[u].version + 1 /\ user'[u].password = user[u].password
  <2>1. user'[u] = Changed(u, user[u].password, user[u].active, user[u].key)
      BY <1>1
  <2> QED
      BY <2>1 DEF Changed
<1>5. /\ NoNewSession /\ session' \in [Tokens -> Session]
      /\ \A t \in Tokens : session'[t].state # "live"
    BY WithoutEnds DEF RevokeAll
<1>6. Renewed(Users)
    BY <1>3, <1>4, <1>5 DEF Renewed
<1> QED
    BY <1>4, <1>5, <1>6

(* A renewal by a request that ends, or by the administrator.              *)
LEMMA RenewalKeeps ==
  ASSUME CredentialsInv, NEW U \in SUBSET Users, Renewed(U), NoNewSession,
         session' \in [Tokens -> Session], code' \in [Codes -> Code], UNCHANGED <<now, config>>,
         UNCHANGED request \/ \E q \in Requests : Ending(q)
  PROVE  CredentialsInv'
<1> TypeOK /\ SessionsAreCurrent /\ RequestsRemember
    BY DEF CredentialsInv
<1>1. /\ request' \in [Requests -> Request]
      /\ \A o \in Requests : request'[o].op = "reset" => request'[o].code \in Codes
      /\ \A o \in Requests : request'[o].op = "none" \/ request'[o] = request[o]
    BY EndingType, EndingOthers DEF TypeOK
<1>2. TypeOK'
    BY <1>1 DEF TypeOK, Renewed
<1>3. RequestsRemember'
    BY <1>1, StillRemember
<1>4. SessionsAreCurrent'
    BY StayCurrent
<1> QED
    BY <1>2, <1>3, <1>4 DEF CredentialsInv

(* What replacing a password does, in one step for both its callers.       *)
LEMMA ReplaceShape ==
  ASSUME TypeOK, NEW u \in Users, NEW new \in Passwords, Replace(u, new)
  PROVE  /\ Renewed({u}) /\ NoNewSession
         /\ session' \in [Tokens -> Session] /\ code' \in [Codes -> Code]
<1>1. new \in Secrets /\ user[u].active \in BOOLEAN /\ user[u].key \in Keys
    BY DEF TypeOK, User, Secrets
<1>2. /\ user' = [user EXCEPT ![u] = Changed(u, new, user[u].active, user[u].key)]
      /\ session' = Without(SessionsOf(u)) /\ code' = WithoutCodes(CodesOf(u))
    BY DEF Replace
<1>3. code' \in [Codes -> Code]
    BY <1>2, WithoutCodesType
<1> QED
    BY <1>1, <1>2, <1>3, OneRenewed

LEMMA QuietOrReplace ==
  ASSUME CredentialsInv, NEW q \in Requests, Ending(q), UNCHANGED <<now, config>>,
         \/ UNCHANGED <<user, session, code>>
         \/ \E u \in Users, new \in Passwords : Replace(u, new)
  PROVE  CredentialsInv'
<1> TypeOK
    BY DEF CredentialsInv
<1>1. CASE UNCHANGED <<user, session, code>>
  <2>1. Renewed({}) /\ NoNewSession
      BY <1>1, NobodyRenewed, SessionsUntouched
  <2> QED
      BY <1>1, <2>1, RenewalKeeps DEF TypeOK
<1>2. ASSUME NEW u \in Users, NEW new \in Passwords, Replace(u, new)
      PROVE  CredentialsInv'
    BY <1>2, ReplaceShape, RenewalKeeps
<1> QED
    BY <1>1, <1>2

LEMMA WriteChangeKeeps ==
  ASSUME CredentialsInv, NEW q \in Requests, NEW new \in Passwords, WriteChange(q, new)
  PROVE  CredentialsInv'
<1>1. request[q].user \in Users
    BY DEF CredentialsInv, TypeOK, Request
<1> QED
    BY <1>1, QuietOrReplace DEF WriteChange

LEMMA WriteResetKeeps ==
  ASSUME CredentialsInv, NEW q \in Requests, NEW new \in Passwords, WriteReset(q, new)
  PROVE  CredentialsInv'
<1>1. request[q].code \in Codes
    BY DEF WriteReset, CredentialsInv, TypeOK
<1>2. code[request[q].code].user \in Users
    BY <1>1 DEF CredentialsInv, TypeOK, Code
<1> QED
    BY <1>2, QuietOrReplace DEF WriteReset

LEMMA IssueCodeKeeps ==
  ASSUME CredentialsInv, NEW u \in Users, NEW c \in Codes, IssueCode(u, c)
  PROVE  CredentialsInv'
<1> TypeOK
    BY DEF CredentialsInv
<1> DEFINE new == [state |-> "live", user |-> u, expires |-> now + CodeTime]
<1>1. new \in Code
    BY TimeAssumption DEF TypeOK, Code, Life
<1>2. /\ code' = [WithoutCodes(Codes \ Others(u)) EXCEPT ![c] = new]
      /\ UNCHANGED <<now, config, user, session, request>>
    BY DEF IssueCode
<1> HIDE DEF new
<1>3. code' \in [Codes -> Code]
    BY <1>1, <1>2, WithoutCodesType
<1>4. Renewed({}) /\ NoNewSession
    BY <1>2, NobodyRenewed, SessionsUntouched
<1> QED
    BY <1>2, <1>3, <1>4, RenewalKeeps DEF TypeOK

LEMMA SetActiveShape ==
  ASSUME TypeOK, NEW u \in Users, NEW active \in BOOLEAN, SetActive(u, active)
  PROVE  /\ Renewed({u}) /\ NoNewSession /\ session' \in [Tokens -> Session]
         /\ user'[u].password = user[u].password
<1>1. user[u].password \in Secrets /\ user[u].key \in Keys
    BY DEF TypeOK, User
<1>2. /\ user' = [user EXCEPT ![u] = Changed(u, user[u].password, active, user[u].key)]
      /\ session' = Without(SessionsOf(u))
    BY DEF SetActive
<1> QED
    BY <1>1, <1>2, OneRenewed

LEMMA SetActiveKeeps ==
  ASSUME CredentialsInv, NEW u \in Users, NEW active \in BOOLEAN, SetActive(u, active)
  PROVE  CredentialsInv'
<1> TypeOK
    BY DEF CredentialsInv
<1>1. code' \in [Codes -> Code] /\ UNCHANGED <<now, config, request>>
    BY WithoutCodesType DEF SetActive
<1> QED
    BY <1>1, SetActiveShape, RenewalKeeps

LEMMA RevokeAllKeeps ==
  ASSUME CredentialsInv, RevokeAll
  PROVE  CredentialsInv'
<1> TypeOK
    BY DEF CredentialsInv
<1>1. code' \in [Codes -> Code] /\ UNCHANGED <<now, config, request>>
    BY WithoutCodesType DEF RevokeAll
<1> QED
    BY <1>1, AllRenewed, RenewalKeeps

(* New settings of the owner are a renewal; the same ones change nothing.  *)
Rekeyed(c) == Renewed({Owner}) /\ user'[Owner].key = c /\ user[Owner].key # c
LEMMA StartShape ==
  ASSUME TypeOK, NEW p \in Processes, NEW c \in Keys, Start(p, c)
  PROVE  /\ NoNewSession /\ session' \in [Tokens -> Session]
         /\ UNCHANGED <<user, session>> \/ Rekeyed(c)
<1>1. CASE UNCHANGED <<user, session>>
    BY <1>1, SessionsUntouched DEF TypeOK
<1>2. CASE ~UNCHANGED <<user, session>>
  <2>1. /\ c \in Configs /\ user[Owner].key # c
        /\ user' = [user EXCEPT ![Owner] = Changed(Owner, Configured[c], user[Owner].active, c)]
        /\ session' = Without(SessionsOf(Owner))
      BY <1>2 DEF Start, OwnerSessions, Keys
  <2>2. Configured[c] \in Secrets /\ user[Owner].active \in BOOLEAN
      BY <2>1, ConfigAssumption, OwnerAssumption DEF TypeOK, User, Secrets
  <2> QED
      BY <2>1, <2>2, OneRenewed, OwnerAssumption DEF Rekeyed
<1> QED
    BY <1>1, <1>2

LEMMA StartKeeps ==
  ASSUME CredentialsInv, NEW p \in Processes, NEW c \in Keys, Start(p, c)
  PROVE  CredentialsInv'
<1> TypeOK /\ SessionsAreCurrent /\ RequestsRemember
    BY DEF CredentialsInv
<1>1. \E U \in SUBSET Users : Renewed(U)
    BY StartShape, NobodyRenewed, OwnerAssumption DEF Rekeyed
<1>2. /\ config' \in [Processes -> Keys] /\ UNCHANGED <<now, code>>
      /\ \A o \in Processes \ {p} : config'[o] = config[o]
    BY DEF Start, TypeOK
<1>3. ASSUME NEW q \in Requests
      PROVE  \/ request'[q] = NoRequest
             \/ request'[q] = request[q] /\ request[q].process # p
    BY DEF Start
<1>4. NoRequest.op = "none"
    BY DEF NoRequest
<1>5. request' \in [Requests -> Request]
  <2>1. \A q \in Requests : request[q] \in Request
      BY DEF TypeOK
  <2> QED
      BY <2>1, NoRequestType DEF Start
<1>6. \A q \in Requests : request'[q].op = "reset" => request'[q].code \in Codes
    BY <1>3, <1>4 DEF TypeOK
<1>7. user' \in [Users -> User]
    BY <1>1 DEF Renewed
<1>8. TypeOK'
    BY <1>2, <1>5, <1>6, <1>7, StartShape DEF TypeOK
<1>9. ASSUME NEW q \in Requests
      PROVE  \/ request'[q].op \notin {"login", "change"}
             \/ /\ request'[q] = request[q]
                /\ \A o \in Processes : request[q].process = o => config'[o] = config[o]
    BY <1>2, <1>3, <1>4
<1>10. RequestsRemember'
    BY <1>1, <1>9, StillRemember
<1>11. SessionsAreCurrent'
    BY <1>1, StartShape, StayCurrent
<1> QED
    BY <1>8, <1>10, <1>11 DEF CredentialsInv

LEMMA TickKeeps ==
  ASSUME CredentialsInv, Tick
  PROVE  CredentialsInv'
<1> USE DEF Tick
<1>1. TypeOK'
    BY DEF CredentialsInv, TypeOK
<1>2. SessionsAreCurrent'
    BY DEF CredentialsInv, SessionsAreCurrent, Live, Current
<1>3. RequestsRemember'
    BY DEF CredentialsInv, RequestsRemember, Remembers
<1> QED
    BY <1>1, <1>2, <1>3 DEF CredentialsInv

-----------------------------------------------------------------------------
LEMMA StepHolds ==
  ASSUME CredentialsInv, [Next]_vars
  PROVE  CredentialsInv'
<1>1. ASSUME NEW q \in Requests, SessionRequest(q)
      PROVE  CredentialsInv'
    BY <1>1, CheckLoginKeeps, WriteLoginKeeps, AdmitKeeps, TouchesKeep, EndingSessionsKeeps
    DEF SessionRequest
<1>2. ASSUME NEW q \in Requests, PasswordRequest(q)
      PROVE  CredentialsInv'
    BY <1>2, CheckChangeKeeps, WriteChangeKeeps, WriteResetKeeps, CheckResetKeeps
    DEF PasswordRequest
<1>3. ASSUME Administration
      PROVE  CredentialsInv'
    BY <1>3, IssueCodeKeeps, SetActiveKeeps, RevokeAllKeeps, StartKeeps DEF Administration
<1>4. ASSUME UNCHANGED vars
      PROVE  CredentialsInv'
    BY <1>4 DEF vars, CredentialsInv, TypeOK, SessionsAreCurrent, Live, Current,
                RequestsRemember, Remembers
<1> QED
    BY <1>1, <1>2, <1>3, <1>4, TickKeeps DEF Next

(* The invariant the other theorems rest on: besides TypeOK and            *)
(* SessionsAreCurrent it says what requests remember of their checks.      *)
THEOREM CredentialsHold == Spec => []CredentialsInv
    BY InitHolds, StepHolds, PTL DEF Spec

(* No session outlives the password that was proved for it, its user's     *)
(* being enabled or the owner's settings, whatever comes between a check   *)
(* and its write (login, initialize_auth and the user account service).    *)
THEOREM NoStaleSession == Spec => []SessionsAreCurrent
<1>1. CredentialsInv => SessionsAreCurrent
    BY DEF CredentialsInv
<1> QED
    BY <1>1, CredentialsHold, PTL

(* Every row, request and setting keeps to its type.                       *)
THEOREM CredentialsTyped == Spec => []TypeOK
<1>1. CredentialsInv => TypeOK
    BY DEF CredentialsInv
<1> QED
    BY <1>1, CredentialsHold, PTL

-----------------------------------------------------------------------------
(* Who may change a password.                                              *)

PasswordsProved ==
  \A u \in Users : user'[u].password # user[u].password => ByCode(u) \/ ByProof(u) \/ BySettings(u)

LEMMA ReplaceOnly ==
  ASSUME TypeOK, NEW u \in Users, NEW new, Replace(u, new), NEW o \in Users \ {u}
  PROVE  user'[o] = user[o]
    BY DEF Replace, TypeOK

LEMMA WriteChangeProved ==
  ASSUME CredentialsInv, NEW q \in Requests, NEW new \in Passwords, WriteChange(q, new)
  PROVE  PasswordsProved
<1> DEFINE r == request[q]
<1> SUFFICES ASSUME NEW u \in Users, user'[u].password # user[u].password
             PROVE  ByProof(u)
    BY DEF PasswordsProved
<1>1. TypeOK /\ r.user \in Users /\ r.version \in Nat
    BY DEF CredentialsInv, TypeOK, Request
<1>2. r.op = "change" /\ Unchanged(r) /\ Replace(r.user, new)
    BY DEF WriteChange
<1>3. u = r.user
    BY <1>1, <1>2, ReplaceOnly
<1>4. Remembers(r)
    BY <1>2 DEF CredentialsInv, RequestsRemember
<1>5. r.proved = user[u].password
    BY <1>2, <1>3, <1>4 DEF Remembers, Unchanged
<1> QED
    BY <1>2, <1>3, <1>5 DEF ByProof

LEMMA WriteResetProved ==
  ASSUME CredentialsInv, NEW q \in Requests, NEW new \in Passwords, WriteReset(q, new)
  PROVE  PasswordsProved
<1> DEFINE c == request[q].code
<1> SUFFICES ASSUME NEW u \in Users, user'[u].password # user[u].password
             PROVE  ByCode(u)
    BY DEF PasswordsProved
<1>1. TypeOK /\ c \in Codes /\ code[c].user \in Users /\ code[c] \in Code
    BY DEF CredentialsInv, TypeOK, Code, WriteReset
<1>2. Claimable(c) /\ Replace(code[c].user, new)
    BY DEF WriteReset
<1> HIDE DEF c
<1>3. u = code[c].user
    BY <1>1, <1>2, ReplaceOnly
<1>4. c \in CodesOf(u) /\ code[c].expires > now
    BY <1>1, <1>2, <1>3 DEF Claimable, Redeemable, CodesOf
<1>5. code'[c] = Spent(c)
    BY <1>1, <1>2, <1>3, <1>4 DEF Replace, WithoutCodes, CodesOf
<1>6. code'[c].state = "ended"
    BY <1>1, <1>5 DEF Spent, Code
<1> QED
    BY <1>4, <1>6 DEF ByCode

LEMMA StartProved ==
  ASSUME CredentialsInv, NEW p \in Processes, NEW c \in Keys, Start(p, c)
  PROVE  PasswordsProved
<1>1. TypeOK
    BY DEF CredentialsInv
<1>2. CASE UNCHANGED user
    BY <1>2 DEF PasswordsProved
<1>3. CASE Rekeyed(c)
  <2>1. \A u \in Users \ {Owner} : user'[u] = user[u]
      BY <1>3 DEF Rekeyed, Renewed
  <2>2. user'[Owner].key # user[Owner].key
      BY <1>3 DEF Rekeyed
  <2> QED
      BY <2>1, <2>2 DEF PasswordsProved, BySettings
<1> QED
    BY <1>1, <1>2, <1>3, StartShape

LEMMA AdministrationProved ==
  ASSUME CredentialsInv, Administration
  PROVE  PasswordsProved
<1>1. TypeOK
    BY DEF CredentialsInv
<1>2. ASSUME NEW u \in Users, NEW c \in Codes, IssueCode(u, c)
      PROVE  PasswordsProved
    BY <1>2 DEF IssueCode, PasswordsProved
<1>3. ASSUME NEW u \in Users, NEW active \in BOOLEAN, SetActive(u, active)
      PROVE  PasswordsProved
  <2>1. user'[u].password = user[u].password /\ \A o \in Users \ {u} : user'[o] = user[o]
      BY <1>1, <1>3, SetActiveShape DEF Renewed
  <2> QED
      BY <2>1 DEF PasswordsProved
<1>4. ASSUME RevokeAll
      PROVE  PasswordsProved
    BY <1>1, <1>4, AllRenewed DEF PasswordsProved
<1> QED
    BY <1>2, <1>3, <1>4, StartProved DEF Administration

(* Who signs in, stays in or out changes no password and no code.          *)
LEMMA SessionsAlone ==
  ASSUME NEW q \in Requests, SessionRequest(q)
  PROVE  UNCHANGED <<user, code>>
<1>1. ASSUME NEW p \in Processes, NEW u \in Users, NEW typed \in Passwords,
             NEW previous \in Tokens \cup {NoToken}, CheckLogin(q, p, u, typed, previous)
      PROVE  UNCHANGED <<user, code>>
    BY <1>1 DEF CheckLogin
<1>2. ASSUME NEW t \in Tokens, NEW at \in 0..now, NEW K \in SUBSET Tokens, WriteLogin(q, t, at, K)
      PROVE  UNCHANGED <<user, code>>
    BY <1>2 DEF WriteLogin
<1>3. ASSUME NEW p \in Processes, NEW t \in Tokens, Admit(q, p, t)
      PROVE  UNCHANGED <<user, code>>
    BY <1>3 DEF Admit
<1>4. CASE RefuseLogin(q) \/ Touch(q) \/ TouchBusy(q)
    BY <1>4 DEF RefuseLogin, Touch, TouchBusy
<1>5. CASE Logout(q) \/ RevokeOthers(q) \/ Answer(q) \/ \E t \in Tokens : Revoke(q, t)
    BY <1>5 DEF Logout, RevokeOthers, Answer, Revoke
<1> QED
    BY <1>1, <1>2, <1>3, <1>4, <1>5 DEF SessionRequest

LEMMA StepProved ==
  ASSUME CredentialsInv, [Next]_vars
  PROVE  PasswordsProved
<1>1. ASSUME NEW q \in Requests, SessionRequest(q)
      PROVE  PasswordsProved
  <2>1. UNCHANGED user
      BY <1>1, SessionsAlone
  <2> QED
      BY <2>1 DEF PasswordsProved
<1>2. ASSUME NEW q \in Requests, PasswordRequest(q)
      PROVE  PasswordsProved
  <2>1. ASSUME UNCHANGED user
        PROVE  PasswordsProved
      BY <2>1 DEF PasswordsProved
  <2> QED
      BY <1>2, <2>1, WriteChangeProved, WriteResetProved
      DEF PasswordRequest, CheckChange, CheckReset
<1>3. CASE Tick \/ UNCHANGED vars
    BY <1>3 DEF Tick, vars, PasswordsProved
<1> QED
    BY <1>1, <1>2, <1>3, AdministrationProved DEF Next

(* A password changes only by a code in time, spent by that very step, by  *)
(* proof of the password replaced, or by new settings of the owner         *)
(* (change_password, reset_password, initialize_auth).                     *)
THEOREM NoUnprovedChange == Spec => PasswordChangesAreProved
<1>1. CredentialsInv /\ [Next]_vars => [PasswordsProved]_vars
    BY StepProved
<1>2. [][PasswordsProved]_vars => PasswordChangesAreProved
    BY PTL DEF PasswordsProved, PasswordChangesAreProved
<1> QED
    BY <1>1, <1>2, CredentialsHold, PTL DEF Spec

-----------------------------------------------------------------------------
(* The refinement: every step is one of SignInPromise, or none.            *)

GrantEnds(t) ==
  /\ session[t].state = "live" /\ session'[t].state = "ended"
  /\ session'[t].user = session[t].user /\ session'[t].proved = session[t].proved
GrantStays(t) ==
  /\ session'[t].state = session[t].state
  /\ session'[t].user = session[t].user /\ session'[t].proved = session[t].proved
GrantsOnlyEnd == \A t \in Tokens : GrantStays(t) \/ GrantEnds(t)

LEMMA GoneEnds ==
  ASSUME TypeOK, NEW t \in Tokens, Live(t), session'[t] = Gone(t)
  PROVE  GrantEnds(t)
<1>1. session[t] \in Session
    BY DEF TypeOK
<1> QED
    BY <1>1 DEF GrantEnds, Gone, Session, Live

LEMMA WithoutOnlyEnds ==
  ASSUME TypeOK, NEW T, session' = Without(T)
  PROVE  GrantsOnlyEnd
<1> SUFFICES ASSUME NEW t \in Tokens
             PROVE  GrantStays(t) \/ GrantEnds(t)
    BY DEF GrantsOnlyEnd
<1>1. CASE session'[t] = session[t]
    BY <1>1 DEF GrantStays
<1>2. CASE Live(t) /\ session'[t] = Gone(t)
    BY <1>2, GoneEnds
<1> QED
    BY <1>1, <1>2, WithoutFacts

LEMMA TouchOnlyEnds ==
  ASSUME TypeOK, NEW q \in Requests, Touch(q)
  PROVE  GrantsOnlyEnd
<1>1. ASSUME NEW t \in Tokens
      PROVE  GrantStays(t)
  <2>1. session[t] \in Session
      BY DEF TypeOK
  <2>2. session'[t] = session[t] \/ session'[t] = [session[t] EXCEPT !.seen = request[q].at]
      BY DEF Touch, TypeOK
  <2> QED
      BY <2>1, <2>2 DEF GrantStays, Session
<1> QED
    BY <1>1 DEF GrantsOnlyEnd

(* A quiet step signs out, perhaps nobody.                                 *)
LEMMA SignOutStep ==
  ASSUME UNCHANGED user, GrantsOnlyEnd
  PROVE  Promise!PromiseNext
<1>1. Promise!EndedOnly(Tokens)
    BY DEF Promise!EndedOnly, GrantsOnlyEnd, GrantStays, GrantEnds
<1>2. Promise!SignOut
    BY <1>1 DEF Promise!SignOut
<1> QED
    BY <1>2 DEF Promise!PromiseNext

LEMMA RenewStep ==
  ASSUME NEW U \in SUBSET Users, Renewed(U), GrantsOnlyEnd
  PROVE  Promise!PromiseNext
<1>1. Promise!EndedOnly(Tokens)
    BY DEF Promise!EndedOnly, GrantsOnlyEnd, GrantStays, GrantEnds
<1>2. \A u \in Users \ U : user'[u].password = user[u].password /\ user'[u].active = user[u].active
    BY DEF Renewed
<1>3. \A u \in U : \A t \in Promise!Held(u) : t \in Tokens /\ session'[t].state = "ended"
    BY DEF Promise!Held, Renewed, GrantsOnlyEnd, GrantStays, GrantEnds
<1>4. Promise!Renew(U)
    BY <1>1, <1>2, <1>3 DEF Promise!Renew
<1> QED
    BY <1>4 DEF Promise!PromiseNext

(* A login signs in: the password it proved is still the user's.           *)
LEMMA SignInStep ==
  ASSUME CredentialsInv, NEW q \in Requests, NEW t \in Tokens, NEW at \in 0..now,
         NEW K \in SUBSET Tokens, WriteLogin(q, t, at, K)
  PROVE  Promise!PromiseNext
<1>1. TypeOK /\ request[q].user \in Users
    BY DEF CredentialsInv, TypeOK, Request
<1> PICK u \in Users : u = request[q].user
    BY <1>1
<1>2. UNCHANGED user /\ user[u].active
    BY DEF WriteLogin, Unchanged
<1>3. /\ session[t].state = "fresh" /\ session'[t].state = "live"
      /\ session'[t].user = u /\ session'[t].proved = user[u].password
    BY <1>2, WriteLoginSession DEF Current
<1>4. \A s \in Tokens \ {t} : GrantStays(s) \/ GrantEnds(s)
  <2> SUFFICES ASSUME NEW s \in Tokens \ {t}
               PROVE  GrantStays(s) \/ GrantEnds(s)
      OBVIOUS
  <2>1. CASE session'[s] = session[s]
      BY <2>1 DEF GrantStays
  <2>2. CASE Live(s) /\ session'[s] = Gone(s)
      BY <1>1, <2>2, GoneEnds
  <2> QED
      BY <2>1, <2>2, WriteLoginSession
<1>5. Promise!SignIn(t, u)
    BY <1>1, <1>2, <1>3, <1>4 DEF Promise!SignIn, GrantStays, GrantEnds
<1> QED
    BY <1>5 DEF Promise!PromiseNext

LEMMA AdministrationKeepsPromise ==
  ASSUME CredentialsInv, Administration
  PROVE  Promise!PromiseNext
<1> TypeOK
    BY DEF CredentialsInv
<1>1. ASSUME UNCHANGED <<user, session>>
      PROVE  Promise!PromiseNext
    BY <1>1, SignOutStep DEF GrantsOnlyEnd, GrantStays
<1>2. ASSUME NEW u \in Users, NEW active \in BOOLEAN, SetActive(u, active)
      PROVE  Promise!PromiseNext
  <2>1. GrantsOnlyEnd
      BY <1>2, WithoutOnlyEnds DEF SetActive
  <2> QED
      BY <1>2, <2>1, SetActiveShape, RenewStep
<1>3. ASSUME RevokeAll
      PROVE  Promise!PromiseNext
  <2>1. GrantsOnlyEnd
      BY <1>3, WithoutOnlyEnds DEF RevokeAll
  <2> QED
      BY <1>3, <2>1, AllRenewed, RenewStep
<1>4. ASSUME NEW p \in Processes, NEW c \in Keys, Start(p, c)
      PROVE  Promise!PromiseNext
  <2>1. CASE UNCHANGED <<user, session>>
      BY <1>1, <2>1
  <2>2. CASE ~UNCHANGED <<user, session>>
    <3>1. Rekeyed(c)
        BY <1>4, <2>2, StartShape
    <3>2. GrantsOnlyEnd
        BY <1>4, <2>2, WithoutOnlyEnds DEF Start
    <3> QED
        BY <3>1, <3>2, RenewStep, OwnerAssumption DEF Rekeyed
  <2> QED
      BY <2>1, <2>2
<1>5. ASSUME NEW u \in Users, NEW c \in Codes, IssueCode(u, c)
      PROVE  Promise!PromiseNext
    BY <1>1, <1>5 DEF IssueCode
<1> QED
    BY <1>2, <1>3, <1>4, <1>5 DEF Administration

LEMMA SessionRequestKeepsPromise ==
  ASSUME CredentialsInv, NEW q \in Requests, SessionRequest(q)
  PROVE  Promise!PromiseNext
<1> TypeOK
    BY DEF CredentialsInv
<1>1. CASE UNCHANGED <<user, session>>
    BY <1>1, SignOutStep DEF GrantsOnlyEnd, GrantStays
<1>2. ASSUME UNCHANGED user, NEW T, session' = Without(T)
      PROVE  Promise!PromiseNext
    BY <1>2, WithoutOnlyEnds, SignOutStep
<1>3. CASE Touch(q)
    BY <1>3, TouchOnlyEnds, SignOutStep DEF Touch
<1>4. CASE Logout(q) \/ RevokeOthers(q) \/ \E t \in Tokens : Revoke(q, t)
    BY <1>2, <1>4 DEF Logout, RevokeOthers, Revoke
<1> QED
    BY <1>1, <1>3, <1>4, SignInStep
    DEF SessionRequest, CheckLogin, RefuseLogin, Admit, TouchBusy, Answer

LEMMA PasswordRequestKeepsPromise ==
  ASSUME CredentialsInv, NEW q \in Requests, PasswordRequest(q)
  PROVE  Promise!PromiseNext
<1> TypeOK
    BY DEF CredentialsInv
<1>1. CASE UNCHANGED <<user, session>>
    BY <1>1, SignOutStep DEF GrantsOnlyEnd, GrantStays
<1>2. ASSUME NEW u \in Users, NEW new \in Passwords, Replace(u, new)
      PROVE  Promise!PromiseNext
  <2>1. GrantsOnlyEnd
      BY <1>2, WithoutOnlyEnds DEF Replace
  <2> QED
      BY <1>2, <2>1, ReplaceShape, RenewStep
<1>3. request[q].user \in Users
    BY DEF TypeOK, Request
<1>4. ASSUME request[q].op = "reset"
      PROVE  code[request[q].code].user \in Users
    BY <1>4 DEF TypeOK, Code
<1> QED
    BY <1>1, <1>2, <1>3, <1>4 DEF PasswordRequest, CheckChange, CheckReset, WriteChange, WriteReset

LEMMA StepKeepsPromise ==
  ASSUME CredentialsInv, [Next]_vars
  PROVE  [Promise!PromiseNext]_(Promise!promiseVars)
<1>1. CASE Tick \/ UNCHANGED vars
    BY <1>1 DEF Tick, vars, Promise!promiseVars
<1> QED
    BY <1>1, SessionRequestKeepsPromise, PasswordRequestKeepsPromise, AdministrationKeepsPromise
    DEF Next

LEMMA InitKeepsPromise == Init => Promise!PromiseInit
<1> SUFFICES ASSUME Init PROVE Promise!PromiseInit
    OBVIOUS
<1>1. TypeOK
    BY InitHolds DEF CredentialsInv
<1>2. \A t \in Tokens : session[t] \in Session /\ session[t].state = "fresh"
    BY <1>1 DEF TypeOK, Init, FreshSession
<1> QED
    BY <1>1, <1>2 DEF Promise!PromiseInit, Promise!Grant, TypeOK, User, Session, Life

(* The tables implement the promise: what is decided on a check made       *)
(* outside the transaction is as if it was decided in one step.            *)
THEOREM SignInIsKept == Spec => KeepsPromise
    BY InitKeepsPromise, StepKeepsPromise, CredentialsHold, PTL DEF Spec, KeepsPromise, Promise!PromiseSpec

-----------------------------------------------------------------------------
(* What happens to a session that is not the one a login writes: it stays, *)
(* is refreshed forward, or ends.                                          *)

Unharmed(t) ==
  /\ session[t].state = "ended" => session'[t].state = "ended"
  /\ Live(t) => /\ session'[t].expires = session[t].expires
                /\ session'[t].seen >= session[t].seen
                /\ session'[t].user = session[t].user
  /\ session'[t].state = "live" => Live(t)
AllUnharmed == \A t \in Tokens : Unharmed(t)

LEMMA SameUnharmed ==
  ASSUME TypeOK, NEW t \in Tokens, session'[t] = session[t] \/ (Live(t) /\ session'[t] = Gone(t))
  PROVE  Unharmed(t)
<1>1. session[t] \in Session /\ session[t].seen \in Nat
    BY DEF TypeOK, Session
<1>2. CASE session'[t] = session[t]
    BY <1>1, <1>2 DEF Unharmed, Live
<1>3. CASE Live(t) /\ session'[t] = Gone(t)
  <2>1. /\ Gone(t).state = "ended" /\ Gone(t).expires = session[t].expires
        /\ Gone(t).seen = session[t].seen /\ Gone(t).user = session[t].user
      BY <1>1 DEF Gone, Session
  <2> QED
      BY <1>1, <1>3, <2>1 DEF Unharmed, Live
<1> QED
    BY <1>2, <1>3

LEMMA WithoutUnharmed ==
  ASSUME TypeOK, NEW T, session' = Without(T)
  PROVE  AllUnharmed
    BY WithoutFacts, SameUnharmed DEF AllUnharmed

LEMMA TouchUnharmed ==
  ASSUME CredentialsInv, NEW q \in Requests, Touch(q)
  PROVE  AllUnharmed
<1> DEFINE r == request[q]
<1>1. TypeOK /\ r \in Request /\ r.at \in Nat /\ session \in [Tokens -> Session]
    BY DEF CredentialsInv, TypeOK, Request
<1>2. \/ UNCHANGED session
      \/ Touchable(r.token, r.at) /\ session' = [session EXCEPT ![r.token].seen = r.at]
    BY DEF Touch
<1> HIDE DEF r
<1> SUFFICES ASSUME NEW t \in Tokens
             PROVE  Unharmed(t)
    BY DEF AllUnharmed
<1>3. CASE session'[t] = session[t]
    BY <1>1, <1>3, SameUnharmed
<1>4. CASE session'[t] # session[t]
  <2>1. t = r.token /\ TouchDue(t, r.at) /\ session'[t] = [session[t] EXCEPT !.seen = r.at]
      BY <1>1, <1>2, <1>4 DEF Touchable
  <2>2. session[t] \in Session /\ session[t].seen \in Nat
      BY <1>1 DEF Session
  <2>3. session[t].seen <= r.at
      BY <1>1, <2>1, <2>2, TimeAssumption DEF TouchDue
  <2>4. /\ session'[t].state = session[t].state /\ session'[t].expires = session[t].expires
        /\ session'[t].user = session[t].user /\ session'[t].seen = r.at
      BY <2>1, <2>2 DEF Session
  <2> QED
      BY <2>3, <2>4 DEF Unharmed, Live
<1> QED
    BY <1>3, <1>4

LEMMA WriteLoginUnharmed ==
  ASSUME CredentialsInv, NEW q \in Requests, NEW t \in Tokens, NEW at \in 0..now,
         NEW K \in SUBSET Tokens, WriteLogin(q, t, at, K)
  PROVE  session[t].state = "fresh" /\ \A s \in Tokens \ {t} : Unharmed(s)
<1>1. TypeOK
    BY DEF CredentialsInv
<1> QED
    BY <1>1, WriteLoginSession, SameUnharmed

(* Every other step harms no session.                                      *)
LEMMA OthersUnharmed ==
  ASSUME CredentialsInv, [Next]_vars,
         ~ \E q \in Requests, t \in Tokens, at \in 0..now, K \in SUBSET Tokens :
             WriteLogin(q, t, at, K)
  PROVE  AllUnharmed
<1>1. TypeOK
    BY DEF CredentialsInv
<1>2. ASSUME UNCHANGED session
      PROVE  AllUnharmed
    BY <1>1, <1>2, SameUnharmed DEF AllUnharmed
<1>3. ASSUME \E T : session' = Without(T)
      PROVE  AllUnharmed
    BY <1>1, <1>3, WithoutUnharmed
<1>4. ASSUME NEW q \in Requests, SessionRequest(q)
      PROVE  AllUnharmed
  <2>1. CASE Touch(q)
      BY <2>1, TouchUnharmed
  <2>2. CASE Logout(q) \/ RevokeOthers(q) \/ \E t \in Tokens : Revoke(q, t)
      BY <1>3, <2>2 DEF Logout, RevokeOthers, Revoke
  <2> QED
      BY <1>2, <1>4, <2>1, <2>2
      DEF SessionRequest, CheckLogin, RefuseLogin, Admit, TouchBusy, Answer
<1>5. ASSUME NEW q \in Requests, PasswordRequest(q)
      PROVE  AllUnharmed
  <2>1. UNCHANGED session \/ \E T : session' = Without(T)
      BY <1>5 DEF PasswordRequest, CheckChange, CheckReset, WriteChange, WriteReset, Replace
  <2> QED
      BY <1>2, <1>3, <2>1
<1>6. ASSUME Administration
      PROVE  AllUnharmed
  <2>1. UNCHANGED session \/ \E T : session' = Without(T)
      BY <1>6 DEF Administration, IssueCode, SetActive, RevokeAll, Start, OwnerSessions
  <2> QED
      BY <1>2, <1>3, <2>1
<1>7. ASSUME Tick \/ UNCHANGED vars
      PROVE  AllUnharmed
    BY <1>2, <1>7 DEF Tick, vars
<1> QED
    BY <1>4, <1>5, <1>6, <1>7 DEF Next

Harmless ==
  \A t \in Tokens :
    /\ session[t].state = "ended" => session'[t].state = "ended"
    /\ Live(t) => /\ session'[t].expires = session[t].expires
                  /\ session'[t].seen >= session[t].seen

LEMMA StepHarmless ==
  ASSUME CredentialsInv, [Next]_vars
  PROVE  Harmless
<1>1. ASSUME NEW q \in Requests, NEW t \in Tokens, NEW at \in 0..now, NEW K \in SUBSET Tokens,
             WriteLogin(q, t, at, K)
      PROVE  Harmless
    BY <1>1, WriteLoginUnharmed DEF Harmless, Unharmed, Live
<1>2. AllUnharmed => Harmless
    BY DEF AllUnharmed, Harmless, Unharmed
<1> QED
    BY <1>1, <1>2, OthersUnharmed

(* A refresh of last_seen, however late, brings no session back, puts off  *)
(* no expiry and turns no last_seen back (session of auth_service.py).     *)
THEOREM LateRefreshIsHarmless == Spec => RefreshIsHarmless
<1>1. CredentialsInv /\ [Next]_vars => [Harmless]_vars
    BY StepHarmless
<1>2. [][Harmless]_vars => RefreshIsHarmless
    BY PTL DEF Harmless, RefreshIsHarmless
<1> QED
    BY <1>1, <1>2, CredentialsHold, PTL DEF Spec

-----------------------------------------------------------------------------
(* The limits of sessions and codes.                                       *)

OutstandingCodes == {c \in Codes : Outstanding(c)}
FewSessions == \A u \in Users : /\ IsFiniteSet(SessionsOf(u))
                                /\ Cardinality(SessionsOf(u)) <= SessionLimit
OneCodeEach == \A c, d \in OutstandingCodes : code[c].user = code[d].user => c = d
FewCodes == IsFiniteSet(OutstandingCodes) /\ Cardinality(OutstandingCodes) <= CodeLimit
LimitsInv == CredentialsInv /\ FewSessions /\ OneCodeEach /\ FewCodes

LEMMA FewOfFew ==
  ASSUME NEW S, IsFiniteSet(S), NEW n \in Nat, Cardinality(S) <= n, NEW T, T \subseteq S
  PROVE  IsFiniteSet(T) /\ Cardinality(T) <= n
<1>1. IsFiniteSet(T) /\ Cardinality(T) <= Cardinality(S)
    BY FS_Subset
<1>2. Cardinality(T) \in Nat /\ Cardinality(S) \in Nat
    BY <1>1, FS_CardinalityType
<1> QED
    BY <1>1, <1>2

(* One more than few, where there was room.                                *)
LEMMA FewAndOne ==
  ASSUME NEW S, IsFiniteSet(S), NEW n \in Nat, Cardinality(S) < n, NEW x
  PROVE  IsFiniteSet(S \cup {x}) /\ Cardinality(S \cup {x}) <= n
<1>1. /\ IsFiniteSet(S \cup {x})
      /\ Cardinality(S \cup {x}) = IF x \in S THEN Cardinality(S) ELSE Cardinality(S) + 1
    BY FS_AddElement
<1>2. Cardinality(S) \in Nat
    BY FS_CardinalityType
<1> QED
    BY <1>1, <1>2

LEMMA SessionsStayFew ==
  ASSUME TypeOK, FewSessions, AllUnharmed
  PROVE  FewSessions'
<1> SUFFICES ASSUME NEW u \in Users
             PROVE  IsFiniteSet(SessionsOf(u)') /\ Cardinality(SessionsOf(u)') <= SessionLimit
    BY DEF FewSessions
<1>1. SessionsOf(u)' \subseteq SessionsOf(u)
    BY DEF SessionsOf, Live, AllUnharmed, Unharmed
<1>2. IsFiniteSet(SessionsOf(u)) /\ Cardinality(SessionsOf(u)) <= SessionLimit /\ SessionLimit \in Nat
    BY LimitAssumption DEF FewSessions
<1> HIDE DEF SessionsOf
<1> QED
    BY <1>1, <1>2, FewOfFew

(* A login keeps fewer sessions than the limit and adds its own.           *)
LEMMA LoginsStayFew ==
  ASSUME CredentialsInv, FewSessions, NEW q \in Requests, NEW t \in Tokens, NEW at \in 0..now,
         NEW K \in SUBSET Tokens, WriteLogin(q, t, at, K)
  PROVE  FewSessions'
<1> DEFINE o == request[q].user
           purged == {s \in Tokens : StaleAt(s, at)}
           S == (SessionsOf(o) \ purged) \ {request[q].token}
<1> SUFFICES ASSUME NEW u \in Users
             PROVE  IsFiniteSet(SessionsOf(u)') /\ Cardinality(SessionsOf(u)') <= SessionLimit
    BY DEF FewSessions
<1>1. /\ Kept(K, S)
      /\ session[t].state = "fresh" /\ session'[t].user = o /\ session'[t].state = "live"
      /\ \A s \in Tokens \ {t} : Unharmed(s)
    BY WriteLoginSession, WriteLoginUnharmed DEF WriteLogin
<1>2. TypeOK /\ SessionLimit \in Nat \ {0} /\ IsFiniteSet(SessionsOf(u))
      /\ Cardinality(SessionsOf(u)) <= SessionLimit
    BY LimitAssumption DEF CredentialsInv, FewSessions
<1>3. CASE u # o
  <2>1. SessionsOf(u)' \subseteq SessionsOf(u)
      BY <1>1, <1>3 DEF SessionsOf, Live, Unharmed
  <2> QED
      BY <1>2, <2>1, FewOfFew
<1>4. CASE u = o
  <2>1. K \subseteq SessionsOf(u) /\ IsFiniteSet(S) /\ S \subseteq SessionsOf(u)
    <3>1. S \subseteq SessionsOf(u)
        BY <1>4
    <3> HIDE DEF S
    <3> QED
        BY <1>1, <1>2, <3>1, FS_Subset DEF Kept
  <2>2. IsFiniteSet(K) /\ Cardinality(K) \in Nat /\ Cardinality(S) \in Nat
      BY <1>2, <2>1, FS_Subset, FS_CardinalityType
  <2>3. Cardinality(K) < SessionLimit
    <3>1. Cardinality(K) = IF Cardinality(S) < Room THEN Cardinality(S) ELSE Room
        BY <1>1 DEF Kept
    <3> HIDE DEF S
    <3> QED
        BY <1>2, <2>2, <3>1 DEF Room
  <2>4. SessionsOf(u)' \subseteq K \cup {t}
    <3> SUFFICES ASSUME NEW s \in Tokens \ {t}, session'[s].state = "live", session'[s].user = u
                 PROVE  s \in K
        BY DEF SessionsOf, Live
    <3>1. s \in SessionsOf(u)
        BY <1>1 DEF Unharmed, SessionsOf, Live
    <3>2. session' = [Without(purged \cup (SessionsOf(o) \ K)) EXCEPT ![t] = session'[t]]
        BY <1>2, WithoutFacts DEF WriteLogin
    <3>3. session'[s] = Without(purged \cup (SessionsOf(o) \ K))[s]
        BY <1>2, <3>2, WithoutFacts
    <3>4. CASE s \notin K
      <4>1. s \in purged \cup (SessionsOf(o) \ K)
          BY <1>4, <3>1, <3>4
      <4>2. session'[s] = Gone(s)
          BY <1>2, <3>1, <3>3, <4>1 DEF Without, SessionsOf
      <4>3. Gone(s).state = "ended"
          BY <1>2 DEF Gone, TypeOK, Session
      <4> QED
          BY <4>2, <4>3
    <3> QED
        BY <3>4
  <2>5. IsFiniteSet(K \cup {t}) /\ Cardinality(K \cup {t}) <= SessionLimit
      BY <1>2, <2>2, <2>3, FewAndOne
  <2> QED
      BY <1>2, <2>4, <2>5, FewOfFew
<1> QED
    BY <1>3, <1>4

(* Codes only go, unless one is issued.                                    *)
CodesOnlyGo ==
  \A c \in Codes : code'[c].state = "live" => Outstanding(c) /\ code'[c].user = code[c].user

LEMMA CodesStayFew ==
  ASSUME TypeOK, OneCodeEach, FewCodes, CodesOnlyGo
  PROVE  OneCodeEach' /\ FewCodes'
<1>1. OutstandingCodes' \subseteq OutstandingCodes
    BY DEF OutstandingCodes, Outstanding, CodesOnlyGo
<1>2. OneCodeEach'
    BY DEF OneCodeEach, OutstandingCodes, Outstanding, CodesOnlyGo
<1>3. IsFiniteSet(OutstandingCodes) /\ Cardinality(OutstandingCodes) <= CodeLimit /\ CodeLimit \in Nat
    BY LimitAssumption DEF FewCodes
<1>4. IsFiniteSet(OutstandingCodes') /\ Cardinality(OutstandingCodes') <= CodeLimit
    BY <1>1, <1>3, FewOfFew
<1> QED
    BY <1>2, <1>4 DEF FewCodes

LEMMA WithoutCodesFacts ==
  ASSUME TypeOK, NEW C, NEW c \in Codes
  PROVE  /\ WithoutCodes(C)[c].state = "live" => Outstanding(c) /\ c \notin C
         /\ WithoutCodes(C)[c].user = code[c].user
<1>1. code[c] \in Code
    BY DEF TypeOK
<1>2. Spent(c).state = "ended" /\ Spent(c).user = code[c].user
    BY <1>1 DEF Spent, Code
<1> QED
    BY <1>2 DEF WithoutCodes, Outstanding

LEMMA WithoutCodesGo ==
  ASSUME TypeOK, NEW C, code' = WithoutCodes(C)
  PROVE  CodesOnlyGo
    BY WithoutCodesFacts DEF CodesOnlyGo

LEMMA IssueStaysFew ==
  ASSUME TypeOK, OneCodeEach, FewCodes, NEW u \in Users, NEW c \in Codes, IssueCode(u, c)
  PROVE  OneCodeEach' /\ FewCodes'
<1> DEFINE new == [state |-> "live", user |-> u, expires |-> now + CodeTime]
<1>1. /\ code' = [WithoutCodes(Codes \ Others(u)) EXCEPT ![c] = new]
      /\ Cardinality(Others(u)) < CodeLimit /\ CodeLimit \in Nat
    BY LimitAssumption DEF IssueCode
<1>2. code'[c].user = u /\ \A d \in Codes \ {c} : code'[d] = WithoutCodes(Codes \ Others(u))[d]
    BY <1>1, WithoutCodesType
<1>3. ASSUME NEW d \in OutstandingCodes', d # c
      PROVE  d \in Others(u) /\ d \in OutstandingCodes /\ code'[d].user = code[d].user
  <2>1. d \in Codes /\ code'[d].state = "live" /\ code'[d] = WithoutCodes(Codes \ Others(u))[d]
      BY <1>2, <1>3 DEF OutstandingCodes, Outstanding
  <2> QED
      BY <2>1, WithoutCodesFacts DEF OutstandingCodes
<1>4. OneCodeEach'
  <2> SUFFICES ASSUME NEW d \in OutstandingCodes', NEW e \in OutstandingCodes',
                      code'[d].user = code'[e].user
               PROVE  d = e
      BY DEF OneCodeEach
  <2>1. \A x \in Others(u) : code[x].user # u
      BY DEF Others
  <2> QED
      BY <1>2, <1>3, <2>1 DEF OneCodeEach
<1>5. Others(u) \subseteq OutstandingCodes /\ OutstandingCodes' \subseteq Others(u) \cup {c}
    BY <1>3 DEF Others, Redeemable, OutstandingCodes
<1>6. IsFiniteSet(Others(u))
    BY <1>5, FS_Subset DEF FewCodes
<1>7. IsFiniteSet(Others(u) \cup {c}) /\ Cardinality(Others(u) \cup {c}) <= CodeLimit
    BY <1>1, <1>6, FewAndOne
<1>8. IsFiniteSet(OutstandingCodes') /\ Cardinality(OutstandingCodes') <= CodeLimit
    BY <1>1, <1>5, <1>7, FewOfFew
<1> QED
    BY <1>4, <1>8 DEF FewCodes

LEMMA StepLimits ==
  ASSUME LimitsInv, [Next]_vars
  PROVE  LimitsInv'
<1>1. CredentialsInv /\ TypeOK /\ FewSessions /\ OneCodeEach /\ FewCodes /\ CredentialsInv'
    BY StepHolds DEF LimitsInv, CredentialsInv
<1>2. FewSessions'
    BY <1>1, OthersUnharmed, SessionsStayFew, LoginsStayFew
<1>3. ASSUME UNCHANGED code \/ \E C : code' = WithoutCodes(C)
      PROVE  OneCodeEach' /\ FewCodes'
  <2>1. CASE UNCHANGED code
      BY <1>1, <2>1, CodesStayFew DEF CodesOnlyGo, Outstanding
  <2> QED
      BY <1>1, <1>3, <2>1, WithoutCodesGo, CodesStayFew
<1>4. ASSUME NEW q \in Requests, SessionRequest(q)
      PROVE  UNCHANGED code
    BY <1>4, SessionsAlone
<1>5. ASSUME NEW q \in Requests, PasswordRequest(q)
      PROVE  UNCHANGED code \/ \E C : code' = WithoutCodes(C)
  <2>1. ASSUME NEW typed \in Passwords, CheckChange(q, typed)
        PROVE  UNCHANGED code
      BY <2>1 DEF CheckChange
  <2>2. ASSUME NEW new \in Passwords, WriteChange(q, new) \/ WriteReset(q, new)
        PROVE  UNCHANGED code \/ \E C : code' = WithoutCodes(C)
      BY <2>2 DEF WriteChange, WriteReset, Replace
  <2>3. ASSUME NEW p \in Processes, NEW c \in Codes, CheckReset(q, p, c)
        PROVE  UNCHANGED code
      BY <2>3 DEF CheckReset
  <2> QED
      BY <1>5, <2>1, <2>2, <2>3 DEF PasswordRequest
<1>6. ASSUME Administration
      PROVE  OneCodeEach' /\ FewCodes'
  <2>1. ASSUME NEW u \in Users, NEW c \in Codes, IssueCode(u, c)
        PROVE  OneCodeEach' /\ FewCodes'
      BY <1>1, <2>1, IssueStaysFew
  <2>2. ASSUME NEW u \in Users, NEW active \in BOOLEAN, SetActive(u, active)
        PROVE  \E C : code' = WithoutCodes(C)
      BY <2>2 DEF SetActive
  <2>3. ASSUME RevokeAll
        PROVE  \E C : code' = WithoutCodes(C)
      BY <2>3 DEF RevokeAll
  <2>4. ASSUME NEW p \in Processes, NEW c \in Keys, Start(p, c)
        PROVE  UNCHANGED code
      BY <2>4 DEF Start
  <2> QED
      BY <1>3, <1>6, <2>1, <2>2, <2>3, <2>4 DEF Administration
<1>7. ASSUME Tick \/ UNCHANGED vars
      PROVE  UNCHANGED code
    BY <1>7 DEF Tick, vars
<1>8. OneCodeEach' /\ FewCodes'
    BY <1>3, <1>4, <1>5, <1>6, <1>7 DEF Next
<1> QED
    BY <1>1, <1>2, <1>8 DEF LimitsInv

LEMMA InitLimits == Init => LimitsInv
<1> SUFFICES ASSUME Init
             PROVE  LimitsInv
    OBVIOUS
<1>1. \A u \in Users : SessionsOf(u) = {}
    BY DEF Init, SessionsOf, Live, FreshSession
<1>2. OutstandingCodes = {}
    BY DEF Init, OutstandingCodes, Outstanding, FreshCode
<1>3. IsFiniteSet({}) /\ Cardinality({}) = 0 /\ SessionLimit \in Nat /\ CodeLimit \in Nat
    BY FS_EmptySet, LimitAssumption
<1> QED
    BY <1>1, <1>2, <1>3, InitHolds DEF LimitsInv, FewSessions, OneCodeEach, FewCodes

LEMMA LimitsFollow == LimitsInv => LimitsHold
<1> SUFFICES ASSUME LimitsInv
             PROVE  LimitsHold
    OBVIOUS
<1>1. ASSUME NEW u \in Users
      PROVE  Cardinality(CodesOf(u)) <= 1
  <2>1. CodesOf(u) = {} \/ \E c \in Codes : CodesOf(u) = {c}
      BY DEF LimitsInv, OneCodeEach, OutstandingCodes, CodesOf
  <2> QED
      BY <2>1, FS_EmptySet, FS_Singleton
<1> QED
    BY <1>1 DEF LimitsInv, FewSessions, FewCodes, OutstandingCodes, LimitsHold

(* However sign-ins race, nobody has more sessions than the limit; nobody  *)
(* has two codes, and the codes keep to their limit (login, issue_code).   *)
THEOREM LimitsAreKept == Spec => []LimitsHold
    BY InitLimits, StepLimits, LimitsFollow, PTL DEF Spec
============================================================================
