---------------------------- MODULE Credentials ----------------------------
(***************************************************************************)
(* Passwords, sessions and recovery codes of users, and the requests that  *)
(* use them in the processes of the API.                                   *)
(*                                                                         *)
(* Verifying and hashing a password are slow and done outside any          *)
(* transaction.  So signing in, changing a password and resetting it each  *)
(* read what they need, work, and then write in a transaction that checks  *)
(* again.  Between the two anything may happen: other requests, the        *)
(* administrator's commands, a restart with other settings of the owner.   *)
(* A request that was admitted with a session also goes on after its       *)
(* check, and may refresh the session later.                               *)
(***************************************************************************)
EXTENDS Naturals, FiniteSets

CONSTANTS
  Users,           \* the registered users
  Owner,           \* user 1, whose password comes with the settings
  Passwords,       \* passwords a person may type
  NoPassword,      \* the owner's before the first settings
  Configs,         \* owner settings a process may be started with
  Configured,      \* [Configs -> Passwords], the password in each
  NoConfig,        \* settings without an owner password
  Processes,       \* API processes on the database
  Requests,        \* requests that may be under way at once
  Tokens, NoToken, \* session tokens, each made once; a request without one
  Codes, NoCode,   \* recovery codes, each made once; a request without one
  SessionLimit,    \* sessions a user may have
  CodeLimit,       \* codes that may be outstanding
  SessionTime, IdleTime, TouchAfter, CodeTime,   \* durations
  LastTime,        \* bound: the clock stops here
  MaxVersion       \* bound: changes of one user's credentials

ASSUME OwnerAssumption == Owner \in Users
ASSUME ConfigAssumption == Configured \in [Configs -> Passwords] /\ NoConfig \notin Configs
ASSUME PasswordAssumption == NoPassword \notin Passwords /\ Passwords # {}
ASSUME ProcessAssumption == Processes # {} /\ NoToken \notin Tokens /\ NoCode \notin Codes
ASSUME LimitAssumption == SessionLimit \in Nat \ {0} /\ CodeLimit \in Nat
ASSUME TimeAssumption == /\ SessionTime \in Nat /\ IdleTime \in Nat
                         /\ TouchAfter \in Nat \ {0} /\ CodeTime \in Nat
                         /\ LastTime \in Nat /\ MaxVersion \in Nat

VARIABLES
  now,             \* the time
  config,          \* [Processes -> the owner settings of the process]
  user,            \* users: [Users -> User]
  session,         \* auth_sessions: [Tokens -> Session]
  code,            \* auth_codes: [Codes -> Code]
  request          \* [Requests -> where it is and what it remembers]

vars == <<now, config, user, session, code, request>>

-----------------------------------------------------------------------------
(* Data.  proved is not in the tables: it is the password that was         *)
(* verified for a session.                                                 *)

Life == {"fresh", "live", "ended"}
Secrets == Passwords \cup {NoPassword}
Keys == Configs \cup {NoConfig}
User == [password : Secrets, active : BOOLEAN, version : Nat, key : Keys]
Session == [state : Life, user : Users, version : Nat, key : Keys, proved : Secrets,
            expires : Nat, seen : Nat]
Code == [state : Life, user : Users, expires : Nat]
Request == [op : {"none", "login", "touch", "admitted", "change", "reset"},
            process : Processes, user : Users, proved : Secrets, version : Nat,
            token : Tokens \cup {NoToken},
            code : Codes \cup {NoCode}, at : Nat]

FreshSession == [state |-> "fresh", user |-> Owner, version |-> 0, key |-> NoConfig,
                 proved |-> NoPassword, expires |-> 0, seen |-> 0]
FreshCode == [state |-> "fresh", user |-> Owner, expires |-> 0]
NoRequest == [op |-> "none", process |-> CHOOSE p \in Processes : TRUE, user |-> Owner,
              proved |-> NoPassword, version |-> 0, token |-> NoToken, code |-> NoCode, at |-> 0]

TypeOK ==
  /\ now \in Nat
  /\ config \in [Processes -> Keys]
  /\ user \in [Users -> User]
  /\ session \in [Tokens -> Session]
  /\ code \in [Codes -> Code]
  /\ request \in [Requests -> Request]
  /\ \A q \in Requests : request[q].op = "reset" => request[q].code \in Codes

Live(t) == session[t].state = "live"
Outstanding(c) == code[c].state = "live"
SessionsOf(u) == {t \in Tokens : Live(t) /\ session[t].user = u}
CodesOf(u) == {c \in Codes : Outstanding(c) /\ code[c].user = u}
Renamed(t) == [session[t] EXCEPT !.state = "revoked"]   \* variant: kept, marked
Gone(t) == [session[t] EXCEPT !.state = "ended"]
Spent(c) == [code[c] EXCEPT !.state = "ended"]
Without(T) == [t \in Tokens |-> IF Live(t) /\ t \in T THEN Gone(t) ELSE session[t]]
WithoutCodes(C) == [c \in Codes |-> IF Outstanding(c) /\ c \in C THEN Spent(c) ELSE code[c]]
Ending(q) == request' = [request EXCEPT ![q] = NoRequest]

(* Every change of a user's credentials counts auth_version up and ends    *)
(* the user's sessions.                                                    *)
Changed(u, password, active, key) ==
  [password |-> password, active |-> active, version |-> user[u].version + 1, key |-> key]

-----------------------------------------------------------------------------
(* Signing in.  The row is read and the password verified without a lock.  *)

CheckLogin(q, p, u, typed, previous) ==
  /\ request[q] = NoRequest
  /\ user[u].active /\ user[u].password = typed
  /\ u = Owner => config[p] # NoConfig /\ user[u].key = config[p]
  /\ request' = [request EXCEPT ![q] =
       [NoRequest EXCEPT !.op = "login", !.process = p, !.user = u, !.proved = typed,
                         !.version = user[u].version, !.token = previous, !.at = now]]
  /\ UNCHANGED <<now, config, user, session, code>>

UnchangedIfActive(r) == user[r.user].active       \* variant: version not compared
Unchanged(r) == user[r.user].active /\ user[r.user].version = r.version

(* Expired and idle sessions go, the previous one of this user as well,    *)
(* and of the others the last seen ones stay, one fewer than the limit.    *)
StaleAt(t, at) == session[t].expires <= at \/ session[t].seen + IdleTime <= at
RoomForLimit == SessionLimit                      \* variant: the new one not counted
Room == SessionLimit - 1
Kept(K, S) ==
  /\ K \subseteq S
  /\ Cardinality(K) = IF Cardinality(S) < Room THEN Cardinality(S) ELSE Room
  /\ \A s \in K, t \in S \ K : session[s].seen >= session[t].seen

WriteLogin(q, t, at, K) ==
  LET r == request[q]
      purged == {s \in Tokens : StaleAt(s, at)}
      staying == (SessionsOf(r.user) \ purged) \ {r.token}
  IN
  /\ r.op = "login" /\ Unchanged(r)
  /\ at \in r.at..now                 \* the time is taken before the transaction
  /\ session[t] = FreshSession
  /\ Kept(K, staying)
  /\ session' = [Without(purged \cup (SessionsOf(r.user) \ K)) EXCEPT ![t] =
       [state |-> "live", user |-> r.user, version |-> r.version,
        key |-> IF r.user = Owner THEN config[r.process] ELSE NoConfig,
        proved |-> r.proved, expires |-> at + SessionTime, seen |-> at]]
  /\ Ending(q)
  /\ UNCHANGED <<now, config, user, code>>

(* 401: the user was disabled or the credentials changed meanwhile.        *)
RefuseLogin(q) ==
  /\ request[q].op = "login" /\ ~Unchanged(request[q])
  /\ Ending(q)
  /\ UNCHANGED <<now, config, user, session, code>>

-----------------------------------------------------------------------------
(* A request with a session.  session reads the row, and refreshes         *)
(* last_seen afterwards if it is old, unless the database is busy.         *)

Valid(t, p) ==
  LET s == session[t] IN
  /\ Live(t) /\ s.version = user[s.user].version /\ user[s.user].active
  /\ ~StaleAt(t, now)
  /\ s.user = Owner => config[p] # NoConfig /\ s.key = config[p]

TouchDue(t, at) == session[t].seen + TouchAfter <= at

Admit(q, p, t) ==
  /\ request[q] = NoRequest /\ Valid(t, p)
  /\ request' = [request EXCEPT ![q] =
       [NoRequest EXCEPT !.op = IF TouchDue(t, now) THEN "touch" ELSE "admitted",
                         !.process = p, !.user = session[t].user, !.token = t, !.at = now]]
  /\ UNCHANGED <<now, config, user, session, code>>

(* UPDATE ... WHERE repeats the conditions, with the time of the check.    *)
TouchableAnyTime(t, at) == Live(t) /\ ~StaleAt(t, at)   \* variant: may go back
Touchable(t, at) == Live(t) /\ ~StaleAt(t, at) /\ TouchDue(t, at)

Touch(q) ==
  LET r == request[q] IN
  /\ r.op = "touch"
  /\ IF Touchable(r.token, r.at)
     THEN session' = [session EXCEPT ![r.token].seen = r.at]
     ELSE UNCHANGED session
  /\ request' = [request EXCEPT ![q].op = "admitted"]
  /\ UNCHANGED <<now, config, user, code>>

TouchBusy(q) ==
  /\ request[q].op = "touch"
  /\ request' = [request EXCEPT ![q].op = "admitted"]
  /\ UNCHANGED <<now, config, user, session, code>>

Logout(q) ==
  /\ request[q].op = "admitted"
  /\ session' = Without({request[q].token})
  /\ Ending(q)
  /\ UNCHANGED <<now, config, user, code>>

Revoke(q, t) ==
  /\ request[q].op = "admitted"
  /\ session' = Without(SessionsOf(request[q].user) \cap {t})
  /\ Ending(q)
  /\ UNCHANGED <<now, config, user, code>>

RevokeOthers(q) ==
  /\ request[q].op = "admitted"
  /\ session' = Without(SessionsOf(request[q].user) \ {request[q].token})
  /\ Ending(q)
  /\ UNCHANGED <<now, config, user, code>>

(* Any other operation of an admitted request, or the end of one whose     *)
(* password was wrong.                                                     *)
Answer(q) ==
  /\ request[q].op = "admitted"
  /\ Ending(q)
  /\ UNCHANGED <<now, config, user, session, code>>

-----------------------------------------------------------------------------
(* Changing a password, and resetting it with a code.                      *)

Replace(u, new) ==
  /\ user[u].version < MaxVersion
  /\ user' = [user EXCEPT ![u] = Changed(u, new, user[u].active, user[u].key)]
  /\ session' = Without(SessionsOf(u))
  /\ code' = WithoutCodes(CodesOf(u))

CheckChange(q, typed) ==
  LET r == request[q] IN
  /\ r.op = "admitted"
  /\ user[r.user].active /\ user[r.user].password = typed
  /\ request' = [request EXCEPT ![q] =
       [r EXCEPT !.op = "change", !.proved = typed, !.version = user[r.user].version]]
  /\ UNCHANGED <<now, config, user, session, code>>

WriteChange(q, new) ==
  LET r == request[q] IN
  /\ r.op = "change"
  /\ \/ Unchanged(r) /\ Replace(r.user, new)
     \/ ~Unchanged(r) /\ UNCHANGED <<user, session, code>>
  /\ Ending(q)
  /\ UNCHANGED <<now, config>>

Redeemable(c) == Outstanding(c) /\ code[c].expires > now

CheckReset(q, p, c) ==
  /\ request[q] = NoRequest /\ Redeemable(c)
  /\ request' = [request EXCEPT ![q] =
       [NoRequest EXCEPT !.op = "reset", !.process = p, !.code = c]]
  /\ UNCHANGED <<now, config, user, session, code>>

(* DELETE ... RETURNING claims the code, whatever the look-up found.       *)
ClaimableAsFound(c) == code[c].state # "fresh"    \* variant: the look-up decides
Claimable(c) == Redeemable(c)

WriteReset(q, new) ==
  LET c == request[q].code IN
  /\ request[q].op = "reset"
  /\ \/ Claimable(c) /\ Replace(code[c].user, new)
     \/ ~Claimable(c) /\ UNCHANGED <<user, session, code>>
  /\ Ending(q)
  /\ UNCHANGED <<now, config>>

-----------------------------------------------------------------------------
(* The administrator's commands, and processes.                            *)

(* Codes past their time go, and those of this user; the limit is then     *)
(* checked, and refuses everything together.                               *)
Others(u) == {d \in Codes : Redeemable(d) /\ code[d].user # u}
IssueCode(u, c) ==
  /\ code[c] = FreshCode
  /\ Cardinality(Others(u)) < CodeLimit
  /\ code' = [WithoutCodes(Codes \ Others(u)) EXCEPT ![c] =
       [state |-> "live", user |-> u, expires |-> now + CodeTime]]
  /\ UNCHANGED <<now, config, user, session, request>>

SetActive(u, active) ==
  /\ u = Owner => active
  /\ user[u].version < MaxVersion
  /\ user' = [user EXCEPT ![u] = Changed(u, user[u].password, active, user[u].key)]
  /\ session' = Without(SessionsOf(u))
  /\ code' = WithoutCodes(CodesOf(u))
  /\ UNCHANGED <<now, config, request>>

RevokeAll ==
  /\ \A u \in Users : user[u].version < MaxVersion
  /\ user' = [u \in Users |-> Changed(u, user[u].password, user[u].active, user[u].key)]
  /\ session' = Without(Tokens)
  /\ code' = WithoutCodes(Codes)
  /\ UNCHANGED <<now, config, request>>

(* A process starts, again perhaps: its requests are lost.  If its owner   *)
(* settings are not those the tables were last given, it gives them.       *)
KeptSessions(u) == {}                 \* variant: sessions outlive the settings
OwnerSessions(u) == SessionsOf(u)

Start(p, c) ==
  /\ config' = [config EXCEPT ![p] = c]
  /\ \/ /\ c # NoConfig /\ user[Owner].key # c
        /\ user[Owner].version < MaxVersion
        /\ user' = [user EXCEPT ![Owner] = Changed(Owner, Configured[c], user[Owner].active, c)]
        /\ session' = Without(OwnerSessions(Owner))
     \/ /\ c = NoConfig \/ user[Owner].key = c
        /\ UNCHANGED <<user, session>>
  /\ request' = [q \in Requests |-> IF request[q].process = p THEN NoRequest ELSE request[q]]
  /\ UNCHANGED <<now, code>>

Tick ==
  /\ now < LastTime
  /\ now' = now + 1
  /\ UNCHANGED <<config, user, session, code, request>>

-----------------------------------------------------------------------------
Init ==
  /\ now = 0
  /\ config = [p \in Processes |-> NoConfig]
  /\ \E chosen \in [Users \ {Owner} -> Passwords] :
       user = [u \in Users |-> [password |-> IF u = Owner THEN NoPassword ELSE chosen[u],
                                active |-> TRUE, version |-> 0, key |-> NoConfig]]
  /\ session = [t \in Tokens |-> FreshSession]
  /\ code = [c \in Codes |-> FreshCode]
  /\ request = [q \in Requests |-> NoRequest]

SessionRequest(q) ==
  \/ \E p \in Processes, u \in Users, typed \in Passwords, previous \in Tokens \cup {NoToken} :
       CheckLogin(q, p, u, typed, previous)
  \/ \E t \in Tokens, at \in 0..now, K \in SUBSET Tokens : WriteLogin(q, t, at, K)
  \/ RefuseLogin(q)
  \/ \E p \in Processes, t \in Tokens : Admit(q, p, t)
  \/ Touch(q) \/ TouchBusy(q) \/ Logout(q) \/ RevokeOthers(q) \/ Answer(q)
  \/ \E t \in Tokens : Revoke(q, t)

PasswordRequest(q) ==
  \/ \E typed \in Passwords : CheckChange(q, typed)
  \/ \E new \in Passwords : WriteChange(q, new) \/ WriteReset(q, new)
  \/ \E p \in Processes, c \in Codes : CheckReset(q, p, c)

Administration ==
  \/ \E u \in Users : \/ \E c \in Codes : IssueCode(u, c)
                      \/ \E active \in BOOLEAN : SetActive(u, active)
  \/ RevokeAll
  \/ \E p \in Processes, c \in Keys : Start(p, c)

Next ==
  \/ \E q \in Requests : SessionRequest(q) \/ PasswordRequest(q)
  \/ Administration
  \/ Tick

Spec == Init /\ [][Next]_vars

-----------------------------------------------------------------------------
(* Properties                                                              *)

(* A session lives only while the password that was proved for it is the   *)
(* user's, the user is enabled, and the owner's settings are those it was  *)
(* made under, though all three may change between proof and session       *)
(* (login, set_active, change_password, reset_password, initialize_auth).  *)
Current(t) ==
  LET s == session[t] IN
  /\ s.version = user[s.user].version /\ user[s.user].active
  /\ s.proved = user[s.user].password
  /\ s.user = Owner => s.key = user[Owner].key
SessionsAreCurrent == \A t \in Tokens : Live(t) => Current(t)

(* Logins side by side keep to the limit of sessions, one code at most is  *)
(* outstanding for a user, and all of them keep to their limit.            *)
LimitsHold ==
  /\ \A u \in Users : Cardinality(SessionsOf(u)) <= SessionLimit /\ Cardinality(CodesOf(u)) <= 1
  /\ Cardinality({c \in Codes : Outstanding(c)}) <= CodeLimit

(* A late refresh of last_seen never brings a session back, puts off its   *)
(* expiry or turns its last_seen back (session, against revocation).       *)
RefreshIsHarmless ==
  [][\A t \in Tokens :
       /\ session[t].state = "ended" => session'[t].state = "ended"
       /\ Live(t) => /\ session'[t].expires = session[t].expires
                     /\ session'[t].seen >= session[t].seen]_vars

(* A password changes only by a code that is outstanding and in time until *)
(* that very step and is spent by it, by a request that proved the         *)
(* password it replaces, or by new settings of the owner.                  *)
ByCode(u) == \E c \in CodesOf(u) : code[c].expires > now /\ code'[c].state = "ended"
ByProof(u) == \E q \in Requests :
                /\ request[q].op = "change" /\ request[q].user = u
                /\ request[q].proved = user[u].password
BySettings(u) == u = Owner /\ user'[u].key # user[u].key
PasswordChangesAreProved ==
  [][\A u \in Users : user'[u].password # user[u].password =>
       ByCode(u) \/ ByProof(u) \/ BySettings(u)]_vars

(* Why these hold: what a request proved is still so as long as the        *)
(* version it read is the user's, for versions only grow.                  *)
Remembers(r) ==
  /\ r.version <= user[r.user].version
  /\ r.version = user[r.user].version =>
       /\ r.proved = user[r.user].password
       /\ user[r.user].active
       /\ r.op = "login" /\ r.user = Owner => config[r.process] = user[Owner].key
RequestsRemember ==
  \A q \in Requests : request[q].op \in {"login", "change"} => Remembers(request[q])
CredentialsInv == TypeOK /\ SessionsAreCurrent /\ RequestsRemember

(* The tables keep what signing in promises.                               *)
Promise == INSTANCE SignInPromise WITH
  password <- [u \in Users |-> user[u].password],
  enabled <- [u \in Users |-> user[u].active],
  grant <- [t \in Tokens |-> [state |-> session[t].state, user |-> session[t].user,
                              proved |-> session[t].proved]]
KeepsPromise == Promise!PromiseSpec
============================================================================
