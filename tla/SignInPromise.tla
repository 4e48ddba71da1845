--------------------------- MODULE SignInPromise ---------------------------
(***************************************************************************)
(* What signing in promises a user: a grant is given only on the password  *)
(* the user has at that moment, to a user who is enabled at that moment;   *)
(* it ends no later than either changes; and once ended it never returns.  *)
(* There are no requests, processes, versions or clocks here.              *)
(***************************************************************************)
CONSTANTS Users, Tokens, Secrets

VARIABLES password,   \* [Users -> Secrets]
          enabled,    \* [Users -> BOOLEAN]
          grant       \* [Tokens -> Grant]

promiseVars == <<password, enabled, grant>>

Grant == [state : {"fresh", "live", "ended"}, user : Users, proved : Secrets]
Held(u) == {t \in Tokens : grant[t].state = "live" /\ grant[t].user = u}

(* The grants of E end, if they had not, and no other changes.             *)
EndedOnly(E) ==
  \A t \in Tokens :
    \/ grant'[t] = grant[t]
    \/ t \in E /\ grant[t].state = "live" /\ grant'[t] = [grant[t] EXCEPT !.state = "ended"]

PromiseInit ==
  /\ password \in [Users -> Secrets]
  /\ enabled \in [Users -> BOOLEAN]
  /\ grant \in [Tokens -> Grant] /\ \A t \in Tokens : grant[t].state = "fresh"

SignIn(t, u) ==
  /\ enabled[u] /\ grant[t].state = "fresh"
  /\ grant'[t] = [state |-> "live", user |-> u, proved |-> password[u]]
  /\ \A s \in Tokens \ {t} :
       \/ grant'[s] = grant[s]
       \/ grant[s].state = "live" /\ grant'[s] = [grant[s] EXCEPT !.state = "ended"]
  /\ UNCHANGED <<password, enabled>>

SignOut ==
  /\ EndedOnly(Tokens)
  /\ UNCHANGED <<password, enabled>>

(* Credentials change, and with them end all grants of their users.        *)
Renew(U) ==
  /\ \A u \in Users \ U : password'[u] = password[u] /\ enabled'[u] = enabled[u]
  /\ EndedOnly(Tokens)
  /\ \A u \in U : \A t \in Held(u) : grant'[t].state = "ended"

PromiseNext ==
  \/ \E t \in Tokens, u \in Users : SignIn(t, u)
  \/ SignOut
  \/ \E U \in SUBSET Users : Renew(U)

PromiseSpec == PromiseInit /\ [][PromiseNext]_promiseVars
============================================================================
