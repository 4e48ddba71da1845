---------------------------- MODULE Identities ----------------------------
(***************************************************************************)
(* Who a name stands for: registration, changes of the profile and the     *)
(* owner's name from the settings, over the tables of users and of their   *)
(* Main Accounts, and the lookup a sign-in begins with.  A request looks    *)
(* names up, works on a password, and writes only then.                    *)
(***************************************************************************)
EXTENDS Naturals, FiniteSets

CONSTANTS
  Users, Owner,            \* ids of users; the first one is the owner's
  Usernames, Emails,       \* keys without and with an @, case folded
  OwnerNames,              \* names the owner is given by OWNER_USERNAME
  Passwords,
  Requests,                \* requests that may be under way at once
  Nothing,                 \* no name, nobody
  MaxVersion               \* bound: changes of credentials per user

(* What is assumed of the constants.                                       *)
NameAssumption == /\ Usernames \cap Emails = {}
                  /\ Nothing \notin Usernames \cup Emails \cup Users \cup Requests
                  /\ OwnerNames \subseteq Usernames \cup Emails
UserAssumption == Owner \in Users /\ MaxVersion \in Nat /\ Passwords # {}

VARIABLES
  user,       \* the table of users: [Users -> Row]
  main,       \* the users that have a Main Account
  setting,    \* what the process started with: the owner's name, registration open;
              \* and, not in the code, whether the owner was ever renamed
  request,    \* [Requests -> Request]
  writer      \* the request whose transaction has written and not committed

vars == <<user, main, setting, request, writer>>

-----------------------------------------------------------------------------
Names == Usernames \cup Emails
Row == [exists : BOOLEAN, username : Names \cup {Nothing}, email : Emails \cup {Nothing},
        password : Passwords, active : BOOLEAN, version : Nat]
Request == [stage : {"none", "register", "inserted", "proved", "done", "refused"},
            username : Usernames \cup {Nothing}, email : Emails \cup {Nothing},
            user : Users \cup {Nothing}, password : Passwords, version : Nat]

APassword == CHOOSE p \in Passwords : TRUE
NoRow == [exists |-> FALSE, username |-> Nothing, email |-> Nothing,
          password |-> APassword, active |-> TRUE, version |-> 0]
NoRequest == [stage |-> "none", username |-> Nothing, email |-> Nothing,
              user |-> Nothing, password |-> APassword, version |-> 0]

TypeOK ==
  /\ user \in [Users -> Row] /\ main \in SUBSET Users
  /\ setting \in [owner : OwnerNames, open : BOOLEAN, renamed : BOOLEAN]
  /\ request \in [Requests -> Request]
  /\ writer \in Requests \cup {Nothing}

HasUsername(n) == {u \in Users : user[u].username = n}
HasEmail(e) == {u \in Users : user[u].email = e}

(* The row a sign-in with this identifier finds (login): an identifier     *)
(* with an @ is an email, unless it is the owner's name.                   *)
Found(n) == IF n \in Emails /\ n # setting.owner THEN HasEmail(n) ELSE HasUsername(n)

To(q, r) == request' = [request EXCEPT ![q] = r]

-----------------------------------------------------------------------------
(* Registration                                                            *)

TakenByNameOnly(n, e) == HasUsername(n) # {}       \* variant: emails are looked up by nobody
Taken(n, e) == HasUsername(n) \cup HasUsername(e) \cup HasEmail(e) # {}

CheckRegistration(q, n, e, p) ==
  /\ request[q].stage = "none" /\ setting.open
  /\ To(q, IF Taken(n, e) THEN [NoRequest EXCEPT !.stage = "refused"]
           ELSE [NoRequest EXCEPT !.stage = "register", !.username = n, !.email = e, !.password = p])
  /\ UNCHANGED <<user, main, setting, writer>>

(* The unique indexes of users speak when the row is inserted; the row is  *)
(* nobody else's to see until its transaction commits.                     *)
UniqueByName(r) == HasUsername(r.username) = {}    \* variant: no index on emails
Unique(r) == HasUsername(r.username) = {} /\ HasEmail(r.email) = {}
NewRow(r) == [exists |-> TRUE, username |-> r.username, email |-> r.email,
              password |-> r.password, active |-> TRUE, version |-> 0]
InsertAndCommit(q, u) ==                           \* variant: the user is committed first
  /\ user' = [user EXCEPT ![u] = NewRow(request[q])]
  /\ UNCHANGED main
Insert(q, u) == UNCHANGED <<user, main>>

InsertUser(q) ==
  LET r == request[q] IN
  /\ r.stage = "register" /\ writer = Nothing
  /\ \/ /\ Unique(r)
        /\ \E u \in Users :
             /\ ~user[u].exists
             /\ Insert(q, u)
             /\ To(q, [r EXCEPT !.stage = "inserted", !.user = u])
             /\ writer' = q
     \/ /\ ~Unique(r)
        /\ To(q, [NoRequest EXCEPT !.stage = "refused"])
        /\ UNCHANGED <<user, main, writer>>
  /\ UNCHANGED setting

(* The account waits for the ledger's writer; then both are committed.     *)
InsertAccount(q) ==
  LET r == request[q] IN
  /\ r.stage = "inserted"
  /\ user' = [user EXCEPT ![r.user] = NewRow(r)]
  /\ main' = main \cup {r.user}
  /\ writer' = Nothing
  /\ To(q, [r EXCEPT !.stage = "done"])
  /\ UNCHANGED setting

(* The ledger's writer did not come free in time, or the process died.     *)
GiveUp(q) ==
  /\ request[q].stage \in {"register", "inserted", "proved"}
  /\ To(q, NoRequest)
  /\ writer' = IF writer = q THEN Nothing ELSE writer
  /\ UNCHANGED <<user, main, setting>>

(* Changes of the profile: the password is proved, then the row is written.*)
ProveChange(q, u, e) ==
  /\ request[q].stage = "none"
  /\ user[u].exists /\ user[u].active
  /\ To(q, [NoRequest EXCEPT !.stage = "proved", !.user = u, !.email = e,
                             !.password = user[u].password, !.version = user[u].version])
  /\ UNCHANGED <<user, main, setting, writer>>

FreeOfEmails(u, e) == HasEmail(e) \subseteq {u}    \* variant: names are not looked at
FreeFor(u, e) == HasUsername(e) \cup HasEmail(e) \subseteq {u}
SameIfActive(r) == user[r.user].active             \* variant: without the version
Same(r) == user[r.user].active /\ user[r.user].version = r.version

WriteProfile(q) ==
  LET r == request[q] IN
  /\ r.stage = "proved" /\ writer = Nothing
  /\ IF FreeFor(r.user, r.email) /\ Same(r)
     THEN /\ user' = [user EXCEPT ![r.user].email = r.email]
          /\ To(q, [r EXCEPT !.stage = "done"])
     ELSE To(q, [NoRequest EXCEPT !.stage = "refused"]) /\ UNCHANGED user
  /\ UNCHANGED <<main, setting, writer>>

(* The answer is the profile read anew: a user disabled since has none.    *)
Answer(q) ==
  /\ request[q].stage \in {"done", "refused"}
  /\ To(q, NoRequest)
  /\ UNCHANGED <<user, main, setting, writer>>

-----------------------------------------------------------------------------
(* What else changes the table of users: passwords changed or reset, users *)
(* disabled and enabled, and the start of a process.                       *)

ReplacePassword(u, p) ==
  /\ writer = Nothing /\ user[u].exists /\ user[u].version < MaxVersion
  /\ user' = [user EXCEPT ![u].password = p, ![u].version = @ + 1]
  /\ UNCHANGED <<main, setting, request, writer>>

SetActive(u, b) ==
  /\ writer = Nothing /\ user[u].exists /\ (u = Owner => b) /\ user[u].version < MaxVersion
  /\ user' = [user EXCEPT ![u].active = b, ![u].version = @ + 1]
  /\ UNCHANGED <<main, setting, request, writer>>

(* A name that a member has is refused by the index, and the process does  *)
(* not start; what was under way ended with the process before.            *)
SeedableAlways(n) == TRUE                           \* variant: the name is taken over
Seedable(n) == HasUsername(n) \subseteq {Owner}
Start(n, open) ==
  /\ n # setting.owner \/ open # setting.open
  /\ Seedable(n)
  /\ n # setting.owner => user[Owner].version < MaxVersion
  /\ setting' = [owner |-> n, open |-> open, renamed |-> setting.renamed \/ n # setting.owner]
  /\ user' = IF n = user[Owner].username THEN user
             ELSE [user EXCEPT ![Owner].username = n, ![Owner].version = @ + 1]
  /\ request' = [q \in Requests |-> NoRequest] /\ writer' = Nothing
  /\ UNCHANGED main

Init ==
  /\ setting \in [owner : OwnerNames, open : {TRUE}, renamed : {FALSE}]
  /\ user = [u \in Users |-> IF u # Owner THEN NoRow
               ELSE [NoRow EXCEPT !.exists = TRUE, !.username = setting.owner]]
  /\ main = {Owner}
  /\ request = [q \in Requests |-> NoRequest]
  /\ writer = Nothing

Next ==
  \/ \E q \in Requests :
       \/ \E n \in Usernames, e \in Emails, p \in Passwords : CheckRegistration(q, n, e, p)
       \/ InsertUser(q) \/ InsertAccount(q) \/ GiveUp(q)
       \/ \E u \in Users, e \in Emails : ProveChange(q, u, e)
       \/ WriteProfile(q) \/ Answer(q)
  \/ \E u \in Users : \/ \E p \in Passwords : ReplacePassword(u, p)
                      \/ \E b \in BOOLEAN : SetActive(u, b)
  \/ \E n \in OwnerNames, open \in BOOLEAN : Start(n, open)

Spec == Init /\ [][Next]_vars

-----------------------------------------------------------------------------
(* Properties                                                              *)

(* Login accepts username or email (docs/user-accounts.md:16): either      *)
(* leads to the user who has it and to nobody else, although one table of  *)
(* names is looked up for the other and the checks of a registration are   *)
(* old when it writes (register, update_profile, login).  Not so a         *)
(* member's email that the owner is renamed to (initialize_auth).          *)
NeverRenamed == ~setting.renamed
UsernamesLeadHome ==
  \A u \in Users : user[u].username # Nothing => Found(user[u].username) = {u}
EmailsLeadHome ==
  \A u \in Users : user[u].email # Nothing /\ (NeverRenamed \/ user[u].email # setting.owner)
                     => Found(user[u].email) = {u}

(* A user and the Main Account come together or not at all, whoever is     *)
(* refused, gives up or dies between the two inserts (register).           *)
UsersHaveAccounts == {u \in Users : user[u].exists} = main

(* An email changes only when the password proved for it is still the      *)
(* user's, and while the user is enabled (update_profile).                 *)
ProfileChangesAreProved ==
  [][\A u \in Users : user[u].exists /\ user'[u].email # user[u].email =>
       /\ user[u].active
       /\ \E q \in Requests : /\ request[q].stage = "proved" /\ request[q].user = u
                              /\ request[q].password = user[u].password]_vars

NamesHold == UsernamesLeadHome /\ EmailsLeadHome /\ UsersHaveAccounts

(* Why the above hold (the inductive invariant of the proofs): no two      *)
(* users share a name; what a request looked up and still relies on is so, *)
(* or the index says otherwise; and a password that was proved is known by *)
(* its version.                                                            *)
NamesAreUnique ==
  /\ \A u, v \in Users :
       /\ user[u].username = user[v].username /\ user[u].username # Nothing => u = v
       /\ user[u].email = user[v].email /\ user[u].email # Nothing => u = v
  /\ \A u \in Users \ {Owner} : user[u].username \in Usernames \cup {Nothing}
  /\ user[Owner].exists /\ user[Owner].username = setting.owner
EmailsAreNoNames ==
  /\ \A u, v \in Users :
       user[u].email = user[v].username /\ user[u].email # Nothing => u = v
  /\ \A q \in Requests :
       request[q].stage \in {"register", "inserted"} => request[q].email # setting.owner
RequestHolds(q, r) ==
  /\ r.stage = "inserted" <=> writer = q
  /\ r.stage \in {"register", "inserted"} => r.username \in Usernames /\ r.email \in Emails
  /\ r.stage = "inserted" => r.user \in Users /\ ~user[r.user].exists /\ Unique(r)
  /\ r.stage = "proved" =>
       /\ r.user \in Users /\ user[r.user].exists /\ r.email \in Emails
       /\ r.version <= user[r.user].version
       /\ r.version = user[r.user].version => r.password = user[r.user].password
IdentityInv ==
  /\ TypeOK /\ UsersHaveAccounts /\ NamesAreUnique /\ (NeverRenamed => EmailsAreNoNames)
  /\ \A q \in Requests : RequestHolds(q, request[q])
=============================================================================
