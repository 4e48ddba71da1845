---------------------------- MODULE StatementPage ----------------------------
(***************************************************************************)
(* The reconciliation view of the browser (views/reconciliation.js): what  *)
(* handlers do between their awaits, with answers that come late, out of   *)
(* order or not at all.  requestId is kept as the mark `mine` of the       *)
(* handlers that started last; the account list, the totals and the texts  *)
(* are left out, and a page of entries is one mark.                        *)
(***************************************************************************)
EXTENDS Naturals

CONSTANTS
  Accounts,
  MaxId, Pages,              \* bounds: statements made; pages of a statement
  Slots,                     \* bound: handlers that wait at one time
  None

VARIABLES
  server,       \* by id: None or [account, status, cleared]
  selected,     \* the account of the selector
  active,       \* the statement shown: None or [id, account, status, page, cleared]
  listed,       \* the statements with a button
  creating,     \* is the form for a new one shown
  index,        \* pageIndex
  busy, inert,
  tasks         \* the handlers that wait

vars == <<server, selected, active, listed, creating, index, busy, inert, tasks>>
page == <<selected, active, listed, creating, index, busy, inert>>

-----------------------------------------------------------------------------
Ids == 1..MaxId
Writes == {"create", "toggle", "complete", "cancel"}
Statement == [account : Accounts, status : {"draft", "completed"}, cleared : SUBSET (1..Pages)]
Snapshot == [id : Ids, account : Accounts, status : {"draft", "completed"},
             page : 1..Pages, cleared : BOOLEAN]
Awaits == Writes \cup {"accounts", "list", "get"}
Answer(at) == CASE at = "accounts" -> {"accounts"} [] at = "cancel" -> {"none"}
                [] at = "list" -> SUBSET Ids [] OTHER -> Snapshot
Handler(at) == [kind : {"load", "show", "turn", "mutate"}, at : {at}, mine : BOOLEAN, id : Ids,
                page : 1..Pages, sent : BOOLEAN, answer : {None} \cup Answer(at)]

(* What is assumed of the constants.                                       *)
BoundsAssumption == {MaxId, Pages, Slots} \subseteq Nat \ {0}
NoneAssumption ==
  None \notin Statement /\ None \notin Snapshot /\ \A at \in Awaits : None \notin Handler(at)

TypeOK ==
  /\ server \in [Ids -> Statement \cup {None}] /\ selected \in Accounts
  /\ active \in Snapshot \cup {None} /\ listed \subseteq Ids /\ index \in 1..Pages
  /\ {creating, busy, inert} \subseteq BOOLEAN
  /\ DOMAIN tasks = 1..Slots
  /\ \A k \in 1..Slots : tasks[k] # None => tasks[k].at \in Awaits /\ tasks[k] \in Handler(tasks[k].at)

Draft(a) == {i \in Ids : server[i] # None /\ server[i].account = a /\ server[i].status = "draft"}
Read(sv, i, p) ==
  IF sv[i] = None THEN None
  ELSE [id |-> i, account |-> sv[i].account, status |-> sv[i].status,
        page |-> p, cleared |-> p \in sv[i].cleared]

Free == {k \in 1..Slots : tasks[k] = None}
Task(kind, at, i, p) ==
  [kind |-> kind, at |-> at, mine |-> TRUE, id |-> i, page |-> p, answer |-> None, sent |-> TRUE]
NotBumped(t) == t                               \* variant: ++requestId forgotten
Bumped(t) == IF t = None THEN None ELSE [t EXCEPT !.mine = FALSE]
(* A handler starts: the ones before it are no longer the last.            *)
StartTask(t) ==
  tasks' = [[l \in 1..Slots |-> Bumped(tasks[l])] EXCEPT ![CHOOSE k \in Free : TRUE] = t]

(* The handler goes on to another await, or ends.                          *)
Goes(k, at, i, p) ==
  tasks' = [tasks EXCEPT ![k].at = at, ![k].id = i, ![k].page = p,
                         ![k].answer = None, ![k].sent = TRUE]
Ends(k) == tasks' = [tasks EXCEPT ![k] = None]

(* render: another statement begins at its first page.                     *)
Render(s) ==
  /\ active' = s
  /\ index' = IF s = None \/ active = None \/ (s # None /\ active # None /\ active.id # s.id)
              THEN 1 ELSE index
RenderFirst(s) == active' = s /\ index' = 1

-----------------------------------------------------------------------------
(* What the user does.  A body that is inert takes no clicks.              *)
NeverBusy == FALSE                              \* variant: if (busy) return forgotten
Occupied == busy
Load ==
  /\ Free # {} /\ ~Occupied
  /\ \E a \in Accounts : selected' = a /\ (busy => a = selected)
  /\ StartTask(Task("load", "accounts", 1, 1))
  /\ inert' = TRUE /\ creating' = FALSE /\ listed' = {} /\ RenderFirst(None)
  /\ UNCHANGED <<server, busy>>

Clickable == ~inert /\ ~busy /\ Free # {}

Show(i) ==
  /\ Clickable /\ i \in listed
  /\ StartTask(Task("show", "get", i, 1))
  /\ UNCHANGED <<server, page>>

Blocks(t) == StartTask(t) /\ busy' = TRUE /\ inert' = TRUE
             /\ UNCHANGED <<server, selected, active, listed, creating, index>>

Turn(p) ==
  /\ Clickable /\ active # None /\ p \in {index - 1, index + 1} \cap 1..Pages
  /\ Blocks(Task("turn", "get", active.id, p))

Mutate(op) ==
  /\ Clickable
  /\ IF op = "create" THEN creating ELSE active # None /\ active.status = "draft"
  /\ Blocks([Task("mutate", op, IF active = None THEN 1 ELSE active.id, index) EXCEPT !.at = op])

-----------------------------------------------------------------------------
(* The server.                                                             *)
Write(t) ==
  CASE t.at = "create" /\ Draft(selected) = {} /\ (\E i \in Ids : server[i] = None) ->
         [server EXCEPT ![CHOOSE i \in Ids : server[i] = None] =
            [account |-> selected, status |-> "draft", cleared |-> {}]]
    [] t.at = "toggle" /\ t.id \in Draft(selected) ->
         [server EXCEPT ![t.id].cleared = IF t.page \in @ THEN @ \ {t.page} ELSE @ \cup {t.page}]
    [] t.at = "complete" /\ t.id \in Draft(selected) ->
         [server EXCEPT ![t.id].status = "completed"]
    [] t.at = "cancel" /\ t.id \in Draft(selected) -> [server EXCEPT ![t.id] = None]
    [] OTHER -> server

(* The answer to a write: what it made, or what is left of it.             *)
Made(t) ==
  CASE t.at = "create" ->
         LET i == CHOOSE i \in Ids : server'[i] # server[i] IN Read(server', i, 1)
    [] t.at = "toggle" -> Read(server', t.id, t.page)
    [] t.at = "complete" -> Read(server', t.id, 1)
    [] t.at = "cancel" -> "none"

Serve(k) ==
  /\ tasks[k] # None /\ tasks[k].sent
  /\ LET t == tasks[k]
     IN /\ server' = IF t.at \in Writes THEN Write(t) ELSE server
        /\ tasks' = [tasks EXCEPT ![k].sent = FALSE, ![k].answer =
             CASE t.at = "accounts" -> "accounts"
               [] t.at = "list" -> {i \in Ids : server[i] # None /\ server[i].account = selected}
               [] t.at = "get" -> Read(server, t.id, t.page)
               [] t.at \in Writes /\ server' # server -> Made(t)
               [] OTHER -> None]
  /\ UNCHANGED page

-----------------------------------------------------------------------------
(* Answers.                                                                *)
Answered(k, kind, at) ==
  tasks[k] # None /\ tasks[k].kind = kind /\ tasks[k].at = at
  /\ ~tasks[k].sent /\ tasks[k].answer # None
(* A request fails before or after the server has done it, or is refused.  *)
Failed(k, kind) == tasks[k] # None /\ tasks[k].kind = kind

AnyTask(k) == TRUE                              \* variant: no token comparison
Last(k) == tasks[k].mine

LoadAccounts(k) ==
  /\ Answered(k, "load", "accounts")
  /\ IF Last(k) THEN Goes(k, "list", 1, 1) /\ RenderFirst(None)
     ELSE Ends(k) /\ UNCHANGED <<active, index>>
  /\ UNCHANGED <<server, selected, listed, creating, busy, inert>>

(* history: the buttons, and the form if the account has no draft.         *)
Lists(ids) == listed' = ids /\ creating' = (\A i \in ids : server[i] = None \/ server[i].status # "draft")

LoadList(k) ==
  /\ Answered(k, "load", "list")
  /\ IF ~Last(k) THEN Ends(k) /\ UNCHANGED <<listed, creating, inert>>
     ELSE /\ Lists(tasks[k].answer)
          /\ IF tasks[k].answer \cap Draft(selected) = {} THEN Ends(k) /\ inert' = FALSE
             ELSE /\ Goes(k, "get", CHOOSE i \in tasks[k].answer \cap Draft(selected) : TRUE, 1)
                  /\ UNCHANGED inert
  /\ UNCHANGED <<server, selected, active, index, busy>>

LoadDraft(k) ==
  /\ Answered(k, "load", "get")
  /\ IF Last(k) THEN Render(tasks[k].answer) /\ inert' = FALSE
     ELSE UNCHANGED <<active, index, inert>>
  /\ Ends(k)
  /\ UNCHANGED <<server, selected, listed, creating, busy>>

NoFinally(k) == inert                           \* variant: unlocked only on success
Unlocked(k) == IF Last(k) THEN FALSE ELSE inert
LoadFails(k) ==
  /\ Failed(k, "load")
  /\ inert' = Unlocked(k)
  /\ Ends(k)
  /\ UNCHANGED <<server, selected, active, listed, creating, index, busy>>

Shown(k) ==
  /\ Answered(k, "show", "get")
  /\ IF Last(k) THEN RenderFirst(tasks[k].answer) ELSE UNCHANGED <<active, index>>
  /\ Ends(k)
  /\ UNCHANGED <<server, selected, listed, creating, busy, inert>>

ShowFails(k) == Failed(k, "show") /\ Ends(k) /\ UNCHANGED <<server, page>>

Unblocks == busy' = FALSE /\ inert' = FALSE

Turned(k) ==
  /\ Answered(k, "turn", "get")
  /\ IF Last(k) THEN active' = tasks[k].answer /\ index' = tasks[k].page ELSE UNCHANGED <<active, index>>
  /\ Ends(k) /\ Unblocks
  /\ UNCHANGED <<server, selected, listed, creating>>

TurnFails(k) ==
  Failed(k, "turn") /\ Ends(k) /\ Unblocks /\ UNCHANGED <<server, selected, active, listed, creating, index>>

(* After a write the statement it answered is shown and the list asked for.*)
Mutated(k) ==
  /\ tasks[k] # None /\ tasks[k].at \in Writes /\ Answered(k, "mutate", tasks[k].at)
  /\ IF tasks[k].at = "cancel" THEN Render(None)
     ELSE IF tasks[k].at = "complete" THEN RenderFirst(tasks[k].answer) ELSE Render(tasks[k].answer)
  /\ Goes(k, "list", tasks[k].id, tasks[k].page)
  /\ UNCHANGED <<server, selected, listed, creating, busy, inert>>

MutatedList(k) ==
  /\ Answered(k, "mutate", "list")
  /\ Lists(tasks[k].answer)
  /\ Ends(k) /\ Unblocks
  /\ UNCHANGED <<server, selected, active, index>>

(* A write or the list fails: the statement shown is asked for again.      *)
ShrugsOff(k) == Ends(k) /\ Unblocks /\ UNCHANGED <<active, index>>  \* variant: no second look
LooksAgain(k) ==
  IF active = None THEN Ends(k) /\ Unblocks /\ UNCHANGED <<active, index>>
  ELSE Goes(k, "get", active.id, index) /\ UNCHANGED <<active, index, busy, inert>>
MutateFails(k) ==
  /\ Failed(k, "mutate") /\ tasks[k].at # "get"
  /\ LooksAgain(k)
  /\ UNCHANGED <<server, selected, listed, creating>>

Again(k) ==
  /\ tasks[k] # None /\ tasks[k].kind = "mutate" /\ tasks[k].at = "get"
  /\ IF Answered(k, "mutate", "get") THEN Render(tasks[k].answer) ELSE Render(None)
  /\ Ends(k) /\ Unblocks
  /\ UNCHANGED <<server, selected, listed, creating>>

Init ==
  /\ server \in [Ids -> Statement \cup {None}]
  /\ \A i \in Ids : server[i] # None => server[i].cleared = {} /\ (i > 1 => server[i-1] # None)
  /\ \A i, j \in Ids : i # j /\ server[i] # None /\ server[j] # None
                       /\ server[i].account = server[j].account => server[i].status = "completed"
                                                                     \/ server[j].status = "completed"
  /\ selected \in Accounts
  /\ active = None /\ listed = {} /\ creating = FALSE /\ index = 1
  /\ busy = FALSE /\ inert = FALSE /\ tasks = [k \in 1..Slots |-> None]

Next ==
  \/ Load \/ \E i \in Ids : Show(i) \/ \E p \in 1..Pages : Turn(p)
  \/ \E op \in Writes : Mutate(op)
  \/ \E k \in 1..Slots :
       \/ Serve(k)
       \/ LoadAccounts(k) \/ LoadList(k) \/ LoadDraft(k) \/ LoadFails(k)
       \/ Shown(k) \/ ShowFails(k) \/ Turned(k) \/ TurnFails(k)
       \/ Mutated(k) \/ MutatedList(k) \/ MutateFails(k) \/ Again(k)

Spec == Init /\ [][Next]_vars

-----------------------------------------------------------------------------
(* What can be clicked belongs to the account that is selected, and the    *)
(* page that is shown is the page that "next" counts from.                 *)
ShownIsSelected ==
  /\ ~inert /\ active # None => active.account = selected
  /\ ~inert => \A i \in listed : server[i] = None \/ server[i].account = selected
  /\ ~busy /\ active # None => active.page = index

(* When nothing is on its way the statement shown is the server's, marks   *)
(* and status, although writes are refused, fail half-way and overtake     *)
(* readings: "server state stays authoritative" (reconciliation.js:112).   *)
ServerIsAuthority ==
  /\ \A k \in 1..Slots : tasks[k] = None
  /\ active # None
  => active = Read(server, active.id, active.page)

(* The page never stays locked: whoever locked it is still on its way.     *)
LockedBySomebody ==
  /\ inert => \E k \in 1..Slots : tasks[k] # None /\ (busy \/ (tasks[k].kind = "load" /\ tasks[k].mine))
  /\ busy => \E k \in 1..Slots : tasks[k] # None /\ tasks[k].kind \in {"turn", "mutate"}

(* One write at a time, about the statement that is shown.                 *)
OneWrite ==
  \A k \in 1..Slots : tasks[k] # None /\ tasks[k].at \in Writes \ {"create"} /\ tasks[k].sent =>
    active # None /\ active.id = tasks[k].id /\ active.page = tasks[k].page
=============================================================================
