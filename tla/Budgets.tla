------------------------------- MODULE Budgets -------------------------------
(***************************************************************************)
(* Budgets: saving one under a category takes over the budget the category *)
(* has, whatever its month; saving and reading the answer are two commits  *)
(* of one request, which keeps the month it began in.  Limits and what was *)
(* spent are left out: no decision depends on them.                        *)
(***************************************************************************)
EXTENDS Naturals, FiniteSets

CONSTANTS
  Clients, Owner(_),         \* each has one request at a time, of its user
  Categories,
  MaxId, LastMonth,          \* bounds: budgets made, months
  None

ASSUME BoundsAssumption == {MaxId, LastMonth} \subseteq Nat \ {0}

VARIABLES
  budgets,      \* by id: None or [user, category, month]
  given,        \* the highest id given
  month,        \* the month the clock tells
  req           \* each client's request: None or its fields

vars == <<budgets, given, month, req>>

-----------------------------------------------------------------------------
Users == {Owner(c) : c \in Clients}
Ids == 1..MaxId
Months == 1..LastMonth
Budget == [user : Users, category : Categories, month : Months]
Steps == {"write", "read", "answered", "missing", "conflict", "failed"}
Request == [kind : {"create", "update", "delete", "list"}, month : Months, id : 0..MaxId,
            category : Categories \cup {None}, step : Steps, taken : BOOLEAN, seen : SUBSET Ids]

ASSUME NoneAssumption == None \notin Budget /\ None \notin Request /\ None \notin Categories

TypeOK ==
  /\ budgets \in [Ids -> Budget \cup {None}] /\ given \in 0..MaxId
  /\ month \in Months /\ req \in [Clients -> Request \cup {None}]

Own(c, i) == i \in Ids /\ budgets[i] # None /\ budgets[i].user = Owner(c)
OfCategory(u, cat) == {i \in Ids : budgets[i] # None /\ budgets[i].user = u
                                    /\ budgets[i].category = cat}

(* The request's month (variant: the clock's, at each use).                *)
ClockMonth(c) == month
MonthOf(c) == req[c].month

(* usage: the user's budgets of the month.                                 *)
Usage(c) == {i \in Ids : Own(c, i) /\ budgets[i].month = MonthOf(c)}

(* What others do to a budget between a request's commit and its reading.  *)
Takes(c, d, i) == d # c /\ i \in Ids /\ req[d] # None /\ req[d].step = "read" /\ req[d].id = i
                  /\ (budgets'[i] = None \/ budgets'[i].month # req[d].month)
Went(c, step, i, seen) ==
  req' = [d \in Clients |->
            IF d = c THEN [req[c] EXCEPT !.step = step, !.id = i, !.category = None, !.seen = seen]
            ELSE IF Takes(c, d, i) THEN [req[d] EXCEPT !.taken = TRUE] ELSE req[d]]

-----------------------------------------------------------------------------
Begin(c) ==
  /\ req[c] = None
  /\ \E kind \in {"create", "update", "delete", "list"} :
     \E i \in IF kind \in {"update", "delete"} THEN 1..given ELSE {0},
        cat \in IF kind \in {"create", "update"} THEN Categories ELSE {None} :
       req' = [req EXCEPT ![c] =
         [kind |-> kind, month |-> month, category |-> cat, taken |-> FALSE, seen |-> {},
          id |-> i, step |-> IF kind = "list" THEN "read" ELSE "write"]]
  /\ UNCHANGED <<budgets, given, month>>

Writes(c, kind) == req[c] # None /\ req[c].kind = kind /\ req[c].step = "write"
Saved(c) == [user |-> Owner(c), category |-> req[c].category, month |-> MonthOf(c)]

Insert(c) ==
  /\ Writes(c, "create") /\ OfCategory(Owner(c), req[c].category) = {} /\ given < MaxId
  /\ given' = given + 1
  /\ budgets' = [budgets EXCEPT ![given'] = Saved(c)]
  /\ Went(c, "read", given', {})
  /\ UNCHANGED month

(* Variant: INSERT OR REPLACE, the old row deleted for the new one.        *)
TakeOverReplacing(c, i) ==
  /\ given < MaxId
  /\ given' = given + 1
  /\ budgets' = [budgets EXCEPT ![i] = None, ![given'] = Saved(c)]
  /\ Went(c, "read", given', {})
TakeOver(c, i) ==
  /\ budgets' = [budgets EXCEPT ![i] = Saved(c)]
  /\ Went(c, "read", i, {})
  /\ UNCHANGED given

Upsert(c) ==
  /\ Writes(c, "create")
  /\ \E i \in OfCategory(Owner(c), req[c].category) : TakeOver(c, i)
  /\ UNCHANGED month

(* An update finds no budget, or a category that another one has, perhaps  *)
(* one of another month that no list shows.                                *)
FoundAnyones(c) == req[c].id \in Ids /\ budgets[req[c].id] # None   \* variant: no user_id=?
Found(c) == Own(c, req[c].id)
Update(c) ==
  /\ Writes(c, "update")
  /\ IF ~Found(c) THEN UNCHANGED budgets /\ Went(c, "missing", req[c].id, {})
     ELSE IF OfCategory(Owner(c), req[c].category) \subseteq {req[c].id}
       THEN /\ budgets' = [budgets EXCEPT ![req[c].id].category = req[c].category,
                                          ![req[c].id].month = MonthOf(c)]
            /\ Went(c, "read", req[c].id, {})
       ELSE UNCHANGED budgets /\ Went(c, "conflict", req[c].id, {})
  /\ UNCHANGED <<given, month>>

Delete(c) ==
  /\ Writes(c, "delete")
  /\ budgets' = IF Own(c, req[c].id) THEN [budgets EXCEPT ![req[c].id] = None] ELSE budgets
  /\ Went(c, "answered", req[c].id, {})
  /\ UNCHANGED <<given, month>>

(* usage(id)[0] fails on an empty list; an update takes the first, if any. *)
Read(c) ==
  /\ req[c] # None /\ req[c].step = "read"
  /\ UNCHANGED <<budgets, given, month>>
  /\ LET seen == IF req[c].kind = "list" THEN Usage(c) ELSE Usage(c) \cap {req[c].id}
     IN Went(c, IF seen # {} \/ req[c].kind = "list" THEN "answered"
                ELSE IF req[c].kind = "update" THEN "missing" ELSE "failed", req[c].id, seen)

End(c) ==
  /\ req[c] # None /\ req[c].step \notin {"write", "read"}
  /\ req' = [req EXCEPT ![c] = None]
  /\ UNCHANGED <<budgets, given, month>>

NextMonth ==
  /\ month < LastMonth
  /\ month' = month + 1
  /\ UNCHANGED <<budgets, given, req>>

Init ==
  /\ budgets = [i \in Ids |-> None] /\ given = 0 /\ month = 1
  /\ req = [c \in Clients |-> None]

Next ==
  \/ NextMonth
  \/ \E c \in Clients :
       Begin(c) \/ Insert(c) \/ Upsert(c) \/ Update(c) \/ Delete(c) \/ Read(c) \/ End(c)

Spec == Init /\ [][Next]_vars

-----------------------------------------------------------------------------
(* A save that is committed and then answered with an error lost its budget*)
(* to another request in between, which deleted it or saved it in another  *)
(* month; that the month turned meanwhile is not enough (README.md:749).   *)
LostOnlyToOthers ==
  \A c \in Clients : req[c] # None /\ req[c].step \in {"failed", "missing"} =>
    \/ req[c].taken
    \/ req[c].kind = "update" /\ ~Own(c, req[c].id)

(* A category that keeps having a budget keeps its id, over upserts of any *)
(* month (docs/pre-deployment-code-review.md:18), so that a page's edit of *)
(* the budget it shows still finds it.                                     *)
KeepsIdentity ==
  [][\A u \in Users, cat \in Categories :
       OfCategory(u, cat) # {} /\ OfCategory(u, cat)' # {} =>
         /\ OfCategory(u, cat)' = OfCategory(u, cat)
         /\ Cardinality(OfCategory(u, cat)) = 1]_vars

(* A request changes and shows only budgets of its own user, whatever ids  *)
(* it names (docs/user-isolation.md:19-26).                                *)
OwnBudgetsOnly ==
  [][/\ \A i \in Ids : budgets'[i] # budgets[i] =>
          /\ budgets[i] # None /\ budgets'[i] # None => budgets'[i].user = budgets[i].user
          /\ \E c \in Clients :
               /\ req'[c] # req[c]
               /\ Owner(c) = (IF budgets[i] = None THEN budgets'[i].user ELSE budgets[i].user)
     /\ \A c \in Clients : req'[c] # req[c] /\ req'[c] # None =>
          \A i \in req'[c].seen : budgets[i] # None /\ budgets[i].user = Owner(c)]_vars

(* A budget stays the one that it was and stays with its user (upsert).    *)
BudgetsAreKept == KeepsIdentity /\ OwnBudgetsOnly
=============================================================================
