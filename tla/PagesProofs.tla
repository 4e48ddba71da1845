-------------------------- MODULE PagesProofs --------------------------
(***************************************************************************)
(* For any clients, users and categories: a category has one budget, which *)
(* keeps its id as long as the category keeps having one, and a request    *)
(* touches and shows only its own user's.  The argument is that of the     *)
(* unique index: every write of a category is decided by the budget that   *)
(* the category has at that moment.  And for any accounts, statements and  *)
(* pages, and however many handlers wait: the page of statements is true.  *)
(***************************************************************************)
EXTENDS MCPages, FiniteSetTheorems, TLAPS

-----------------------------------------------------------------------------
(* The inductive invariant.                                                *)

Fresh == \A i \in Ids : i > given => budgets[i] = None
OnePerCategory ==
  \A i, j \in Ids :
    budgets[i] # None /\ budgets[j] # None /\ budgets[i].user = budgets[j].user
    /\ budgets[i].category = budgets[j].category => i = j
Named == \A c \in Clients :
  req[c] # None /\ req[c].step = "write" /\ req[c].kind # "delete" => req[c].category \in Categories
Unread == \A c \in Clients : req[c] # None /\ req[c].step = "read" => req[c].seen = {}
Orderly == Named /\ Unread
IInv == TypeOK /\ Fresh /\ OnePerCategory /\ Orderly

(* What a step does to the ids of a category, and to whose budgets.        *)
SameIds ==
  \A i, j \in Ids :
    budgets[i] # None /\ budgets'[j] # None /\ budgets[i].user = budgets'[j].user
    /\ budgets[i].category = budgets'[j].category => i = j
OwnWrites ==
  \A i \in Ids : budgets'[i] # budgets[i] =>
    /\ budgets[i] # None /\ budgets'[i] # None => budgets'[i].user = budgets[i].user
    /\ \E c \in Clients :
         /\ req'[c] # req[c]
         /\ Owner(c) = (IF budgets[i] = None THEN budgets'[i].user ELSE budgets[i].user)
OwnReads ==
  \A c \in Clients : req'[c] # req[c] /\ req'[c] # None =>
    \A i \in req'[c].seen : budgets[i] # None /\ budgets[i].user = Owner(c)
Quiet == budgets' = budgets /\ given' = given
Kept == IInv' /\ SameIds /\ OwnWrites /\ OwnReads

-----------------------------------------------------------------------------
(* Lemmas.                                                                 *)

LEMMA IdsAreNumbers ==
  /\ MaxId \in Nat /\ Ids \subseteq Nat /\ LastMonth \in Nat
  /\ MaxId > 0 /\ LastMonth > 0
  BY BoundsAssumption DEF Ids, BoundsAssumption

(* None is neither a budget nor a request.                                 *)
LEMMA NoneIsNothing == None \notin Budget /\ None \notin Request /\ None \notin Categories
  BY NoneAssumption DEF NoneAssumption

(* A request that went a step on is a request, and so are those it took    *)
(* something from.                                                         *)
LEMMA WentOn ==
  ASSUME TypeOK, NEW c \in Clients, req[c] # None,
         NEW step \in Steps \ {"write"}, NEW i \in 0..MaxId, NEW seen \in SUBSET Ids,
         Went(c, step, i, seen)
  PROVE /\ req' \in [Clients -> Request \cup {None}]
        /\ req'[c] # None /\ req'[c].step = step /\ req'[c].seen = seen
        /\ \A d \in Clients \ {c} :
             /\ req'[d] = None <=> req[d] = None
             /\ req[d] # None => /\ req'[d].step = req[d].step /\ req'[d].seen = req[d].seen
                                 /\ req'[d].kind = req[d].kind
                                 /\ req'[d].category = req[d].category
             /\ req'[d] # req[d] => req[d] # None /\ req[d].step = "read"
<1>1. \A d \in Clients : req[d] # None => req[d] \in Request
  BY DEF TypeOK
<1>2. req' = [d \in Clients |->
                IF d = c THEN [req[c] EXCEPT !.step = step, !.id = i, !.category = None, !.seen = seen]
                ELSE IF Takes(c, d, i) THEN [req[d] EXCEPT !.taken = TRUE] ELSE req[d]]
  BY DEF Went
<1>3. \A d \in Clients : Takes(c, d, i) => req[d] # None /\ req[d].step = "read"
  BY DEF Takes
<1>4. [req[c] EXCEPT !.step = step, !.id = i, !.category = None, !.seen = seen] \in Request
  BY <1>1 DEF Request
<1>5. \A d \in Clients : req[d] # None => [req[d] EXCEPT !.taken = TRUE] \in Request
  BY <1>1 DEF Request
<1>6. /\ req'[c] = [req[c] EXCEPT !.step = step, !.id = i, !.category = None, !.seen = seen]
      /\ \A d \in Clients \ {c} :
           req'[d] = IF Takes(c, d, i) THEN [req[d] EXCEPT !.taken = TRUE] ELSE req[d]
  BY <1>2
<1>7. req' \in [Clients -> Request \cup {None}]
  <2>1. \A d \in Clients :
          (IF d = c THEN [req[c] EXCEPT !.step = step, !.id = i, !.category = None, !.seen = seen]
           ELSE IF Takes(c, d, i) THEN [req[d] EXCEPT !.taken = TRUE] ELSE req[d])
          \in Request \cup {None}
    BY <1>1, <1>3, <1>4, <1>5
  <2> QED BY <1>2, <2>1
<1>8. req'[c] # None /\ req'[c].step = step /\ req'[c].seen = seen
  <2>1. req'[c] # None
    BY <1>4, <1>6, NoneIsNothing
  <2>2. req[c] \in Request
    BY <1>1
  <2> QED BY <1>6, <2>1, <2>2 DEF Request
<1>9. \A d \in Clients \ {c} :
        /\ req'[d] = None <=> req[d] = None
        /\ req[d] # None => /\ req'[d].step = req[d].step /\ req'[d].seen = req[d].seen
                            /\ req'[d].kind = req[d].kind
                            /\ req'[d].category = req[d].category
        /\ req'[d] # req[d] => req[d] # None /\ req[d].step = "read"
  <2> TAKE d \in Clients \ {c}
  <2>1. CASE ~Takes(c, d, i)
    BY <1>6, <2>1
  <2>2. CASE Takes(c, d, i)
    <3>1. req[d] # None /\ req[d].step = "read" /\ req[d] \in Request
      BY <1>1, <1>3, <2>2
    <3>2. req'[d] = [req[d] EXCEPT !.taken = TRUE]
      BY <1>6, <2>2
    <3>3. req'[d] # None
      BY <1>5, <3>1, <3>2, NoneIsNothing
    <3> QED BY <3>1, <3>2, <3>3 DEF Request
  <2> QED BY <2>1, <2>2
<1> QED BY <1>7, <1>8, <1>9

(* Nobody who was not writing begins to, and who waits to read has seen    *)
(* nothing.                                                                *)
LEMMA StaysOrderly ==
  ASSUME IInv, NEW c \in Clients, req[c] # None,
         NEW step \in Steps \ {"write"}, NEW i \in 0..MaxId, NEW seen \in SUBSET Ids,
         Went(c, step, i, seen), step = "read" => seen = {}
  PROVE Orderly'
<1>1. TypeOK
  BY DEF IInv
<1>2. /\ req'[c].step = step /\ req'[c].seen = seen
      /\ \A d \in Clients \ {c} :
           /\ req'[d] = None <=> req[d] = None
           /\ req[d] # None => /\ req'[d].step = req[d].step
                               /\ req'[d].seen = req[d].seen
                               /\ req'[d].kind = req[d].kind
                               /\ req'[d].category = req[d].category
  BY <1>1, WentOn
<1>3. Named'
  BY <1>2 DEF Named, Orderly, IInv
<1>4. Unread'
  BY <1>2 DEF Unread, Orderly, IInv
<1> QED BY <1>3, <1>4 DEF Orderly

(* Only who shows something has something to answer for.                   *)
LEMMA ShowsOwn ==
  ASSUME IInv, NEW c \in Clients, req[c] # None,
         NEW step \in Steps \ {"write"}, NEW i \in 0..MaxId, NEW seen \in SUBSET Ids,
         Went(c, step, i, seen), \A j \in seen : Own(c, j)
  PROVE OwnReads
<1>1. TypeOK
  BY DEF IInv
<1>2. /\ req'[c].seen = seen
      /\ \A d \in Clients \ {c} :
           /\ req[d] # None => req'[d].seen = req[d].seen
           /\ req'[d] # req[d] => req[d] # None /\ req[d].step = "read"
  BY <1>1, WentOn
<1> SUFFICES ASSUME NEW d \in Clients, req'[d] # req[d], NEW j \in req'[d].seen
             PROVE budgets[j] # None /\ budgets[j].user = Owner(d)
  BY DEF OwnReads
<1>3. CASE d = c
  BY <1>2, <1>3 DEF Own
<1>4. CASE d # c
  BY <1>2, <1>4 DEF IInv, Orderly, Unread
<1> QED BY <1>3, <1>4

(* A writing request is well formed.                                       *)
LEMMA WriterKnown ==
  ASSUME IInv, NEW c \in Clients, NEW kind, Writes(c, kind)
  PROVE /\ req[c] \in Request /\ req[c] # None /\ req[c].step = "write"
        /\ kind # "delete" => Saved(c) \in Budget
        /\ kind # "delete" => req[c].category \in Categories /\ MonthOf(c) \in Months
<1>1. req[c] # None /\ req[c].kind = kind /\ req[c].step = "write"
  BY DEF Writes
<1>2. req[c] \in Request
  BY <1>1 DEF IInv, TypeOK
<1>3. MonthOf(c) \in Months
  BY <1>2 DEF Request, MonthOf
<1>4. kind # "delete" => req[c].category \in Categories
  BY <1>1 DEF IInv, Orderly, Named
<1>5. Owner(c) \in Users
  BY DEF Users
<1> QED BY <1>1, <1>2, <1>3, <1>4, <1>5 DEF Saved, Budget

(* A writing request that goes on has changed.                             *)
LEMMA WriterGoesOn ==
  ASSUME IInv, NEW c \in Clients, req[c] # None, req[c].step = "write",
         NEW step \in Steps \ {"write"}, NEW i \in 0..MaxId, Went(c, step, i, {})
  PROVE /\ req' \in [Clients -> Request \cup {None}]
        /\ req'[c] # req[c] /\ Orderly' /\ OwnReads
<1>1. TypeOK /\ {} \in SUBSET Ids
  BY DEF IInv
<1>2. req' \in [Clients -> Request \cup {None}] /\ req'[c].step = step
  BY <1>1, WentOn
<1>3. Orderly'
  BY <1>1, StaysOrderly
<1>4. OwnReads
  BY <1>1, ShowsOwn
<1> QED BY <1>2, <1>3, <1>4

(* A step that leaves the budgets alone does nothing to them.              *)
LEMMA QuietKeeps ==
  ASSUME IInv, Quiet
  PROVE Fresh' /\ OnePerCategory' /\ SameIds /\ OwnWrites
  BY DEF IInv, Quiet, Fresh, OnePerCategory, SameIds, OwnWrites

-----------------------------------------------------------------------------
(* The steps.                                                              *)

(* No budget, and nobody at work.                                          *)
LEMMA InitInv == Init => IInv
<1> SUFFICES ASSUME Init PROVE IInv
  OBVIOUS
<1>1. TypeOK
  BY IdsAreNumbers DEF Init, TypeOK, Months
<1>2. Fresh /\ OnePerCategory
  BY DEF Init, Fresh, OnePerCategory
<1>3. Orderly
  BY DEF Init, Orderly, Named, Unread
<1> QED BY <1>1, <1>2, <1>3 DEF IInv

LEMMA BeginKeeps == ASSUME IInv, NEW c \in Clients, Begin(c) PROVE Kept
<1>0. PICK kind \in {"create", "update", "delete", "list"} :
        \E i \in IF kind \in {"update", "delete"} THEN 1..given ELSE {0},
           cat \in IF kind \in {"create", "update"} THEN Categories ELSE {None} :
        req' = [req EXCEPT ![c] =
          [kind |-> kind, month |-> month, category |-> cat, taken |-> FALSE, seen |-> {},
           id |-> i, step |-> IF kind = "list" THEN "read" ELSE "write"]]
  BY DEF Begin
<1>1. PICK i \in IF kind \in {"update", "delete"} THEN 1..given ELSE {0},
           cat \in IF kind \in {"create", "update"} THEN Categories ELSE {None} :
        req' = [req EXCEPT ![c] =
          [kind |-> kind, month |-> month, category |-> cat, taken |-> FALSE, seen |-> {},
           id |-> i, step |-> IF kind = "list" THEN "read" ELSE "write"]]
  BY <1>0
<1>2. UNCHANGED <<budgets, given, month>>
  BY DEF Begin
<1> DEFINE r == [kind |-> kind, month |-> month, category |-> cat, taken |-> FALSE, seen |-> {},
                 id |-> i, step |-> IF kind = "list" THEN "read" ELSE "write"]
<1>3. given \in 0..MaxId /\ month \in Months
  BY DEF IInv, TypeOK
<1>4. i \in 0..MaxId /\ cat \in Categories \cup {None}
  BY <1>3, IdsAreNumbers
<1>5. r \in Request /\ r # None /\ r.seen = {} /\ r.category = cat /\ r.kind = kind
      /\ (r.step = "write" => kind # "list")
  <2>1. r \in Request
    BY <1>3, <1>4 DEF Request, Steps
  <2> QED BY <2>1, NoneIsNothing
<1>6. r.step = "write" /\ r.kind # "delete" => r.category \in Categories
  BY <1>5
<1> HIDE DEF r
<1>7. req' = [req EXCEPT ![c] = r] /\ req \in [Clients -> Request \cup {None}]
  BY <1>1 DEF r, IInv, TypeOK
<1>8. TypeOK'
  BY <1>2, <1>5, <1>7 DEF IInv, TypeOK, Budget
<1>9. Orderly'
  BY <1>5, <1>6, <1>7 DEF IInv, Orderly, Named, Unread
<1>10. OwnReads
  BY <1>5, <1>7 DEF OwnReads
<1> QED BY <1>2, <1>8, <1>9, <1>10, QuietKeeps DEF Quiet, Kept, IInv

LEMMA InsertKeeps == ASSUME IInv, NEW c \in Clients, Insert(c) PROVE Kept
<1> DEFINE b == Saved(c)
<1>1. /\ Writes(c, "create") /\ OfCategory(Owner(c), req[c].category) = {} /\ given < MaxId
      /\ given' = given + 1 /\ budgets' = [budgets EXCEPT ![given'] = b]
      /\ Went(c, "read", given', {}) /\ month' = month
  BY DEF Insert
<1>2. /\ budgets \in [Ids -> Budget \cup {None}] /\ given \in 0..MaxId /\ month \in Months
  BY DEF IInv, TypeOK
<1>3. /\ req[c] # None /\ req[c].step = "write" /\ b \in Budget /\ b # None
      /\ b.user = Owner(c) /\ b.category = req[c].category
  BY <1>1, WriterKnown, NoneIsNothing DEF Saved
<1> HIDE DEF b
<1>4. given' \in Ids /\ given' \in 0..MaxId /\ given' > given
  BY <1>1, <1>2, IdsAreNumbers DEF Ids
<1>5. budgets[given'] = None
  BY <1>4 DEF IInv, Fresh
<1>6. "read" \in Steps \ {"write"}
  BY DEF Steps
<1>7. /\ req' \in [Clients -> Request \cup {None}]
      /\ req'[c] # req[c] /\ Orderly' /\ OwnReads
  BY <1>1, <1>3, <1>4, <1>6, WriterGoesOn
<1>8. /\ budgets'[given'] = b
      /\ \A i \in Ids : i # given' => budgets'[i] = budgets[i]
      /\ budgets' \in [Ids -> Budget \cup {None}]
  BY <1>1, <1>2, <1>3, <1>4
<1>9. \A i \in Ids : budgets[i] # None /\ budgets[i].user = b.user => budgets[i].category # b.category
  BY <1>1, <1>3 DEF OfCategory
<1>10. TypeOK'
  BY <1>1, <1>2, <1>4, <1>7, <1>8 DEF TypeOK, Months, Budget
<1>11. Fresh'
  BY <1>1, <1>2, <1>4, <1>8, IdsAreNumbers DEF IInv, Fresh
<1>12. OnePerCategory'
  BY <1>5, <1>8, <1>9 DEF IInv, OnePerCategory
<1>13. SameIds
  BY <1>5, <1>8, <1>9 DEF IInv, OnePerCategory, SameIds
<1>14. OwnWrites
  BY <1>3, <1>5, <1>7, <1>8 DEF OwnWrites
<1> QED BY <1>7, <1>10, <1>11, <1>12, <1>13, <1>14 DEF Kept, IInv

(* A budget that exists is written over by its owner, and its category is  *)
(* then nobody else's.                                                     *)
LEMMA OverwriteKeeps ==
  ASSUME IInv, NEW c \in Clients, req[c] # None, req[c].step = "write",
         NEW i \in Ids, Own(c, i), NEW b \in Budget, b.user = Owner(c),
         OfCategory(Owner(c), b.category) \subseteq {i},
         budgets' = [budgets EXCEPT ![i] = b], UNCHANGED <<given, month>>,
         Went(c, "read", i, {})
  PROVE Kept
<1>1. /\ budgets \in [Ids -> Budget \cup {None}] /\ given \in 0..MaxId /\ month \in Months
  BY DEF IInv, TypeOK
<1>2. b # None /\ budgets[i] # None /\ budgets[i].user = Owner(c)
  BY NoneIsNothing DEF Own
<1>3. i \in 0..MaxId /\ "read" \in Steps \ {"write"}
  BY IdsAreNumbers DEF Ids, Steps
<1>4. /\ req' \in [Clients -> Request \cup {None}]
      /\ req'[c] # req[c] /\ Orderly' /\ OwnReads
  BY <1>3, WriterGoesOn
<1>5. /\ budgets'[i] = b
      /\ \A j \in Ids : j # i => budgets'[j] = budgets[j]
      /\ budgets' \in [Ids -> Budget \cup {None}]
  BY <1>1
<1>6. \A j \in Ids :
        budgets[j] # None /\ budgets[j].user = b.user /\ budgets[j].category = b.category => j = i
  <2> TAKE j \in Ids
  <2> HAVE budgets[j] # None /\ budgets[j].user = b.user /\ budgets[j].category = b.category
  <2>1. j \in OfCategory(Owner(c), b.category)
    BY DEF OfCategory
  <2> QED BY <2>1
<1>7. TypeOK'
  BY <1>1, <1>4, <1>5 DEF TypeOK, Months, Budget
<1>8. Fresh'
  BY <1>2, <1>5 DEF IInv, Fresh
<1>9. OnePerCategory'
  BY <1>2, <1>5, <1>6 DEF IInv, OnePerCategory
<1>10. SameIds
  BY <1>2, <1>5, <1>6 DEF IInv, OnePerCategory, SameIds
<1>11. OwnWrites
  BY <1>2, <1>4, <1>5 DEF OwnWrites
<1> QED BY <1>4, <1>7, <1>8, <1>9, <1>10, <1>11 DEF Kept, IInv

LEMMA UpsertKeeps == ASSUME IInv, NEW c \in Clients, Upsert(c) PROVE Kept
<1>1. PICK i \in OfCategory(Owner(c), req[c].category) : TakeOver(c, i)
  BY DEF Upsert
<1>2. Writes(c, "create") /\ month' = month
  BY DEF Upsert
<1>3. req[c] # None /\ req[c].step = "write" /\ Saved(c) \in Budget
  BY <1>2, WriterKnown
<1>4. Saved(c).user = Owner(c) /\ Saved(c).category = req[c].category
  BY DEF Saved
<1>5. /\ budgets' = [budgets EXCEPT ![i] = Saved(c)] /\ given' = given
      /\ Went(c, "read", i, {})
  BY <1>1 DEF TakeOver
<1>6. i \in Ids /\ Own(c, i)
  BY <1>1 DEF OfCategory, Own
<1>7. OfCategory(Owner(c), Saved(c).category) \subseteq {i}
  BY <1>1, <1>4 DEF OfCategory, IInv, OnePerCategory
<1> QED BY <1>2, <1>3, <1>4, <1>5, <1>6, <1>7, OverwriteKeeps

LEMMA UpdateKeeps == ASSUME IInv, NEW c \in Clients, Update(c) PROVE Kept
<1> DEFINE i == req[c].id
           b == [budgets[i] EXCEPT !.category = req[c].category, !.month = MonthOf(c)]
<1>1. Writes(c, "update") /\ given' = given /\ month' = month
  BY DEF Update
<1>2. /\ req[c] # None /\ req[c].step = "write" /\ req[c] \in Request
      /\ req[c].category \in Categories /\ MonthOf(c) \in Months
  BY <1>1, WriterKnown
<1>3. i \in 0..MaxId
  BY <1>2 DEF Request
<1>4. {"missing", "conflict", "read"} \subseteq Steps \ {"write"}
  BY DEF Steps
<1>5. CASE budgets' = budgets /\ \E step \in {"missing", "conflict"} : Went(c, step, i, {})
  <2>1. PICK step \in {"missing", "conflict"} : Went(c, step, i, {})
    BY <1>5
  <2>2. req' \in [Clients -> Request \cup {None}] /\ Orderly' /\ OwnReads
    BY <1>2, <1>3, <1>4, <2>1, WriterGoesOn
  <2>3. TypeOK'
    BY <1>1, <1>5, <2>2 DEF IInv, TypeOK
  <2> QED BY <1>1, <1>5, <2>2, <2>3, QuietKeeps DEF Quiet, Kept, IInv
<1>6. CASE /\ Found(c) /\ OfCategory(Owner(c), req[c].category) \subseteq {i}
           /\ Went(c, "read", i, {})
           /\ budgets' = [budgets EXCEPT ![i].category = req[c].category, ![i].month = MonthOf(c)]
  <2>1. i \in Ids /\ Own(c, i) /\ budgets \in [Ids -> Budget \cup {None}]
    BY <1>6 DEF Found, Own, IInv, TypeOK
  <2>2. budgets[i] \in Budget /\ budgets[i].user = Owner(c)
    BY <2>1 DEF Own
  <2>3. b \in Budget /\ b.user = Owner(c) /\ b.category = req[c].category
    BY <1>2, <2>2 DEF Budget
  <2>4. budgets' = [budgets EXCEPT ![i] = b]
    BY <1>6, <2>1, <2>2 DEF Budget
  <2> HIDE DEF b, i
  <2> QED BY <1>1, <1>2, <1>6, <2>1, <2>3, <2>4, OverwriteKeeps
<1> QED BY <1>5, <1>6 DEF Update

LEMMA DeleteKeeps == ASSUME IInv, NEW c \in Clients, Delete(c) PROVE Kept
<1> DEFINE i == req[c].id
<1>1. /\ Writes(c, "delete") /\ given' = given /\ month' = month
      /\ budgets' = (IF Own(c, i) THEN [budgets EXCEPT ![i] = None] ELSE budgets)
      /\ Went(c, "answered", i, {})
  BY DEF Delete
<1>2. req[c] # None /\ req[c].step = "write" /\ req[c] \in Request
  BY <1>1, WriterKnown
<1>3. i \in 0..MaxId /\ "answered" \in Steps \ {"write"}
  BY <1>2 DEF Request, Steps
<1> HIDE DEF i
<1>4. /\ req' \in [Clients -> Request \cup {None}]
      /\ req'[c] # req[c] /\ Orderly' /\ OwnReads
  BY <1>1, <1>2, <1>3, WriterGoesOn
<1>5. CASE ~Own(c, i)
  <2>1. TypeOK' /\ Quiet
    BY <1>1, <1>4, <1>5 DEF IInv, TypeOK, Quiet
  <2> QED BY <1>4, <2>1, QuietKeeps DEF Kept, IInv
<1>6. CASE Own(c, i)
  <2>1. /\ budgets \in [Ids -> Budget \cup {None}] /\ i \in Ids
        /\ budgets[i] # None /\ budgets[i].user = Owner(c)
    BY <1>6 DEF Own, IInv, TypeOK
  <2>2. /\ budgets'[i] = None
        /\ \A j \in Ids : j # i => budgets'[j] = budgets[j]
        /\ budgets' \in [Ids -> Budget \cup {None}]
    BY <1>1, <1>6, <2>1
  <2>3. TypeOK'
    BY <1>1, <1>4, <2>2 DEF IInv, TypeOK
  <2>4. Fresh'
    BY <1>1, <2>2 DEF IInv, Fresh
  <2>5. OnePerCategory'
    BY <2>2 DEF IInv, OnePerCategory
  <2>6. SameIds
    BY <2>2 DEF IInv, OnePerCategory, SameIds
  <2>7. OwnWrites
    BY <1>4, <2>1, <2>2 DEF OwnWrites
  <2> QED BY <1>4, <2>3, <2>4, <2>5, <2>6, <2>7 DEF Kept, IInv
<1> QED BY <1>5, <1>6

LEMMA ReadKeeps == ASSUME IInv, NEW c \in Clients, Read(c) PROVE Kept
<1> DEFINE seen == IF req[c].kind = "list" THEN Usage(c) ELSE Usage(c) \cap {req[c].id}
           step == IF seen # {} \/ req[c].kind = "list" THEN "answered"
                   ELSE IF req[c].kind = "update" THEN "missing" ELSE "failed"
<1>1. /\ req[c] # None /\ UNCHANGED <<budgets, given, month>>
      /\ Went(c, step, req[c].id, seen)
  BY DEF Read
<1>2. seen \in SUBSET Ids /\ \A j \in seen : Own(c, j)
  BY DEF Usage
<1>3. step \in Steps \ {"write"} /\ step # "read"
  <2> HIDE DEF seen
  <2> QED BY DEF Steps
<1>4. req[c].id \in 0..MaxId /\ TypeOK
  BY <1>1 DEF IInv, TypeOK, Request
<1> HIDE DEF seen, step
<1>5. req' \in [Clients -> Request \cup {None}]
  BY <1>1, <1>2, <1>3, <1>4, WentOn
<1>6. Orderly'
  BY <1>1, <1>2, <1>3, <1>4, StaysOrderly
<1>7. OwnReads
  BY <1>1, <1>2, <1>3, <1>4, ShowsOwn
<1>8. TypeOK'
  BY <1>1, <1>5 DEF IInv, TypeOK
<1> QED BY <1>1, <1>6, <1>7, <1>8, QuietKeeps DEF Quiet, Kept, IInv

LEMMA OthersKeep ==
  ASSUME IInv, NextMonth \/ (\E c \in Clients : End(c)) \/ UNCHANGED vars
  PROVE Kept
<1>1. Quiet
  BY DEF NextMonth, End, vars, Quiet
<1>2. CASE NextMonth \/ UNCHANGED vars
  <2>1. req' = req /\ month' \in Months
    BY <1>2, IdsAreNumbers DEF NextMonth, vars, IInv, TypeOK, Months
  <2>2. TypeOK' /\ Orderly' /\ OwnReads
    BY <1>1, <2>1 DEF Quiet, IInv, TypeOK, Orderly, Named, Unread, OwnReads
  <2> QED BY <1>1, <2>2, QuietKeeps DEF Kept, IInv
<1>3. ASSUME NEW c \in Clients, End(c) PROVE Kept
  <2>1. req' = [req EXCEPT ![c] = None] /\ month' = month
    BY <1>3 DEF End
  <2>2. TypeOK'
    BY <1>1, <2>1 DEF Quiet, IInv, TypeOK
  <2>3. Orderly' /\ OwnReads
    BY <2>1 DEF IInv, TypeOK, Orderly, Named, Unread, OwnReads
  <2> QED BY <1>1, <2>2, <2>3, QuietKeeps DEF Kept, IInv
<1> QED BY <1>2, <1>3

-----------------------------------------------------------------------------
(* The theorems.                                                           *)

LEMMA StepKeeps == ASSUME IInv, [Next]_vars PROVE Kept
<1>1. ASSUME NEW c \in Clients, Begin(c) PROVE Kept
  BY <1>1, BeginKeeps
<1>2. ASSUME NEW c \in Clients, Insert(c) PROVE Kept
  BY <1>2, InsertKeeps
<1>3. ASSUME NEW c \in Clients, Upsert(c) PROVE Kept
  BY <1>3, UpsertKeeps
<1>4. ASSUME NEW c \in Clients, Update(c) PROVE Kept
  BY <1>4, UpdateKeeps
<1>5. ASSUME NEW c \in Clients, Delete(c) PROVE Kept
  BY <1>5, DeleteKeeps
<1>6. ASSUME NEW c \in Clients, Read(c) PROVE Kept
  BY <1>6, ReadKeeps
<1>7. CASE NextMonth \/ (\E c \in Clients : End(c)) \/ UNCHANGED vars
  BY <1>7, OthersKeep
<1> QED BY <1>1, <1>2, <1>3, <1>4, <1>5, <1>6, <1>7 DEF Next

(* No category has two budgets, and nobody is answered before the reading. *)
THEOREM Invariance == Spec => []IInv
<1>1. IInv /\ [Next]_vars => IInv'
  BY StepKeeps DEF Kept
<1> QED BY InitInv, <1>1, PTL DEF Spec

(* Type correctness of the budgets.                                        *)
THEOREM TypeCorrect == Spec => []TypeOK
<1>1. IInv => TypeOK
  BY DEF IInv
<1> QED BY Invariance, <1>1, PTL

(* The budgets of a category that has one are one.                         *)
LEMMA OneId ==
  ASSUME OnePerCategory, NEW u, NEW cat, OfCategory(u, cat) # {}
  PROVE \E i \in Ids : OfCategory(u, cat) = {i}
<1>1. PICK i \in OfCategory(u, cat) : TRUE
  OBVIOUS
<1> QED BY <1>1 DEF OfCategory, OnePerCategory

(* A category that keeps having a budget keeps its id, whatever the month  *)
(* and whoever saves it (upsert of budget_repository.py).                  *)
THEOREM IdentityIsKept == Spec => KeepsIdentity
<1> DEFINE Same == \A u \in Users, cat \in Categories :
                     OfCategory(u, cat) # {} /\ OfCategory(u, cat)' # {} =>
                       /\ OfCategory(u, cat)' = OfCategory(u, cat)
                       /\ Cardinality(OfCategory(u, cat)) = 1
<1>1. ASSUME IInv, [Next]_vars PROVE Same
  <2>1. OnePerCategory /\ OnePerCategory' /\ SameIds
    BY <1>1, StepKeeps DEF Kept, IInv
  <2> SUFFICES ASSUME NEW u \in Users, NEW cat \in Categories,
                      OfCategory(u, cat) # {}, OfCategory(u, cat)' # {}
               PROVE /\ OfCategory(u, cat)' = OfCategory(u, cat)
                     /\ Cardinality(OfCategory(u, cat)) = 1
    OBVIOUS
  <2>2. PICK i \in Ids : OfCategory(u, cat) = {i}
    BY <2>1, OneId
  <2>3. budgets[i] # None /\ budgets[i].user = u /\ budgets[i].category = cat
    BY <2>2 DEF OfCategory
  <2>4. \A j \in OfCategory(u, cat)' : j = i
    BY <2>1, <2>3 DEF OfCategory, SameIds
  <2>5. OfCategory(u, cat)' = {i}
    BY <2>4
  <2>6. Cardinality({i}) = 1
    BY FS_Singleton
  <2> QED BY <2>2, <2>5, <2>6
<1>2. IInv /\ [Next]_vars => [Same]_vars
  BY <1>1
<1> QED BY Invariance, <1>2, PTL DEF Spec, KeepsIdentity

(* Nobody changes or is shown a budget of another user's, whatever ids the *)
(* requests name.                                                          *)
THEOREM OnlyOwnBudgets == Spec => OwnBudgetsOnly
<1>1. IInv /\ [Next]_vars => [OwnWrites /\ OwnReads]_vars
  BY StepKeeps DEF Kept
<1>2. [OwnWrites /\ OwnReads]_vars =>
        [/\ \A i \in Ids : budgets'[i] # budgets[i] =>
              /\ budgets[i] # None /\ budgets'[i] # None => budgets'[i].user = budgets[i].user
              /\ \E c \in Clients :
                   /\ req'[c] # req[c]
                   /\ Owner(c) = (IF budgets[i] = None THEN budgets'[i].user ELSE budgets[i].user)
         /\ \A c \in Clients : req'[c] # req[c] /\ req'[c] # None =>
              \A i \in req'[c].seen : budgets[i] # None /\ budgets[i].user = Owner(c)]_vars
  BY DEF OwnWrites, OwnReads
<1> QED BY Invariance, <1>1, <1>2, PTL DEF Spec, OwnBudgetsOnly

(* A budget stays the one that it was and stays with its user.             *)
THEOREM BudgetsHold == Spec => BudgetsAreKept
BY IdentityIsKept, OnlyOwnBudgets, PTL DEF BudgetsAreKept

-----------------------------------------------------------------------------
(* Answers.  A request that saved a budget finds it, unless another one    *)
(* took it; ids are not given again, so that what an update misses stays   *)
(* missing.                                                                *)

Granted(c) == Own(c, req[c].id) /\ budgets[req[c].id].month = req[c].month
Accounted(c) ==
  /\ req[c].id <= given
  /\ req[c].step = "read" /\ req[c].kind # "list" => req[c].taken \/ Granted(c)
  /\ req[c].step \in {"failed", "missing"} =>
       req[c].taken \/ (req[c].kind = "update" /\ ~Own(c, req[c].id))
AllAccounted == \A c \in Clients : req[c] # None => Accounted(c)
Gone == \A i \in Ids : i <= given /\ budgets[i] = None => budgets'[i] = None

(* Ids are given in order.                                                 *)
LEMMA IdsGoOn ==
  ASSUME IInv, [Next]_vars
  PROVE given' >= given /\ Gone
<1>1. given \in Nat /\ budgets \in [Ids -> Budget \cup {None}] /\ None \notin Budget
  BY IdsAreNumbers, NoneIsNothing DEF IInv, TypeOK
<1>2. ASSUME NEW c \in Clients, Insert(c) PROVE given' >= given /\ Gone
  BY <1>1, <1>2, IdsAreNumbers DEF Insert, Gone
<1>3. ASSUME NEW c \in Clients, Upsert(c) PROVE given' >= given /\ Gone
  BY <1>1, <1>3 DEF Upsert, TakeOver, OfCategory, Gone
<1>4. ASSUME NEW c \in Clients, Update(c) PROVE given' >= given /\ Gone
  BY <1>1, <1>4 DEF Update, Found, Own, Gone
<1>5. ASSUME NEW c \in Clients, Delete(c) PROVE given' >= given /\ Gone
  BY <1>1, <1>5 DEF Delete, Gone
<1>6. CASE UNCHANGED <<budgets, given>>
  BY <1>1, <1>6 DEF Gone
<1> QED BY <1>2, <1>3, <1>4, <1>5, <1>6 DEF Next, NextMonth, Begin, Read, End, vars

(* What a request is owed outlives the steps of others.                    *)
Elsewhere(c, d, i) ==
  /\ req'[d] = IF Takes(c, d, i) THEN [req[d] EXCEPT !.taken = TRUE] ELSE req[d]
  /\ \A j \in Ids \ {i} : budgets'[j] = budgets[j]

LEMMA OthersAccounted ==
  ASSUME IInv, AllAccounted, [Next]_vars, NEW d \in Clients, req[d] # None,
         \/ req'[d] = req[d] /\ budgets' = budgets
         \/ \E c \in Clients \ {d}, i \in 0..MaxId : Elsewhere(c, d, i)
  PROVE Accounted(d)'
<1>0. PICK n : n = req[d].id
  OBVIOUS
<1>1. /\ req[d] \in Request /\ given \in Nat /\ given' >= given /\ given' \in Nat /\ Gone
      /\ OwnWrites /\ Accounted(d) /\ n \in Nat
  BY <1>0, IdsAreNumbers, StepKeeps, IdsGoOn DEF IInv, TypeOK, Kept, AllAccounted, Request
<1>2. /\ req'[d].id = n /\ req'[d].step = req[d].step /\ req'[d].kind = req[d].kind
      /\ req'[d].month = req[d].month /\ (req[d].taken => req'[d].taken)
  <2>1. CASE req'[d] = req[d]
    BY <1>0, <2>1
  <2>2. CASE req'[d] = [req[d] EXCEPT !.taken = TRUE]
    BY <1>0, <1>1, <2>2 DEF Request
  <2> QED BY <2>1, <2>2 DEF Elsewhere
<1>3. ~Own(d, n) => ~(Own(d, n)')
  <2> SUFFICES ASSUME ~Own(d, n), Own(d, n)' PROVE FALSE
    OBVIOUS
  <2>1. n \in Ids /\ budgets'[n] # None /\ budgets'[n].user = Owner(d)
    BY DEF Own
  <2>2. n <= given
    BY <1>0, <1>1 DEF Accounted
  <2>3. budgets[n] # None
    BY <1>1, <2>1, <2>2 DEF Gone
  <2>4. budgets[n].user = Owner(d)
    BY <1>1, <2>1, <2>3 DEF OwnWrites
  <2> QED BY <2>1, <2>3, <2>4 DEF Own
<1>4. Own(d, n) /\ budgets'[n] # None => Own(d, n)'
  BY <1>1 DEF Own, OwnWrites
<1>5. ASSUME req[d].step = "read", Granted(d), ~req'[d].taken PROVE Granted(d)'
  <2>1. n \in Ids /\ budgets[n] # None /\ budgets[n].month = req[d].month
    BY <1>0, <1>5 DEF Granted, Own
  <2>2. budgets'[n] # None /\ budgets'[n].month = req[d].month
    <3>1. CASE budgets'[n] = budgets[n]
      BY <2>1, <3>1
    <3>2. ASSUME NEW c \in Clients \ {d}, Elsewhere(c, d, n), budgets'[n] # budgets[n]
          PROVE  budgets'[n] # None /\ budgets'[n].month = req[d].month
      <4>1. ~Takes(c, d, n)
        BY <1>1, <1>5, <3>2 DEF Elsewhere, Request
      <4> QED BY <1>0, <1>5, <2>1, <4>1 DEF Takes
    <3> QED BY <2>1, <3>1, <3>2 DEF Elsewhere
  <2> QED BY <1>0, <1>2, <1>4, <1>5, <2>2 DEF Granted
<1>6. req'[d].id <= given'
  BY <1>0, <1>1, <1>2 DEF Accounted
<1>7. ASSUME req'[d].step = "read", req'[d].kind # "list" PROVE req'[d].taken \/ Granted(d)'
  BY <1>1, <1>2, <1>5, <1>7 DEF Accounted
<1>8. ASSUME req'[d].step \in {"failed", "missing"}
      PROVE  req'[d].taken \/ (req'[d].kind = "update" /\ ~Own(d, req[d].id)')
  <2>1. CASE req[d].taken
    BY <1>2, <2>1
  <2>2. CASE req[d].kind = "update" /\ ~Own(d, n)
    <3>1. Own(d, req[d].id)' <=> Own(d, n)'
      BY <1>2 DEF Own
    <3> QED BY <1>2, <1>3, <2>2, <3>1
  <2> QED BY <1>0, <1>1, <1>2, <1>8, <2>1, <2>2 DEF Accounted
<1> QED BY <1>6, <1>7, <1>8 DEF Accounted

(* A request's own step pays what it is owed, or says why not.             *)
LEMMA StepAccounted ==
  ASSUME IInv, AllAccounted, [Next]_vars, NEW c \in Clients, req[c] # None,
         NEW step \in Steps \ {"write"}, NEW i \in 0..MaxId, NEW seen \in SUBSET Ids,
         Went(c, step, i, seen), \A j \in Ids \ {i} : budgets'[j] = budgets[j],
         i <= given',
         step = "read" => /\ i \in Ids /\ budgets'[i] # None
                          /\ budgets'[i].user = Owner(c) /\ budgets'[i].month = MonthOf(c),
         step \in {"failed", "missing"} =>
           req[c].taken \/ (req[c].kind = "update" /\ ~Own(c, i)')
  PROVE AllAccounted'
<1>1. /\ req'[c] = [req[c] EXCEPT !.step = step, !.id = i, !.category = None, !.seen = seen]
      /\ \A d \in Clients \ {c} : Elsewhere(c, d, i)
  BY DEF Went, Elsewhere
<1>2. req[c] \in Request
  BY DEF IInv, TypeOK
<1>3. /\ req'[c].step = step /\ req'[c].id = i /\ req'[c].kind = req[c].kind
      /\ req'[c].taken = req[c].taken /\ req'[c].month = req[c].month
  BY <1>1, <1>2 DEF Request
<1>4. step = "read" => Granted(c)'
  BY <1>3 DEF Granted, Own, MonthOf
<1>5. Own(c, req[c].id)' <=> Own(c, i)'
  BY <1>3 DEF Own
<1>6. Accounted(c)'
  BY <1>3, <1>4, <1>5 DEF Accounted
<1>7. ASSUME NEW d \in Clients, d # c, req'[d] # None PROVE Accounted(d)'
  <2>1. req[d] # None
    BY <1>1, <1>7 DEF Elsewhere, Takes
  <2> QED BY <1>1, <1>7, <2>1, OthersAccounted
<1> QED BY <1>6, <1>7 DEF AllAccounted

(* A step on the budgets, and one that only reads them or only begins.     *)
LEMMA SavingAccounts ==
  ASSUME IInv, AllAccounted, [Next]_vars, NEW c \in Clients, Insert(c) \/ Upsert(c)
  PROVE AllAccounted'
<1>0. Writes(c, "create") /\ TypeOK /\ given \in Nat
  BY IdsAreNumbers DEF Insert, Upsert, IInv, TypeOK
<1>1. Saved(c) \in Budget /\ req[c] # None /\ Saved(c) # None
  BY <1>0, WriterKnown, NoneIsNothing
<1>2. Saved(c).user = Owner(c) /\ Saved(c).month = MonthOf(c)
  BY DEF Saved
<1>3. CASE Insert(c)
  <2>1. given + 1 \in Ids /\ given' = given + 1
    BY <1>0, <1>3, IdsAreNumbers DEF Insert, Ids
  <2>2. /\ budgets'[given + 1] = Saved(c) /\ Went(c, "read", given + 1, {})
        /\ \A j \in Ids \ {given + 1} : budgets'[j] = budgets[j]
    BY <1>0, <1>3, <2>1 DEF Insert, TypeOK
  <2> QED BY <1>0, <1>1, <1>2, <2>1, <2>2, StepAccounted DEF Steps, Ids
<1>4. CASE Upsert(c)
  <2>1. PICK i \in Ids : TakeOver(c, i) /\ budgets[i] # None
    BY <1>4 DEF Upsert, OfCategory
  <2>2. /\ budgets'[i] = Saved(c) /\ Went(c, "read", i, {}) /\ given' = given
        /\ \A j \in Ids \ {i} : budgets'[j] = budgets[j]
    BY <1>0, <2>1 DEF TakeOver, TypeOK
  <2>3. i <= given
    BY <1>0, <2>1, IdsAreNumbers DEF IInv, Fresh
  <2> QED BY <1>0, <1>1, <1>2, <2>1, <2>2, <2>3, IdsAreNumbers, StepAccounted DEF Steps, Ids
<1> QED BY <1>3, <1>4

LEMMA UpdateAccounts ==
  ASSUME IInv, AllAccounted, [Next]_vars, NEW c \in Clients, Update(c)
  PROVE AllAccounted'
<1>0. PICK i : i = req[c].id
  OBVIOUS
<1>1. /\ req[c] \in Request /\ req[c] # None /\ i \in 0..MaxId /\ given' = given
      /\ i <= given /\ req[c].kind = "update" /\ {} \in SUBSET Ids
  BY <1>0 DEF Update, Writes, IInv, TypeOK, AllAccounted, Accounted, Request
<1>2. CASE ~Found(c)
  <2>1. budgets' = budgets /\ Went(c, "missing", i, {}) /\ ~Own(c, i)
    BY <1>0, <1>2 DEF Update, Found
  <2>2. ~Own(c, i)'
    BY <2>1 DEF Own
  <2> QED BY <1>1, <2>1, <2>2, StepAccounted DEF Steps
<1>3. CASE Found(c) /\ OfCategory(Owner(c), req[c].category) \subseteq {i}
  <2>1. /\ i \in Ids /\ budgets[i] \in Budget /\ budgets[i].user = Owner(c)
    BY <1>0, <1>3 DEF Found, Own, IInv, TypeOK
  <2>2. /\ budgets' = [budgets EXCEPT ![i].category = req[c].category, ![i].month = MonthOf(c)]
        /\ Went(c, "read", i, {})
    BY <1>0, <1>3 DEF Update
  <2>3. /\ budgets'[i].user = Owner(c) /\ budgets'[i].month = MonthOf(c)
        /\ \A j \in Ids \ {i} : budgets'[j] = budgets[j]
    BY <2>1, <2>2 DEF IInv, TypeOK, Budget
  <2>4. budgets'[i] # None
    <3>1. [budgets[i] EXCEPT !.category = req[c].category, !.month = MonthOf(c)] \in Budget
      <4>1. req[c].category \in Categories /\ MonthOf(c) \in Months
        BY WriterKnown DEF Update
      <4> QED BY <2>1, <4>1 DEF Budget
    <3>2. budgets'[i] = [budgets[i] EXCEPT !.category = req[c].category, !.month = MonthOf(c)]
      BY <2>1, <2>2 DEF IInv, TypeOK
    <3> QED BY <3>1, <3>2, NoneIsNothing
  <2> QED BY <1>1, <2>1, <2>2, <2>3, <2>4, StepAccounted DEF Steps
<1>4. CASE Found(c) /\ ~(OfCategory(Owner(c), req[c].category) \subseteq {i})
  <2>1. budgets' = budgets /\ Went(c, "conflict", i, {})
    BY <1>0, <1>4 DEF Update
  <2> QED BY <1>1, <2>1, StepAccounted DEF Steps
<1> QED BY <1>2, <1>3, <1>4

LEMMA DeleteAccounts ==
  ASSUME IInv, AllAccounted, [Next]_vars, NEW c \in Clients, Delete(c)
  PROVE AllAccounted'
<1>0. PICK i : i = req[c].id
  OBVIOUS
<1>1. /\ req[c] \in Request /\ req[c] # None /\ i \in 0..MaxId /\ given' = given
      /\ i <= given /\ {} \in SUBSET Ids
  BY <1>0 DEF Delete, Writes, IInv, TypeOK, AllAccounted, Accounted, Request
<1>2. Went(c, "answered", i, {}) /\ \A j \in Ids \ {i} : budgets'[j] = budgets[j]
  BY <1>0 DEF Delete, IInv, TypeOK
<1> QED BY <1>1, <1>2, StepAccounted DEF Steps

LEMMA ReadAccounts ==
  ASSUME IInv, AllAccounted, [Next]_vars, NEW c \in Clients, Read(c)
  PROVE AllAccounted'
<1>0. PICK i : i = req[c].id
  OBVIOUS
<1>1. /\ req[c] \in Request /\ req[c] # None /\ i \in 0..MaxId /\ given' = given
      /\ i <= given /\ budgets' = budgets /\ req[c].step = "read"
  BY <1>0 DEF Read, IInv, TypeOK, AllAccounted, Accounted, Request
<1>2. PICK seen : /\ seen = IF req[c].kind = "list" THEN Usage(c) ELSE Usage(c) \cap {i}
                  /\ Went(c, IF seen # {} \/ req[c].kind = "list" THEN "answered"
                             ELSE IF req[c].kind = "update" THEN "missing" ELSE "failed",
                          i, seen)
  BY <1>0 DEF Read
<1>3. seen \in SUBSET Ids
  BY <1>2 DEF Usage
<1>4. CASE seen # {} \/ req[c].kind = "list"
  <2>1. Went(c, "answered", i, seen)
    BY <1>2, <1>4
  <2> QED BY <1>1, <1>3, <2>1, StepAccounted DEF Steps
<1>5. CASE seen = {} /\ req[c].kind # "list"
  <2>1. PICK step \in {"missing", "failed"} : Went(c, step, i, seen)
    BY <1>2, <1>5
  <2>2. ~Granted(c)
    BY <1>0, <1>2, <1>5 DEF Usage, Granted, MonthOf, Own
  <2>3. req[c].taken
    BY <1>1, <1>5, <2>2 DEF AllAccounted, Accounted
  <2>4. step \in Steps \ {"write"} /\ step # "read"
    BY DEF Steps
  <2> QED BY <1>1, <1>3, <2>1, <2>3, <2>4, StepAccounted
<1> QED BY <1>4, <1>5

(* A request that begins is owed nothing yet, one that ended nothing more. *)
LEMMA TurnAccounts ==
  ASSUME IInv, AllAccounted, [Next]_vars, NEW c \in Clients, Begin(c) \/ End(c)
  PROVE AllAccounted'
<1>0. /\ budgets' = budgets /\ given' = given /\ given \in Nat
      /\ \A d \in Clients \ {c} : req'[d] = req[d]
  BY IdsAreNumbers DEF Begin, End, IInv, TypeOK
<1>1. \A d \in Clients \ {c} : req'[d] # None => Accounted(d)'
  BY <1>0, OthersAccounted
<1>2. CASE End(c)
  <2>1. req'[c] = None
    BY <1>2 DEF End, IInv, TypeOK
  <2> QED BY <1>1, <2>1 DEF AllAccounted
<1>3. CASE Begin(c)
  <2>1. PICK kind \in {"create", "update", "delete", "list"} :
          \E n \in IF kind \in {"update", "delete"} THEN 1..given ELSE {0},
             cat \in IF kind \in {"create", "update"} THEN Categories ELSE {None} :
          req' = [req EXCEPT ![c] =
            [kind |-> kind, month |-> month, category |-> cat, taken |-> FALSE, seen |-> {},
             id |-> n, step |-> IF kind = "list" THEN "read" ELSE "write"]]
    BY <1>3 DEF Begin
  <2>2. PICK n \in IF kind \in {"update", "delete"} THEN 1..given ELSE {0},
             cat \in IF kind \in {"create", "update"} THEN Categories ELSE {None} :
          req' = [req EXCEPT ![c] =
            [kind |-> kind, month |-> month, category |-> cat, taken |-> FALSE, seen |-> {},
             id |-> n, step |-> IF kind = "list" THEN "read" ELSE "write"]]
    BY <2>1
  <2>3. n <= given
    BY <1>0
  <2>4. /\ req'[c].id = n /\ req'[c].kind = kind
        /\ req'[c].step = (IF kind = "list" THEN "read" ELSE "write")
    BY <2>2 DEF IInv, TypeOK
  <2>5. Accounted(c)'
    BY <1>0, <2>3, <2>4 DEF Accounted
  <2> QED BY <1>1, <2>5 DEF AllAccounted
<1> QED BY <1>2, <1>3

LEMMA NextAccounts == ASSUME IInv, AllAccounted, [Next]_vars PROVE AllAccounted'
<1>1. CASE UNCHANGED <<budgets, given, req>>
  BY <1>1, OthersAccounted DEF AllAccounted
<1> QED BY <1>1, SavingAccounts, UpdateAccounts, DeleteAccounts, ReadAccounts, TurnAccounts
        DEF Next, NextMonth, vars

(* A save that is answered with an error lost its budget to another        *)
(* request, or found none: a month that turns is not enough.               *)
THEOREM OnlyOthersTake == Spec => []LostOnlyToOthers
<1>1. Init => AllAccounted
  BY DEF Init, AllAccounted
<1>2. IInv /\ AllAccounted /\ [Next]_vars => AllAccounted'
  BY NextAccounts
<1>3. AllAccounted => LostOnlyToOthers
  BY DEF AllAccounted, Accounted, LostOnlyToOthers
<1> QED BY Invariance, <1>1, <1>2, <1>3, PTL DEF Spec

-----------------------------------------------------------------------------
(* The page of statements.  The inductive invariant says who may be on its *)
(* way (only the handler that started last matters, and whoever writes or  *)
(* turns a page is that one), what it has asked for and is told, and that  *)
(* the statement shown is the server's unless a write has been done and    *)
(* not yet been heard of.                                                  *)

(* A statement that is no other account's: cancelled, or of the account    *)
(* that is selected.                                                       *)
OfSelected(i) == server[i] = None \/ server[i].account = selected

On(k) == tasks[k] # None
Mine(k) == On(k) /\ tasks[k].mine
Has(k) == ~tasks[k].sent /\ tasks[k].answer # None
Blocking(k) == On(k) /\ tasks[k].kind \in {"turn", "mutate"}

(* Who may be on its way, and who locked the page.                         *)
Tasks == 1..Slots
WaitsFor(kind, at) ==
  /\ kind = "load" => at \in {"accounts", "list", "get"}
  /\ kind \in {"show", "turn"} => at = "get"
  /\ kind = "mutate" => at \in Page!Writes \cup {"list", "get"}
Awaited == \A k \in Tasks : On(k) => WaitsFor(tasks[k].kind, tasks[k].at)
OneIsLast == \A k, l \in Tasks : Mine(k) /\ Mine(l) => k = l
Blocked == /\ \A k \in Tasks : Blocking(k) => tasks[k].mine /\ busy
           /\ busy => \E k \in Tasks : Blocking(k)
Locked == inert => \E k \in Tasks : Mine(k) /\ tasks[k].kind # "show"

(* What the last handler has asked for, and what it is told.               *)
Asks(k) ==
  /\ tasks[k].kind = "load" => active = None
  /\ tasks[k].kind \in {"load", "show"} => tasks[k].page = 1
  /\ tasks[k].kind = "turn" => active # None /\ tasks[k].id = active.id
  /\ tasks[k].kind = "mutate" /\ tasks[k].at \in {"toggle", "complete", "cancel", "get"} =>
       active # None /\ tasks[k].id = active.id /\ tasks[k].page = index
  /\ tasks[k].at = "get" => OfSelected(tasks[k].id)
Told(k) ==
  /\ tasks[k].at = "get" => tasks[k].answer = Page!Read(server, tasks[k].id, tasks[k].page)
  /\ tasks[k].at = "list" =>
       tasks[k].answer \subseteq Page!Ids /\ \A i \in tasks[k].answer : OfSelected(i)
  /\ tasks[k].at \in Page!Writes \ {"cancel"} =>
       \E i \in Page!Ids, p \in 1..Pages :
         /\ server[i] # None /\ OfSelected(i) /\ tasks[k].answer = Page!Read(server, i, p)
         /\ tasks[k].at = "toggle" => i = tasks[k].id /\ p = tasks[k].page
         /\ tasks[k].at # "toggle" => p = 1
         /\ tasks[k].at = "create" => active = None \/ active.id # i
Asked == \A k \in Tasks : Mine(k) => Asks(k)
Answers == \A k \in Tasks : Mine(k) /\ Has(k) => Told(k)

(* What is shown, settled unless a write or a second look is on its way.   *)
Unsettled == \E k \in Tasks :
  /\ On(k) /\ tasks[k].kind = "mutate"
  /\ tasks[k].at = "get" \/ (tasks[k].at \in Page!Writes /\ ~tasks[k].sent)
Shows ==
  active # None =>
    /\ active.account = selected /\ OfSelected(active.id) /\ active.page = index
    /\ Unsettled \/ active = Page!Read(server, active.id, active.page)
Lists == \A i \in listed : OfSelected(i)

PageInv == /\ Page!TypeOK /\ Awaited /\ OneIsLast /\ Blocked /\ Locked
           /\ Asked /\ Answers /\ Shows /\ Lists

-----------------------------------------------------------------------------
(* Lemmas.                                                                 *)

LEMMA PageNumbers ==
  /\ 1 \in 1..Pages /\ 1 \in Page!Ids /\ Pages \in Nat /\ MaxId \in Nat
  /\ Page!Awaits = {"create", "toggle", "complete", "cancel", "accounts", "list", "get"}
  BY PageAssumption DEF Page!BoundsAssumption, Page!Ids, Page!Awaits, Page!Writes

(* A task that waits is a record of its kind.                              *)
LEMMA TaskTyped ==
  ASSUME Page!TypeOK, NEW k \in Tasks, On(k)
  PROVE /\ tasks[k].at \in Page!Awaits /\ tasks[k] \in Page!Handler(tasks[k].at)
        /\ tasks[k].id \in Page!Ids /\ tasks[k].page \in 1..Pages
        /\ tasks[k].kind \in {"load", "show", "turn", "mutate"}
        /\ tasks[k].mine \in BOOLEAN /\ tasks[k].sent \in BOOLEAN
        /\ tasks[k].answer \in {None} \cup Page!Answer(tasks[k].at)
  BY DEF Page!TypeOK, Page!Handler, Tasks, On

LEMMA TaskIsOn == \A at \in Page!Awaits : \A t \in Page!Handler(at) : t # None
  BY PageAssumption DEF Page!NoneAssumption

(* What a statement of the selected account reads as.                      *)
LEMMA ReadTyped ==
  ASSUME Page!TypeOK, NEW i \in Page!Ids, NEW p \in 1..Pages, server[i] # None
  PROVE /\ Page!Read(server, i, p) \in Page!Snapshot /\ Page!Read(server, i, p) # None
        /\ Page!Read(server, i, p).id = i /\ Page!Read(server, i, p).page = p
        /\ Page!Read(server, i, p).account = server[i].account
<1>1. server[i] \in Page!Statement
  BY DEF Page!TypeOK
<1>2. (p \in server[i].cleared) \in BOOLEAN
  OBVIOUS
<1>3. PICK b \in BOOLEAN : b = (p \in server[i].cleared)
  BY <1>2
<1>4. Page!Read(server, i, p) = [id |-> i, account |-> server[i].account, status |-> server[i].status,
                                 page |-> p, cleared |-> b]
  BY <1>3 DEF Page!Read
<1>5. Page!Read(server, i, p) \in Page!Snapshot
  BY <1>1, <1>4 DEF Page!Snapshot, Page!Statement
<1> QED BY <1>4, <1>5, PageAssumption DEF Page!NoneAssumption

(* What is shown, when it is what the server has.                          *)
Sound ==
  active # None =>
    /\ active.account = selected /\ OfSelected(active.id) /\ active.page = index
    /\ active = Page!Read(server, active.id, active.page)

LEMMA Settled ==
  ASSUME PageInv,
         ~busy \/ \E k \in Tasks : /\ Mine(k)
                                  /\ \/ tasks[k].kind # "mutate"
                                     \/ tasks[k].at # "get" /\ (tasks[k].at \in Page!Writes => tasks[k].sent)
  PROVE Sound
<1>1. ~Unsettled
  BY DEF PageInv, Unsettled, Blocked, Blocking, OneIsLast, Mine, On
<1> QED BY <1>1 DEF PageInv, Shows, Sound

(* An answer is fit to be shown.                                           *)
LEMMA AnswerSound ==
  ASSUME Page!TypeOK, NEW i \in Page!Ids, NEW p \in 1..Pages, server[i] # None, OfSelected(i),
         NEW s, s = Page!Read(server, i, p), s # None
  PROVE /\ s \in Page!Snapshot /\ s.id = i /\ s.page = p /\ s.account = selected
        /\ s = Page!Read(server, s.id, s.page)
  BY ReadTyped DEF OfSelected

-----------------------------------------------------------------------------
(* The ways in which tasks go on.                                          *)

(* What else a step leaves is well formed; only one task is changed.       *)
Rest == /\ server' \in [Page!Ids -> Page!Statement \cup {None}] /\ selected' \in Accounts
        /\ active' \in Page!Snapshot \cup {None} /\ listed' \subseteq Page!Ids /\ index' \in 1..Pages
        /\ creating' \in BOOLEAN /\ busy' \in BOOLEAN /\ inert' \in BOOLEAN
Others(k) == /\ DOMAIN tasks' = Tasks
             /\ \A l \in Tasks \ {k} : tasks'[l] = tasks[l]

(* A handler begins, and those that waited are no longer the last.         *)
LEMMA BegunTasks ==
  ASSUME Page!TypeOK, NEW at \in Page!Awaits, NEW t \in Page!Handler(at), Page!Free # {}, Page!StartTask(t)
  PROVE \E k \in Tasks :
          /\ tasks[k] = None /\ tasks'[k] = t /\ DOMAIN tasks' = Tasks
          /\ \A l \in Tasks \ {k} : tasks[l] = None => tasks'[l] = None
          /\ \A l \in Tasks \ {k} : tasks[l] # None =>
               /\ tasks'[l] # None /\ tasks'[l].kind = tasks[l].kind /\ tasks'[l].at = tasks[l].at
               /\ ~tasks'[l].mine /\ tasks'[l] \in Page!Handler(tasks[l].at)
<1>1. PICK k \in Page!Free : tasks' = [[l \in 1..Slots |-> Page!Bumped(tasks[l])] EXCEPT ![k] = t]
  BY DEF Page!StartTask
<1>2. k \in Tasks /\ tasks[k] = None
  BY DEF Page!Free, Tasks
<1>3. /\ tasks'[k] = t /\ DOMAIN tasks' = Tasks
      /\ \A l \in Tasks \ {k} : tasks'[l] = Page!Bumped(tasks[l])
  BY <1>1, <1>2 DEF Tasks
<1>4. ASSUME NEW l \in Tasks \ {k}, tasks[l] # None
      PROVE /\ tasks'[l] # None /\ tasks'[l].kind = tasks[l].kind /\ tasks'[l].at = tasks[l].at
            /\ ~tasks'[l].mine /\ tasks'[l] \in Page!Handler(tasks[l].at)
  <2>1. tasks[l].at \in Page!Awaits /\ tasks[l] \in Page!Handler(tasks[l].at)
    BY <1>4, TaskTyped DEF On
  <2>2. PICK a : a = tasks[l].at
    OBVIOUS
  <2>3. PICK u \in Page!Handler(a) : u = tasks[l]
    BY <2>1, <2>2
  <2>4. tasks'[l] = [u EXCEPT !.mine = FALSE]
    BY <1>3, <1>4, <2>3 DEF Page!Bumped
  <2>5. /\ [u EXCEPT !.mine = FALSE] \in Page!Handler(a) /\ [u EXCEPT !.mine = FALSE].kind = u.kind
        /\ [u EXCEPT !.mine = FALSE].at = u.at /\ ~[u EXCEPT !.mine = FALSE].mine
    BY DEF Page!Handler
  <2> QED BY <2>1, <2>2, <2>3, <2>4, <2>5, TaskIsOn
<1>5. \A l \in Tasks \ {k} : tasks[l] = None => tasks'[l] = None
  BY <1>3 DEF Page!Bumped
<1> QED BY <1>2, <1>3, <1>4, <1>5

LEMMA HandlerBegins ==
  ASSUME PageInv, ~busy, Page!Free # {},
         NEW at \in Page!Awaits, NEW t \in Page!Handler(at), Page!StartTask(t), t.mine, t.sent,
         t.kind = "load" => at = "accounts", t.kind \in {"show", "turn"} => at = "get",
         t.kind = "mutate" => at \in Page!Writes,
         t.kind = "load" => active' = None,
         t.kind \in {"load", "show"} => t.page = 1,
         t.kind = "turn" => active' # None /\ t.id = active'.id,
         t.kind = "mutate" /\ at # "create" => active' # None /\ t.id = active'.id /\ t.page = index',
         at = "get" => OfSelected(t.id)',
         busy' <=> t.kind \in {"turn", "mutate"}, inert' => t.kind # "show",
         Rest, Sound', Lists'
  PROVE PageInv'
<1>1. PICK k \in Tasks :
          /\ tasks[k] = None /\ tasks'[k] = t /\ DOMAIN tasks' = Tasks
          /\ \A l \in Tasks \ {k} : tasks[l] = None => tasks'[l] = None
          /\ \A l \in Tasks \ {k} : tasks[l] # None =>
               /\ tasks'[l] # None /\ tasks'[l].kind = tasks[l].kind /\ tasks'[l].at = tasks[l].at
               /\ ~tasks'[l].mine /\ tasks'[l] \in Page!Handler(tasks[l].at)
  BY BegunTasks DEF PageInv
<1>2. t.at = at /\ t # None /\ t.kind \in {"load", "show", "turn", "mutate"}
  BY TaskIsOn DEF Page!Handler
<1>3. Page!TypeOK'
  <2>1. \A l \in Tasks : tasks'[l] # None =>
          tasks'[l].at \in Page!Awaits /\ tasks'[l] \in Page!Handler(tasks'[l].at)
    BY <1>1, <1>2, TaskTyped DEF PageInv, On
  <2> QED BY <1>1, <2>1 DEF Page!TypeOK, Tasks, Rest
<1>4. Awaited'
  BY <1>1, <1>2 DEF Awaited, WaitsFor, On, PageInv
<1>5. \A l \in Tasks : Mine(l)' <=> l = k
  BY <1>1, <1>2 DEF Mine, On
<1>6. OneIsLast'
  BY <1>5 DEF OneIsLast
<1>7. \A l \in Tasks \ {k} : ~Blocking(l)'
  BY <1>1 DEF PageInv, Blocked, Blocking, On
<1>8. Blocking(k)' <=> t.kind \in {"turn", "mutate"}
  BY <1>1, <1>2 DEF Blocking, On
<1>9. Blocked'
  BY <1>1, <1>7, <1>8 DEF Blocked
<1>10. Locked'
  BY <1>1, <1>5 DEF Locked
<1>11. Asks(k)'
  BY <1>1, <1>2, PageNumbers DEF Asks, Page!Writes
<1>12. Asked'
  BY <1>5, <1>11 DEF Asked
<1>13. Answers'
  BY <1>1, <1>5 DEF Answers, Has
<1>14. Shows'
  BY DEF Sound, Shows
<1> QED BY <1>3, <1>4, <1>6, <1>9, <1>10, <1>12, <1>13, <1>14 DEF PageInv

(* A handler that is not the last, or one that only shows, ends.           *)
LEMMA LateEnds ==
  ASSUME PageInv, NEW k \in Tasks, On(k), ~Mine(k) \/ tasks[k].kind = "show", Page!Ends(k),
         UNCHANGED <<server, selected, active, listed, creating, index, busy, inert>>
  PROVE PageInv'
<1>1. tasks'[k] = None /\ Others(k)
  BY DEF PageInv, Page!TypeOK, Page!Ends, Tasks, Others
<1>2. ~Blocking(k)
  BY DEF PageInv, Blocked, Blocking, Mine, Awaited
<1>3. Page!TypeOK'
  BY <1>1 DEF PageInv, Page!TypeOK, Others, Tasks
<1>4. \A l \in Tasks \ {k} :
        /\ On(l)' <=> On(l)
        /\ Mine(l)' <=> Mine(l)
        /\ Has(l)' <=> Has(l)
        /\ Blocking(l)' <=> Blocking(l)
        /\ tasks'[l] = tasks[l]
  BY <1>1 DEF On, Mine, Has, Blocking, Others
<1>5. ~On(k)' /\ ~Mine(k)' /\ ~Blocking(k)'
  BY <1>1 DEF On, Mine, Blocking
<1>6. Awaited' /\ OneIsLast'
  BY <1>4, <1>5 DEF PageInv, Awaited, OneIsLast
<1>7. Blocked'
  BY <1>2, <1>4, <1>5 DEF PageInv, Blocked
<1>8. Locked'
  BY <1>4, <1>5 DEF PageInv, Locked
<1>9. Asked'
  <2> SUFFICES ASSUME NEW l \in Tasks, Mine(l)' PROVE Asks(l)'
    BY DEF Asked
  <2>1. l # k /\ Mine(l) /\ tasks'[l] = tasks[l]
    BY <1>4, <1>5
  <2>2. Asks(l)
    BY <2>1 DEF PageInv, Asked
  <2> QED BY <2>1, <2>2 DEF Asks, OfSelected
<1>10. Answers'
  <2> SUFFICES ASSUME NEW l \in Tasks, Mine(l)', Has(l)' PROVE Told(l)'
    BY DEF Answers
  <2>1. l # k /\ Mine(l) /\ Has(l) /\ tasks'[l] = tasks[l]
    BY <1>4, <1>5
  <2>2. Told(l)
    BY <2>1 DEF PageInv, Answers
  <2> QED BY <2>1, <2>2 DEF Told, OfSelected, Page!Read
<1>11. Shows'
  <2>1. Unsettled => Unsettled'
    BY <1>2, <1>4 DEF Unsettled, Blocking
  <2> QED BY <2>1 DEF PageInv, Shows, OfSelected, Page!Read
<1>12. Lists'
  BY DEF PageInv, Lists, OfSelected
<1> QED BY <1>3, <1>6, <1>7, <1>8, <1>9, <1>10, <1>11, <1>12 DEF PageInv

(* The last handler ends, and the page is unlocked.                        *)
LEMMA LastEnds ==
  ASSUME PageInv, NEW k \in Tasks, Mine(k), Page!Ends(k), ~busy', ~inert', Rest, Sound', Lists'
  PROVE PageInv'
<1>1. tasks'[k] = None /\ Others(k)
  BY DEF PageInv, Page!TypeOK, Page!Ends, Tasks, Others
<1>2. Page!TypeOK'
  BY <1>1 DEF PageInv, Page!TypeOK, Others, Tasks, Rest
<1>3. \A l \in Tasks : ~Mine(l)' /\ ~Blocking(l)'
  BY <1>1 DEF PageInv, Mine, On, OneIsLast, Blocking, Blocked, Others
<1>4. Awaited'
  BY <1>1 DEF PageInv, Awaited, On, Others
<1> QED BY <1>2, <1>3, <1>4 DEF PageInv, OneIsLast, Blocked, Locked, Asked, Answers, Shows, Sound

(* The last handler asks for something else.                               *)
LEMMA LastGoes ==
  ASSUME PageInv, NEW k \in Tasks, Mine(k), NEW at \in Page!Awaits, NEW i \in Page!Ids, NEW p \in 1..Pages,
         Page!Goes(k, at, i, p), WaitsFor(tasks[k].kind, at),
         UNCHANGED <<server, selected, busy, inert>>, Rest,
         tasks[k].kind = "load" => active' = None,
         tasks[k].kind \in {"load", "show"} => p = 1, tasks[k].kind \in {"load", "mutate"},
         tasks[k].kind = "mutate" => at \in {"get", "list"},
         tasks[k].kind = "mutate" /\ at = "get" => active' # None /\ i = active'.id /\ p = index',
         at = "get" => OfSelected(i),
         Sound' \/ Shows', Lists'
  PROVE PageInv'
<1>1. PICK t : t = tasks[k]
  OBVIOUS
<1>2. t.at \in Page!Awaits /\ t \in Page!Handler(t.at) /\ t.mine /\ t # None
  BY <1>1, TaskTyped DEF PageInv, Mine, On
<1> DEFINE u == [kind |-> t.kind, at |-> at, mine |-> t.mine, id |-> i, page |-> p,
                 sent |-> TRUE, answer |-> None]
<1>3. tasks'[k] = u /\ Others(k)
  <2>1. tasks' = [tasks EXCEPT ![k] =
                    [[[[[t EXCEPT !.at = at] EXCEPT !.id = i] EXCEPT !.page = p]
                       EXCEPT !.answer = None] EXCEPT !.sent = TRUE]]
    BY <1>1 DEF Page!Goes
  <2> QED BY <1>2, <2>1 DEF Others, PageInv, Page!TypeOK, Tasks, Page!Handler
<1>4. u \in Page!Handler(at) /\ u # None
  BY <1>2, TaskIsOn DEF Page!Handler
<1>5. /\ tasks'[k].kind = t.kind /\ tasks'[k].at = at /\ tasks'[k].mine /\ tasks'[k].id = i
      /\ tasks'[k].page = p /\ tasks'[k].sent /\ tasks'[k] # None /\ tasks'[k] \in Page!Handler(at)
  <2>1. /\ u.kind = t.kind /\ u.at = at /\ u.mine /\ u.id = i /\ u.page = p /\ u.sent
    BY <1>2
  <2> HIDE DEF u
  <2> QED BY <1>3, <1>4, <2>1
<1> HIDE DEF u
<1>6. Page!TypeOK'
  <2>1. \A l \in Tasks : tasks'[l] # None =>
          tasks'[l].at \in Page!Awaits /\ tasks'[l] \in Page!Handler(tasks'[l].at)
    <3> TAKE l \in Tasks
    <3>1. CASE l = k
      BY <1>5, <3>1
    <3>2. CASE l # k
      BY <1>3, <3>2, TaskTyped DEF PageInv, On, Others
    <3> QED BY <3>1, <3>2
  <2> QED BY <1>3, <2>1 DEF Page!TypeOK, Tasks, Rest, Others
<1>7. Awaited'
  BY <1>1, <1>3, <1>5 DEF Awaited, WaitsFor, On, PageInv, Others
<1>8. \A l \in Tasks : Mine(l)' <=> l = k
  BY <1>3, <1>5 DEF Mine, On, PageInv, OneIsLast, Others
<1>9. \A l \in Tasks : Blocking(l)' <=> Blocking(l)
  BY <1>1, <1>2, <1>3, <1>5 DEF Blocking, On, Others
<1>10. Blocked'
  BY <1>5, <1>8, <1>9 DEF PageInv, Blocked, Blocking, Mine, OneIsLast
<1>11. Locked'
  BY <1>1, <1>5, <1>8 DEF PageInv, Locked, Mine, On, OneIsLast
<1>12. Asks(k)'
  BY <1>1, <1>5, PageNumbers DEF Asks, OfSelected
<1>13. Asked' /\ Answers'
  BY <1>5, <1>8, <1>12 DEF Asked, Answers, Has
<1>14. Shows'
  BY DEF Sound, Shows
<1> QED BY <1>6, <1>7, <1>8, <1>10, <1>11, <1>13, <1>14 DEF PageInv, OneIsLast

-----------------------------------------------------------------------------
(* The server answers.                                                     *)

(* A task is answered; everything else about the tasks stays.              *)
Served(k, a) == /\ Others(k) /\ tasks'[k] # None
                /\ tasks'[k] \in Page!Handler(tasks[k].at)
                /\ tasks'[k].kind = tasks[k].kind /\ tasks'[k].at = tasks[k].at
                /\ tasks'[k].mine = tasks[k].mine /\ tasks'[k].id = tasks[k].id
                /\ tasks'[k].page = tasks[k].page /\ ~tasks'[k].sent /\ tasks'[k].answer = a

LEMMA ServedTask ==
  ASSUME PageInv, NEW k \in Tasks, On(k), NEW a \in {None} \cup Page!Answer(tasks[k].at),
         tasks' = [tasks EXCEPT ![k].sent = FALSE, ![k].answer = a]
  PROVE Served(k, a)
<1>1. PICK at : at = tasks[k].at
  OBVIOUS
<1>2. PICK t \in Page!Handler(at) : t = tasks[k]
  BY <1>1, TaskTyped DEF PageInv
<1>3. at \in Page!Awaits
  BY <1>1, TaskTyped DEF PageInv
<1> DEFINE u == [kind |-> t.kind, at |-> at, mine |-> t.mine, id |-> t.id, page |-> t.page,
                 sent |-> FALSE, answer |-> a]
<1>4. u \in Page!Handler(at)
  BY <1>1 DEF Page!Handler
<1>5. tasks'[k] = u /\ Others(k)
  <2>1. tasks' = [tasks EXCEPT ![k] = [[t EXCEPT !.sent = FALSE] EXCEPT !.answer = a]]
    BY <1>2
  <2> QED BY <2>1 DEF Others, PageInv, Page!TypeOK, Tasks, Page!Handler
<1> QED BY <1>1, <1>2, <1>3, <1>4, <1>5, TaskIsOn DEF Served

(* Nothing is said of the others, and the last handler is told what holds. *)
LEMMA ServedKeeps ==
  ASSUME PageInv, NEW k \in Tasks, On(k), NEW a, Served(k, a),
         UNCHANGED <<selected, active, listed, creating, index, busy, inert>>,
         server' \in [Page!Ids -> Page!Statement \cup {None}],
         \A i \in Page!Ids : OfSelected(i) => OfSelected(i)',
         server' = server \/ (Mine(k) /\ tasks[k].kind = "mutate" /\ tasks[k].at \in Page!Writes),
         Mine(k) /\ a # None => Told(k)'
  PROVE PageInv'
<1>1. /\ Others(k) /\ tasks'[k] # None
      /\ tasks'[k].kind = tasks[k].kind /\ tasks'[k].at = tasks[k].at
      /\ tasks'[k].mine = tasks[k].mine /\ tasks'[k].id = tasks[k].id
      /\ tasks'[k].page = tasks[k].page /\ ~tasks'[k].sent /\ tasks'[k].answer = a
  BY DEF Served
<1>2. Page!TypeOK'
  <2>1. \A l \in Tasks : tasks'[l] # None =>
          tasks'[l].at \in Page!Awaits /\ tasks'[l] \in Page!Handler(tasks'[l].at)
    BY <1>1, TaskTyped DEF PageInv, On, Others, Served
  <2> QED BY <1>1, <2>1 DEF Page!TypeOK, Tasks, PageInv, Others
<1>3. \A l \in Tasks :
        /\ On(l)' <=> On(l)
        /\ Mine(l)' <=> Mine(l)
        /\ Blocking(l)' <=> Blocking(l)
        /\ On(l) => /\ tasks'[l].kind = tasks[l].kind /\ tasks'[l].at = tasks[l].at
                    /\ tasks'[l].mine = tasks[l].mine
                    /\ tasks'[l].id = tasks[l].id /\ tasks'[l].page = tasks[l].page
  BY <1>1 DEF On, Mine, Blocking, Others
<1>4. Awaited' /\ OneIsLast'
  BY <1>3 DEF PageInv, Awaited, OneIsLast
<1>5. Blocked'
  BY <1>3 DEF PageInv, Blocked, Blocking
<1>6. Locked'
  BY <1>3 DEF PageInv, Locked, Mine
<1>7. Asked'
  <2> SUFFICES ASSUME NEW l \in Tasks, Mine(l)' PROVE Asks(l)'
    BY DEF Asked
  <2>1. Mine(l) /\ On(l) /\ Asks(l)
    BY <1>3 DEF PageInv, Asked, Mine
  <2>2. OfSelected(tasks[l].id) => OfSelected(tasks[l].id)'
    <3>1. tasks'[l].id = tasks[l].id /\ tasks[l].id \in Page!Ids
      BY <1>3, <2>1, TaskTyped DEF PageInv
    <3>2. OfSelected(tasks[l].id)' <=>
            (server'[tasks[l].id] = None \/ server'[tasks[l].id].account = selected')
      BY <3>1 DEF OfSelected
    <3>3. PICK i \in Page!Ids : i = tasks[l].id
      BY <3>1
    <3> QED BY <3>2, <3>3 DEF OfSelected
  <2> QED BY <1>3, <2>1, <2>2 DEF Asks
<1>8. Answers'
  <2> SUFFICES ASSUME NEW l \in Tasks, Mine(l)', Has(l)' PROVE Told(l)'
    BY DEF Answers
  <2>1. Mine(l)
    BY <1>3
  <2>2. CASE l = k
    BY <1>1, <2>1, <2>2 DEF Has
  <2>3. CASE l # k
    <3>1. server' = server /\ tasks'[l] = tasks[l] /\ Has(l)
      BY <1>1, <2>1, <2>3 DEF PageInv, OneIsLast, Others, Has
    <3>2. Told(l)
      BY <2>1, <3>1 DEF PageInv, Answers
    <3> QED BY <3>1, <3>2 DEF Told, OfSelected, Page!Read
  <2> QED BY <2>2, <2>3
<1>9. Shows'
  <2>1. Unsettled => Unsettled'
    BY <1>1, <1>3 DEF Unsettled, Others
  <2>2. server' = server \/ Unsettled'
    BY <1>1, <1>3 DEF Unsettled, Mine, On
  <2>3. active # None => active.id \in Page!Ids
    BY DEF PageInv, Page!TypeOK, Page!Snapshot
  <2>4. active # None /\ OfSelected(active.id) => OfSelected(active.id)'
    <3>1. PICK s : s = active
      OBVIOUS
    <3>2. PICK i : i = s.id
      OBVIOUS
    <3>3. s # None => i \in Page!Ids
      BY <2>3, <3>1, <3>2
    <3> QED BY <3>1, <3>2, <3>3 DEF OfSelected
  <2> QED BY <2>1, <2>2, <2>4 DEF PageInv, Shows, Page!Read
<1>10. Lists'
  BY DEF PageInv, Lists, Page!TypeOK
<1> QED BY <1>2, <1>4, <1>5, <1>6, <1>7, <1>8, <1>9, <1>10 DEF PageInv

(* A write makes a statement of the selected account, or changes or        *)
(* removes one: no statement comes to another account.                     *)
LEMMA WriteKeepsAccounts ==
  ASSUME Page!TypeOK, NEW t, t.id \in Page!Ids, t.page \in 1..Pages,
         server' = Page!Write(t), UNCHANGED selected
  PROVE /\ server' \in [Page!Ids -> Page!Statement \cup {None}]
        /\ \A i \in Page!Ids : OfSelected(i) => OfSelected(i)'
        /\ t.at = "create" /\ server' # server =>
             \E i \in Page!Ids : /\ server[i] = None /\ server'[i] # None /\ server'[i].account = selected
                                /\ \A j \in Page!Ids \ {i} : server'[j] = server[j]
        /\ t.at \in {"toggle", "complete"} /\ server' # server =>
             server'[t.id] # None /\ server'[t.id].account = selected
<1>1. server \in [Page!Ids -> Page!Statement \cup {None}] /\ selected \in Accounts
  BY DEF Page!TypeOK
<1>2. \A s \in Page!Statement : s # None
  BY PageAssumption DEF Page!NoneAssumption
<1>3. CASE server' = server
  BY <1>1, <1>3 DEF OfSelected
<1>4. CASE t.at = "create" /\ server' # server
  <2>1. /\ \E i \in Page!Ids : server[i] = None
        /\ server' = [server EXCEPT ![CHOOSE i \in Page!Ids : server[i] = None] =
                        [account |-> selected, status |-> "draft", cleared |-> {}]]
    BY <1>4 DEF Page!Write
  <2>2. PICK i \in Page!Ids :
          /\ server[i] = None
          /\ server' = [server EXCEPT ![i] = [account |-> selected, status |-> "draft", cleared |-> {}]]
    BY <2>1
  <2>3. [account |-> selected, status |-> "draft", cleared |-> {}] \in Page!Statement
    BY <1>1 DEF Page!Statement
  <2>4. /\ server'[i] # None /\ server'[i].account = selected /\ server'[i] \in Page!Statement
        /\ \A j \in Page!Ids \ {i} : server'[j] = server[j]
    BY <1>1, <1>2, <2>2, <2>3
  <2>5. server' \in [Page!Ids -> Page!Statement \cup {None}]
    BY <1>1, <2>2, <2>3
  <2> QED BY <1>4, <2>2, <2>4, <2>5 DEF OfSelected
<1>5. ASSUME t.at # "create", server' # server
      PROVE  /\ server' \in [Page!Ids -> Page!Statement \cup {None}]
             /\ server[t.id] # None /\ server[t.id].account = selected
             /\ \A j \in Page!Ids \ {t.id} : server'[j] = server[j]
             /\ server'[t.id] = None \/ (server'[t.id] \in Page!Statement /\ server'[t.id].account = selected)
             /\ t.at \in {"toggle", "complete"} => server'[t.id] # None
  <2>1. PICK i \in Page!Ids : i = t.id
    OBVIOUS
  <2>2. i \in Page!Draft(selected)
    BY <1>5, <2>1 DEF Page!Write
  <2>3. server[i] # None /\ server[i] \in Page!Statement /\ server[i].account = selected
    BY <1>1, <2>2 DEF Page!Draft
  <2>4. CASE t.at = "toggle"
    <3>1. PICK c : c = IF t.page \in server[i].cleared THEN server[i].cleared \ {t.page}
                       ELSE server[i].cleared \cup {t.page}
      OBVIOUS
    <3>2. server' = [server EXCEPT ![i].cleared = c]
      BY <2>1, <2>2, <2>4, <3>1 DEF Page!Write
    <3>3. c \subseteq 1..Pages
      BY <2>3, <3>1 DEF Page!Statement
    <3>4. [server[i] EXCEPT !.cleared = c] \in Page!Statement
          /\ [server[i] EXCEPT !.cleared = c].account = selected
      BY <2>3, <3>3 DEF Page!Statement
    <3> QED BY <1>1, <1>2, <2>1, <2>3, <2>4, <3>2, <3>4
  <2>5. CASE t.at = "complete"
    <3>1. server' = [server EXCEPT ![i].status = "completed"]
      BY <2>1, <2>2, <2>5 DEF Page!Write
    <3>2. [server[i] EXCEPT !.status = "completed"] \in Page!Statement
          /\ [server[i] EXCEPT !.status = "completed"].account = selected
      BY <2>3 DEF Page!Statement
    <3> QED BY <1>1, <1>2, <2>1, <2>3, <2>5, <3>1, <3>2
  <2>6. CASE t.at = "cancel"
    <3>1. server' = [server EXCEPT ![i] = None]
      BY <2>1, <2>2, <2>6 DEF Page!Write
    <3> QED BY <1>1, <2>1, <2>3, <2>6, <3>1
  <2> QED BY <1>5, <2>4, <2>5, <2>6 DEF Page!Write
<1>6. CASE t.at # "create" /\ server' # server
  BY <1>2, <1>5, <1>6 DEF OfSelected
<1> QED BY <1>3, <1>4, <1>6

LEMMA ServeKeeps == ASSUME PageInv, NEW k \in Tasks, Page!Serve(k) PROVE PageInv'
<1> DEFINE t == tasks[k]
<1> DEFINE a == CASE t.at = "accounts" -> "accounts"
                  [] t.at = "list" -> {i \in Page!Ids : server[i] # None /\ server[i].account = selected}
                  [] t.at = "get" -> Page!Read(server, t.id, t.page)
                  [] t.at \in Page!Writes /\ server' # server -> Page!Made(t)
                  [] OTHER -> None
<1>1. /\ On(k) /\ t.sent
      /\ server' = IF t.at \in Page!Writes THEN Page!Write(t) ELSE server
      /\ tasks' = [tasks EXCEPT ![k].sent = FALSE, ![k].answer = a]
      /\ UNCHANGED <<selected, active, listed, creating, index, busy, inert>>
  BY DEF Page!Serve, Page!page, On
<1>2. /\ Page!TypeOK /\ t.at \in Page!Awaits /\ t.id \in Page!Ids /\ t.page \in 1..Pages
  BY <1>1, TaskTyped DEF PageInv
<1>3. CASE t.at \notin Page!Writes
  <2>1. server' = server
    BY <1>1, <1>3
  <2>2. a \in {None} \cup Page!Answer(t.at) /\ (Mine(k) /\ a # None => Told(k)' \/ ~Served(k, a))
    <3>1. CASE t.at = "accounts"
      <4>1. a = "accounts"
        BY <3>1 DEF Page!Writes
      <4> QED BY <3>1, <4>1 DEF Page!Answer, Told, Served, Page!Writes
    <3>2. CASE t.at = "list"
      <4>1. a = {i \in Page!Ids : server[i] # None /\ server[i].account = selected}
        BY <3>2 DEF Page!Writes
      <4>2. a \subseteq Page!Ids /\ \A i \in a : OfSelected(i)'
        BY <1>1, <2>1, <4>1 DEF OfSelected
      <4> HIDE DEF a
      <4>3. Served(k, a) => Told(k)'
        BY <3>2, <4>2 DEF Told, Served, Page!Writes
      <4> QED BY <3>2, <4>2, <4>3 DEF Page!Answer
    <3>3. CASE t.at = "get"
      <4>1. a = Page!Read(server, t.id, t.page)
        BY <3>3 DEF Page!Writes
      <4> HIDE DEF a
      <4>2. Served(k, a) => Told(k)'
        BY <2>1, <3>3, <4>1 DEF Told, Served, Page!Writes
      <4>3. a \in {None} \cup Page!Snapshot
        BY <1>2, <4>1, ReadTyped DEF Page!Read
      <4> QED BY <3>3, <4>2, <4>3 DEF Page!Answer, Page!Writes
    <3> QED BY <1>2, <1>3, <3>1, <3>2, <3>3, PageNumbers DEF Page!Writes
  <2> HIDE DEF a
  <2>3. Served(k, a)
    BY <1>1, <2>2, ServedTask
  <2>4. /\ server' \in [Page!Ids -> Page!Statement \cup {None}]
        /\ \A i \in Page!Ids : OfSelected(i) => OfSelected(i)'
    BY <1>1, <1>2, <2>1 DEF Page!TypeOK, OfSelected
  <2> QED BY <1>1, <2>1, <2>2, <2>3, <2>4, ServedKeeps
<1>4. CASE t.at \in Page!Writes
  <2>1. /\ t.kind = "mutate" /\ Mine(k)
    <3>1. t.kind = "mutate"
      BY <1>1, <1>4, TaskTyped DEF PageInv, Awaited, WaitsFor, Page!Writes
    <3> QED BY <1>1, <3>1 DEF PageInv, Blocked, Blocking, Mine
  <2>2. Sound
    BY <1>1, <1>4, <2>1, Settled DEF Page!Writes
  <2>3. /\ server' \in [Page!Ids -> Page!Statement \cup {None}]
        /\ \A i \in Page!Ids : OfSelected(i) => OfSelected(i)'
        /\ t.at = "create" /\ server' # server =>
             \E i \in Page!Ids : /\ server[i] = None /\ server'[i] # None /\ server'[i].account = selected
                                /\ \A j \in Page!Ids \ {i} : server'[j] = server[j]
        /\ t.at \in {"toggle", "complete"} /\ server' # server =>
             server'[t.id] # None /\ server'[t.id].account = selected
    BY <1>1, <1>2, <1>4, WriteKeepsAccounts
  <2>4. CASE server' = server
    <3>1. a = None
      BY <1>4, <2>4 DEF Page!Writes
    <3> HIDE DEF a
    <3>2. Served(k, a)
      BY <1>1, <3>1, ServedTask
    <3> QED BY <1>1, <2>3, <2>4, <3>1, <3>2, ServedKeeps
  <2>5. CASE server' # server /\ t.at = "cancel"
    <3>1. a = "none"
      BY <2>5 DEF Page!Writes, Page!Made
    <3> HIDE DEF a
    <3>2. Served(k, a)
      BY <1>1, <2>5, <3>1, ServedTask DEF Page!Answer
    <3>3. Told(k)'
      BY <2>5, <3>2 DEF Told, Served, Page!Writes
    <3> QED BY <1>1, <1>4, <2>1, <2>3, <3>2, <3>3, ServedKeeps
  <2>6. CASE server' # server /\ t.at \in {"create", "toggle", "complete"}
    <3>1. a = Page!Made(t)
      BY <1>4, <2>6 DEF Page!Writes
    <3>2. PICK i \in Page!Ids, p \in 1..Pages :
            /\ server'[i] # None /\ server'[i].account = selected /\ a = Page!Read(server', i, p)
            /\ t.at = "toggle" => i = t.id /\ p = t.page
            /\ t.at # "toggle" => p = 1
            /\ t.at = "create" => active = None \/ active.id # i
      <4>1. CASE t.at = "create"
        <5>1. PICK i \in Page!Ids : /\ server[i] = None /\ server'[i] # None /\ server'[i].account = selected
                                    /\ \A j \in Page!Ids \ {i} : server'[j] = server[j]
          BY <2>3, <2>6, <4>1
        <5>2. i = CHOOSE j \in Page!Ids : server'[j] # server[j]
          BY <5>1
        <5>3. a = Page!Read(server', i, 1)
          BY <3>1, <4>1, <5>2 DEF Page!Made
        <5>4. active = None \/ active.id # i
          BY <2>2, <5>1 DEF Sound, Page!Read
        <5> QED BY <4>1, <5>1, <5>3, <5>4, PageNumbers
      <4>2. CASE t.at = "toggle"
        BY <1>2, <2>3, <2>6, <3>1, <4>2 DEF Page!Made
      <4>3. CASE t.at = "complete"
        BY <1>2, <2>3, <2>6, <3>1, <4>3, PageNumbers DEF Page!Made
      <4> QED BY <2>6, <4>1, <4>2, <4>3
    <3> HIDE DEF a
    <3>3. a \in Page!Snapshot
      <4>1. Page!Read(server', i, p) \in Page!Snapshot
        <5>1. server'[i] \in Page!Statement
          BY <2>3, <3>2
        <5>2. (p \in server'[i].cleared) \in BOOLEAN
          OBVIOUS
        <5>3. PICK b \in BOOLEAN : b = (p \in server'[i].cleared)
          BY <5>2
        <5>4. Page!Read(server', i, p) = [id |-> i, account |-> server'[i].account,
                                          status |-> server'[i].status, page |-> p, cleared |-> b]
          BY <3>2, <5>3 DEF Page!Read
        <5> QED BY <5>1, <5>4 DEF Page!Snapshot, Page!Statement
      <4> QED BY <3>2, <4>1
    <3>4. Served(k, a)
      BY <1>1, <2>6, <3>3, ServedTask DEF Page!Answer
    <3>5. Told(k)'
      BY <1>1, <2>6, <3>2, <3>4 DEF Told, Served, OfSelected, Page!Writes
    <3> QED BY <1>1, <1>4, <2>1, <2>3, <3>4, <3>5, ServedKeeps
  <2> QED BY <1>4, <2>4, <2>5, <2>6 DEF Page!Writes
<1> QED BY <1>3, <1>4

-----------------------------------------------------------------------------
(* What the user does.                                                     *)

LEMMA LoadKeeps == ASSUME PageInv, Page!Load PROVE PageInv'
<1> DEFINE t == Page!Task("load", "accounts", 1, 1)
<1>1. /\ Page!Free # {} /\ ~busy /\ selected' \in Accounts /\ Page!StartTask(t)
      /\ inert' = TRUE /\ creating' = FALSE /\ listed' = {} /\ active' = None /\ index' = 1
      /\ UNCHANGED <<server, busy>>
  BY DEF Page!Load, Page!Occupied, Page!RenderFirst
<1>2. /\ t \in Page!Handler("accounts") /\ t.mine /\ t.sent /\ t.kind = "load" /\ t.page = 1
  BY PageNumbers DEF Page!Task, Page!Handler
<1> HIDE DEF t
<1>3. Rest /\ Sound' /\ Lists'
  BY <1>1, PageNumbers DEF Rest, Sound, Lists, PageInv, Page!TypeOK
<1>4. "accounts" \in Page!Awaits /\ inert' # FALSE
  BY <1>1, PageNumbers
<1> QED BY <1>1, <1>2, <1>3, <1>4, HandlerBegins

LEMMA ShowKeeps == ASSUME PageInv, NEW i \in Page!Ids, Page!Show(i) PROVE PageInv'
<1> DEFINE t == Page!Task("show", "get", i, 1)
<1>1. /\ Page!Free # {} /\ ~busy /\ ~inert /\ i \in listed /\ Page!StartTask(t)
      /\ UNCHANGED <<server, selected, active, listed, creating, index, busy, inert>>
  BY DEF Page!Show, Page!Clickable, Page!page
<1>2. /\ t \in Page!Handler("get") /\ t.mine /\ t.sent /\ t.kind = "show" /\ t.page = 1 /\ t.id = i
  BY PageNumbers DEF Page!Task, Page!Handler
<1> HIDE DEF t
<1>3. Sound
  BY <1>1, Settled
<1>4. Rest /\ Sound' /\ Lists' /\ OfSelected(t.id)'
  BY <1>1, <1>2, <1>3 DEF Rest, Sound, Lists, OfSelected, Page!Read, PageInv, Page!TypeOK
<1>5. "get" \in Page!Awaits
  BY PageNumbers
<1> QED BY <1>1, <1>2, <1>4, <1>5, HandlerBegins

(* Turning a page and writing lock the page.                               *)
LEMMA LockedKeeps ==
  ASSUME PageInv, Page!Clickable, NEW at \in Page!Awaits, NEW t \in Page!Handler(at), Page!Blocks(t),
         t.mine, t.sent,
         \/ t.kind = "turn" /\ at = "get" /\ active # None /\ t.id = active.id
         \/ t.kind = "mutate" /\ at \in Page!Writes
            /\ (at # "create" => active # None /\ t.id = active.id /\ t.page = index)
  PROVE PageInv'
<1>1. /\ Page!Free # {} /\ ~busy /\ ~inert /\ Page!StartTask(t) /\ busy' = TRUE /\ inert' = TRUE
      /\ UNCHANGED <<server, selected, active, listed, creating, index>>
  BY DEF Page!Clickable, Page!Blocks
<1>2. Sound
  BY <1>1, Settled
<1>3. Rest /\ Sound' /\ Lists'
  BY <1>1, <1>2 DEF Rest, Sound, Lists, OfSelected, Page!Read, PageInv, Page!TypeOK
<1>4. at = "get" => OfSelected(t.id)'
  BY <1>1, <1>2 DEF Sound, OfSelected, Page!Writes
<1> QED BY <1>1, <1>3, <1>4, HandlerBegins

LEMMA TurnKeeps == ASSUME PageInv, NEW p \in 1..Pages, Page!Turn(p) PROVE PageInv'
<1> DEFINE t == Page!Task("turn", "get", active.id, p)
<1>1. Page!Clickable /\ active # None /\ Page!Blocks(t)
  BY DEF Page!Turn
<1>2. active.id \in Page!Ids
  BY <1>1 DEF PageInv, Page!TypeOK, Page!Snapshot
<1>3. PICK u : u = t
  OBVIOUS
<1>4. u \in Page!Handler("get") /\ u.mine /\ u.sent /\ u.kind = "turn" /\ u.id = active.id
  BY <1>2, <1>3 DEF Page!Task, Page!Handler
<1> QED BY <1>1, <1>3, <1>4, LockedKeeps, PageNumbers

LEMMA MutateKeeps == ASSUME PageInv, NEW op \in Page!Writes, Page!Mutate(op) PROVE PageInv'
<1>1. PICK i : i = IF active = None THEN 1 ELSE active.id
  OBVIOUS
<1>2. PICK u : u = [Page!Task("mutate", op, i, index) EXCEPT !.at = op]
  OBVIOUS
<1>3. /\ Page!Clickable /\ Page!Blocks(u) /\ (op # "create" => active # None)
  BY <1>1, <1>2 DEF Page!Mutate
<1>4. i \in Page!Ids /\ index \in 1..Pages /\ op \in Page!Awaits
  BY <1>1, PageNumbers DEF PageInv, Page!TypeOK, Page!Snapshot, Page!Awaits
<1>5. /\ u \in Page!Handler(op) /\ u.mine /\ u.sent /\ u.kind = "mutate" /\ u.id = i /\ u.page = index
  BY <1>2, <1>4 DEF Page!Task, Page!Handler
<1> QED BY <1>1, <1>3, <1>4, <1>5, LockedKeeps

-----------------------------------------------------------------------------
(* Answers.                                                                *)

(* What the last handler is told at a reading.                             *)
LEMMA GotSound ==
  ASSUME PageInv, NEW k \in Tasks, Mine(k), Has(k), tasks[k].at = "get"
  PROVE /\ tasks[k].answer # None /\ tasks[k].answer \in Page!Snapshot
        /\ tasks[k].answer.id = tasks[k].id /\ tasks[k].answer.page = tasks[k].page
        /\ tasks[k].answer.account = selected /\ OfSelected(tasks[k].id)
        /\ tasks[k].answer = Page!Read(server, tasks[k].answer.id, tasks[k].answer.page)
<1>1. /\ OfSelected(tasks[k].id) /\ tasks[k].answer = Page!Read(server, tasks[k].id, tasks[k].page)
      /\ tasks[k].answer # None
  BY DEF PageInv, Asked, Asks, Answers, Told, Has
<1>2. PICK i \in Page!Ids, p \in 1..Pages : i = tasks[k].id /\ p = tasks[k].page
  BY TaskTyped DEF PageInv, Mine
<1>3. server[i] # None
  BY <1>1, <1>2 DEF Page!Read
<1>4. PICK s : s = tasks[k].answer
  OBVIOUS
<1> QED BY <1>1, <1>2, <1>3, <1>4, AnswerSound DEF PageInv

(* Only the last handler of those that lock nothing has anything to do.    *)
LEMMA LastLoad ==
  ASSUME PageInv, NEW k \in Tasks, Mine(k), tasks[k].kind \in {"load", "show"}
  PROVE ~busy /\ Sound /\ (tasks[k].kind = "show" => ~inert) /\ (tasks[k].kind = "load" => active = None)
<1>1. ~busy
  BY DEF PageInv, Blocked, Blocking, OneIsLast, Mine
<1>2. tasks[k].kind = "show" => ~inert
  BY DEF PageInv, Locked, OneIsLast
<1>3. tasks[k].kind = "load" => active = None
  BY DEF PageInv, Asked, Asks
<1> QED BY <1>1, <1>2, <1>3, Settled

LEMMA LoadAccountsKeeps == ASSUME PageInv, NEW k \in Tasks, Page!LoadAccounts(k) PROVE PageInv'
<1>1. /\ On(k) /\ tasks[k].kind = "load" /\ tasks[k].at = "accounts"
      /\ UNCHANGED <<server, selected, listed, creating, busy, inert>>
  BY DEF Page!LoadAccounts, Page!Answered, On
<1>2. CASE ~Mine(k)
  <2>1. Page!Ends(k) /\ UNCHANGED <<active, index>>
    BY <1>1, <1>2 DEF Page!LoadAccounts, Page!Last, Mine
  <2> QED BY <1>1, <1>2, <2>1, LateEnds
<1>3. CASE Mine(k)
  <2>1. Page!Goes(k, "list", 1, 1) /\ active' = None /\ index' = 1
    BY <1>3 DEF Page!LoadAccounts, Page!Last, Mine, Page!RenderFirst
  <2>2. Rest /\ Sound' /\ Lists'
    BY <1>1, <2>1, PageNumbers DEF Rest, Sound, Lists, OfSelected, PageInv, Page!TypeOK
  <2>3. WaitsFor(tasks[k].kind, "list") /\ "list" \in Page!Awaits
    BY <1>1, PageNumbers DEF WaitsFor
  <2> QED BY <1>1, <1>3, <2>1, <2>2, <2>3, LastGoes, PageNumbers
<1> QED BY <1>2, <1>3

(* The list that the last handler is told is of the account selected.      *)
LEMMA ToldList ==
  ASSUME PageInv, NEW k \in Tasks, Mine(k), Has(k), tasks[k].at = "list"
  PROVE tasks[k].answer \subseteq Page!Ids /\ \A i \in tasks[k].answer : OfSelected(i)
  BY DEF PageInv, Answers, Told

LEMMA LoadListKeeps == ASSUME PageInv, NEW k \in Tasks, Page!LoadList(k) PROVE PageInv'
<1>1. /\ On(k) /\ tasks[k].kind = "load" /\ tasks[k].at = "list" /\ Has(k)
      /\ UNCHANGED <<server, selected, active, index, busy>>
  BY DEF Page!LoadList, Page!Answered, On, Has
<1>2. CASE ~Mine(k)
  <2>1. Page!Ends(k) /\ UNCHANGED <<listed, creating, inert>>
    BY <1>1, <1>2 DEF Page!LoadList, Page!Last, Mine
  <2> QED BY <1>1, <1>2, <2>1, LateEnds
<1>3. CASE Mine(k)
  <2>1. PICK ids : ids = tasks[k].answer
    OBVIOUS
  <2>2. ids \subseteq Page!Ids /\ \A i \in ids : OfSelected(i)
    BY <1>1, <1>3, <2>1, ToldList
  <2>3. /\ listed' = ids
        /\ creating' = (\A i \in ids : server[i] = None \/ server[i].status # "draft")
        /\ IF ids \cap Page!Draft(selected) = {} THEN Page!Ends(k) /\ inert' = FALSE
           ELSE Page!Goes(k, "get", CHOOSE i \in ids \cap Page!Draft(selected) : TRUE, 1) /\ UNCHANGED inert
    BY <1>3, <2>1 DEF Page!LoadList, Page!Last, Mine, Page!Lists
  <2>4. ~busy /\ Sound /\ active = None
    BY <1>1, <1>3, LastLoad
  <2>5. creating' \in BOOLEAN
    <3>1. (\A i \in ids : server[i] = None \/ server[i].status # "draft") \in BOOLEAN
      OBVIOUS
    <3> QED BY <2>3, <3>1
  <2>6. Sound' /\ Lists'
    BY <1>1, <2>2, <2>3, <2>4 DEF Sound, Lists, OfSelected
  <2>7. CASE ids \cap Page!Draft(selected) = {}
    <3>1. Page!Ends(k) /\ inert' = FALSE
      BY <2>3, <2>7
    <3>2. Rest
      BY <1>1, <2>2, <2>3, <2>5, <3>1 DEF Rest, PageInv, Page!TypeOK
    <3> QED BY <1>1, <1>3, <2>4, <2>6, <3>1, <3>2, LastEnds
  <2>8. CASE ids \cap Page!Draft(selected) # {}
    <3>1. PICK i \in ids \cap Page!Draft(selected) : Page!Goes(k, "get", i, 1) /\ UNCHANGED inert
      BY <2>3, <2>8
    <3>2. Rest
      BY <1>1, <2>2, <2>3, <2>5, <3>1 DEF Rest, PageInv, Page!TypeOK
    <3>3. i \in Page!Ids /\ OfSelected(i) /\ WaitsFor(tasks[k].kind, "get") /\ "get" \in Page!Awaits
      BY <1>1, <2>2, PageNumbers DEF WaitsFor
    <3> QED BY <1>1, <1>3, <2>4, <2>6, <3>1, <3>2, <3>3, LastGoes, PageNumbers
  <2> QED BY <2>7, <2>8
<1> QED BY <1>2, <1>3

(* An answer is rendered: another statement begins at its first page.      *)
LEMMA RenderedSound ==
  ASSUME PageInv, NEW s \in Page!Snapshot, s # None, s.account = selected, OfSelected(s.id),
         s = Page!Read(server, s.id, s.page), UNCHANGED <<server, selected>>,
         active' = s, index' = s.page
  PROVE Sound'
  BY DEF Sound, OfSelected

LEMMA LoadDraftKeeps == ASSUME PageInv, NEW k \in Tasks, Page!LoadDraft(k) PROVE PageInv'
<1>1. /\ On(k) /\ tasks[k].kind = "load" /\ tasks[k].at = "get" /\ Has(k) /\ Page!Ends(k)
      /\ UNCHANGED <<server, selected, listed, creating, busy>>
  BY DEF Page!LoadDraft, Page!Answered, On, Has
<1>2. CASE ~Mine(k)
  <2>1. UNCHANGED <<active, index, inert>>
    BY <1>1, <1>2 DEF Page!LoadDraft, Page!Last, Mine
  <2> QED BY <1>1, <1>2, <2>1, LateEnds
<1>3. CASE Mine(k)
  <2>1. PICK s : s = tasks[k].answer
    OBVIOUS
  <2>2. /\ s # None /\ s \in Page!Snapshot /\ s.page = 1 /\ s.account = selected /\ OfSelected(s.id)
        /\ s = Page!Read(server, s.id, s.page)
    BY <1>1, <1>3, <2>1, GotSound DEF PageInv, Asked, Asks
  <2>3. ~busy /\ active = None
    BY <1>1, <1>3, LastLoad
  <2>4. active' = s /\ index' = 1 /\ inert' = FALSE
    BY <1>3, <2>1, <2>3 DEF Page!LoadDraft, Page!Last, Mine, Page!Render
  <2>5. Sound' /\ Lists'
    BY <1>1, <2>2, <2>4, RenderedSound DEF PageInv, Lists, OfSelected
  <2>6. Rest
    BY <1>1, <2>2, <2>4, PageNumbers DEF Rest, PageInv, Page!TypeOK
  <2> QED BY <1>1, <1>3, <2>3, <2>4, <2>5, <2>6, LastEnds
<1> QED BY <1>2, <1>3

LEMMA LoadFailsKeeps == ASSUME PageInv, NEW k \in Tasks, Page!LoadFails(k) PROVE PageInv'
<1>1. /\ On(k) /\ tasks[k].kind = "load" /\ Page!Ends(k) /\ inert' = IF tasks[k].mine THEN FALSE ELSE inert
      /\ UNCHANGED <<server, selected, active, listed, creating, index, busy>>
  BY DEF Page!LoadFails, Page!Failed, Page!Unlocked, Page!Last, On
<1>2. CASE ~Mine(k)
  BY <1>1, <1>2, LateEnds DEF Mine
<1>3. CASE Mine(k)
  <2>1. ~busy /\ Sound /\ inert' = FALSE
    BY <1>1, <1>3, LastLoad DEF Mine
  <2>2. Rest /\ Sound' /\ Lists'
    BY <1>1, <2>1 DEF Rest, Sound, Lists, OfSelected, Page!Read, PageInv, Page!TypeOK
  <2> QED BY <1>1, <1>3, <2>1, <2>2, LastEnds
<1> QED BY <1>2, <1>3

LEMMA ShownKeeps == ASSUME PageInv, NEW k \in Tasks, Page!Shown(k) PROVE PageInv'
<1>1. /\ On(k) /\ tasks[k].kind = "show" /\ tasks[k].at = "get" /\ Has(k) /\ Page!Ends(k)
      /\ UNCHANGED <<server, selected, listed, creating, busy, inert>>
  BY DEF Page!Shown, Page!Answered, On, Has
<1>2. CASE ~Mine(k)
  <2>1. UNCHANGED <<active, index>>
    BY <1>1, <1>2 DEF Page!Shown, Page!Last, Mine
  <2> QED BY <1>1, <1>2, <2>1, LateEnds
<1>3. CASE Mine(k)
  <2>1. PICK s : s = tasks[k].answer
    OBVIOUS
  <2>2. /\ s # None /\ s \in Page!Snapshot /\ s.page = 1 /\ s.account = selected /\ OfSelected(s.id)
        /\ s = Page!Read(server, s.id, s.page)
    BY <1>1, <1>3, <2>1, GotSound DEF PageInv, Asked, Asks
  <2>3. ~busy /\ ~inert
    BY <1>1, <1>3, LastLoad
  <2>4. active' = s /\ index' = 1
    BY <1>3, <2>1 DEF Page!Shown, Page!Last, Mine, Page!RenderFirst
  <2>5. Sound' /\ Lists'
    BY <1>1, <2>2, <2>4, RenderedSound DEF PageInv, Lists, OfSelected
  <2>6. Rest
    BY <1>1, <2>2, <2>4, PageNumbers DEF Rest, PageInv, Page!TypeOK
  <2> QED BY <1>1, <1>3, <2>3, <2>5, <2>6, LastEnds
<1> QED BY <1>2, <1>3

LEMMA ShowFailsKeeps == ASSUME PageInv, NEW k \in Tasks, Page!ShowFails(k) PROVE PageInv'
  BY LateEnds DEF Page!ShowFails, Page!Failed, Page!page, On

(* Who turns a page or writes is the last.                                 *)
LEMMA BlockingIsLast ==
  ASSUME PageInv, NEW k \in Tasks, On(k), tasks[k].kind \in {"turn", "mutate"}
  PROVE Mine(k)
  BY DEF PageInv, Blocked, Blocking, Mine

LEMMA TurnedKeeps == ASSUME PageInv, NEW k \in Tasks, Page!Turned(k) PROVE PageInv'
<1>1. /\ On(k) /\ tasks[k].kind = "turn" /\ tasks[k].at = "get" /\ Has(k) /\ Page!Ends(k)
      /\ UNCHANGED <<server, selected, listed, creating>> /\ busy' = FALSE /\ inert' = FALSE
  BY DEF Page!Turned, Page!Answered, On, Has, Page!Unblocks
<1>2. Mine(k)
  BY <1>1, BlockingIsLast
<1>3. PICK s, p : s = tasks[k].answer /\ p = tasks[k].page
  OBVIOUS
<1>4. /\ s # None /\ s \in Page!Snapshot /\ s.page = p /\ s.account = selected /\ OfSelected(s.id)
      /\ s = Page!Read(server, s.id, s.page)
  BY <1>1, <1>2, <1>3, GotSound
<1>5. active' = s /\ index' = p
  BY <1>2, <1>3 DEF Page!Turned, Page!Last, Mine
<1>6. Sound' /\ Lists'
  BY <1>1, <1>4, <1>5, RenderedSound DEF PageInv, Lists, OfSelected
<1>7. Rest
  BY <1>1, <1>4, <1>5 DEF Rest, PageInv, Page!TypeOK, Page!Snapshot
<1> QED BY <1>1, <1>2, <1>6, <1>7, LastEnds

LEMMA TurnFailsKeeps == ASSUME PageInv, NEW k \in Tasks, Page!TurnFails(k) PROVE PageInv'
<1>1. /\ On(k) /\ tasks[k].kind = "turn" /\ Page!Ends(k) /\ busy' = FALSE /\ inert' = FALSE
      /\ UNCHANGED <<server, selected, active, listed, creating, index>>
  BY DEF Page!TurnFails, Page!Failed, On, Page!Unblocks
<1>2. Mine(k) /\ Sound
  BY <1>1, BlockingIsLast, Settled
<1>3. Rest /\ Sound' /\ Lists'
  BY <1>1, <1>2 DEF Rest, Sound, Lists, OfSelected, Page!Read, PageInv, Page!TypeOK
<1> QED BY <1>1, <1>2, <1>3, LastEnds

LEMMA MutatedKeeps == ASSUME PageInv, NEW k \in Tasks, Page!Mutated(k) PROVE PageInv'
<1>1. /\ On(k) /\ tasks[k].kind = "mutate" /\ tasks[k].at \in Page!Writes /\ Has(k)
      /\ Page!Goes(k, "list", tasks[k].id, tasks[k].page)
      /\ UNCHANGED <<server, selected, listed, creating, busy, inert>>
  BY DEF Page!Mutated, Page!Answered, On, Has
<1>2. Mine(k)
  BY <1>1, BlockingIsLast
<1>3. active' \in Page!Snapshot \cup {None} /\ index' \in 1..Pages /\ Sound'
  <2>1. CASE tasks[k].at = "cancel"
    <3>1. active' = None /\ index' = 1
      BY <2>1 DEF Page!Mutated, Page!Render
    <3> QED BY <3>1, PageNumbers DEF Sound
  <2>2. CASE tasks[k].at # "cancel"
    <3>1. PICK s : s = tasks[k].answer
      OBVIOUS
    <3>2. PICK i \in Page!Ids, p \in 1..Pages :
            /\ server[i] # None /\ OfSelected(i) /\ s = Page!Read(server, i, p)
            /\ tasks[k].at = "toggle" => i = tasks[k].id /\ p = tasks[k].page
            /\ tasks[k].at # "toggle" => p = 1
            /\ tasks[k].at = "create" => active = None \/ active.id # i
      BY <1>1, <1>2, <2>2, <3>1 DEF PageInv, Answers, Told
    <3>3. /\ s # None /\ s \in Page!Snapshot /\ s.id = i /\ s.page = p /\ s.account = selected
          /\ s = Page!Read(server, s.id, s.page)
      BY <1>1, <3>1, <3>2, AnswerSound DEF PageInv, Has
    <3>4. active' = s
      BY <2>2, <3>1 DEF Page!Mutated, Page!Render, Page!RenderFirst
    <3>5. index' = p
      <4>1. CASE tasks[k].at = "complete"
        BY <3>2, <4>1 DEF Page!Mutated, Page!RenderFirst
      <4>2. CASE tasks[k].at = "create"
        BY <3>1, <3>2, <3>3, <4>2 DEF Page!Mutated, Page!Render
      <4>3. CASE tasks[k].at = "toggle"
        <5>1. active # None /\ tasks[k].id = active.id /\ tasks[k].page = index
          BY <1>1, <1>2, <4>3 DEF PageInv, Asked, Asks
        <5> QED BY <3>1, <3>2, <3>3, <4>3, <5>1 DEF Page!Mutated, Page!Render
      <4> QED BY <1>1, <2>2, <4>1, <4>2, <4>3 DEF Page!Writes
    <3> QED BY <1>1, <3>2, <3>3, <3>4, <3>5, RenderedSound
  <2> QED BY <2>1, <2>2
<1>4. Rest /\ Lists'
  BY <1>1, <1>3 DEF Rest, Lists, OfSelected, PageInv, Page!TypeOK
<1>5. /\ tasks[k].id \in Page!Ids /\ tasks[k].page \in 1..Pages /\ "list" \in Page!Awaits
      /\ WaitsFor(tasks[k].kind, "list")
  BY <1>1, TaskTyped, PageNumbers DEF PageInv, WaitsFor
<1> QED BY <1>1, <1>2, <1>3, <1>4, <1>5, LastGoes

LEMMA MutatedListKeeps == ASSUME PageInv, NEW k \in Tasks, Page!MutatedList(k) PROVE PageInv'
<1>1. /\ On(k) /\ tasks[k].kind = "mutate" /\ tasks[k].at = "list" /\ Has(k) /\ Page!Ends(k)
      /\ UNCHANGED <<server, selected, active, index>> /\ busy' = FALSE /\ inert' = FALSE
  BY DEF Page!MutatedList, Page!Answered, On, Has, Page!Unblocks
<1>2. Mine(k) /\ Sound
  BY <1>1, BlockingIsLast, Settled DEF Page!Writes
<1>3. PICK ids : ids = tasks[k].answer
  OBVIOUS
<1>4. ids \subseteq Page!Ids /\ \A i \in ids : OfSelected(i)
  BY <1>1, <1>2, <1>3, ToldList
<1>5. listed' = ids /\ creating' = (\A i \in ids : server[i] = None \/ server[i].status # "draft")
  BY <1>3 DEF Page!MutatedList, Page!Lists
<1>6. creating' \in BOOLEAN
  <2>1. (\A i \in ids : server[i] = None \/ server[i].status # "draft") \in BOOLEAN
    OBVIOUS
  <2> QED BY <1>5, <2>1
<1>7. Rest /\ Sound' /\ Lists'
  BY <1>1, <1>2, <1>4, <1>5, <1>6 DEF Rest, Sound, Lists, OfSelected, Page!Read, PageInv, Page!TypeOK
<1> QED BY <1>1, <1>2, <1>7, LastEnds

LEMMA MutateFailsKeeps == ASSUME PageInv, NEW k \in Tasks, Page!MutateFails(k) PROVE PageInv'
<1>1. /\ On(k) /\ tasks[k].kind = "mutate" /\ tasks[k].at # "get" /\ Page!LooksAgain(k)
      /\ UNCHANGED <<server, selected, listed, creating>>
  BY DEF Page!MutateFails, Page!Failed, On
<1>2. Mine(k)
  BY <1>1, BlockingIsLast
<1>3. CASE active = None
  <2>1. Page!Ends(k) /\ busy' = FALSE /\ inert' = FALSE /\ UNCHANGED <<active, index>>
    BY <1>1, <1>3 DEF Page!LooksAgain, Page!Unblocks
  <2>2. Rest /\ Sound' /\ Lists'
    BY <1>1, <1>3, <2>1 DEF Rest, Sound, Lists, OfSelected, PageInv, Page!TypeOK
  <2> QED BY <1>2, <2>1, <2>2, LastEnds
<1>4. CASE active # None
  <2>1. Page!Goes(k, "get", active.id, index) /\ UNCHANGED <<active, index, busy, inert>>
    BY <1>1, <1>4 DEF Page!LooksAgain
  <2>2. PICK s : s = active
    OBVIOUS
  <2>3. PICK i : i = s.id
    OBVIOUS
  <2>4. /\ i \in Page!Ids /\ index \in 1..Pages /\ OfSelected(i) /\ active.id = i
        /\ active.account = selected /\ active.page = index
    BY <1>4, <2>2, <2>3 DEF PageInv, Page!TypeOK, Page!Snapshot, Shows
  <2>5. Rest /\ Lists'
    BY <1>1, <2>1 DEF Rest, Lists, OfSelected, PageInv, Page!TypeOK
  <2>6. WaitsFor(tasks[k].kind, "get") /\ "get" \in Page!Awaits
    BY <1>1, PageNumbers DEF WaitsFor
  <2>7. Shows'
    <3>1. On(k)' /\ tasks'[k].kind = "mutate" /\ tasks'[k].at = "get"
      <4>1. PICK at : at = tasks[k].at
        OBVIOUS
      <4>2. PICK t \in Page!Handler(at) : t = tasks[k]
        BY <1>1, <4>1, TaskTyped DEF PageInv
      <4>3. PICK n \in 1..Pages : n = index
        BY <2>4
      <4>4. tasks'[k] = [[[[[t EXCEPT !.at = "get"] EXCEPT !.id = i] EXCEPT !.page = n]
                            EXCEPT !.answer = None] EXCEPT !.sent = TRUE]
        BY <2>1, <2>4, <4>2, <4>3 DEF Page!Goes, PageInv, Page!TypeOK, Tasks
      <4> DEFINE u == [kind |-> t.kind, at |-> "get", mine |-> t.mine, id |-> i, page |-> n,
                       sent |-> TRUE, answer |-> None]
      <4>5. tasks'[k] = u
        BY <4>4 DEF Page!Handler
      <4>6. u \in Page!Handler("get")
        BY <2>4 DEF Page!Handler
      <4>7. u.kind = "mutate" /\ u.at = "get" /\ u # None
        BY <1>1, <2>6, <4>2, <4>6, TaskIsOn
      <4> QED BY <4>5, <4>7 DEF On
    <3>2. Unsettled'
      BY <3>1 DEF Unsettled
    <3>3. active' = active /\ selected' = selected /\ index' = index /\ (OfSelected(i)' <=> OfSelected(i))
      BY <1>1, <2>1 DEF OfSelected
    <3> QED BY <2>4, <3>2, <3>3 DEF Shows, OfSelected
  <2> QED BY <1>1, <1>2, <1>4, <2>1, <2>4, <2>5, <2>6, <2>7, LastGoes
<1> QED BY <1>3, <1>4

LEMMA AgainKeeps == ASSUME PageInv, NEW k \in Tasks, Page!Again(k) PROVE PageInv'
<1>1. /\ On(k) /\ tasks[k].kind = "mutate" /\ tasks[k].at = "get" /\ Page!Ends(k)
      /\ UNCHANGED <<server, selected, listed, creating>> /\ busy' = FALSE /\ inert' = FALSE
  BY DEF Page!Again, On, Page!Unblocks
<1>2. Mine(k)
  BY <1>1, BlockingIsLast
<1>3. active' \in Page!Snapshot \cup {None} /\ index' \in 1..Pages /\ Sound'
  <2>1. CASE ~Has(k)
    <3>1. active' = None /\ index' = 1
      BY <2>1 DEF Page!Again, Page!Render, Page!Answered, Has
    <3> QED BY <3>1, PageNumbers DEF Sound
  <2>2. CASE Has(k)
    <3>1. PICK s : s = tasks[k].answer
      OBVIOUS
    <3>2. /\ s # None /\ s \in Page!Snapshot /\ s.id = tasks[k].id /\ s.page = tasks[k].page
          /\ s.account = selected /\ OfSelected(s.id)
          /\ s = Page!Read(server, s.id, s.page)
      BY <1>1, <1>2, <2>2, <3>1, GotSound
    <3>3. active # None /\ tasks[k].id = active.id /\ tasks[k].page = index
      BY <1>1, <1>2 DEF PageInv, Asked, Asks
    <3>4. Page!Render(s)
      BY <1>1, <2>2, <3>1 DEF Page!Again, Page!Answered, Has, On
    <3>5. active' = s /\ index' = index
      BY <3>2, <3>3, <3>4 DEF Page!Render
    <3> QED BY <1>1, <3>2, <3>3, <3>5, RenderedSound DEF PageInv, Page!TypeOK
  <2> QED BY <2>1, <2>2
<1>4. Rest /\ Lists'
  BY <1>1, <1>3 DEF Rest, Lists, OfSelected, PageInv, Page!TypeOK
<1> QED BY <1>1, <1>2, <1>3, <1>4, LastEnds

-----------------------------------------------------------------------------
(* The page.                                                               *)

LEMMA PageStarts == Page!Init => PageInv
<1> SUFFICES ASSUME Page!Init PROVE PageInv
  OBVIOUS
<1>1. \A k \in Tasks : tasks[k] = None
  BY DEF Page!Init, Tasks
<1>2. Page!TypeOK
  BY <1>1, PageNumbers DEF Page!Init, Page!TypeOK, Tasks
<1> QED BY <1>1, <1>2 DEF PageInv, Page!Init, Awaited, OneIsLast, Blocked, Locked, Asked, Answers, Shows,
           Lists, On, Mine, Blocking

LEMMA PageStepKeeps == ASSUME PageInv, Page!Next PROVE PageInv'
  BY LoadKeeps, ShowKeeps, TurnKeeps, MutateKeeps, ServeKeeps, LoadAccountsKeeps, LoadListKeeps,
     LoadDraftKeeps, LoadFailsKeeps, ShownKeeps, ShowFailsKeeps, TurnedKeeps, TurnFailsKeeps,
     MutatedKeeps, MutatedListKeeps, MutateFailsKeeps, AgainKeeps
  DEF Page!Next, Tasks

LEMMA PageRests == ASSUME PageInv, UNCHANGED Page!vars PROVE PageInv'
<1>1. UNCHANGED <<server, selected, active, listed, creating, index, busy, inert, tasks>>
  BY DEF Page!vars
<1> QED BY <1>1 DEF PageInv, Page!TypeOK, Awaited, OneIsLast, Blocked, Locked, Asked, Answers, Shows, Lists,
           On, Mine, Blocking, Has, Asks, Told, OfSelected, Unsettled, Page!Read

(* What the invariant says of the page.                                    *)
LEMMA InvIsTrue == PageInv => PageIsTrue
<1> SUFFICES ASSUME PageInv PROVE PageIsTrue
  OBVIOUS
<1>1. Page!ShownIsSelected
  BY DEF PageInv, Shows, Lists, OfSelected, Page!ShownIsSelected
<1>2. Page!ServerIsAuthority
  BY DEF PageInv, Shows, Unsettled, On, Tasks, Page!ServerIsAuthority
<1>3. Page!LockedBySomebody
  <2>1. inert => \E k \in Tasks : tasks[k] # None /\ (busy \/ (tasks[k].kind = "load" /\ tasks[k].mine))
    BY TaskTyped DEF PageInv, Locked, Mine, On, Blocked, Blocking
  <2>2. busy => \E k \in Tasks : tasks[k] # None /\ tasks[k].kind \in {"turn", "mutate"}
    BY DEF PageInv, Blocked, Blocking, On
  <2> QED BY <2>1, <2>2 DEF Page!LockedBySomebody, Tasks
<1>4. Page!OneWrite
  <2> SUFFICES ASSUME NEW k \in Tasks, tasks[k] # None,
                      tasks[k].at \in Page!Writes \ {"create"}, tasks[k].sent
               PROVE  active # None /\ active.id = tasks[k].id /\ active.page = tasks[k].page
    BY DEF Page!OneWrite, Tasks
  <2>1. tasks[k].kind = "mutate" /\ On(k)
    BY TaskTyped DEF PageInv, Awaited, WaitsFor, On, Page!Writes
  <2>2. Mine(k)
    BY <2>1, BlockingIsLast
  <2> QED BY <2>1, <2>2 DEF PageInv, Asked, Asks, Shows, Page!Writes
<1> QED BY <1>1, <1>2, <1>3, <1>4 DEF PageIsTrue

(* Whatever is clicked and however late, lost or refused the answers are,  *)
(* the page shows a statement of the account selected, agrees with the     *)
(* server when nothing is on its way, is locked only by who will unlock    *)
(* it, and has one write on its way (views/reconciliation.js).             *)
THEOREM PageHolds == Page!Spec => []PageIsTrue
<1>1. PageInv /\ [Page!Next]_Page!vars => PageInv'
  BY PageStepKeeps, PageRests
<1> QED BY PageStarts, InvIsTrue, <1>1, PTL DEF Page!Spec
=============================================================================
