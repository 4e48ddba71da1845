----------------------------- MODULE CsvImport -----------------------------
(***************************************************************************)
(* Imports of CSV rows: the browser's dialog, which previews a file and    *)
(* sends its rows under a batch id of their own, again if no answer comes; *)
(* the requests on their way; and the service, which posts a batch in one  *)
(* transaction and keeps a receipt of it.                                  *)
(***************************************************************************)
EXTENDS Naturals, Sequences, FiniteSets

CONSTANTS
  Rows,              \* rows as they may stand in a file
  Keys,              \* what rows are compared by
  Folded, Stored,    \* [Rows -> Keys]: a row's key as Python makes it from the
                     \* row, and as the database makes it from the entry
  Accounts, AccountOf,   \* [Rows -> Accounts]
  Files,             \* sequences of rows
  Batches,           \* batch ids
  Dialogs,           \* browsers with a dialog
  Calls,             \* requests that may be on their way at once
  None,              \* no batch, no receipt, no answer
  MaxEntries,        \* bound: entries of the ledger
  MaxSends, MaxEdits \* bounds: calls sent, other changes of the ledger

(* What is assumed of the constants.                                       *)
CsvAssumption == /\ Folded \in [Rows -> Keys] /\ Stored \in [Rows -> Keys]
                 /\ AccountOf \in [Rows -> Accounts] /\ Files \subseteq Seq(Rows)
                 /\ None \notin Batches /\ None \notin Calls
                 /\ {MaxEntries, MaxSends, MaxEdits} \subseteq Nat

VARIABLES
  ledger,      \* transactions in the order of their ids: Seq(Entry)
  receipt,     \* settings by batch id: [Batches -> Receipt or None]
  active,      \* accounts that are active
  work,        \* the open transaction of an import
  call,        \* [Calls -> Call]
  dialog,      \* [Dialogs -> Dialog]
  sends, edits,    \* how many there were, for the bounds
  told         \* not in the code: what a caller was told of a batch

vars == <<ledger, receipt, active, work, call, dialog, sends, edits, told>>

-----------------------------------------------------------------------------
(* by: the batch that posted it, which no table holds.                     *)
Entry == [row : Rows, live : BOOLEAN, by : Batches \cup {None}]
Receipt == [rows : Seq(Rows), imported : Nat]
NoneAssumption == None \notin Receipt
NoCall == [stage |-> "none"]
Call == [stage : {"sent", "refused"}, batch : Batches, rows : Seq(Rows)]
        \cup [stage : {"answered"}, batch : Batches, imported : Nat]
Closed == [stage |-> "closed"]
Dialog == [stage : {"ready", "importing"}, batch : Batches, rows : Seq(Rows)]
NoWork == [of |-> None]
Work == [of : Calls, next : Nat \ {0}, existing : SUBSET Keys, seen : SUBSET Keys,
         inserted : SUBSET Keys, ledger : Seq(Entry), imported : Nat]

TypeOK ==
  /\ ledger \in Seq(Entry) /\ active \in SUBSET Accounts
  /\ receipt \in [Batches -> Receipt \cup {None}]
  /\ work \in Work \cup {NoWork}
  /\ call \in [Calls -> Call \cup {NoCall}]
  /\ dialog \in [Dialogs -> Dialog \cup {Closed}]
  /\ told \in [Batches -> Nat \cup {None}]
  /\ sends \in Nat /\ edits \in Nat

Valid(r) == AccountOf[r] \in active
LiveKeys(l) == {Stored[l[i].row] : i \in {j \in 1..Len(l) : l[j].live}}
WriterFree == work = NoWork

Used(b) == \/ receipt[b] # None \/ told[b] # None
           \/ \E d \in Dialogs : dialog[d] # Closed /\ dialog[d].batch = b
           \/ \E m \in Calls : call[m] # NoCall /\ call[m].batch = b

-----------------------------------------------------------------------------
(* The dialog.  The preview is a read, and shows what is valid then.       *)

(* The rows of a file that are no duplicates, and them in their order.     *)
Fresh(f) ==
  {i \in DOMAIN f : /\ Valid(f[i]) /\ Folded[f[i]] \notin LiveKeys(ledger)
                    /\ \A j \in 1..(i - 1) : Valid(f[j]) => Folded[f[j]] # Folded[f[i]]}
InOrder(S) == {at \in [1..Cardinality(S) -> S] : \A i, j \in DOMAIN at : i < j => at[i] < at[j]}
Picked(f, at) == [i \in DOMAIN at |-> f[at[i]]]

Preview(d, b, f) ==
  /\ dialog[d] = Closed /\ ~Used(b) /\ Fresh(f) # {}
  /\ \E at \in InOrder(Fresh(f)) :
       dialog' = [dialog EXCEPT ![d] = [stage |-> "ready", batch |-> b, rows |-> Picked(f, at)]]
  /\ UNCHANGED <<ledger, receipt, active, work, call, told, sends, edits>>

Send(m, b, rows) ==
  /\ sends < MaxSends /\ sends' = sends + 1
  /\ call' = [call EXCEPT ![m] = [stage |-> "sent", batch |-> b, rows |-> rows]]

Confirm(d, m) ==
  /\ dialog[d] # Closed /\ dialog[d].stage = "ready" /\ call[m] = NoCall
  /\ Send(m, dialog[d].batch, dialog[d].rows)
  /\ dialog' = [dialog EXCEPT ![d].stage = "importing"]
  /\ UNCHANGED <<ledger, receipt, active, work, told, edits>>

(* The connection breaks, with the request on its way, under way or done:  *)
(* the dialog is ready again for the same batch.                           *)
LoseAnswer(d) ==
  /\ dialog[d] # Closed /\ dialog[d].stage = "importing"
  /\ dialog' = [dialog EXCEPT ![d].stage = "ready"]
  /\ UNCHANGED <<ledger, receipt, active, work, call, told, sends, edits>>

Close(d) ==
  /\ dialog[d] # Closed /\ dialog[d].stage = "ready"
  /\ dialog' = [dialog EXCEPT ![d] = Closed]
  /\ UNCHANGED <<ledger, receipt, active, work, call, told, sends, edits>>

(* Any other client of the API, with rows and a batch id of its choice.    *)
Script(m, b, f) ==
  /\ call[m] = NoCall
  /\ Send(m, b, f)
  /\ UNCHANGED <<ledger, receipt, active, work, dialog, told, edits>>

(* An answer reaches the dialog that waits for it, or nobody.              *)
Waits(d, b) == dialog[d] # Closed /\ dialog[d].stage = "importing" /\ dialog[d].batch = b
Receive(m) ==
  /\ call[m] # NoCall /\ call[m].stage \in {"answered", "refused"}
  /\ dialog' = [d \in Dialogs |->
       IF ~Waits(d, call[m].batch) THEN dialog[d]
       ELSE IF call[m].stage = "answered" THEN Closed ELSE [dialog[d] EXCEPT !.stage = "ready"]]
  /\ told' = IF call[m].stage = "answered"
             THEN [told EXCEPT ![call[m].batch] = call[m].imported] ELSE told
  /\ call' = [call EXCEPT ![m] = NoCall]
  /\ UNCHANGED <<ledger, receipt, active, work, sends, edits>>

-----------------------------------------------------------------------------
(* The service                                                             *)

Answered(m, n) == [call EXCEPT ![m] = [stage |-> "answered", batch |-> call[m].batch, imported |-> n]]
Refused(m) == [call EXCEPT ![m].stage = "refused"]

NoReceipt(b) == FALSE                       \* variant: receipts are not looked at
HasReceipt(b) == receipt[b] # None
AnyRows(m) == TRUE                          \* variant: rows are not compared
SameRows(m) == receipt[call[m].batch].rows = call[m].rows

Begin(m) ==
  LET b == call[m].batch IN
  /\ call[m] # NoCall /\ call[m].stage = "sent" /\ WriterFree
  /\ IF HasReceipt(b)
     THEN /\ call' = IF SameRows(m) THEN Answered(m, receipt[b].imported) ELSE Refused(m)
          /\ UNCHANGED work
     ELSE /\ work' = [of |-> m, next |-> 1, existing |-> LiveKeys(ledger), seen |-> {},
                      inserted |-> {}, ledger |-> ledger, imported |-> 0]
          /\ UNCHANGED call
  /\ UNCHANGED <<ledger, receipt, active, dialog, told, sends, edits>>

DuplicateOfLedger(k) == k \in work.existing      \* variant: not of the file itself
Duplicate(k) == k \in work.existing \cup work.seen \cup work.inserted

TakeRow ==
  LET m == work.of
      r == call[m].rows[work.next]
      k == Folded[r]
  IN
  /\ ~WriterFree /\ work.next <= Len(call[m].rows) /\ Valid(r)
  /\ \/ /\ Duplicate(k)
        /\ work' = [work EXCEPT !.next = @ + 1, !.seen = @ \cup {k}]
     \/ /\ ~Duplicate(k) /\ Len(work.ledger) < MaxEntries
        /\ work' = [work EXCEPT !.next = @ + 1, !.seen = @ \cup {k},
              !.inserted = @ \cup {Stored[r]}, !.imported = @ + 1,
              !.ledger = Append(@, [row |-> r, live |-> TRUE, by |-> call[m].batch])]
  /\ UNCHANGED <<ledger, receipt, active, call, dialog, told, sends, edits>>

(* A row of an account that is not active, for one, fails the whole batch. *)
KeptSoFar == ledger' = work.ledger          \* variant: what was inserted stays
RolledBack == UNCHANGED ledger
RefuseRow ==
  /\ ~WriterFree /\ work.next <= Len(call[work.of].rows) /\ ~Valid(call[work.of].rows[work.next])
  /\ RolledBack /\ work' = NoWork /\ call' = Refused(work.of)
  /\ UNCHANGED <<receipt, active, dialog, told, sends, edits>>

Commit ==
  LET m == work.of IN
  /\ ~WriterFree /\ work.next > Len(call[m].rows)
  /\ ledger' = work.ledger
  /\ receipt' = [receipt EXCEPT ![call[m].batch] = [rows |-> call[m].rows, imported |-> work.imported]]
  /\ work' = NoWork /\ call' = Answered(m, work.imported)
  /\ UNCHANGED <<active, dialog, told, sends, edits>>

(* The process dies, or the database fails: nobody gets an answer.         *)
Fail(m) ==
  /\ call[m] # NoCall
  /\ call' = [call EXCEPT ![m] = NoCall]
  /\ IF work.of = m THEN RolledBack /\ work' = NoWork ELSE UNCHANGED <<ledger, work>>
  /\ UNCHANGED <<receipt, active, dialog, told, sends, edits>>

-----------------------------------------------------------------------------
(* What else happens to the ledger meanwhile.                              *)

Edit == WriterFree /\ edits < MaxEdits /\ edits' = edits + 1

Add(r) ==
  /\ Edit /\ Valid(r) /\ Len(ledger) < MaxEntries
  /\ ledger' = Append(ledger, [row |-> r, live |-> TRUE, by |-> None])
  /\ UNCHANGED <<receipt, active, work, call, dialog, told, sends>>
Delete(i) ==
  /\ Edit /\ ledger[i].live
  /\ ledger' = [ledger EXCEPT ![i].live = FALSE]
  /\ UNCHANGED <<receipt, active, work, call, dialog, told, sends>>
Restore(i) ==
  /\ Edit /\ ~ledger[i].live /\ Valid(ledger[i].row)
  /\ ledger' = [ledger EXCEPT ![i].live = TRUE]
  /\ UNCHANGED <<receipt, active, work, call, dialog, told, sends>>
Deactivate(a) ==
  /\ Edit /\ a \in active
  /\ active' = active \ {a}
  /\ UNCHANGED <<ledger, receipt, work, call, dialog, told, sends>>

Init ==
  /\ ledger = <<>> /\ active = Accounts /\ work = NoWork
  /\ sends = 0 /\ edits = 0
  /\ receipt = [b \in Batches |-> None] /\ told = [b \in Batches |-> None]
  /\ call = [m \in Calls |-> NoCall] /\ dialog = [d \in Dialogs |-> Closed]

Browser == \/ \E d \in Dialogs : \/ \E b \in Batches, f \in Files : Preview(d, b, f)
                                 \/ \E m \in Calls : Confirm(d, m)
                                 \/ LoseAnswer(d) \/ Close(d)
           \/ \E m \in Calls : Receive(m) \/ \E b \in Batches, f \in Files : Script(m, b, f)
Service == TakeRow \/ RefuseRow \/ Commit \/ \E m \in Calls : Begin(m) \/ Fail(m)
Owner == \/ \E r \in Rows : Add(r)
         \/ \E i \in 1..Len(ledger) : Delete(i) \/ Restore(i)
         \/ \E a \in Accounts : Deactivate(a)
Next == Browser \/ Service \/ Owner

Spec == Init /\ [][Next]_vars

-----------------------------------------------------------------------------
(* Properties                                                              *)

PostedBy(b) == {i \in 1..Len(ledger) : ledger[i].by = b}

(* However often a batch is sent, answered or not, or fails in its middle: *)
(* what is posted of it is what its receipt says, once (commit).           *)
BatchPostedOnce ==
  \A b \in Batches :
    IF receipt[b] = None THEN PostedBy(b) = {}
    ELSE Cardinality(PostedBy(b)) = receipt[b].imported

(* Whoever is told that rows were imported finds as many in the ledger,    *)
(* deleted since or not, whichever request the answer is of (commit).      *)
ToldIsPosted ==
  \A b \in Batches : told[b] # None => Cardinality(PostedBy(b)) = told[b]

(* A call with other rows than the batch had is never told it succeeded    *)
(* (commit).                                                               *)
AnswersAreOfTheseRows ==
  [][\A m \in Calls : call[m] # NoCall /\ call'[m] # NoCall
        /\ call[m].stage = "sent" /\ call'[m].stage = "answered" =>
          receipt'[call[m].batch] # None /\ receipt'[call[m].batch].rows = call[m].rows]_vars

(* Two entries with the same key, as Python makes it: they differ at most  *)
(* in the case of their descriptions and the blanks around them.           *)
Alike(i, j) == Folded[ledger[i].row] = Folded[ledger[j].row]
KeptAsFolded(j) == Stored[ledger[j].row] = Folded[ledger[j].row]
Posts(i) == i > Len(ledger) /\ ledger'[i].by # None

(* No import posts a row that is like a live entry or like another row it  *)
(* posts, though two batches with the same rows may be sent at once, both  *)
(* previewed before either is posted (_rows).  Excluded are entries that   *)
(* were there before and that the database folds in another way than       *)
(* Python, as SQLite does with letters that are not of ASCII: those are in *)
(* LikelyDuplicatesSkipped alone, which does not hold.                     *)
Repeats(i, j) == Alike(i, j) /\ (ledger[j].by = ledger[i].by \/ KeptAsFolded(j))
NoDuplicateImported ==
  [][\A i \in DOMAIN ledger' : Posts(i) =>
        ~\E j \in 1..(i - 1) : ledger'[j].live /\ Repeats(i, j)']_vars

(* Likely duplicates are skipped: descriptions are compared trimmed and in *)
(* lower case (README.md:606-607), whatever letters they have (_rows).     *)
LikelyDuplicatesSkipped ==
  [][\A i \in DOMAIN ledger' : Posts(i) =>
        ~\E j \in 1..(i - 1) : ledger'[j].live /\ Alike(i, j)']_vars
=============================================================================
