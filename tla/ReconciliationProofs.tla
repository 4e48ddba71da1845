------------------------ MODULE ReconciliationProofs ------------------------
(***************************************************************************)
(* Reconciliation for every set of accounts, entries, statements and       *)
(* requests.  A step of the ledger leaves every locked entry alone, so it  *)
(* keeps whatever only depends on statements and what they cleared; a step *)
(* of the statements leaves the ledger alone and touches one statement     *)
(* that is not completed.                                                  *)
(***************************************************************************)
EXTENDS Reconciliation, TLAPS

-----------------------------------------------------------------------------
(* Types                                                                   *)

(* The effect of an entry is a function to cents.                          *)
LEMMA EffectTypes ==
  ASSUME NEW a \in Accounts, NEW b \in Accounts, NEW m \in Signed
  PROVE  /\ On(a, m) \in [Accounts -> Int]
         /\ Between(a, b, m) \in [Accounts -> Int]
         /\ Nowhere \in [Accounts -> Int]
  <1>1. m \in Int
    BY AmountAssumption DEF Signed
  <1>2. m \in Int /\ -m \in Int
    BY <1>1
  <1>3. QED
    BY <1>2 DEF On, Between, Nowhere

(* The defaults of absent rows have the types of rows.                     *)
LEMMA DefaultTypes ==
  /\ NoEntry \in Entry /\ NoStatement \in Statement /\ NoRequest \in Request
  <1>1. Nowhere \in [Accounts -> Int]
    BY DEF Nowhere
  <1>2. 0 \in Days /\ Entries # {}
    BY DayAssumption, IdAssumption DEF Days, Entries
  <1>3. (CHOOSE e \in Entries : TRUE) \in Entries
    BY <1>2
  <1>4. NoEntry \in Entry
    BY <1>1, <1>2 DEF NoEntry, Entry
  <1>5. NoStatement \in Statement
    BY <1>2, MainAssumption DEF NoStatement, Statement
  <1>6. NoRequest \in Request
    BY <1>1, <1>2, <1>3 DEF NoRequest, Request
  <1>7. QED
    BY <1>4, <1>5, <1>6

LEMMA InitTypes == Init => TypeOK
  <1>1. 0 \in Days
    BY DayAssumption DEF Days
  <1>2. QED
    BY <1>1, DefaultTypes DEF Init, TypeOK

(* Writing a row of the ledger keeps the types.                            *)
LEMMA PutTypes ==
  ASSUME TypeOK, NEW e \in Entries, NEW day \in Days, NEW f \in [Accounts -> Int],
         Put(e, day, f)
  PROVE  entry' \in [Entries -> Entry]
  BY DEF TypeOK, Put, Entry

LEMMA LedgerTypes == TypeOK /\ LedgerNext => TypeOK'
  <1> SUFFICES ASSUME TypeOK, LedgerNext PROVE TypeOK'
    OBVIOUS
  <1> USE DEF Elsewhere
  <1>1. ASSUME NEW t \in Transactions, NEW a \in Accounts, NEW m \in Signed,
               NEW day \in Days, AddTransaction(t, a, m, day)
        PROVE  TypeOK'
    <2>1. entry' \in [Entries -> Entry]
      BY <1>1, EffectTypes, PutTypes DEF AddTransaction, Entries
    <2>2. QED
      BY <1>1, <2>1 DEF AddTransaction, TypeOK
  <1>2. ASSUME NEW c \in Clients, NEW from \in Accounts, NEW to \in Accounts,
               NEW m \in Amounts, NEW day \in Days, CheckTransfer(c, from, to, m, day)
        PROVE  TypeOK'
    <2>1. Between(from, to, m) \in [Accounts -> Int]
      BY EffectTypes DEF Signed
    <2>2. [NoRequest EXCEPT !.op = "transfer", !.day = day,
                            !.effect = Between(from, to, m)] \in Request
      BY <2>1, DefaultTypes DEF Request
    <2>3. request' \in [Clients -> Request]
      BY <1>2, <2>2 DEF CheckTransfer, TypeOK
    <2>4. QED
      BY <1>2, <2>3 DEF CheckTransfer, TypeOK
  <1>3. ASSUME NEW c \in Clients, NEW x \in Transfers, WriteTransfer(c, x)
        PROVE  TypeOK'
    <2>1. request[c].day \in Days /\ request[c].effect \in [Accounts -> Int]
      BY DEF TypeOK, Request
    <2>2. entry' \in [Entries -> Entry]
      BY <1>3, <2>1, PutTypes DEF WriteTransfer, Entries
    <2>3. QED
      BY <1>3, <2>2, DefaultTypes DEF WriteTransfer, TypeOK
  <1>4. ASSUME NEW c \in Clients, NEW t \in Transactions, NEW a \in Accounts,
               NEW m \in Signed, NEW day \in Days, CheckUpdate(c, t, a, m, day)
        PROVE  TypeOK'
    <2>1. On(a, m) \in [Accounts -> Int] /\ t \in Entries
      BY EffectTypes DEF Entries
    <2>2. [op |-> "update", entry |-> t, day |-> day, effect |-> On(a, m)] \in Request
      BY <2>1 DEF Request
    <2>3. request' \in [Clients -> Request]
      BY <1>4, <2>2 DEF CheckUpdate, TypeOK
    <2>4. QED
      BY <1>4, <2>3 DEF CheckUpdate, TypeOK
  <1>5. ASSUME NEW c \in Clients, WriteUpdate(c)
        PROVE  TypeOK'
    <2>1. /\ request[c].day \in Days /\ request[c].effect \in [Accounts -> Int]
          /\ request[c].entry \in Entries
      BY DEF TypeOK, Request
    <2>2. entry' \in [Entries -> Entry]
      BY <1>5, <2>1, PutTypes DEF WriteUpdate, TypeOK
    <2>3. QED
      BY <1>5, <2>2, DefaultTypes DEF WriteUpdate, TypeOK
  <1>6. ASSUME NEW t \in Transactions, DeleteTransaction(t) \/ RestoreTransaction(t)
        PROVE  TypeOK'
    <2>1. entry' \in [Entries -> Entry]
      BY <1>6 DEF DeleteTransaction, RestoreTransaction, TypeOK, Entry, Entries
    <2>2. QED
      BY <1>6, <2>1 DEF DeleteTransaction, RestoreTransaction, TypeOK
  <1>7. ASSUME NEW x \in Transfers, DeleteTransfer(x)
        PROVE  TypeOK'
    BY <1>7, DefaultTypes DEF DeleteTransfer, TypeOK
  <1>8. ASSUME NEW a \in Accounts, DeactivateAccount(a)
        PROVE  TypeOK'
    BY <1>8 DEF DeactivateAccount, TypeOK
  <1>9. QED
    BY <1>1, <1>2, <1>3, <1>4, <1>5, <1>6, <1>7, <1>8 DEF LedgerNext

LEMMA StatementTypes == TypeOK /\ StatementNext => TypeOK'
  <1> SUFFICES ASSUME TypeOK, NEW r \in Statements,
                 \/ \E a \in Accounts, day \in Days, closing \in Balances :
                      \E opening \in {Opening[a]} \cup {statement[p].closing : p \in Statements} :
                        Create(r, a, day, opening, closing)
                 \/ \E e \in Entries : Clear(r, e) \/ Unclear(r, e)
                 \/ Complete(r) \/ Cancel(r)
               PROVE  TypeOK'
    BY DEF StatementNext
  <1> USE DEF StatementsOnly
  <1>1. ASSUME NEW a \in Accounts, NEW day \in Days, NEW closing \in Balances,
               NEW opening \in {Opening[a]} \cup {statement[p].closing : p \in Statements},
               Create(r, a, day, opening, closing)
        PROVE  TypeOK'
    <2>1. opening \in Int /\ closing \in Int
      BY OpeningAssumption, AmountAssumption DEF TypeOK, Statement
    <2>2. statement' \in [Statements -> Statement]
      BY <1>1, <2>1 DEF Create, TypeOK, Statement
    <2>3. QED
      BY <1>1, <2>2 DEF Create, TypeOK
  <1>2. ASSUME NEW e \in Entries, Clear(r, e) \/ Unclear(r, e)
        PROVE  TypeOK'
    BY <1>2 DEF Clear, Unclear, TypeOK
  <1>3. ASSUME Complete(r) PROVE TypeOK'
    <2>1. statement' \in [Statements -> Statement]
      BY <1>3 DEF Complete, TypeOK, Statement
    <2>2. QED
      BY <1>3, <2>1 DEF Complete, TypeOK
  <1>4. ASSUME Cancel(r) PROVE TypeOK'
    BY <1>4, DefaultTypes DEF Cancel, Discarded, TypeOK
  <1>5. QED
    BY <1>1, <1>2, <1>3, <1>4

LEMMA StepTypes == TypeOK /\ [Next]_vars => TypeOK'
  <1>1. TypeOK /\ NextDay => TypeOK'
    BY DayAssumption DEF NextDay, TypeOK, Days
  <1>2. TypeOK /\ UNCHANGED vars => TypeOK'
    BY DEF vars, TypeOK
  <1>3. QED
    BY <1>1, <1>2, LedgerTypes, StatementTypes DEF Next

(* The tables, and what a request remembers between its check and its      *)
(* write, always have their types.                                         *)
THEOREM ReconciliationTypes == Spec => []TypeOK
  BY InitTypes, StepTypes, PTL DEF Spec

-----------------------------------------------------------------------------
(* Steps of the ledger                                                     *)

(* What a step of the ledger may not do.                                   *)
LedgerStep ==
  /\ statement' = statement /\ cleared' = cleared
  /\ \A e \in Entries : Locked(e) => entry'[e] = entry[e]

(* A row that does not exist yet is not locked: what is cleared is live.   *)
LEMMA NewRowsAreUnlocked ==
  ASSUME ClearedIsEvidence, NEW e \in Entries, entry[e].state # "live"
  PROVE  ~Locked(e)
  BY DEF ClearedIsEvidence, ClearedBy, Live, Locked

(* Writing one unlocked row is a step of the ledger.                       *)
LEMMA UnlockedWrite ==
  ASSUME TypeOK, NEW e \in Entries, ~Locked(e), NEW row,
         entry' = [entry EXCEPT ![e] = row], statement' = statement, cleared' = cleared
  PROVE  LedgerStep
  BY DEF TypeOK, LedgerStep

LEMMA PutUnlocked ==
  ASSUME TypeOK, NEW e \in Entries, ~Locked(e), NEW day, NEW f, Put(e, day, f), Elsewhere
  PROVE  LedgerStep
  BY UnlockedWrite DEF Put, Elsewhere

LEMMA LedgerNextIsLedgerStep ==
  TypeOK /\ ClearedIsEvidence /\ LedgerNext => LedgerStep
  <1> SUFFICES ASSUME TypeOK, ClearedIsEvidence, LedgerNext PROVE LedgerStep
    OBVIOUS
  <1>0. Transactions \subseteq Entries /\ Transfers \subseteq Entries
    BY DEF Entries
  <1>1. ASSUME NEW t \in Transactions, NEW a \in Accounts, NEW m \in Signed,
               NEW day \in Days, AddTransaction(t, a, m, day)
        PROVE  LedgerStep
    <2>1. t \in Entries /\ ~Locked(t)
      BY <1>0, <1>1, NewRowsAreUnlocked DEF AddTransaction
    <2>2. QED
      BY <1>1, <2>1, PutUnlocked DEF AddTransaction
  <1>2. ASSUME NEW c \in Clients, NEW x \in Transfers, WriteTransfer(c, x)
        PROVE  LedgerStep
    <2>1. x \in Entries /\ ~Locked(x)
      BY <1>0, <1>2, NewRowsAreUnlocked DEF WriteTransfer
    <2>2. QED
      BY <1>2, <2>1, PutUnlocked DEF WriteTransfer
  <1>3. ASSUME NEW c \in Clients, WriteUpdate(c)
        PROVE  LedgerStep
    <2>1. request[c].entry \in Entries
      BY DEF TypeOK, Request
    <2>2. CASE entry' = entry
      BY <1>3, <2>2 DEF WriteUpdate, LedgerStep, Elsewhere
    <2>3. CASE /\ ~Locked(request[c].entry)
               /\ Put(request[c].entry, request[c].day, request[c].effect)
      BY <1>3, <2>1, <2>3, PutUnlocked DEF WriteUpdate
    <2>4. QED
      BY <1>3, <2>2, <2>3 DEF WriteUpdate
  <1>4. ASSUME NEW t \in Transactions, DeleteTransaction(t) \/ RestoreTransaction(t)
        PROVE  LedgerStep
    BY <1>0, <1>4 DEF DeleteTransaction, RestoreTransaction, TypeOK, LedgerStep, Elsewhere
  <1>5. ASSUME NEW x \in Transfers, DeleteTransfer(x)
        PROVE  LedgerStep
    BY <1>0, <1>5, UnlockedWrite DEF DeleteTransfer, Elsewhere
  <1>6. ASSUME NEW a \in Accounts, DeactivateAccount(a)
        PROVE  LedgerStep
    BY <1>6 DEF DeactivateAccount, LedgerStep
  <1>7. ASSUME NEW c \in Clients, NEW from \in Accounts, NEW to \in Accounts,
               NEW m \in Amounts, NEW day \in Days, CheckTransfer(c, from, to, m, day)
        PROVE  LedgerStep
    BY <1>7 DEF CheckTransfer, LedgerStep, Elsewhere
  <1>8. ASSUME NEW c \in Clients, NEW t \in Transactions, NEW a \in Accounts,
               NEW m \in Signed, NEW day \in Days, CheckUpdate(c, t, a, m, day)
        PROVE  LedgerStep
    BY <1>8 DEF CheckUpdate, LedgerStep, Elsewhere
  <1>9. QED
    BY <1>1, <1>2, <1>3, <1>4, <1>5, <1>6, <1>7, <1>8 DEF LedgerNext

(* So is a new day, and a step that changes nothing.                       *)
LEMMA QuietIsLedgerStep == NextDay \/ UNCHANGED vars => LedgerStep
  BY DEF NextDay, vars, LedgerStep

(* What a statement adds up to only depends on the statement and on the    *)
(* entries it cleared.                                                     *)
LEMMA SameCleared ==
  ASSUME NEW r \in Statements, statement'[r] = statement[r], ClearedBy(r)' = ClearedBy(r),
         \A e \in ClearedBy(r) : entry'[e] = entry[e]
  PROVE  ClearedAmounts(r)' = ClearedAmounts(r)
  BY DEF ClearedAmounts, Account

LEMMA LedgerStepKeeps ==
  ASSUME CompletedBalanced, ClearedIsEvidence, StatementsChain, LedgerStep
  PROVE  CompletedBalanced' /\ ClearedIsEvidence' /\ StatementsChain'
  <1>1. \A r \in Statements : statement'[r] = statement[r] /\ ClearedBy(r)' = ClearedBy(r)
    BY DEF LedgerStep, ClearedBy
  <1>2. \A r \in Statements : \A e \in ClearedBy(r) : entry'[e] = entry[e]
    BY DEF LedgerStep, ClearedBy, Locked
  <1>3. \A r \in Statements : ClearedAmounts(r)' = ClearedAmounts(r)
    BY <1>1, <1>2, SameCleared
  <1>4. CompletedBalanced'
    BY <1>1, <1>3 DEF CompletedBalanced
  <1>5. ClearedIsEvidence'
    <2> SUFFICES ASSUME NEW r \in Statements, NEW e \in ClearedBy(r)
                 PROVE  /\ Exists(r)'
                        /\ Live(e)' /\ entry'[e].effect[Account(r)'] # 0
                        /\ entry'[e].day <= statement'[r].day
                        /\ \A q \in Statements \ {r} :
                             <<q, e>> \in cleared' => Account(q)' # Account(r)'
      BY <1>1 DEF ClearedIsEvidence
    <2>1. statement' = statement /\ cleared' = cleared /\ entry'[e] = entry[e]
      BY <1>2 DEF LedgerStep
    <2>2. QED
      BY <2>1 DEF ClearedIsEvidence, Exists, Live, Account
  <1>6. StatementsChain'
    BY DEF LedgerStep, StatementsChain, OneDraftLast, Chained, Follows, EarlierThan,
           Of, Exists, Account
  <1>7. QED
    BY <1>4, <1>5, <1>6

-----------------------------------------------------------------------------
(* Steps of the statements                                                 *)

(* A statement that keeps its row and its cleared entries, while the       *)
(* ledger stays, keeps its balance.                                        *)
LEMMA KeptIsBalanced ==
  ASSUME CompletedBalanced, NEW r \in Statements, statement[r].state = "completed",
         statement'[r] = statement[r], ClearedBy(r)' = ClearedBy(r), entry' = entry
  PROVE  statement'[r].closing = statement'[r].opening + Total(ClearedAmounts(r)')
  <1>1. ClearedAmounts(r)' = ClearedAmounts(r)
    BY SameCleared
  <1>2. QED
    BY <1>1 DEF CompletedBalanced

(* A new statement has cleared nothing yet, and follows all the others of  *)
(* its account, none of which is a draft.                                  *)
LEMMA CreateKeeps ==
  ASSUME TypeOK, CompletedBalanced, ClearedIsEvidence, StatementsChain,
         NEW r \in Statements, NEW a \in Accounts, NEW day \in Days,
         NEW opening \in Int, NEW closing \in Int, Create(r, a, day, opening, closing)
  PROVE  CompletedBalanced' /\ ClearedIsEvidence' /\ StatementsChain'
  <1> DEFINE new == [state |-> "draft", account |-> a, day |-> day,
                     opening |-> opening, closing |-> closing]
  <1>1. /\ statement' = [statement EXCEPT ![r] = new]
        /\ cleared' = cleared /\ entry' = entry
    BY DEF Create, StatementsOnly
  <1>2. statement'[r] = new /\ \A q \in Statements \ {r} : statement'[q] = statement[q]
    BY <1>1 DEF TypeOK
  <1>3. ~Exists(r)
    BY DEF Create, NoStatement, Exists
  <1>4. \A q \in Statements : ClearedBy(q)' = ClearedBy(q)
    BY <1>1 DEF ClearedBy
  <1>5. \A e \in Entries : <<r, e>> \notin cleared
    BY <1>3 DEF ClearedIsEvidence, ClearedBy
  <1>6. CompletedBalanced'
    <2> SUFFICES ASSUME NEW q \in Statements, statement'[q].state = "completed"
                 PROVE  statement'[q].closing = statement'[q].opening + Total(ClearedAmounts(q)')
      BY DEF CompletedBalanced
    <2>1. q # r
      BY <1>2
    <2>2. QED
      BY <1>1, <1>2, <1>4, <2>1, KeptIsBalanced
  <1>7. ClearedIsEvidence'
    <2> SUFFICES ASSUME NEW q \in Statements, NEW e \in ClearedBy(q)
                 PROVE  /\ Exists(q)' /\ Live(e)'
                        /\ entry'[e].effect[Account(q)'] # 0
                        /\ entry'[e].day <= statement'[q].day
                        /\ \A p \in Statements \ {q} :
                             <<p, e>> \in cleared' => Account(p)' # Account(q)'
      BY <1>4 DEF ClearedIsEvidence
    <2>1. q # r /\ statement'[q] = statement[q] /\ e \in Entries
      BY <1>2, <1>5 DEF ClearedBy
    <2>2. /\ Exists(q) /\ Live(e) /\ entry[e].effect[Account(q)] # 0
          /\ entry[e].day <= statement[q].day
      BY DEF ClearedIsEvidence
    <2>3. \A p \in Statements \ {q} : <<p, e>> \in cleared => Account(p) # Account(q)
      BY DEF ClearedIsEvidence
    <2>4. ASSUME NEW p \in Statements \ {q}, <<p, e>> \in cleared'
          PROVE  Account(p)' # Account(q)'
      <3>1. p # r /\ <<p, e>> \in cleared
        BY <1>1, <1>5, <2>1, <2>4
      <3>2. QED
        BY <1>2, <2>1, <2>3, <3>1 DEF Account
    <2>5. QED
      BY <1>1, <2>1, <2>2, <2>4 DEF Exists, Live, Account
  <1>8. \A p \in Of(a) : statement[p].day < day
    <2>1. CASE Of(a) = {}
      BY <2>1
    <2>2. CASE Of(a) # {}
      <3>1. PICK l \in Of(a) : Latest(l, a) /\ statement[l].day < day
        BY <2>2 DEF Create, OpensWith
      <3>2. \A p \in Of(a) : statement[p].day \in Int
        BY DEF Of, TypeOK, Statement, Days
      <3>3. day \in Int
        BY DEF Days
      <3>4. QED
        BY <3>1, <3>2, <3>3 DEF Latest
    <2>3. QED
      BY <2>1, <2>2
  <1>9. \A p \in Of(a) : statement[p].state = "completed"
    BY DEF Create, HasDraft, Of, Exists, TypeOK, Statement
  <1>10. /\ Of(a)' = Of(a) \cup {r} /\ r \notin Of(a)
         /\ \A b \in Accounts \ {a} : Of(b)' = Of(b)
    BY <1>2, <1>3 DEF Of, Exists, Account
  <1>11. OneDraftLast'
    <2> SUFFICES ASSUME NEW b \in Accounts, NEW q \in Of(b)', NEW p \in Of(b)',
                        p # q, statement'[q].state = "draft"
                 PROVE  statement'[p].day < statement'[q].day
      BY DEF OneDraftLast
    <2>1. p \in Statements /\ q \in Statements
      BY DEF Of
    <2>2. CASE q = r
      <3>1. b = a
        BY <1>2, <2>2 DEF Of, Account
      <3>2. p \in Of(a)
        BY <1>10, <2>2, <3>1
      <3>3. QED
        BY <1>2, <1>8, <2>1, <2>2, <3>2
    <2>3. CASE q # r
      <3>1. statement'[q] = statement[q] /\ q \in Of(b)
        BY <1>2, <1>10, <2>1, <2>3
      <3>2. b # a
        BY <1>9, <3>1
      <3>3. p \in Of(b) /\ p # r
        BY <1>10, <1>3, <3>2 DEF Of
      <3>4. QED
        BY <1>2, <2>1, <3>1, <3>3 DEF StatementsChain, OneDraftLast
    <2>4. QED
      BY <2>2, <2>3
  <1>12. ASSUME NEW q \in Statements, Exists(q)'
         PROVE  Chained(q)'
    <2>1. CASE q = r
      <3>1. EarlierThan(q)' = Of(a)
        <4>1. Account(q)' = a /\ statement'[q].day = day
          BY <1>2, <2>1 DEF Account
        <4>2. EarlierThan(q)' = {p \in Of(a) \cup {r} : statement'[p].day < day}
          BY <1>10, <4>1 DEF EarlierThan
        <4>3. \A p \in Of(a) : statement'[p].day < day
          BY <1>2, <1>8, <1>10 DEF Of
        <4>4. ~(statement'[r].day < day)
          BY <1>2 DEF Days
        <4>5. QED
          BY <1>10, <4>2, <4>3, <4>4
      <3>2. CASE Of(a) = {}
        BY <1>2, <2>1, <3>1, <3>2 DEF Chained, Create, OpensWith, Account
      <3>3. CASE Of(a) # {}
        <4>1. PICK l \in Of(a) : /\ Latest(l, a) /\ statement[l].day < day
                                 /\ opening = statement[l].closing
          BY <3>3 DEF Create, OpensWith
        <4>2. \A p \in Of(a) : p \in Statements /\ statement'[p] = statement[p]
          BY <1>2, <1>10 DEF Of
        <4>3. Follows(q, l)'
          BY <1>2, <1>9, <2>1, <4>1, <4>2 DEF Follows
        <4>4. \A p \in Of(a) \ {l} : statement'[p].day < statement'[l].day
          BY <4>1, <4>2 DEF Latest
        <4>5. QED
          BY <3>1, <4>1, <4>3, <4>4 DEF Chained
      <3>4. QED
        BY <3>2, <3>3
    <2>2. CASE q # r
      <3>1. statement'[q] = statement[q] /\ Exists(q) /\ Chained(q)
        BY <1>2, <1>12, <2>2 DEF Exists, StatementsChain
      <3>2. Account(q)' = Account(q) /\ Account(q) \in Accounts
        BY <3>1 DEF Account, TypeOK, Statement
      <3>3. EarlierThan(q)' = EarlierThan(q)
        <4>1. CASE Account(q) = a
          <5>1. q \in Of(a) /\ statement[q].day < day
            BY <1>8, <3>1, <4>1 DEF Of
          <5>2. statement[q].day \in Int /\ day \in Int
            BY DEF TypeOK, Statement, Days
          <5>3. ~(statement'[r].day < statement'[q].day)
            BY <1>2, <3>1, <5>1, <5>2
          <5>4. \A p \in Of(a) : statement'[p] = statement[p]
            BY <1>2, <1>10 DEF Of
          <5>5. QED
            BY <1>10, <3>1, <3>2, <4>1, <5>3, <5>4 DEF EarlierThan
        <4>2. CASE Account(q) # a
          <5>1. Of(Account(q))' = Of(Account(q)) /\ r \notin Of(Account(q))
            BY <1>3, <1>10, <3>2, <4>2 DEF Of
          <5>2. \A p \in Of(Account(q)) : statement'[p] = statement[p]
            BY <1>2, <5>1 DEF Of
          <5>3. QED
            BY <3>1, <3>2, <5>1, <5>2 DEF EarlierThan
        <4>3. QED
          BY <4>1, <4>2
      <3>4. \A p \in EarlierThan(q) : statement'[p] = statement[p]
        BY <1>2, <1>3 DEF EarlierThan, Of
      <3>5. QED
        BY <3>1, <3>2, <3>3, <3>4 DEF Chained, Follows
    <2>3. QED
      BY <2>1, <2>2
  <1>13. QED
    BY <1>6, <1>7, <1>11, <1>12 DEF StatementsChain

(* The chain only depends on the rows of the statements.                   *)
LEMMA SameStatementsSameChain ==
  ASSUME StatementsChain, statement' = statement
  PROVE  StatementsChain'
  BY DEF StatementsChain, OneDraftLast, Chained, Follows, EarlierThan, Of, Exists, Account

(* Clearing adds eligible evidence to a draft and nothing to the others.   *)
LEMMA ClearKeeps ==
  ASSUME TypeOK, CompletedBalanced, ClearedIsEvidence, StatementsChain,
         NEW r \in Statements, NEW e \in Entries, Clear(r, e)
  PROVE  CompletedBalanced' /\ ClearedIsEvidence' /\ StatementsChain'
  <1>1. /\ statement' = statement /\ entry' = entry
        /\ cleared' = cleared \cup {<<r, e>>}
    BY DEF Clear, StatementsOnly
  <1>2. statement[r].state = "draft" /\ Eligible(r, e)
    BY DEF Clear, Editable
  <1>3. \A q \in Statements \ {r} : ClearedBy(q)' = ClearedBy(q)
    BY <1>1 DEF ClearedBy
  <1>4. CompletedBalanced'
    <2> SUFFICES ASSUME NEW q \in Statements, statement'[q].state = "completed"
                 PROVE  statement'[q].closing = statement'[q].opening + Total(ClearedAmounts(q)')
      BY DEF CompletedBalanced
    <2>1. q # r /\ statement[q].state = "completed"
      BY <1>1, <1>2
    <2>2. QED
      BY <1>1, <1>3, <2>1, KeptIsBalanced
  <1>5. ClearedIsEvidence'
    <2> SUFFICES ASSUME NEW q \in Statements, NEW d \in Entries, <<q, d>> \in cleared'
                 PROVE  /\ Exists(q) /\ Live(d)
                        /\ entry[d].effect[Account(q)] # 0
                        /\ entry[d].day <= statement[q].day
                        /\ \A p \in Statements \ {q} :
                             <<p, d>> \in cleared' => Account(p) # Account(q)
      BY <1>1 DEF ClearedIsEvidence, ClearedBy, Exists, Live, Account
    <2>1. \A p \in Statements \ {r} : <<p, e>> \in cleared => Account(p) # Account(r)
      <3>1. \A p \in Statements \ {r} :
              Exists(p) /\ Account(p) = Account(r) => <<p, e>> \notin cleared
        BY <1>2 DEF Eligible, Of
      <3>2. \A p \in Statements : <<p, e>> \in cleared => Exists(p)
        BY DEF ClearedIsEvidence, ClearedBy
      <3>3. QED
        BY <3>1, <3>2
    <2>2. CASE q = r /\ d = e
      <3>1. \A p \in Statements \ {q} : <<p, d>> \in cleared' => Account(p) # Account(q)
        BY <1>1, <2>1, <2>2
      <3>2. QED
        BY <1>2, <2>2, <3>1 DEF Eligible, Exists
    <2>3. CASE ~(q = r /\ d = e)
      <3>1. <<q, d>> \in cleared
        BY <1>1, <2>3
      <3>2. /\ Exists(q) /\ Live(d) /\ entry[d].effect[Account(q)] # 0
            /\ entry[d].day <= statement[q].day
            /\ \A p \in Statements \ {q} : <<p, d>> \in cleared => Account(p) # Account(q)
        BY <3>1 DEF ClearedIsEvidence, ClearedBy
      <3>3. ASSUME NEW p \in Statements \ {q}, <<p, d>> \in cleared'
            PROVE  Account(p) # Account(q)
        <4>1. CASE <<p, d>> \in cleared
          BY <3>2, <4>1
        <4>2. CASE p = r /\ d = e
          BY <2>1, <2>3, <3>1, <4>2
        <4>3. QED
          BY <1>1, <3>3, <4>1, <4>2
      <3>4. QED
        BY <3>2, <3>3
    <2>4. QED
      BY <2>2, <2>3
  <1>6. QED
    BY <1>1, <1>4, <1>5, SameStatementsSameChain

(* Taking evidence away from a draft leaves the evidence of the others.    *)
LEMMA UnclearKeeps ==
  ASSUME TypeOK, CompletedBalanced, ClearedIsEvidence, StatementsChain,
         NEW r \in Statements, NEW e \in Entries, Unclear(r, e)
  PROVE  CompletedBalanced' /\ ClearedIsEvidence' /\ StatementsChain'
  <1>1. /\ statement' = statement /\ entry' = entry /\ cleared' = cleared \ {<<r, e>>}
        /\ statement[r].state = "draft"
    BY DEF Unclear, StatementsOnly, Editable
  <1>2. \A q \in Statements \ {r} : ClearedBy(q)' = ClearedBy(q)
    BY <1>1 DEF ClearedBy
  <1>3. CompletedBalanced'
    <2> SUFFICES ASSUME NEW q \in Statements, statement'[q].state = "completed"
                 PROVE  statement'[q].closing = statement'[q].opening + Total(ClearedAmounts(q)')
      BY DEF CompletedBalanced
    <2>1. q # r /\ statement[q].state = "completed"
      BY <1>1
    <2>2. QED
      BY <1>1, <1>2, <2>1, KeptIsBalanced
  <1>4. ClearedIsEvidence'
    BY <1>1 DEF ClearedIsEvidence, ClearedBy, Exists, Live, Account
  <1>5. QED
    BY <1>1, <1>3, <1>4, SameStatementsSameChain

(* Completing changes the state of a row that is in the chain and balances. *)
LEMMA CompleteKeeps ==
  ASSUME TypeOK, CompletedBalanced, ClearedIsEvidence, StatementsChain,
         NEW r \in Statements, Complete(r)
  PROVE  CompletedBalanced' /\ ClearedIsEvidence' /\ StatementsChain'
  <1>1. /\ statement' = [statement EXCEPT ![r].state = "completed"]
        /\ cleared' = cleared /\ entry' = entry
        /\ statement[r].state = "draft" /\ Balanced(r)
    BY DEF Complete, StatementsOnly, Editable
  <1>2. \A q \in Statements :
          /\ statement'[q].account = statement[q].account
          /\ statement'[q].day = statement[q].day
          /\ statement'[q].opening = statement[q].opening
          /\ statement'[q].closing = statement[q].closing
          /\ statement'[q].state = IF q = r THEN "completed" ELSE statement[q].state
    BY <1>1 DEF TypeOK, Statement
  <1>3. \A q \in Statements : Exists(q)' = Exists(q) /\ Account(q)' = Account(q)
    BY <1>1, <1>2 DEF Exists, Account
  <1>4. \A q \in Statements : ClearedBy(q)' = ClearedBy(q)
    BY <1>1 DEF ClearedBy
  <1>5. \A q \in Statements : ClearedAmounts(q)' = ClearedAmounts(q)
    BY <1>1, <1>3, <1>4 DEF ClearedAmounts
  <1>6. CompletedBalanced'
    BY <1>1, <1>2, <1>5 DEF CompletedBalanced, Balanced
  <1>7. ClearedIsEvidence'
    BY <1>1, <1>2, <1>3, <1>4 DEF ClearedIsEvidence, Live
  <1>8. \A a : Of(a)' = Of(a)
    BY <1>3 DEF Of
  <1>9. OneDraftLast'
    <2> SUFFICES ASSUME NEW a \in Accounts, NEW q \in Of(a), NEW p \in Of(a),
                        p # q, statement'[q].state = "draft"
                 PROVE  statement'[p].day < statement'[q].day
      BY <1>8 DEF OneDraftLast
    <2>1. q \in Statements /\ p \in Statements /\ statement[q].state = "draft"
      BY <1>2 DEF Of
    <2>2. QED
      BY <1>2, <2>1 DEF StatementsChain, OneDraftLast
  <1>10. ASSUME NEW q \in Statements, Exists(q)'
         PROVE  Chained(q)'
    <2>1. EarlierThan(q)' = EarlierThan(q) /\ EarlierThan(q) \subseteq Statements
      BY <1>2, <1>3, <1>8 DEF EarlierThan, Of
    <2>2. Chained(q)
      BY <1>3, <1>10 DEF StatementsChain
    <2>3. \A p \in Statements : Follows(q, p) => Follows(q, p)'
      BY <1>2 DEF Follows
    <2>4. CASE EarlierThan(q) = {} /\ statement[q].opening = Opening[Account(q)]
      BY <1>2, <1>3, <2>1, <2>4 DEF Chained
    <2>5. CASE \E p \in EarlierThan(q) :
                 /\ Follows(q, p)
                 /\ \A d \in EarlierThan(q) \ {p} : statement[d].day < statement[p].day
      <3>1. PICK p \in EarlierThan(q) :
                 /\ Follows(q, p)
                 /\ \A d \in EarlierThan(q) \ {p} : statement[d].day < statement[p].day
        BY <2>5
      <3>2. Follows(q, p)'
        BY <2>1, <2>3, <3>1
      <3>3. \A d \in EarlierThan(q)' \ {p} : statement'[d].day < statement'[p].day
        BY <1>2, <2>1, <3>1
      <3>4. QED
        BY <2>1, <3>2, <3>3 DEF Chained
    <2>6. QED
      BY <2>2, <2>4, <2>5 DEF Chained
  <1>11. QED
    BY <1>6, <1>7, <1>9, <1>10 DEF StatementsChain

(* Discarding takes the last of the chain away, with its evidence.         *)
LEMMA CancelKeeps ==
  ASSUME TypeOK, CompletedBalanced, ClearedIsEvidence, StatementsChain,
         NEW r \in Statements, Cancel(r)
  PROVE  CompletedBalanced' /\ ClearedIsEvidence' /\ StatementsChain'
  <1>1. /\ statement' = [statement EXCEPT ![r] = NoStatement]
        /\ cleared' = cleared \ ({r} \X Entries) /\ entry' = entry
        /\ statement[r].state = "draft"
    BY DEF Cancel, StatementsOnly, Cancellable, Discarded
  <1>2. /\ statement'[r].state = "none"
        /\ \A q \in Statements \ {r} : statement'[q] = statement[q]
    BY <1>1 DEF TypeOK, NoStatement
  <1>3. \A q \in Statements \ {r} : ClearedBy(q)' = ClearedBy(q)
    BY <1>1 DEF ClearedBy
  <1>4. CompletedBalanced'
    <2> SUFFICES ASSUME NEW q \in Statements, statement'[q].state = "completed"
                 PROVE  statement'[q].closing = statement'[q].opening + Total(ClearedAmounts(q)')
      BY DEF CompletedBalanced
    <2>1. q # r /\ statement[q].state = "completed"
      BY <1>2
    <2>2. QED
      BY <1>1, <1>2, <1>3, <2>1, KeptIsBalanced
  <1>5. ClearedIsEvidence'
    <2> SUFFICES ASSUME NEW q \in Statements, NEW e \in Entries, <<q, e>> \in cleared'
                 PROVE  /\ Exists(q)' /\ Live(e)'
                        /\ entry'[e].effect[Account(q)'] # 0
                        /\ entry'[e].day <= statement'[q].day
                        /\ \A p \in Statements \ {q} :
                             <<p, e>> \in cleared' => Account(p)' # Account(q)'
      BY DEF ClearedIsEvidence, ClearedBy
    <2>1. /\ q # r /\ <<q, e>> \in cleared
          /\ \A p \in Statements : <<p, e>> \in cleared' => p # r /\ <<p, e>> \in cleared
      BY <1>1
    <2>2. /\ Exists(q) /\ Live(e) /\ entry[e].effect[Account(q)] # 0
          /\ entry[e].day <= statement[q].day
          /\ \A p \in Statements \ {q} : <<p, e>> \in cleared => Account(p) # Account(q)
      BY <2>1 DEF ClearedIsEvidence, ClearedBy
    <2>3. QED
      BY <1>1, <1>2, <2>1, <2>2 DEF Exists, Live, Account
  <1>6. \A a : Of(a)' = Of(a) \ {r}
    BY <1>2 DEF Of, Exists, Account
  <1>7. OneDraftLast'
    <2> SUFFICES ASSUME NEW a \in Accounts, NEW q \in Of(a) \ {r}, NEW p \in Of(a) \ {r},
                        p # q, statement'[q].state = "draft"
                 PROVE  statement'[p].day < statement'[q].day
      BY <1>6 DEF OneDraftLast
    <2>1. statement'[q] = statement[q] /\ statement'[p] = statement[p]
      BY <1>2 DEF Of
    <2>2. QED
      BY <2>1 DEF StatementsChain, OneDraftLast
  <1>8. ASSUME NEW q \in Statements, Exists(q)'
        PROVE  Chained(q)'
    <2>1. q # r /\ statement'[q] = statement[q] /\ Exists(q) /\ Chained(q)
      BY <1>2, <1>8 DEF Exists, StatementsChain
    <2>2. Account(q)' = Account(q) /\ Account(q) \in Accounts
      BY <2>1 DEF Account, TypeOK, Statement
    <2>3. r \notin EarlierThan(q)
      <3>1. CASE Account(r) = Account(q)
        <4>1. r \in Of(Account(q)) /\ q \in Of(Account(q))
          BY <1>1, <2>1, <3>1 DEF Of, Exists
        <4>2. statement[q].day < statement[r].day
          BY <1>1, <2>1, <2>2, <4>1 DEF StatementsChain, OneDraftLast
        <4>3. statement[q].day \in Int /\ statement[r].day \in Int
          BY DEF TypeOK, Statement, Days
        <4>4. QED
          BY <4>2, <4>3 DEF EarlierThan
      <3>2. QED
        BY <3>1 DEF EarlierThan, Of
    <2>4. \A p \in EarlierThan(q) : statement'[p] = statement[p]
      BY <1>2, <2>3 DEF EarlierThan, Of
    <2>5. EarlierThan(q)' = EarlierThan(q)
      <3>1. EarlierThan(q)' = {p \in Of(Account(q)) \ {r} : statement'[p].day < statement[q].day}
        BY <1>6, <2>1, <2>2 DEF EarlierThan
      <3>2. \A p \in Of(Account(q)) \ {r} : statement'[p] = statement[p]
        BY <1>2 DEF Of
      <3>3. QED
        BY <2>3, <3>1, <3>2 DEF EarlierThan
    <2>6. QED
      BY <2>1, <2>2, <2>4, <2>5 DEF Chained, Follows
  <1>9. QED
    BY <1>4, <1>5, <1>7, <1>8 DEF StatementsChain

-----------------------------------------------------------------------------
(* The theorems                                                            *)

LEMMA StatementNextKeeps ==
  ASSUME ReconciliationInv, StatementNext
  PROVE  CompletedBalanced' /\ ClearedIsEvidence' /\ StatementsChain'
  <1> USE DEF ReconciliationInv
  <1>1. ASSUME NEW r \in Statements, NEW a \in Accounts, NEW day \in Days,
               NEW closing \in Balances,
               NEW opening \in {Opening[a]} \cup {statement[p].closing : p \in Statements},
               Create(r, a, day, opening, closing)
        PROVE  CompletedBalanced' /\ ClearedIsEvidence' /\ StatementsChain'
    <2>1. opening \in Int /\ closing \in Int
      BY OpeningAssumption, AmountAssumption DEF TypeOK, Statement
    <2>2. QED
      BY <1>1, <2>1, CreateKeeps
  <1>2. QED
    BY <1>1, ClearKeeps, UnclearKeeps, CompleteKeeps, CancelKeeps DEF StatementNext

LEMMA InvariantStep == ReconciliationInv /\ [Next]_vars => ReconciliationInv'
  <1> SUFFICES ASSUME ReconciliationInv, [Next]_vars PROVE ReconciliationInv'
    OBVIOUS
  <1>1. TypeOK'
    BY StepTypes DEF ReconciliationInv
  <1>2. CASE StatementNext
    BY <1>1, <1>2, StatementNextKeeps DEF ReconciliationInv
  <1>3. CASE LedgerNext \/ NextDay \/ UNCHANGED vars
    <2>1. LedgerStep
      BY <1>3, LedgerNextIsLedgerStep, QuietIsLedgerStep DEF ReconciliationInv
    <2>2. QED
      BY <1>1, <2>1, LedgerStepKeeps DEF ReconciliationInv
  <1>4. QED
    BY <1>2, <1>3 DEF Next

LEMMA InitInvariant == Init => ReconciliationInv
  <1> SUFFICES ASSUME Init PROVE ReconciliationInv
    OBVIOUS
  <1>1. \A r \in Statements : statement[r].state = "none" /\ ~Exists(r)
    BY DEF Init, NoStatement, Exists
  <1>2. CompletedBalanced /\ ClearedIsEvidence
    BY <1>1 DEF Init, CompletedBalanced, ClearedIsEvidence, ClearedBy
  <1>3. StatementsChain
    BY <1>1 DEF StatementsChain, OneDraftLast, Of
  <1>4. QED
    BY <1>2, <1>3, InitTypes DEF ReconciliationInv

(* The inductive invariant.                                                *)
THEOREM ReconciliationInvariant == Spec => []ReconciliationInv
  BY InitInvariant, InvariantStep, PTL DEF Spec

(* Completed statements stay balanced with the ledger for ever.            *)
THEOREM StatementsStayBalanced == Spec => []CompletedBalanced
  <1>1. ReconciliationInv => CompletedBalanced
    BY DEF ReconciliationInv
  <1>2. QED
    BY <1>1, ReconciliationInvariant, PTL

(* Cleared entries are live entries of the account, dated in time, cleared *)
(* once per account.                                                       *)
THEOREM EvidenceHolds == Spec => []ClearedIsEvidence
  <1>1. ReconciliationInv => ClearedIsEvidence
    BY DEF ReconciliationInv
  <1>2. QED
    BY <1>1, ReconciliationInvariant, PTL

(* The statements of every account form one chain.                         *)
THEOREM ChainHolds == Spec => []StatementsChain
  <1>1. ReconciliationInv => StatementsChain
    BY DEF ReconciliationInv
  <1>2. QED
    BY <1>1, ReconciliationInvariant, PTL

(* A completed statement, what it cleared and the entries behind it are    *)
(* final.                                                                  *)
Final == \A r \in Statements : statement[r].state = "completed" =>
           /\ statement'[r] = statement[r]
           /\ ClearedBy(r)' = ClearedBy(r)
           /\ \A e \in ClearedBy(r) : entry'[e] = entry[e]

LEMMA StepIsFinal == ReconciliationInv /\ [Next]_vars => Final
  <1> SUFFICES ASSUME ReconciliationInv, [Next]_vars, NEW r \in Statements,
                      statement[r].state = "completed"
               PROVE  /\ statement'[r] = statement[r]
                      /\ ClearedBy(r)' = ClearedBy(r)
                      /\ \A e \in ClearedBy(r) : entry'[e] = entry[e]
    BY DEF Final
  <1>1. CASE LedgerNext \/ NextDay \/ UNCHANGED vars
    <2>1. LedgerStep
      BY <1>1, LedgerNextIsLedgerStep, QuietIsLedgerStep DEF ReconciliationInv
    <2>2. QED
      BY <2>1 DEF LedgerStep, ClearedBy, Locked
  <1>2. ASSUME NEW q \in Statements, NEW a, NEW day, NEW opening, NEW closing,
               Create(q, a, day, opening, closing)
        PROVE  statement'[r] = statement[r] /\ cleared' = cleared /\ entry' = entry
    BY <1>2 DEF Create, StatementsOnly, NoStatement, ReconciliationInv, TypeOK
  <1>3. ASSUME NEW q \in Statements, NEW e \in Entries, Clear(q, e) \/ Unclear(q, e)
        PROVE  statement' = statement /\ ClearedBy(r)' = ClearedBy(r) /\ entry' = entry
    <2>1. q # r /\ statement' = statement /\ entry' = entry
      BY <1>3 DEF Clear, Unclear, StatementsOnly, Editable
    <2>2. \A d \in Entries : <<r, d>> \in cleared' <=> <<r, d>> \in cleared
      BY <1>3, <2>1 DEF Clear, Unclear
    <2>3. QED
      BY <2>1, <2>2 DEF ClearedBy
  <1>4. ASSUME NEW q \in Statements, Complete(q)
        PROVE  statement'[r] = statement[r] /\ cleared' = cleared /\ entry' = entry
    BY <1>4 DEF Complete, Editable, StatementsOnly, ReconciliationInv, TypeOK
  <1>5. ASSUME NEW q \in Statements, Cancel(q)
        PROVE  /\ statement'[r] = statement[r] /\ entry' = entry
               /\ ClearedBy(r)' = ClearedBy(r)
    <2>1. q # r /\ statement'[r] = statement[r] /\ entry' = entry
      BY <1>5 DEF Cancel, Cancellable, StatementsOnly, ReconciliationInv, TypeOK
    <2>2. \A d \in Entries : <<r, d>> \in cleared' <=> <<r, d>> \in cleared
      BY <1>5, <2>1 DEF Cancel
    <2>3. QED
      BY <2>1, <2>2 DEF ClearedBy
  <1>6. QED
    BY <1>1, <1>2, <1>3, <1>4, <1>5 DEF Next, StatementNext, ClearedBy

THEOREM CompletionIsFinal == Spec => CompletedIsFinal
  <1>1. ReconciliationInv /\ [Next]_vars => [Final]_vars
    BY StepIsFinal
  <1>2. Spec => [][Final]_vars
    BY <1>1, ReconciliationInvariant, PTL DEF Spec
  <1>3. QED
    BY <1>2 DEF CompletedIsFinal, Final

-----------------------------------------------------------------------------
(* The book.  An account carries forward the closing balance of the last   *)
(* statement completed: there is one that is after all the others.         *)
EffectOf == [e \in Entries |-> IF Live(e) THEN entry[e].effect ELSE Nowhere]
SettledOn == [a \in Accounts |-> Settled(a)]
Carried == [a \in Accounts |-> CarriedForward(a)]
book == <<EffectOf, SettledOn, Carried>>

IsLast(p, a) ==
  /\ p \in Completed(a)
  /\ \A q \in Completed(a) \ {p} : statement[q].day < statement[p].day
BookInv == \A a \in Accounts : Completed(a) = {} \/ \E p \in Statements : IsLast(p, a)

(* What there is one of that is after all the others is what is chosen.    *)
LEMMA LastIsChosen ==
  ASSUME NEW S, NEW f, NEW p \in S, \A q \in S : f[q].day \in Nat,
         \A q \in S \ {p} : f[q].day < f[p].day
  PROVE  (CHOOSE r \in S : \A q \in S : f[q].day <= f[r].day) = p
<1>1. \A q \in S : f[q].day <= f[p].day
  OBVIOUS
<1>2. \A r \in S : (\A q \in S : f[q].day <= f[r].day) => r = p
  OBVIOUS
<1>3. /\ (CHOOSE r \in S : \A q \in S : f[q].day <= f[r].day) \in S
      /\ \A q \in S : f[q].day <= f[CHOOSE r \in S : \A x \in S : f[x].day <= f[r].day].day
  BY <1>1
<1> QED BY <1>2, <1>3

LEMMA BookIs ==
  /\ [Book!BookNext]_book <=> [Book!BookNext]_Book!bookVars
  BY DEF book, Book!bookVars, EffectOf, SettledOn, Carried

LEMMA EditIs ==
  ASSUME NEW e \in Entries, \A a \in Accounts : e \notin SettledOn[a],
         EffectOf' \in [Entries -> [Accounts -> Int]],
         \A d \in Entries \ {e} : EffectOf'[d] = EffectOf[d],
         UNCHANGED <<SettledOn, Carried>>
  PROVE  Book!BookNext
<1>1. Book!Edit(e)
  BY DEF Book!Edit, EffectOf, SettledOn, Carried
<1> QED BY <1>1 DEF Book!BookNext

LEMMA SettleIs ==
  ASSUME NEW a \in Accounts, NEW S \in SUBSET Entries, S \cap SettledOn[a] = {},
         SettledOn' = [SettledOn EXCEPT ![a] = @ \cup S],
         Carried' = [Carried EXCEPT ![a] = @ + Total([e \in S |-> EffectOf[e][a]])],
         \A e \in S : EffectOf[e][a] # 0,
         UNCHANGED EffectOf
  PROVE  Book!BookNext
<1>1. \A f : Book!Total(f) = Total(f)
  BY DEF Book!Total, Total, Book!FoldFunction, FoldFunction, Book!FoldFunctionOnSet,
         FoldFunctionOnSet, Book!MapThenFoldSet, MapThenFoldSet
<1>2. Book!Settle(a, S)
  BY <1>1 DEF Book!Settle, EffectOf, SettledOn, Carried
<1> QED BY <1>2 DEF Book!BookNext

LEMMA InitBook == Init => Book!BookInit /\ BookInv
<1> SUFFICES ASSUME Init PROVE Book!BookInit /\ BookInv
  OBVIOUS
<1>1. \A a \in Accounts : Of(a) = {} /\ Completed(a) = {} /\ Settled(a) = {}
  BY DEF Init, NoStatement, Of, Exists, Completed, Settled
<1>2. EffectOf = [e \in Entries |-> [a \in Accounts |-> 0]]
  BY DEF Init, NoEntry, Live, Nowhere, EffectOf
<1>3. SettledOn = [a \in Accounts |-> {}]
  BY <1>1 DEF SettledOn
<1>4. Carried = Opening
  BY <1>1, OpeningAssumption DEF Carried, CarriedForward
<1>5. Book!BookInit
  BY <1>2, <1>3, <1>4 DEF Book!BookInit, EffectOf, SettledOn, Carried
<1> QED BY <1>1, <1>5 DEF BookInv

(* A step that leaves what is completed alone, and what that has cleared.  *)
SameStatements ==
  \A r \in Statements :
    /\ statement'[r].state = "completed" <=> statement[r].state = "completed"
    /\ statement[r].state = "completed" =>
         statement'[r] = statement[r] /\ ClearedBy(r)' = ClearedBy(r)

LEMMA SameAccount ==
  ASSUME TypeOK, BookInv, NEW a \in Accounts,
         \A r \in Statements : r \in Completed(a)' <=> r \in Completed(a),
         \A r \in Completed(a) : statement'[r] = statement[r] /\ ClearedBy(r)' = ClearedBy(r)
  PROVE  /\ Settled(a)' = Settled(a) /\ CarriedForward(a)' = CarriedForward(a)
         /\ (Completed(a) = {} \/ \E p \in Statements : IsLast(p, a))'
<1>1. Completed(a)' = Completed(a)
  BY DEF Completed, Of
<1>2. Settled(a)' = Settled(a)
  <2>1. Settled(a) = {e \in Entries : \E r \in Completed(a) : e \in ClearedBy(r)}
    BY DEF Settled, Completed, ClearedBy
  <2>2. Settled(a)' = {e \in Entries : \E r \in Completed(a)' : e \in ClearedBy(r)'}
    BY DEF Settled, Completed, ClearedBy
  <2> QED BY <1>1, <2>1, <2>2
<1>3. CASE Completed(a) = {}
  BY <1>1, <1>2, <1>3 DEF CarriedForward
<1>4. CASE Completed(a) # {}
  <2>1. PICK p \in Statements : IsLast(p, a)
    BY <1>4 DEF BookInv
  <2>2. PICK S : S = Completed(a)
    OBVIOUS
  <2>3. /\ p \in S /\ \A q \in S : statement[q].day \in Nat /\ statement'[q].day \in Nat
        /\ \A q \in S \ {p} : statement[q].day < statement[p].day /\ statement'[q].day < statement'[p].day
    BY <2>1, <2>2, DayAssumption DEF IsLast, TypeOK, Statement, Days, Completed, Of
  <2>4. CarriedForward(a) = statement[p].closing
    BY <1>4, <2>2, <2>3, LastIsChosen DEF CarriedForward
  <2>5. CarriedForward(a)' = statement'[p].closing
    BY <1>1, <1>4, <2>2, <2>3, LastIsChosen DEF CarriedForward
  <2>6. IsLast(p, a)'
    BY <1>1, <2>2, <2>3 DEF IsLast
  <2> QED BY <1>2, <2>2, <2>3, <2>4, <2>5, <2>6
<1> QED BY <1>3, <1>4

LEMMA SameSettled ==
  ASSUME TypeOK, BookInv, SameStatements
  PROVE  BookInv' /\ UNCHANGED <<SettledOn, Carried>>
<1>1. ASSUME NEW a \in Accounts
      PROVE /\ Settled(a)' = Settled(a) /\ CarriedForward(a)' = CarriedForward(a)
            /\ (Completed(a) = {} \/ \E p \in Statements : IsLast(p, a))'
  <2>1. \A r \in Statements : r \in Completed(a)' <=> r \in Completed(a)
    BY DEF SameStatements, Completed, Of, Exists, Account
  <2>2. \A r \in Completed(a) : statement'[r] = statement[r] /\ ClearedBy(r)' = ClearedBy(r)
    BY DEF SameStatements, Completed, Of
  <2> QED BY <2>1, <2>2, SameAccount
<1>2. UNCHANGED <<SettledOn, Carried>>
  BY <1>1 DEF SettledOn, Carried
<1> QED BY <1>1, <1>2 DEF BookInv

(* The ledger changes one row, which is not locked, or none.               *)
OneRow == entry' = entry \/ \E e \in Entries : ~Locked(e) /\ \A d \in Entries \ {e} : entry'[d] = entry[d]

LEMMA LedgerNextIsOneRow ==
  TypeOK /\ ClearedIsEvidence /\ LedgerNext => OneRow
<1> SUFFICES ASSUME TypeOK, ClearedIsEvidence, LedgerNext PROVE OneRow
  OBVIOUS
<1>0. Transactions \subseteq Entries /\ Transfers \subseteq Entries
  BY DEF Entries
<1>a. ASSUME NEW e \in Entries, ~Locked(e), NEW row, entry' = [entry EXCEPT ![e] = row] PROVE OneRow
  BY <1>a DEF OneRow, TypeOK
<1>1. ASSUME NEW t \in Transactions, NEW a \in Accounts, NEW m \in Signed,
             NEW day \in Days, AddTransaction(t, a, m, day)
      PROVE  OneRow
  <2>1. t \in Entries /\ ~Locked(t)
    BY <1>0, <1>1, NewRowsAreUnlocked DEF AddTransaction
  <2> QED BY <1>1, <1>a, <2>1 DEF AddTransaction, Put
<1>2. ASSUME NEW c \in Clients, NEW x \in Transfers, WriteTransfer(c, x)
      PROVE  OneRow
  <2>1. x \in Entries /\ ~Locked(x)
    BY <1>0, <1>2, NewRowsAreUnlocked DEF WriteTransfer
  <2> QED BY <1>2, <1>a, <2>1 DEF WriteTransfer, Put
<1>3. ASSUME NEW c \in Clients, WriteUpdate(c)
      PROVE  OneRow
  <2>1. request[c].entry \in Entries
    BY DEF TypeOK, Request
  <2>2. CASE entry' = entry
    BY <2>2 DEF OneRow
  <2>3. CASE ~Locked(request[c].entry) /\ Put(request[c].entry, request[c].day, request[c].effect)
    BY <1>a, <2>1, <2>3 DEF Put
  <2> QED BY <1>3, <2>2, <2>3 DEF WriteUpdate
<1>4. ASSUME NEW t \in Transactions, DeleteTransaction(t) \/ RestoreTransaction(t)
      PROVE  OneRow
  <2>1. t \in Entries /\ ~Locked(t)
    BY <1>0, <1>4 DEF DeleteTransaction, RestoreTransaction
  <2>2. \A d \in Entries \ {t} : entry'[d] = entry[d]
    BY <1>4 DEF DeleteTransaction, RestoreTransaction, TypeOK
  <2> QED BY <2>1, <2>2 DEF OneRow
<1>5. ASSUME NEW x \in Transfers, DeleteTransfer(x)
      PROVE  OneRow
  BY <1>0, <1>5, <1>a DEF DeleteTransfer
<1>6. ASSUME NEW a \in Accounts, DeactivateAccount(a)
      PROVE  OneRow
  BY <1>6 DEF DeactivateAccount, OneRow
<1>7. ASSUME NEW c \in Clients, NEW from \in Accounts, NEW to \in Accounts,
             NEW m \in Amounts, NEW day \in Days, CheckTransfer(c, from, to, m, day)
      PROVE  OneRow
  BY <1>7 DEF CheckTransfer, OneRow
<1>8. ASSUME NEW c \in Clients, NEW t \in Transactions, NEW a \in Accounts,
             NEW m \in Signed, NEW day \in Days, CheckUpdate(c, t, a, m, day)
      PROVE  OneRow
  BY <1>8 DEF CheckUpdate, OneRow
<1> QED BY <1>1, <1>2, <1>3, <1>4, <1>5, <1>6, <1>7, <1>8 DEF LedgerNext

(* So the ledger is the book's: it stutters or edits what is not settled.  *)
LEMMA LedgerKeepsBook ==
  ASSUME ReconciliationInv, BookInv, LedgerNext \/ NextDay \/ UNCHANGED vars
  PROVE  BookInv' /\ [Book!BookNext]_book
<1>0. TypeOK /\ ClearedIsEvidence /\ LedgerStep
  BY LedgerNextIsLedgerStep, QuietIsLedgerStep DEF ReconciliationInv
<1>1. TypeOK'
  BY <1>0, StepTypes DEF Next
<1>2. SameStatements
  BY <1>0 DEF LedgerStep, SameStatements, ClearedBy
<1>3. BookInv' /\ UNCHANGED <<SettledOn, Carried>>
  BY <1>0, <1>2, SameSettled
<1>4. OneRow
  BY <1>0, LedgerNextIsOneRow DEF NextDay, vars, OneRow
<1>5. CASE entry' = entry
  <2>1. UNCHANGED EffectOf
    BY <1>5 DEF EffectOf, Live
  <2> QED BY <1>3, <2>1 DEF book
<1>6. ASSUME NEW e \in Entries, ~Locked(e), \A d \in Entries \ {e} : entry'[d] = entry[d]
      PROVE  Book!BookNext
  <2>1. \A a \in Accounts : e \notin SettledOn[a]
    BY <1>6 DEF SettledOn, Settled, Locked, Of
  <2>2. EffectOf' \in [Entries -> [Accounts -> Int]]
    BY <1>1 DEF EffectOf, TypeOK, Entry, Nowhere
  <2>3. \A d \in Entries \ {e} : EffectOf'[d] = EffectOf[d]
    BY <1>6 DEF EffectOf, Live
  <2> QED BY <1>3, <2>1, <2>2, <2>3, EditIs
<1> QED BY <1>3, <1>4, <1>5, <1>6 DEF OneRow

(* Drafts are not in the book.                                             *)
LEMMA DraftsKeepBook ==
  ASSUME TypeOK, BookInv, SameStatements, entry' = entry
  PROVE  BookInv' /\ UNCHANGED book
<1>1. BookInv' /\ UNCHANGED <<SettledOn, Carried>>
  BY SameSettled
<1>2. UNCHANGED EffectOf
  BY DEF EffectOf, Live
<1> QED BY <1>1, <1>2 DEF book

(* What is completed settles what it has cleared: its opening balance is   *)
(* what the account carried forward, by the chain, and its closing balance *)
(* is what the account carries then, since it balances.                    *)
LEMMA CompleteSettles ==
  ASSUME ReconciliationInv, BookInv, NEW r \in Statements, Complete(r)
  PROVE  BookInv' /\ Book!BookNext
<1>0. /\ TypeOK /\ ClearedIsEvidence /\ StatementsChain
      /\ statement[r].state = "draft" /\ Balanced(r)
  BY DEF ReconciliationInv, Complete, Editable
<1>1. PICK a \in Accounts : a = Account(r)
  BY <1>0 DEF TypeOK, Statement, Account
<1>2. /\ entry' = entry /\ cleared' = cleared
      /\ statement' = [statement EXCEPT ![r].state = "completed"]
  BY DEF Complete, StatementsOnly
<1>3. /\ \A q \in Statements \ {r} : statement'[q] = statement[q]
      /\ statement'[r].state = "completed" /\ statement'[r].account = statement[r].account
      /\ statement'[r].day = statement[r].day /\ statement'[r].closing = statement[r].closing
  BY <1>0, <1>2 DEF TypeOK, Statement
<1>4. \A q \in Statements : ClearedBy(q)' = ClearedBy(q)
  BY <1>2 DEF ClearedBy
<1>5. \A q \in Of(a) \ {r} : statement[q].state = "completed" /\ statement[q].day < statement[r].day
  <2> SUFFICES ASSUME NEW q \in Of(a) \ {r}
               PROVE  statement[q].state = "completed" /\ statement[q].day < statement[r].day
    OBVIOUS
  <2>1. q \in Of(a) /\ r \in Of(a) /\ q # r
    BY <1>0, <1>1 DEF Of, Exists
  <2>2. statement[q].day < statement[r].day
    BY <1>0, <2>1 DEF StatementsChain, OneDraftLast
  <2>3. statement[q].state = "draft" => statement[r].day < statement[q].day
    BY <2>1, <1>0 DEF StatementsChain, OneDraftLast
  <2>4. /\ statement[q].day \in Nat /\ statement[r].day \in Nat
        /\ statement[q].state \in {"draft", "completed"}
    BY <1>0, <2>1, DayAssumption DEF TypeOK, Statement, Days, Of, Exists
  <2> QED BY <2>2, <2>3, <2>4
<1>6. Completed(a) = Of(a) \ {r} /\ Completed(a) = EarlierThan(r)
  BY <1>0, <1>1, <1>5, DayAssumption DEF Completed, EarlierThan, Of, Exists, TypeOK, Statement, Days
<1>7. Completed(a)' = Completed(a) \cup {r}
  <2>1. \A q \in Statements : q \in Completed(a)' <=> q \in Completed(a) \/ q = r
    BY <1>1, <1>3 DEF Completed, Of, Exists, Account
  <2> QED BY <2>1 DEF Completed, Of
<1>8. CarriedForward(a) = statement[r].opening
  <2>1. Chained(r)
    BY <1>0 DEF StatementsChain, Exists
  <2>2. CASE EarlierThan(r) = {} /\ statement[r].opening = Opening[Account(r)]
    BY <1>1, <1>6, <2>2 DEF CarriedForward
  <2>3. ASSUME NEW p \in EarlierThan(r), Follows(r, p),
               \A q \in EarlierThan(r) \ {p} : statement[q].day < statement[p].day
        PROVE  CarriedForward(a) = statement[r].opening
    <3>1. PICK S : S = Completed(a)
      OBVIOUS
    <3>2. \A q \in S : statement[q].day \in Nat
      BY <1>0, <3>1, DayAssumption DEF TypeOK, Statement, Days, Completed, Of
    <3>3. p \in S /\ \A q \in S \ {p} : statement[q].day < statement[p].day
      BY <1>6, <2>3, <3>1
    <3>4. CarriedForward(a) = statement[p].closing
      BY <3>1, <3>2, <3>3, LastIsChosen DEF CarriedForward
    <3> QED BY <2>3, <3>4 DEF Follows
  <2> QED BY <2>1, <2>2, <2>3 DEF Chained
<1>9. CarriedForward(a)' = statement[r].closing /\ IsLast(r, a)'
  <2>1. PICK S : S = Completed(a)'
    OBVIOUS
  <2>2. /\ r \in S /\ \A q \in S : statement'[q].day \in Nat
        /\ \A q \in S \ {r} : statement'[q].day < statement'[r].day
    BY <1>0, <1>3, <1>5, <1>6, <1>7, <2>1, DayAssumption DEF TypeOK, Statement, Days, Of
  <2>3. CarriedForward(a)' = statement'[r].closing
    BY <2>1, <2>2, LastIsChosen DEF CarriedForward
  <2> QED BY <1>3, <2>1, <2>2, <2>3 DEF IsLast
<1>10. ASSUME NEW b \in Accounts \ {a}
       PROVE /\ Settled(b)' = Settled(b) /\ CarriedForward(b)' = CarriedForward(b)
             /\ (Completed(b) = {} \/ \E p \in Statements : IsLast(p, b))'
  <2>1. \A q \in Statements : q \in Completed(b)' <=> q \in Completed(b)
    BY <1>1, <1>3 DEF Completed, Of, Exists, Account
  <2>2. \A q \in Completed(b) : statement'[q] = statement[q] /\ ClearedBy(q)' = ClearedBy(q)
    BY <1>1, <1>3, <1>4 DEF Completed, Of
  <2> QED BY <1>0, <2>1, <2>2, SameAccount
<1>11. Settled(a)' = Settled(a) \cup ClearedBy(r)
  <2>1. Settled(a) = {e \in Entries : \E q \in Completed(a) : e \in ClearedBy(q)}
    BY DEF Settled, Completed, ClearedBy
  <2>2. Settled(a)' = {e \in Entries : \E q \in Completed(a)' : e \in ClearedBy(q)'}
    BY DEF Settled, Completed, ClearedBy
  <2>3. \A q \in Completed(a) : q \in Statements
    BY DEF Completed, Of
  <2>4. ClearedBy(r) \subseteq Entries
    BY DEF ClearedBy
  <2> QED BY <1>4, <1>7, <2>1, <2>2, <2>3, <2>4
<1>12. BookInv'
  BY <1>9, <1>10 DEF BookInv
<1>13. \A e \in ClearedBy(r) : e \in Entries /\ EffectOf[e][a] = entry[e].effect[a] /\ EffectOf[e][a] # 0
  BY <1>0, <1>1 DEF ClearedIsEvidence, ClearedBy, EffectOf
<1>14. statement[r].closing = statement[r].opening + Total([e \in ClearedBy(r) |-> EffectOf[e][a]])
  <2>1. ClearedAmounts(r) = [e \in ClearedBy(r) |-> EffectOf[e][a]]
    BY <1>1, <1>13 DEF ClearedAmounts
  <2> QED BY <1>0, <2>1 DEF Balanced
<1>15. ClearedBy(r) \cap SettledOn[a] = {}
  <2> SUFFICES ASSUME NEW e \in ClearedBy(r), e \in Settled(a) PROVE FALSE
    BY DEF SettledOn
  <2>1. PICK q \in Completed(a) : q \in Statements \ {r} /\ <<q, e>> \in cleared /\ Account(q) = Account(r)
    BY <1>0, <1>1 DEF Settled, Completed, Of
  <2> QED BY <1>0, <2>1 DEF ClearedIsEvidence
<1>16. SettledOn' = [SettledOn EXCEPT ![a] = @ \cup ClearedBy(r)]
  BY <1>10, <1>11 DEF SettledOn
<1>17. Carried' = [Carried EXCEPT ![a] = @ + Total([e \in ClearedBy(r) |-> EffectOf[e][a]])]
  BY <1>8, <1>9, <1>10, <1>14 DEF Carried
<1>18. UNCHANGED EffectOf
  BY <1>2 DEF EffectOf, Live
<1>19. ClearedBy(r) \in SUBSET Entries
  BY DEF ClearedBy
<1> QED BY <1>12, <1>13, <1>15, <1>16, <1>17, <1>18, <1>19, SettleIs

LEMMA StepKeepsBook ==
  ReconciliationInv /\ BookInv /\ [Next]_vars => BookInv' /\ [Book!BookNext]_book
<1> SUFFICES ASSUME ReconciliationInv, BookInv, [Next]_vars PROVE BookInv' /\ [Book!BookNext]_book
  OBVIOUS
<1>0. TypeOK
  BY DEF ReconciliationInv
<1>1. CASE LedgerNext \/ NextDay \/ UNCHANGED vars
  BY <1>1, LedgerKeepsBook
<1>2. ASSUME NEW r \in Statements, NEW a, NEW day, NEW opening, NEW closing,
             Create(r, a, day, opening, closing)
      PROVE  SameStatements /\ entry' = entry
  BY <1>0, <1>2 DEF Create, NoStatement, StatementsOnly, SameStatements, ClearedBy, TypeOK
<1>3. ASSUME NEW r \in Statements, NEW e \in Entries, Clear(r, e) \/ Unclear(r, e)
      PROVE  SameStatements /\ entry' = entry
  <2>1. /\ statement' = statement /\ entry' = entry /\ statement[r].state = "draft"
        /\ \A q \in Statements \ {r}, d \in Entries : <<q, d>> \in cleared' <=> <<q, d>> \in cleared
    BY <1>3 DEF Clear, Unclear, StatementsOnly, Editable
  <2> QED BY <2>1 DEF SameStatements, ClearedBy
<1>4. ASSUME NEW r \in Statements, Cancel(r)
      PROVE  SameStatements /\ entry' = entry
  <2>1. /\ entry' = entry /\ statement[r].state = "draft" /\ statement' = [statement EXCEPT ![r] = NoStatement]
        /\ \A q \in Statements \ {r}, d \in Entries : <<q, d>> \in cleared' <=> <<q, d>> \in cleared
    BY <1>4 DEF Cancel, Cancellable, Discarded, StatementsOnly
  <2>2. statement'[r].state = "none" /\ \A q \in Statements \ {r} : statement'[q] = statement[q]
    BY <1>0, <2>1 DEF TypeOK, NoStatement
  <2> QED BY <2>1, <2>2 DEF SameStatements, ClearedBy
<1>5. CASE SameStatements /\ entry' = entry
  BY <1>0, <1>5, DraftsKeepBook
<1>6. ASSUME NEW r \in Statements, Complete(r) PROVE BookInv' /\ [Book!BookNext]_book
  BY <1>6, CompleteSettles
<1> QED BY <1>1, <1>2, <1>3, <1>4, <1>5, <1>6 DEF Next, StatementNext

(* Statements keep the book: whatever happens to the ledger and to the     *)
(* statements, completing one settles its entries, each once per account,  *)
(* and the balance carried forward is what was settled.                    *)
THEOREM BookIsKept == Spec => ImplementsBook
<1>1. Init => Book!BookInit /\ BookInv
  BY InitBook
<1>2. ReconciliationInv /\ BookInv /\ [Next]_vars => BookInv' /\ [Book!BookNext]_Book!bookVars
  BY StepKeepsBook, BookIs
<1> QED BY <1>1, <1>2, ReconciliationInvariant, PTL DEF Spec, ImplementsBook, Book!BookSpec

====
