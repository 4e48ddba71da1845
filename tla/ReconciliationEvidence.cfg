\* A statement beside a transfer and edits; the chain of statements.
CONSTANTS
  main = main
  card = card
  t1 = t1
  t2 = t2
  x1 = x1
  s1 = s1
  s2 = s2
  s3 = s3
  c1 = c1
  c2 = c2
  Accounts = {main, card}
  MainAccount = main
  Opening <- MCOpening
  Transactions = {t1}
  Transfers = {x1}
  Amounts = {1}
  Statements = {s1, s2}
  Balances <- FewBalances
  Clients = {c1}
  LastDay = 1
SPECIFICATION Spec
SYMMETRY Symmetry
INVARIANTS CompletedBalanced ClearedIsEvidence StatementsChain
PROPERTIES CompletedIsFinal ImplementsBook
CHECK_DEADLOCK FALSE
