\* Three transfers, one of them a dry run; writes, deaths, backups and restores;
\* two processes that upgrade SQLite, three that upgrade PostgreSQL.
CONSTANTS
  Movers = {m1, m2, dry}
  Commits = {m1, m2}
  Nobody = Nobody
  MaxId = 2
  MaxCrashes = 1
  Processes = {p1, p2}
  FirstVersion = 3
  Servers = {p1, p2, p3}
  Currencies = {"USD", "EUR"}
  BaseCurrency <- MCCurrency
  NoCurrency = NoCurrency
  MaxStops = 2
  MaxWrites = 4
  MaxRots = 1
  MaxDeaths = 3
  Corrupt = Corrupt
  Mixed = Mixed
  Newer = Newer
  None = None
SPECIFICATION MCSpec
INVARIANTS WhatIsThere SchemaIsSound
PROPERTIES TransferIsWhole UpgradesAtOnce DamageIsCured UpgradeEnds
CHECK_DEADLOCK FALSE
