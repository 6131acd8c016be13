SPECIFICATION HealingSpec
CONSTANTS
  a = a
  b = b
  erp = erp
  web = web
  Stages = {erp}
  DBs = {a}
  Lists <- OneInstance
  TickHours = 2
  BackupHour = 2
  VerifyHour = 8
  MaxAgeParam = 28
  DailyAgeParam = 20
  MaxDelay = 4
INVARIANTS GreenMeansBackedUp ConfirmedNotOverdue
PROPERTIES SkipIsJustified ClearedByBackup OverdueHeals
