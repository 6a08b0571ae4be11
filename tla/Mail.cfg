\* Two processes and two mails; two crashes, one outage of Redis.
SPECIFICATION Spec
CONSTANTS
  p1 = p1
  p2 = p2
  Procs <- MCProcs
  Provider = "smtp"
  RetryLimit = 3
  MaxTries = 2
  MaxMails = 2
  MaxCrashes = 2
  MaxOutages = 1
INVARIANTS
  TypeOK
  LogTellsTruth
  RepeatedOnlyByCrash
PROPERTIES
  QueuedMailArrives
  EveryMailEnds
CHECK_DEADLOCK FALSE
