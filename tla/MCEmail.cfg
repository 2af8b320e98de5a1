SPECIFICATION EmailSpec
CONSTANTS
  w1 = w1
  w2 = w2
  m1 = m1
  m2 = m2
  Workers <- MCWorkers
  Sends <- MCSends
  NoSend = NoSend
  Configurations <- MCConfigurations
  EmailBatch = 2
  MaxAttempts = 2
  Faults = {"crash", "ceiling", "read", "answer", "write", "slow"}
  MaxFaults = 1
INVARIANTS EmailTypeOK EmailsSound
PROPERTIES EmailsSettle
CHECK_DEADLOCK FALSE
