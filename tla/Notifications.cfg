SPECIFICATION FairSpec
CONSTANTS
  ana = ana
  phone = phone
  laptop = laptop
  NoEndpoint = NoEndpoint
  Job = job
  Responders = {ana}
  Endpoints = {phone, laptop}
  Owner <- MCOwner
  Senders = {admin}
  Payloads <- MCPayloads
  Results = {"sent", "gone"}
  MaxEscalation = 1
  MaxDispatch = 3
  MaxAttempts = 4
  MaxFaults = 1
INVARIANTS
  TypeOK
  SentIffReached
  LateAtMostOnce
  AttemptsAreCounted
PROPERTY
  OverdueIsEscalated
CHECK_DEADLOCK FALSE
