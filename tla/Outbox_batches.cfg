SPECIFICATION FairSpec
CONSTANTS
  m1 = m1
  m2 = m2
  m3 = m3
  t1 = t1
  t2 = t2
  Msgs = {m1, m2, m3}
  Txns = {t1, t2}
  Writer <- TwoThenOne
  Workers = {w1, w2}
  Nobody = Nobody
  BatchSize = 2
  RetryMax = 2
  Faults = 1
INVARIANTS
  TypeOK
  SentIsCommitted
  DuplicatesAreExplained
  OvertakesOnlyTheFailed
PROPERTIES
  SettledForGood
  EveryEventSettles
CHECK_DEADLOCK FALSE
