SPECIFICATION FairSpec
CONSTANTS
  Situations <- AllSituations
  Opening <- OpeningTurns
  Cards = {c1, c2, c3}
  Miracles = {m1}
  Rivals = {me, foe}
  MaxRevision = 3
  MaxStream = 2
  MaxCommands = 2
  c1 = c1
  c2 = c2
  c3 = c3
  m1 = m1
  me = me
  foe = foe
  None = None
CHECK_DEADLOCK FALSE
INVARIANTS TypeOK LockHasReason
PROPERTIES  ClosedInputStaysClosed ResultIsReached
