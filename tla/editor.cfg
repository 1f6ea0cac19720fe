\* Two accounts of one carrier, two handlers at a time.
\* Deadlock is not checked: once the turns are used up the model stops.
CONSTANTS
  w1 = w1  w2 = w2  planA = planA  planB = planB
  NoWallet = NoWallet
  Wallets = {w1, w2}
  Plans = {planA, planB}
  DefaultPlan = planA
  MaxOps = 2
  MaxTurns = 3
SPECIFICATION FairSpec
INVARIANTS OneNonceEach HalfDoneReplacementIsTold
PROPERTIES EverySubmissionEnds
CHECK_DEADLOCK FALSE
