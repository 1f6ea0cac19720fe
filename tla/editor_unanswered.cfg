\* One account, one handler at a time, one submission and its retry.
\* Deadlock is not checked: once the turns are used up the model stops.
CONSTANTS
  w1 = w1  w2 = w2  planA = planA  planB = planB
  NoWallet = NoWallet
  Wallets = {w1}
  Plans = {planA, planB}
  DefaultPlan = planA
  MaxOps = 1
  MaxTurns = 2
SPECIFICATION FairSpec
INVARIANTS InterruptedReplacementIsExplained
CHECK_DEADLOCK FALSE
