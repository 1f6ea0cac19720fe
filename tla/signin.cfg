\* Two accounts, two sign-ins and up to two turns of events around them.
\* Deadlock is not checked: once the bounds are used up nothing need happen.
CONSTANTS
  a = a  b = b
  None = None
  Wallets = {a, b}
  ActiveNonces = 1
  MaxSignIns = 2
  MaxTurns = 2
SPECIFICATION FairSpec
INVARIANTS SessionIsTheAccounts OneTokenPerNonce
PROPERTIES SigningInEnds
CHECK_DEADLOCK FALSE
