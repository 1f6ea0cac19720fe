\* A change of account while connect() is under way.
\* Deadlock is not checked: once the bounds are used up nothing need happen.
CONSTANTS
  a = a  b = b
  None = None
  Wallets = {a, b}
  ActiveNonces = 1
  MaxSignIns = 2
  MaxTurns = 2
SPECIFICATION Spec
INVARIANTS SignerIsTheAccounts
CHECK_DEADLOCK FALSE
