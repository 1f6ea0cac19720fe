\* The operational allowance: gas prices around the cap, top-ups, amendments, one or two
\* milestones; a carrier who replaces the proof under review; what the pages make of each state.
\* Deadlock is not checked: once time and the bounds are used up the model stops.
CONSTANTS
  u1 = u1  u2 = u2
  NoUser = NoUser  Escrow = Escrow  Manager = Manager  NoProof = NoProof
  Users = {u1, u2}
  ProofUris = {"ipfs://a", "ipfs://b"}
  Plans <- MCPlans
  Amounts = {3}
  Deadlines = {1}
  FundingAmounts = {1, 4}
  ExtraAllowances = {0, 1}
  ReferenceGasPrices = {1, 2}
  TxGasPrices = {1, 3}
  GasReadings = {2}
  MaxInitialMilestones = 2
  MaxTotalMilestones = 3
  MaxProofWithdrawalsPerRound = 1
  ProofGasUnitCap = 2
  ReimbursementOverhead = 0
  CargoPerEth = 1
  MaxProofReimbursement = 3
  MaxRequests = 1
  MaxProposals = 1
  MaxVersion = 6
  MaxTime = 2
  Endowment = 20
  ManagerEndowment = 3
  MaxCards = 2
SPECIFICATION ReviewSpec
SYMMETRY Wallets
INVARIANTS TypeOK MoneyFollowsTheWork MilestonesDoneInOrder ExecutionOrderIsComplete ArrangementIsTheResult WhoeverMustActIsTold UploadsMatchEscrow
PROPERTIES QuotedTermsAreVersioned SettledWorkIsFinal OnlyShownProofsArePaid KeepsPromise
CHECK_DEADLOCK FALSE
