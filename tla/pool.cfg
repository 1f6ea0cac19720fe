\* Two requests of any two wallets share the escrow; one browser pays for both wallets.
\* Deadlock is not checked: once time and the bounds are used up the model stops.
CONSTANTS
  u1 = u1  u2 = u2
  NoUser = NoUser  Escrow = Escrow  Manager = Manager  NoProof = NoProof
  Users = {u1, u2}
  ProofUris = {"ipfs://a"}
  Plans <- MCSinglePlan
  Amounts = {1}
  Deadlines = {1}
  FundingAmounts = {2}
  ExtraAllowances = {1}
  ReferenceGasPrices = {1}
  TxGasPrices = {1}
  GasReadings = {1}
  MaxInitialMilestones = 1
  MaxTotalMilestones = 1
  MaxProofWithdrawalsPerRound = 0
  ProofGasUnitCap = 1
  ReimbursementOverhead = 0
  CargoPerEth = 2
  EthEndowment = 3
  CargoEntries = {2, 3}
  EthEntries = {1}
  MaxEth = 3
  MaxProofReimbursement = 5
  MaxRequests = 2
  MaxProposals = 1
  MaxVersion = 2
  MaxTime = 2
  Endowment = 4
  ManagerEndowment = 0
SPECIFICATION DeskSpec
SYMMETRY Wallets
INVARIANTS OpenListMatches ProposalsMatch EscrowIsBacked LockedTotalsMatch
PROPERTIES MoneyMovesAsConfirmed
CHECK_DEADLOCK FALSE
