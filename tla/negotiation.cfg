\* One amendment and one cancellation of every kind, against every step of the shipment.
\* Deadlock is not checked: once time and the bounds are used up the model stops.
CONSTANTS
  u1 = u1  u2 = u2
  NoUser = NoUser  Escrow = Escrow  Manager = Manager  NoProof = NoProof
  Users = {u1, u2}
  ProofUris = {"ipfs://a"}
  Plans <- MCSinglePlan
  Amounts = {1}
  Deadlines = {1, 3}
  FundingAmounts = {2}
  ExtraAllowances = {0}
  ReferenceGasPrices = {1}
  TxGasPrices = {1}
  GasReadings = {1}
  MaxInitialMilestones = 1
  MaxTotalMilestones = 2
  MaxProofWithdrawalsPerRound = 1
  ProofGasUnitCap = 1
  ReimbursementOverhead = 0
  CargoPerEth = 1
  MaxProofReimbursement = 5
  MaxRequests = 1
  MaxProposals = 1
  MaxVersion = 3
  MaxTime = 3
  Endowment = 7
  ManagerEndowment = 0
  MinLeadTime = 1
  MinDeadlineChange = 2
  MinAdditionalFunding = 2
  ResponseGasUnitCap = 1
  ResponseOverhead = 0
  MaxResponseReimbursement = 5
  ResponseAllowances = {0, 2}
  MaxNegotiations = 1
SPECIFICATION ChainSpec
SYMMETRY Wallets
INVARIANTS EscrowStaysSound PendingKeepsStakeAndSlot OfferedIffAccepted FormsAndQuotesAgree
PROPERTIES AgreementChangesByValidAcceptance
CHECK_DEADLOCK FALSE
