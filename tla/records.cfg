\* What the log tells of one request between a shipper and two carriers, and liveness; no symmetry.
\* Deadlock is not checked: once time and the bounds are used up the model stops.
CONSTANTS
  s1 = s1  c1 = c1  c2 = c2
  NoUser = NoUser  Escrow = Escrow  Manager = Manager  NoProof = NoProof
  Users = {s1, c1, c2}
  Shippers = {s1}
  Carriers = {c1, c2}
  Scores = {5}
  Tags = {1}
  MaxTags = 1
  MaxBlocks = 7
  ProofUris = {"ipfs://a"}
  Plans <- MCSinglePlan
  Amounts = {1}
  Deadlines = {1, 2}
  FundingAmounts = {1}
  ExtraAllowances = {0}
  ReferenceGasPrices = {1}
  TxGasPrices = {1}
  GasReadings = {1}
  MaxInitialMilestones = 1
  MaxTotalMilestones = 1
  MaxProofWithdrawalsPerRound = 1
  ProofGasUnitCap = 1
  ReimbursementOverhead = 0
  CargoPerEth = 1
  MaxProofReimbursement = 5
  MaxRequests = 1
  MaxProposals = 2
  MaxVersion = 5
  MaxTime = 3
  Endowment = 4
  ManagerEndowment = 0
  MinLeadTime = 0
  MinDeadlineChange = 1
  MinAdditionalFunding = 1
  ResponseGasUnitCap = 1
  ResponseOverhead = 0
  MaxResponseReimbursement = 5
  ResponseAllowances = {0, 1}
  MaxNegotiations = 1
SPECIFICATION FairRecordsSpec
INVARIANTS RowsExplainTheMoney EveryChatTellsItsStory PagesAgree ChatsMeet
PROPERTIES RecordsCountOnceAndStay EverythingSettles
CHECK_DEADLOCK FALSE
