\* Four nodes and an input contract over every screen.
SPECIFICATION Spec
CONSTANTS
  Accounts <- MCAccounts
  Amounts <- MCAmounts
  Admins <- MCAdmins
  Instruments <- MCInstruments
  Contracts = {"c1", "c2", "c3"}
  MAX_HOLDINGS = 3
  MAX_USED_CONTRACTS = 2
  NodeParts <- MCNodeParts
  ContractParts <- MCContractParts
  MaxNodes = 4
  MaxContracts = 1
  Screened = {"transfer", "native", "preapproval", "accept", "reject", "withdraw"}
  Disclosed = {"offer", "amulet", "preapproval"}
  Faults = TRUE
INVARIANTS TypeOK ValuesInv ClearMeansAgreement AgreementMeansClear ScreenOfExercised
