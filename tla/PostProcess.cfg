CONSTANTS
  SUI = SUI
  USDC = USDC
  mint = mint
  split = split
  vault = vault
  fee = fee
  deposit = deposit
  fromBalance = fromBalance
  UserFunctions = {mint, split, vault, fee, deposit}
  FromBalance = fromBalance
  CoinTypes = {SUI, USDC}
  NumTyParams <- MC_NumTyParams
  Params <- MC_Params
  Returns <- MC_Returns
  MaxCommands = 3

SPECIFICATION Spec

INVARIANT TypeOK
INVARIANT RefsWellFormed
INVARIANT WellTyped
PROPERTY KeyStoreRoundTrip
PROPERTY BalanceRoundTrip
