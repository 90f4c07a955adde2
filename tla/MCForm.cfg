CONSTANTS
  Rows <- MCRows
  PeriodExempt <- MCPeriodExempt
  Periods <- MCPeriods
  AssetFunding <- MCAssetFunding
  AssetSites <- MCAssetSites
  Texts <- MCTexts
  Amounts <- MCAmounts
  Drafts <- MCDrafts
  MaxAmount = 100000
  MaxLines = 2
  MaxEdits = 3
SPECIFICATION Spec
INVARIANTS TotalIsTheSum FundingIsTheSites SubmittedKeepsTheRules
PROPERTIES EditsKeepToTheirField UntouchedFieldsSurvive SubmittedIsWhatWasSigned
CHECK_DEADLOCK FALSE
