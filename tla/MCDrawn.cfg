CONSTANTS
  Rows <- MCRows
  PeriodExempt <- MCPeriodExempt
  Periods <- MCPeriods
  AssetFunding <- MCAssetFunding
  AssetSites <- MCAssetSites
  Texts <- MCTexts
  Amounts <- MCAmounts
  Drafts <- MCDrafts
  MaxAmount = 100000
  MaxLines = 2
  MaxEdits = 2
SPECIFICATION Spec
PROPERTIES SignedFormsAreTaken
CHECK_DEADLOCK FALSE
