SPECIFICATION Spec
CONSTANTS
  ScriptSizes <- FewScripts
  SchemaSizes <- FewSchemas
  IssueCounts <- FewIssues
  AmountBytes <- FewAmounts
  VoutBytes <- FewVouts
  NativeParents <- SmallNatives
  MaxNesting = 1
INVARIANT
  SwapFeeCoversSize
CHECK_DEADLOCK FALSE
