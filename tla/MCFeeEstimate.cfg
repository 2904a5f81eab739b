SPECIFICATION Spec
CONSTANTS
  ScriptSizes <- FewScripts
  SchemaSizes <- FewSchemas
  IssueCounts <- FewIssues
  AmountBytes <- FewAmounts
  VoutBytes <- FewVouts
  NativeParents <- SmallNatives
  MaxNesting = 1
INVARIANT
  FeeCoversSize
CHECK_DEADLOCK FALSE
