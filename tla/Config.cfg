CONSTANTS
  Invocations <- MCInvocations
  TrustDomains <- MCTrustDomains
  ClassNames <- MCClassNames
  LongHints <- MCLongHints
  ParseDuration <- MCParseDuration
  ParseTemplate <- MCParseTemplate
  PathTexts <- MCPathTexts
SPECIFICATION Spec
INVARIANTS TypeOK MostSpecificFile FileBeatsEnvironment BlamesWhatWasGiven RunsWithUsable
CHECK_DEADLOCK FALSE
