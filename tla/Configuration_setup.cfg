\* Two arguments on the command line, three lines in the file, of which two fit.
CONSTANTS
  Args <- MCArgs
  MaxCmd = 2
  MaxLines = 3
  MaxFileArgs = 6
  MaxDpdkArgs = 6
  MaxWarnings = 2
  MaxLcore = 8
  TxRing = 8
  MaxBuf = 10
  UintMax = 100
  DefaultBufLen = 5
  DefaultBatch = 4
  DefaultWindow = 3
  None = None
SPECIFICATION Spec
INVARIANTS TypeOK FirstSettingWins RawRulesNotOverridden AcceptedIsUsable
\* The setup ends.
CHECK_DEADLOCK FALSE
