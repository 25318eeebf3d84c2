CONSTANTS
  Calls <- MCCalls
  MaxLineBytes = 4
  MaxRead = 2
  MaxTeeOperands = 2
  MaxCount = 6
  MaxRingLines = 3
  MaxRingBytes = 4
  MaxBytesBuffer = 3
  MaxTotalReadBytes = 3
  MaxContextLines = 2
  MaxContextBytes = 3
  Int64Max = 100
  Uint64Max = 200
  MaxSortLines = 4
  MaxSortBytes = 12
  MaxStringLen = 3
  MaxManifestEntries = 3
  MaxCheckOutputBytes = 6
  MaxManifestBytes = 5
  MaxOperands = 2
  MaxArguments = 3
  MaxCommandBytes = 7
  MaxRunBytes = 8
  MaxSubstBytes = 4
  MaxVarLength = 4
  MaxHeredoc = 5
  MaxGlobReads = 2
  MaxStdout = 5
  MaxBraces = 4
  MaxTokenBytes = 4
  DefaultMaxChars = 20
  HardMaxChars = 12
  HardMaxArgs = 9
  MaxExprDepth = 2
  MaxExprNodes = 6
  MaxExecBytes = 8
  MaxTraversalDepth = 3
  FileSizeMax = 31
  DurationMax = 35
  Day = 8
  Minute = 3
  Second = 2
  MaxSpaceBytes = 7
  MaxAppendQueueBytes = 2
  MaxBranchIterations = 4
  MaxSedRead = 4
  MaxExactSpans = 1
  MaxRestarts = 3
  MaxGroupDepth = 2
  MaxCodeDigits = 3
  SedIntMax = 99
  MaxParserDepth = 7
  MaxFunctionArguments = 2
  MaxFunctionParameters = 1
  MaxVariableBytes = 24
  MaxFunctionDepth = 2
  MaxFunctionCalls = 2
  MaxFields = 3
  MaxFieldRecordBytes = 6
  MaxSubstitutions = 3
  MaxReplacedBytes = 6
  MaxPrintfBound = 75
  MaxPrintfOutput = 8
  MaxCacheEntries = 2
  MaxCacheBytes = 4
  MaxExpressionBytes = 9
  MaxStatementExecutions = 50
  MaxLoopIterations = 7
  MaxExpressionEvaluations = 100
  MaxStringWork = 150
  MaxStdoutBytes = 60
  MaxMainRules = 20
  MaxRecordBytes = 2
  ScannerSlack = 2
  MaxInputBytes = 4
  MaxInputRecords = 3
  MaxFileOpenAttempts = 2
  RecordCounterLimit = 5
  MaxScanRead = 3
  MaxProgramFiles = 2
  MaxProgramBytes = 4
  MaxProgramRead = 2
  MaxEvalSteps = 20
  MaxResults = 5
  MaxResultNodes = 10
  MaxResultBytes = 40
  MaxValueNodes = 5
  MaxValueBytes = 18
  MaxNestingDepth = 2
  JqIntMax = 3
  MaxFilterNodes = 6
  MaxFilterBytes = 20
  MaxTotalInputBytes = 14
  MaxRawLineBytes = 2
  MaxEmptyReads = 2
  MaxReadChunk = 3
  EscapeDigits = 2
  MaxRawBytes = 12
  MaxOutputBytes = 21
  MaxVariableNodes = 2
  MaxVariableValueBytes = 20
  MaxReadBytes = 4
  MaxParenDepth = 3
  MaxCheckCommands = 4
  MaxCheckDepth = 2
SPECIFICATION CallsSpec
INVARIANTS
  FiltersTrue  XargsTrue FindTrue SedTrue   AwkRunTrue AwkStdinTrue JqTrue
   NestingExact TestTrue VerdictHolds
