\* Three century years; header bytes below 128.  A call that has returned ends its run.
SPECIFICATION FunctionsSpec
CONSTANTS
  Lengths <- AsciiLengths
  FirstYear = 1896
  LastYear = 2105
  NUL = NUL
  Slash = Slash
  Behind = 1
  Characters <- SomeCharacters
  MaxLength = 4
  StrSize = 4
  BlockLen = 2
  Unset = Unset
  Chars <- MCChars
  Names <- MCNames
  LongNames <- MCLongNames
  Values <- MCValues
  Words <- MCWords
  EnvValueSize = 2
  BufSizes <- MCSizes
  MaxItems = 3
  Options <- TwoOptions
  MaxLines = 3
  MaxLogins = 3
INVARIANTS
  VerdictCorrect
  DatesAreDays
  TextsAgreeOnDates
  TextToolsAgree
  ChecksAgree
  RoundTrip
  ExpandsFaithfully
  MixedOnlyWhenShort
CHECK_DEADLOCK FALSE
