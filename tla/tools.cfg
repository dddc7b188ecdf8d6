SPECIFICATION ToolsSpec
CONSTANTS
  NL = "nl"
  CR = "cr"
  Blank = {" ", "cr", "nl"}
  Files <- SomeFiles
  Written <- SomeWritten
  Size = 4
  Counts <- SomeCounts
  Typed <- TypedChars
  MaxLine <- LineLengths
  KeyMax = 3
  ListMax = 5
  HOME <- SomeHome
  Cwd <- Work
  Dirs <- SomeDirs
  Regular <- SomeRegular
  Links <- SomeLinks
  Digit <- SomeDigits
  Spaces = {" "}
  IntMod = 16
  LongMod = 256
  Lower <- LowerCase
INVARIANTS ReadsWhatItSized LineQuestions ReadsLines ArgsAgree PathsLead ParsingAgrees
CHECK_DEADLOCK FALSE
