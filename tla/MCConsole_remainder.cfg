SPECIFICATION ConsoleSpec
CONSTANTS
  Shifts = 2
  Threads = {t1, t2}
  Formats <- MCFormats
  Conversion = "%u"
  String = "%s"
  Unknown = "%?"
  Argument <- MCArgument
  Printable = {0, 8, 10, 160}
  Newline = "newline"
  Width = 3
  Height = 2
  MaxNumberLength = 3
SYMMETRY
  BothThreads
INVARIANT
  RemainderExact
CONSTRAINT
  UntilOverlap
CHECK_DEADLOCK FALSE
