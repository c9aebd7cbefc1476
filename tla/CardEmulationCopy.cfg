CONSTANTS
  Messages = {3, 6}
  MaxRead = 4
  MaxSessions = 2
SPECIFICATION Spec
INVARIANT CopyIsTrue
