CONSTANTS
  Messages = {3, 6}
  MaxRead = 4
  MaxSessions = 2
SPECIFICATION FairSpec
INVARIANTS TypeOK ShortCopyIsTrue ScanOnceRead BackToDiscovery
PROPERTY ReaderIsServed
