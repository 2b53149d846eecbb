SPECIFICATION PartsSpec
CONSTANTS
  memheap = 16
  maxaddr = 64
  UINT = 65536
  Sizes <- HeapRequests
  Strays = {}
  MaxOwned = 6
  SYSERR = SYSERR
  GARBAGE = GARBAGE
  Parts = {"heap", "stray", "mailbox", "mailtab", "pool", "pools", "telnet1", "telnet2", "http1", "http2",
    "snoop1", "snoop2", "snoop3", "client1", "client2", "client3", "voip", "shell1", "shell2",
    "commands1", "commands2", "region1", "region2", "lib"}
CHECK_DEADLOCK FALSE
INVARIANTS Types FreeListSound MemorySound HeapSound MailboxSound PoolsSound  ProgramsSound
PROPERTIES MailboxesAreChannels
