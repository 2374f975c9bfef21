SPECIFICATION FairSpec
CONSTANTS
  Threads = {t1, t2, t3}
  Main = main
  BUFFER_SIZE = 2
  MaxConn = 5
INVARIANTS TypeOK OneOwner
PROPERTIES ImplementsQueue EventuallyTaken
