SPECIFICATION FairSpec
CONSTANTS
  Bytes = {x, nl, nul}
  Newline = nl
  Nul = nul
  Headers = {"a", "b"}
  MAXLINE = 5
  HEADLINES = 8
  RIO_BUFSIZE = 2
  MaxAnswer = 5
  MaxHeaders = 5
INVARIANTS TypeOK StoredWhole 
PROPERTIES ImplementsStream RelayEnds
