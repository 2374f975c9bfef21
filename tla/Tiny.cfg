SPECIFICATION Spec
CONSTANTS
  Clients = {c1, c2}
  NoClient = none
  MaxHeaders = 1
INVARIANTS TypeOK AnswerWhole NothingLeft
 
