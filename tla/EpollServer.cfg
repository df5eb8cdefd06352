SPECIFICATION FairSpec
CONSTANTS
  talker = talker
  other = other
  Conns <- MCConns
  MaxSent <- MCMaxSent
  Fds = {1, 2}
  Lengths = {130}
CHECK_DEADLOCK FALSE
INVARIANTS SessionIsOwn WebSocketsAreOwn HandledInOrder
PROPERTIES HangUpIsNoticed
