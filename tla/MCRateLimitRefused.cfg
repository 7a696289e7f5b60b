SPECIFICATION FairSpec
CONSTANTS
  c1 = c1
  Callers = {c1}
  Handshake = 0
  CONNECT = CONNECT
  Possible <- ErrorReplyOnly
  Limit = 1
PROPERTY TemporarilyRefused
