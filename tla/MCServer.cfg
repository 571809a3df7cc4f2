CONSTANTS
  Client = {c1, c2}
  a = a
  b = b
  v1 = v1
  v2 = v2
  Key <- MCKey
  Val <- MCVal
  NoVal = NoVal
  TTL = 2
  PollInterval = 1
  MaxVec = 2
  Posts <- MCPosts
  Caller = {c1, c2}
  Sid = {s1}
  Config = {x, y}
  MaxAttempt = 5
  MaxCreate = 2
SPECIFICATION ServerSpec
INVARIANT TypeOK
INVARIANT ConnectedServerResponded
INVARIANT LoggedPerClient
PROPERTY ImplementsMailbox
PROPERTY NeverExpiresUnseen
PROPERTY ReplyIsComplete
PROPERTY PollIsAnswered
PROPERTY MarkerIsKept
