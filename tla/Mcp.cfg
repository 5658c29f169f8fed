SPECIFICATION MCSpec
CONSTANTS
  c1 = c1  p1 = p1  none = none
  Callers = {c1}
  NNotes = 2
  NEventStreams = 2
  Posts = {p1}
  Buffer = 2
  MaxReplies = 2
  NoStream = none
  NoReply = none
  NSessions = 2
  NStreams = 2
  NBroadcasts = 2
  MaxSessions = 1
  LogMax = 1
  SubMax = 1
  ChanBuffer = 1
  NoSession = none
  Requests <- MCRequests
  Responses <- MCResponses
  Completions <- MCCompletions
  MaxValues = 2
INVARIANT DeliversOnceInOrder
INVARIANT StreamsResume
PROPERTY ImplementsMailbox
PROPERTY DispatchConforms
CHECK_DEADLOCK FALSE
