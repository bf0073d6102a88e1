CONSTANTS
  Handler = {h1, h2}
  Sender = {p1, p2}
  Stream = {s1, s2}
  Topic = {t1}
  BufSize = 2
  MaxMsg = 3
  NoStream = NoStream
  NoHandler = NoHandler
  NoTopic = NoTopic
SPECIFICATION FairSpec
PROPERTIES SendReturns HandleProgresses ProcessEnds ImplementsBus
