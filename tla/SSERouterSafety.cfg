CONSTANTS
  Handler = {h1,h2,h3}
  Sender = {p1,p2}
  Stream = {s1,s2,s3}
  Topic = {t1,t2}
  BufSize = 2
  MaxMsg = 2
  NoStream = NoStream
  NoHandler = NoHandler
  NoTopic = NoTopic
SPECIFICATION Spec
SYMMETRY Symmetric
INVARIANTS NoPanic NoStreamLeak NoGoroutineLeak
PROPERTIES ImplementsBus
