CONSTANTS
  Conns = {c1, c2}
  Clients = {k1, k2}
  Buffers = {b1, b2, b3, b4}
  Inline = 1
  RecvSize = 2
  Sizes <- MCSizes
  MaxHeader = 2
  MaxBody = 2
  Scripts <- MCScripts
  None = None
SPECIFICATION Spec
SYMMETRY MCSymmetry
INVARIANTS
  HttpTypeOK
  BytesInOrder
  LiveRequestIntact
  BuffersOwned
  ReceiveBounded
  AnswersInOrder
  AnswersJustified
PROPERTIES
  ImplementsExchange
