SPECIFICATION HttpSpec
CONSTANTS
  FileSizes = {0, 1, 4, 5}
  BufferSize = 2
  PieceSize = 2
  BodyLens = {0, 1, 3, 5}
  Bodies <- MCBodies
  NULL = NULL
INVARIANTS
  HttpTypeOK
  AnsweredOnce
  FileWhole
  OperationHandedOver
  WholeBodyParsed
PROPERTIES
  RequestsEnd
