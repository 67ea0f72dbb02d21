SPECIFICATION Spec
CONSTANTS
  Bytes = {"a", "b", "nl"}
  NL <- Newline
  Null = Null
  MaxPiece = 3
  MaxBytes = 5
INVARIANTS
  TypeOK
  SizeIsLength
PROPERTIES
  LinesAfterCompaction
  BufferRefined
CONSTRAINT FewChunks
