CONSTANTS
  kCheapPrepend = 2
  kInitialSize = 1
  ExtraSize = 2
  IntSizes = {1, 2}
  Wide = 2
  Byte <- TheBytes
  Zero = Zero
  CR = CR
  LF = LF
  MaxLen = 2
  MaxReadable = 3
SPECIFICATION Spec
INVARIANT StaysSmall
PROPERTY IsByteQueue
