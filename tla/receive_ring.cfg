\* A full and an empty buffer, both threads asleep or spinning.
SPECIFICATION Spec
CONSTANTS
  Size = 3
  ReadLen = 2
  Packets <- Stream
INVARIANTS TypeOK WriteFits ReadsInOrder
PROPERTY ImplementsQueue
\* The two threads can wait for each other for ever: see FullWakes.
CHECK_DEADLOCK FALSE
