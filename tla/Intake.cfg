\* Streams of up to nine bytes through a buffer of three: lines longer and
\* shorter than the buffer, several in one buffer, and both limits passed;
\* and for the shortest, every combination of the field values parse tells apart.
CONSTANTS
  SupportsNetwork = TRUE
  BufferSize = 3
  MaxFrame = 4
  MaxTotal = 7
  MaxStream = 9
  MaxDecoded = 1
SPECIFICATION IntakeSpec
INVARIANTS IntakeTypeOK FramesAreLines FailsForCause AcceptsExactlyTheTable
CHECK_DEADLOCK FALSE
