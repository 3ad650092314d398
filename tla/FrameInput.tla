----------------------------- MODULE FrameInput -----------------------------
(***************************************************************************)
(* Input::frame of the native runtime: the byte stream on stdin, which the *)
(* host writes when it likes and the pipe delivers in pieces of any size,  *)
(* is cut into newline-terminated frames through a fixed buffer, under a   *)
(* limit per frame and one for the whole session.                          *)
(*                                                                         *)
(* Session calls frame once per request; here it is called again and       *)
(* again.  Only a newline is told apart from other bytes.                  *)
(***************************************************************************)
EXTENDS Limits, Sequences, FiniteSets

CONSTANTS
  BufferSize,  \* 8192
  MaxStream    \* bound: bytes the host writes

ASSUME FrameInputAssumption == BufferSize \in Nat \ {0} /\ MaxStream \in Nat

NewLine == "nl"

Bytes == {"x", NewLine}

VARIABLES
  stream,  \* every byte the host has written
  closed,  \* the host has closed stdin
  read,    \* how many of them the reader has delivered
  buffer,  \* Input.buffer[start .. end]
  taken,   \* Input.total
  partial, \* the frame being assembled
  frames,  \* the frames returned
  state    \* "open", or "failed" after frame returned an error

inputVars == <<stream, closed, read, buffer, taken, partial, frames, state>>

InputInit ==
  /\ stream = <<>> /\ closed = FALSE
  /\ read = 0 /\ buffer = <<>> /\ taken = 0
  /\ partial = <<>> /\ frames = <<>>
  /\ state = "open"

ByteArrives(b) ==
  /\ ~closed /\ Len(stream) < MaxStream
  /\ stream' = Append(stream, b)
  /\ UNCHANGED <<closed, read, buffer, taken, partial, frames, state>>

HostCloses ==
  /\ ~closed
  /\ closed' = TRUE
  /\ UNCHANGED <<stream, read, buffer, taken, partial, frames, state>>

\* reader.read fills at most the buffer, and may bring less than there is.
Fill(n) ==
  /\ state = "open" /\ buffer = <<>>
  /\ n <= Len(stream) - read
  /\ buffer' = SubSeq(stream, read + 1, read + n)
  /\ read' = read + n
  /\ UNCHANGED <<stream, closed, taken, partial, frames, state>>

EndOfInput ==
  /\ state = "open" /\ buffer = <<>>
  /\ closed /\ read = Len(stream)
  /\ state' = "failed"
  /\ UNCHANGED <<stream, closed, read, buffer, taken, partial, frames>>

\* Up to and including the first newline of the buffer, or all of it.
NewLines(s) == {i \in DOMAIN s : s[i] = NewLine}

\* Mutant of Count: what was read ends the frame, wherever its newline is.
CountAll(s) == Len(s)

Count(s) ==
  IF NewLines(s) = {} THEN Len(s)
  ELSE CHOOSE i \in NewLines(s) : \A j \in NewLines(s) : i <= j

\* Mutant of Within: no limit for the session.
WithinFrame(count) == count <= MaxFrame - Len(partial)

\* Mutant of Within: the whole buffer is charged to the frame.
WithinBuffered(count) ==
  Len(buffer) <= MaxFrame - Len(partial) /\ count <= MaxTotal - taken

Within(count) == count <= MaxFrame - Len(partial) /\ count <= MaxTotal - taken

Take ==
  /\ state = "open" /\ buffer # <<>> /\ Within(Count(buffer))
  /\ LET count == Count(buffer)
         grown == partial \o SubSeq(buffer, 1, count)
         ends  == grown[Len(grown)] = NewLine
     IN
       /\ buffer' = SubSeq(buffer, count + 1, Len(buffer))
       /\ taken' = taken + count
       /\ frames' = IF ends THEN Append(frames, grown) ELSE frames
       /\ partial' = IF ends THEN <<>> ELSE grown
  /\ UNCHANGED <<stream, closed, read, state>>

Refuse ==
  /\ state = "open" /\ buffer # <<>> /\ ~Within(Count(buffer))
  /\ state' = "failed"
  /\ UNCHANGED <<stream, closed, read, buffer, taken, partial, frames>>

InputNext ==
  \/ \E b \in Bytes : ByteArrives(b)
  \/ HostCloses
  \/ \E n \in 1 .. BufferSize : Fill(n)
  \/ EndOfInput \/ Take \/ Refuse

InputSpec == InputInit /\ [][InputNext]_inputVars

-----------------------------------------------------------------------------
(***************************************************************************)
(* Properties.                                                             *)
(***************************************************************************)
InputTypeOK ==
  /\ stream \in Seq(Bytes) /\ closed \in BOOLEAN
  /\ read \in 0 .. Len(stream)
  /\ buffer \in Seq(Bytes) /\ Len(buffer) <= BufferSize
  /\ taken \in 0 .. MaxTotal
  /\ partial \in Seq(Bytes) /\ frames \in Seq(Seq(Bytes))
  /\ state \in {"open", "failed"}

\* How many lines of s end at p or before it.
Ended(s, p) == Cardinality({q \in NewLines(s) : q <= p})

\* Where the k-th line of s ends.
End(s, k) == IF k = 0 THEN 0 ELSE CHOOSE p \in NewLines(s) : Ended(s, p) = k

Line(s, k) == SubSeq(s, End(s, k - 1) + 1, End(s, k))

\* However the bytes arrive, the frames are the lines of the stream in order,
\* and nothing read is lost between them, the frame in progress and the buffer
\* (Input::frame, io.rs 26-57).
FramesAreLines ==
  /\ Len(frames) <= Cardinality(NewLines(stream))
  /\ \A k \in DOMAIN frames : frames[k] = Line(stream, k) /\ Len(frames[k]) <= MaxFrame
  /\ partial \o buffer = SubSeq(stream, End(stream, Len(frames)) + 1, read)
  /\ taken = read - Len(buffer)

\* The input fails for a reason the host can see in its own stream, not in how
\* the pipe cut it: it ended, or a frame or the session got too long (io.rs
\* 37-38 and 46).
FailsForCause ==
  state = "failed" =>
    LET begun == End(stream, Len(frames))
        rest  == SubSeq(stream, begun + 1, Len(stream))
    IN \/ closed /\ read = Len(stream) /\ NewLines(rest) = {}
       \/ Count(rest) > MaxFrame
       \/ begun + Count(rest) > MaxTotal

=============================================================================
