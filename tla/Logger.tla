------------------------------- MODULE Logger -------------------------------
(***************************************************************************)
(* logging/logger.c: messages are printed into a buffer in memory that     *)
(* grows up to a limit, and the buffer is written to the log file without  *)
(* blocking, at once as far as the file takes it and from the selector for *)
(* the rest.  The memory is modelled byte by byte, because the waiting     *)
(* bytes move in it; a byte is the number of its message.                  *)
(***************************************************************************)
EXTENDS Naturals, Sequences

CONSTANTS
  MinSize,    \* LOG_MIN_BUFFER_SIZE
  MaxSize,    \* LOG_MAX_BUFFER_SIZE
  Chunk,      \* LOG_BUFFER_SIZE_CHUNK
  PrintMax,   \* LOG_BUFFER_MAX_PRINT_LENGTH: the room made for a message
  Lengths,    \* the lengths of the messages
  MaxLogs,    \* bounds the number of messages
  Failures    \* whether write() and malloc() may fail

ASSUME LoggerAssumption ==
  /\ {MinSize, MaxSize, Chunk, PrintMax, MaxLogs} \subseteq Nat
  /\ Chunk > 0 /\ PrintMax > 0
  /\ PrintMax < MinSize /\ MinSize <= MaxSize
  /\ Lengths \subseteq Nat \ {0}
  /\ Failures \in BOOLEAN

VARIABLES
  buffer,         \* the memory: a sequence as long as buffer_capacity
  buffer_start,   \* where the waiting bytes start, counted from 0
  buffer_length,  \* how many they are
  log_file,       \* whether the file is open
  interest,       \* of the file, in the selector
  file,           \* history: the bytes written to the file
  printed,        \* history: the bytes that were to be written, in order
  logs            \* how many messages were logged

vars == <<buffer, buffer_start, buffer_length, log_file, interest, file, printed, logs>>

Junk == 0
Blanks(n) == [i \in 1..n |-> Junk]
Waiting(mem, start, length) == SubSeq(mem, start + 1, start + length)
\* memcpy and memmove of bytes to position at of the memory.
Put(mem, at, bytes) ==
  [i \in DOMAIN mem |->
     IF i \in at + 1 .. at + Len(bytes) THEN bytes[i - at] ELSE mem[i]]

Smaller(a, b) == IF a < b THEN a ELSE b

\* logger_init with a file that opens.
Init ==
  /\ buffer = Blanks(MinSize)
  /\ buffer_start = 0 /\ buffer_length = 0
  /\ log_file = "open"
  /\ interest = "NOOP"
  /\ file = <<>> /\ printed = <<>>
  /\ logs = 0

\* Mutation: no limit.
GrownUnbounded(len) == ((buffer_length + len + Chunk - 1) \div Chunk) * Chunk

\* The new capacity: enough for len more bytes, in whole chunks, up to the limit.
Grown(len) ==
  Smaller(((buffer_length + len + Chunk - 1) \div Chunk) * Chunk, MaxSize)

\* Mutation: the bytes are not moved when the start is.
MovedInPlace == buffer

\* The memory with the waiting bytes moved to its start.
Moved == Put(buffer, 0, Waiting(buffer, buffer_start, buffer_length))

\* make_buffer_space: the memories and starts it may leave.
Spaces(len) ==
  LET waiting == Waiting(buffer, buffer_start, buffer_length)
      size    == Len(buffer)
  IN  IF buffer_length + buffer_start + len <= size
        THEN {<<buffer, buffer_start>>}
      ELSE IF len < size - buffer_length THEN {<<Moved, 0>>}
      ELSE IF size < MaxSize
        THEN {<<Put(Blanks(Grown(len)), 0, waiting), 0>>}
               \cup (IF Failures THEN {<<Moved, 0>>} ELSE {})
      ELSE {<<buffer, buffer_start>>}

\* What one write() of length bytes may accept; nothing when it fails or would
\* block.
Accepts(length) == IF Failures THEN 0..length ELSE Smaller(1, length)..length

\* Mutation: the file stays deselected.
InterestNever(length) == "NOOP"

Advanced(start, length, n) == IF length = n THEN 0 ELSE start + n
InterestFor(length) == IF length > 0 THEN "WRITE" ELSE "NOOP"

\* try_flush_buffer_to_file, with the buffer as given.
TryFlush(mem, start, length) ==
  \E n \in Accepts(length) :
    /\ file' = file \o Waiting(mem, start, n)
    /\ buffer' = mem
    /\ buffer_length' = length - n
    /\ buffer_start' = IF n > 0 THEN Advanced(start, length, n) ELSE start
    /\ interest' = InterestFor(length - n)

\* Mutation: the byte for the NUL of snprintf is not left out.
KeptWhole(written, maxlen) == Smaller(written, maxlen)

\* logger_post_print: what snprintf could not print is lost, and so is the last
\* byte, where it put its NUL.
Kept(written, maxlen) == IF written >= maxlen THEN maxlen - 1 ELSE written

\* logf, for a level that is enabled: make space, print, flush.
Log ==
  /\ log_file = "open"
  /\ logs < MaxLogs
  /\ logs' = logs + 1
  /\ \E written \in Lengths, space \in Spaces(PrintMax) :
       LET start  == space[2]
           end    == start + buffer_length
           maxlen == Len(space[1]) - end
           kept   == Kept(written, maxlen)
           text   == [i \in 1..kept |-> logs + 1]
           mem    == Put(space[1], end, Append(text, Junk))
       IN  /\ printed' = printed \o text
           /\ TryFlush(mem, start, buffer_length + kept)
  /\ UNCHANGED log_file

\* fd_write_handler
FdWrite ==
  /\ log_file = "open"
  /\ interest = "WRITE"
  /\ TryFlush(buffer, buffer_start, buffer_length)
  /\ UNCHANGED <<log_file, printed, logs>>

\* The bytes that the last write is given: as many as wait, but from the start of
\* the memory.
LastWrite == Waiting(buffer, 0, buffer_length)

\* fd_close_handler, from selector_destroy or logger_finalize: the last write
\* blocks until all is written, unless it fails.
FdClose ==
  /\ log_file = "open"
  /\ log_file' = "closed"
  /\ \E n \in IF Failures THEN 0..buffer_length ELSE {buffer_length} :
       /\ file' = file \o SubSeq(LastWrite, 1, n)
       /\ buffer_length' = buffer_length - n
       /\ buffer_start' = IF n > 0 THEN Advanced(buffer_start, buffer_length, n)
                                   ELSE buffer_start
  /\ interest' = "NOOP"
  /\ UNCHANGED <<buffer, printed, logs>>

Next == Log \/ FdWrite \/ FdClose

\* The selector calls the handler of a file that can be written, and a file that
\* would block or fails accepts bytes again in the end.
Spec == Init /\ [][Next]_vars
FairSpec == Spec /\ WF_vars(FdWrite /\ buffer_length' < buffer_length)

-----------------------------------------------------------------------------

\* The memory stays between its limits (logger.c:15-18).
TypeOK ==
  /\ buffer \in Seq(Nat) /\ Len(buffer) \in MinSize..MaxSize
  /\ buffer_start \in Nat /\ buffer_length \in Nat
  /\ log_file \in {"open", "closed"} /\ interest \in {"NOOP", "WRITE"}
  /\ file \in Seq(Nat) /\ printed \in Seq(Nat)
  /\ logs \in 0..MaxLogs

\* There is always room for the NUL of snprintf: maxlen is never 0, so maxlen - 1
\* never takes a byte from an earlier message (logger.c:241-251), and nothing is
\* written past the memory.
RoomForNul == buffer_start + buffer_length < Len(buffer)

\* While the log is open no byte is lost, repeated or overtaken between the
\* buffer, which moves and grows, and the file, which takes it piece by piece.
NothingLost ==
  log_file = "open" => file \o Waiting(buffer, buffer_start, buffer_length) = printed

\* Bytes that wait are not forgotten: the file is selected exactly while some do
\* (logger.c:103-104).
SelectedWhileWaiting ==
  log_file = "open" => (interest = "WRITE" <=> buffer_length > 0)

\* "Termina y envia los logs restantes" (logger.h:49-51): when the log is closed
\* and no write failed, the file has every message.
FinalizeSendsTheRest == log_file = "closed" => file = printed

\* What waits is written in the end, while the log is open.
Flushed == buffer_length > 0 ~> (buffer_length = 0 \/ log_file = "closed")
=============================================================================
