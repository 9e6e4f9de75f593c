-------------------------- MODULE RequestProperties --------------------------
(* What RequestStream must do, against a definition of the requests of a   *)
(* stream that has no parser, no buffer and no handlers: cut the stream at *)
(* every CRLF and look at each line.                                       *)
EXTENDS RequestStream, SequencesExt

Ends(s) == {i \in 2..Len(s) : s[i - 1] = CR /\ s[i] = LF}

LineAt(s, e) ==
  LET before == {d \in Ends(s) : d < e}
  IN  SubSeq(s, (IF before = {} THEN 0 ELSE Max(before)) + 1, e - 2)

\* Four letters, and perhaps a space and an argument that fits.
WellFormed(line) ==
  /\ Len(line) >= CmdLength
  /\ \A i \in 1..CmdLength : line[i] \in Letter
  /\ Len(line) > CmdLength => line[CmdLength + 1] = SP
  /\ \A i \in CmdLength + 2 .. Len(line) : line[i] \in Printable
  /\ Len(line) <= CmdLength + 1 + ArgMax

Meaning(line) ==
  IF WellFormed(line)
  THEN [bad |-> FALSE, cmd |-> SubSeq(line, 1, CmdLength),
        arg |-> SubSeq(line, CmdLength + 2, Len(line))]
  ELSE Bad

\* The requests in a stream: the i-th CRLF ends the i-th of them.
Nth(S, i) == CHOOSE e \in S : Cardinality({d \in S : d <= e}) = i
RequestsIn(s) ==
  [i \in 1..Cardinality(Ends(s)) |-> Meaning(LineAt(s, Nth(Ends(s), i)))]

Arrived == SubSeq(stream, 1, received)

-----------------------------------------------------------------------------

\* The positions and the text agree and the arrays of the parser
\* (pop3_parser_definition.h:13-15) are not overrun.
RequestTypeOK ==
  /\ received \in 0..Len(stream)
  /\ info_read_buff \in Buffers(ReadLimit)
  /\ Len(pending) = ReadSpace(info_read_buff)
  /\ pop3_parser \in Parser
  /\ Len(pop3_parser.cmd) <= CmdLength /\ Len(pop3_parser.arg) <= ArgMax
  /\ st \in {"READING_REQUEST", "WRITING_RESPONSE", "FINISHED"}

\* Whatever the pieces in which the bytes arrive, the session executes the
\* requests of its client, in order, none twice and none that is a mixture of
\* two (read_request and write_response parse with the same parser).
TakenInOrder == IsPrefix(taken, RequestsIn(Arrived))

\* A session that waits for its client owes it nothing: no complete request
\* lies in the read buffer (write_response, pop3.c:569-599).
NothingStalls ==
  st = "READING_REQUEST" => pending = <<>> /\ taken = RequestsIn(Arrived)

\* recv() is never called with no room, where its 0 would read as the end of
\* the connection (pop3.c:490-496): the session ends when every request of its
\* client is executed, not before.
EndIsTheClients ==
  st = "FINISHED" => taken = RequestsIn(stream)

\* Every request a client sends is executed in the end.
EveryRequestTaken == <>(taken = RequestsIn(stream))
=============================================================================
