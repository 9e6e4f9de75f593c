---------------------------- MODULE RequestStream ----------------------------
(***************************************************************************)
(* How one session cuts the bytes its client sends into requests: the read *)
(* buffer, the parser and the two handlers that feed it.  read_request     *)
(* takes what the socket has, in pieces of any size; when a request is     *)
(* complete the rest stays in the buffer, and write_response looks there   *)
(* for the next one when the answer is sent (PIPELINING).  What the        *)
(* requests do, and sessions that end before their client does, are the    *)
(* business of Pop3Server.                                                 *)
(***************************************************************************)
EXTENDS Pop3Parser, Buffer

CONSTANTS
  Streams,    \* what a client may send before it closes its side
  ReadLimit   \* BUFFER_SIZE, for the read buffer

ASSUME StreamsAssumption ==
  /\ Streams \subseteq Seq(Byte)
  /\ ReadLimit \in Nat \ {0}

VARIABLES
  stream,          \* what the client sends, over the whole session
  received,        \* how many of those bytes were received
  info_read_buff,  \* the positions of the read buffer
  pending,         \* the bytes between them
  pop3_parser,
  st,              \* the state of the session
  taken            \* history: the requests executed so far

vars == <<stream, received, info_read_buff, pending, pop3_parser, st, taken>>

Init ==
  /\ stream \in Streams
  /\ received = 0
  /\ info_read_buff = Fresh
  /\ pending = <<>>
  /\ pop3_parser = Start
  /\ st = "READING_REQUEST"
  /\ taken = <<>>

\* The loop of both handlers over the bytes of buffer b: up to the end of a
\* request, or all of them.
TakeRequest(b, bytes) ==
  LET run == FeedAll(pop3_parser, bytes)
      q   == run.parser
  IN  /\ info_read_buff' = ReadAdv(b, run.used)
      /\ pending' = SubSeq(bytes, run.used + 1, Len(bytes))
      /\ IF Complete(q)
         THEN /\ pop3_parser' = Reset(q)
              /\ taken' = Append(taken, Request(q))
              /\ st' = "WRITING_RESPONSE"
         ELSE /\ pop3_parser' = q
              /\ st' = "READING_REQUEST"
              /\ UNCHANGED taken

\* recv() of at most max bytes: some of what is on its way; nothing, which
\* means the end, when the client closed its side or when max is 0.
Arriving(max) == 1 .. (IF Len(stream) - received < max THEN Len(stream) - received
                                                       ELSE max)

\* read_request
ReadRequest ==
  /\ st = "READING_REQUEST"
  /\ \E n \in Arriving(WriteSpace(info_read_buff, ReadLimit)) :
       /\ received' = received + n
       /\ TakeRequest(WriteAdv(info_read_buff, n),
                      pending \o SubSeq(stream, received + 1, received + n))
  /\ UNCHANGED stream

\* Mutation: the buffer is not looked at, the session goes back to the socket.
NextRequestForgotten ==
  /\ st = "WRITING_RESPONSE"
  /\ st' = "READING_REQUEST"
  /\ UNCHANGED <<stream, received, info_read_buff, pending, pop3_parser, taken>>

\* write_response, when the last byte of the answer is sent.
NextRequest ==
  /\ st = "WRITING_RESPONSE"
  /\ TakeRequest(info_read_buff, pending)
  /\ UNCHANGED <<stream, received>>

\* recv() returned 0.
ReadEnd ==
  /\ st = "READING_REQUEST"
  /\ Arriving(WriteSpace(info_read_buff, ReadLimit)) = {}
  /\ st' = "FINISHED"
  /\ UNCHANGED <<stream, received, info_read_buff, pending, pop3_parser, taken>>

Next == ReadRequest \/ NextRequest \/ ReadEnd

\* The selector calls the handler of a ready socket, and the client reads its
\* answers.
Fairness == WF_vars(ReadRequest) /\ WF_vars(NextRequest) /\ WF_vars(ReadEnd)

Spec == Init /\ [][Next]_vars
FairSpec == Spec /\ Fairness
=============================================================================
