------------------------- MODULE TransferProperties -------------------------
(* What a client of RETR must see, told from the client's side: it reads   *)
(* lines up to one that is a single dot, and drops a dot that starts a     *)
(* line.                                                                   *)
EXTENDS MailTransfer, SequencesExt

Asked == Last(asked)
Body(s) == SubSeq(s, Len(FirstLine) + 1, Len(s))

\* Position i of s starts a line.
LineStart(s, i) == i = 1 \/ (i > 2 /\ s[i - 2] = "CR" /\ s[i - 1] = "LF")

\* Where the client finds the line that ends the answer.
EndsAt(s) ==
  {i \in 1..Len(s) - 2 : LineStart(s, i) /\ SubSeq(s, i, i + 2) = <<"DOT", "CR", "LF">>}

\* The client's decoding of the lines before the last.
Unstuffed(s) ==
  FlattenSeq([i \in DOMAIN s |->
                IF LineStart(s, i) /\ s[i] = "DOT" THEN <<>> ELSE <<s[i]>>])

-----------------------------------------------------------------------------

\* The positions of each buffer and its bytes agree (buffer.h:24-25), and no
\* byte was written past a buffer.
TypeOK ==
  /\ info_file_buff \in Buffers(FileLimit) /\ Len(file_buff) = ReadSpace(info_file_buff)
  /\ info_write_buff \in Buffers(WriteLimit) /\ Len(write_buff) = ReadSpace(info_write_buff)
  /\ multiline_state \in {"FIRST_LINE", "MULTILINE", "END_LINE"}
  /\ flag \in Flag /\ finished \in BOOLEAN /\ file_ended \in BOOLEAN
  /\ st \in {"IDLE", "PROCESSING_RESPONSE", "WRITING_RESPONSE", "OVERFLOW"}

\* However the mail was cut into reads and sends, the client that decodes the
\* answer has the mail and the empty line that the server always adds
\* (pop3.c:998-999).
ClientReadsTheMail ==
  st = "IDLE" /\ asked # <<>> =>
    LET body == Body(sent)
    IN  Unstuffed(SubSeq(body, 1, Len(body) - 3)) = Asked \o <<"CR", "LF">>

\* A client never takes a line of a mail for the end of the answer: it sees the
\* end when and only when all was sent, and nothing comes after it.
EndsOnce ==
  LET body == Body(sent)
  IN  EndsAt(body) = IF st = "IDLE" /\ asked # <<>> THEN {Len(body) - 2} ELSE {}

\* A mail is never over while read() has more of it: an empty read() is the end
\* of the file, not a full buffer (pop3.c:1053-1056).
EndIsReal == file_ended => file = <<>>

\* Pop3Server counts what the loop moves as one of Moves; the loop does that.
LoopMoves ==
  LET loop == Stuff(flag, file_buff, Room)
  IN  st = "WRITING_RESPONSE" /\ multiline_state = "MULTILINE" /\ Room > 0 =>
        <<loop.file, Len(loop.out) - loop.file>> \in Moves(Len(file_buff), Room)

\* Every RETR is answered, unless the loop overruns the output buffer.
Answered == st = "PROCESSING_RESPONSE" ~> st \in {"IDLE", "OVERFLOW"}
=============================================================================
