---------------------------- MODULE MailTransfer ----------------------------
(***************************************************************************)
(* RETR with its bytes, in one session: retr_action and process_response   *)
(* take turns to move a mail from its file through the file buffer, the    *)
(* byte stuffing loop and the output buffer to the client.  Descriptors,   *)
(* interests and other sessions are in Pop3Server, which counts the bytes  *)
(* that are spelled here.                                                  *)
(***************************************************************************)
EXTENDS ByteStuffing, Buffer

CONSTANTS
  Mails,       \* the mails a client retrieves
  MaxRetr,     \* bounds how many it retrieves
  WriteLimit,  \* size of the output buffer
  FileLimit    \* size of the file buffer

FirstLine == <<"TEXT", "CR", "LF">>            \* +OK n octets
Terminator == <<"CR", "LF", "DOT", "CR", "LF">>

ASSUME TransferAssumption ==
  /\ Mails \subseteq Seq(Char)
  /\ MaxRetr \in Nat
  /\ FileLimit \in Nat \ {0}
  /\ WriteLimit \in Nat /\ WriteLimit >= Len(Terminator)

VARIABLES
  st,               \* the state of the session; IDLE waits for a request
  multiline_state,
  flag,             \* what the loop remembers of the bytes before
  file,             \* what read() has still to return of the mail
  file_ended,
  info_file_buff, file_buff,    \* the file buffer: its positions, its bytes
  info_write_buff, write_buff,  \* the output buffer
  finished,         \* the answer is in the output buffer
  asked,            \* history: the mails retrieved so far
  sent              \* history: the bytes sent for the last of them

buffers == <<info_file_buff, file_buff, info_write_buff, write_buff>>
vars == <<st, multiline_state, flag, file, file_ended, buffers, finished, asked, sent>>

Init ==
  /\ st = "IDLE"
  /\ multiline_state = "FIRST_LINE"
  /\ flag = "CR"
  /\ file = <<>>
  /\ file_ended = FALSE
  /\ info_file_buff = Fresh /\ file_buff = <<>>
  /\ info_write_buff = Fresh /\ write_buff = <<>>
  /\ finished = FALSE
  /\ asked = <<>>
  /\ sent = <<>>

\* Mutation: the flag is what reset_structures left, BYTE_STUFFING_CR.
FirstFlagReset == "CR"

\* The first line ends with CR LF, so a mail starts at the start of a line.
FirstFlag == "LF"

\* RETR, first visit: the first line, and off to the file.
Retr ==
  /\ st = "IDLE"
  /\ Len(asked) < MaxRetr
  /\ \E m \in Mails : asked' = Append(asked, m) /\ file' = m
  /\ write_buff' = FirstLine
  /\ info_write_buff' = WriteAdv(info_write_buff, Len(FirstLine))
  /\ multiline_state' = "MULTILINE"
  /\ flag' = FirstFlag
  /\ st' = "PROCESSING_RESPONSE"
  /\ sent' = <<>>
  /\ UNCHANGED <<file_ended, info_file_buff, file_buff, finished>>

\* process_response: read() returns what fits; nothing means the end.
ReadFile ==
  LET space == WriteSpace(info_file_buff, FileLimit)
      n == IF Len(file) < space THEN Len(file) ELSE space
  IN  /\ st = "PROCESSING_RESPONSE"
      /\ file_buff' = file_buff \o SubSeq(file, 1, n)
      /\ info_file_buff' = WriteAdv(info_file_buff, n)
      /\ file' = SubSeq(file, n + 1, Len(file))
      /\ file_ended' = (file_ended \/ n = 0)
      /\ st' = "WRITING_RESPONSE"
      /\ UNCHANGED <<multiline_state, flag, info_write_buff, write_buff, finished,
                     asked, sent>>

\* Mutation: the file is read again before the buffer is empty.
NeedsFileEarly == multiline_state = "MULTILINE" /\ ~file_ended

\* The file buffer is empty and the file is not.
NeedsFile ==
  multiline_state = "MULTILINE" /\ ~CanRead(info_file_buff) /\ ~file_ended

\* retr_action, when the file buffer is empty: off to the file.
MoreFile ==
  /\ st = "WRITING_RESPONSE" /\ ~finished
  /\ NeedsFile
  /\ st' = "PROCESSING_RESPONSE"
  /\ UNCHANGED <<multiline_state, flag, file, file_ended, buffers, finished, asked, sent>>

\* send(): some of the bytes of the output buffer, whose positions are b.  When
\* it empties after the end of the answer the session is done with the request.
Send(b, bytes, over) ==
  \E n \in IF bytes = <<>> THEN {0} ELSE 1..Len(bytes) :
    /\ sent' = sent \o SubSeq(bytes, 1, n)
    /\ write_buff' = SubSeq(bytes, n + 1, Len(bytes))
    /\ info_write_buff' = ReadAdv(b, n)
    /\ IF over /\ n = Len(bytes)
       THEN st' = "IDLE" /\ finished' = FALSE
       ELSE st' = "WRITING_RESPONSE" /\ finished' = over

Room == WriteSpace(info_write_buff, WriteLimit)

\* retr_action, the copy: what the loop moves, and the terminator when the mail
\* is over and there is room for it.
Copy ==
  /\ st = "WRITING_RESPONSE" /\ ~finished
  /\ ~NeedsFile
  /\ multiline_state = "END_LINE" \/ Room > 0 \/ ~CanRead(info_file_buff)
  /\ LET loop == IF multiline_state = "END_LINE" \/ Room = 0
                 THEN [flag |-> flag, file |-> 0, out |-> <<>>]
                 ELSE Stuff(flag, file_buff, Room)
         b    == WriteAdv(info_write_buff, Len(loop.out))
         out  == write_buff \o loop.out
         end  == multiline_state = "END_LINE"
                   \/ (file_ended /\ loop.file = Len(file_buff))
         over == end /\ WriteSpace(b, WriteLimit) >= Len(Terminator)
     IN  /\ info_file_buff' = ReadAdv(info_file_buff, loop.file)
         /\ file_buff' = SubSeq(file_buff, loop.file + 1, Len(file_buff))
         /\ IF over   \* reset_structures
            THEN /\ multiline_state' = "FIRST_LINE" /\ flag' = "CR" /\ file_ended' = FALSE
                 /\ Send(WriteAdv(b, Len(Terminator)), out \o Terminator, TRUE)
            ELSE /\ multiline_state' = IF end THEN "END_LINE" ELSE "MULTILINE"
                 /\ flag' = loop.flag
                 /\ UNCHANGED file_ended
                 /\ Send(b, out, FALSE)
  /\ UNCHANGED <<file, asked>>

\* The loop compares with write_max - 1, which wraps around when the output
\* buffer has no room, and it writes past the buffer.
Overflow ==
  /\ st = "WRITING_RESPONSE" /\ ~finished
  /\ multiline_state = "MULTILINE" /\ CanRead(info_file_buff) /\ Room = 0
  /\ st' = "OVERFLOW"
  /\ UNCHANGED <<multiline_state, flag, file, file_ended, buffers, finished, asked, sent>>

\* write_response, when the whole answer is in the output buffer.
SendRest ==
  /\ st = "WRITING_RESPONSE" /\ finished
  /\ Send(info_write_buff, write_buff, TRUE)
  /\ UNCHANGED <<multiline_state, flag, file, file_ended, info_file_buff, file_buff, asked>>

Server == ReadFile \/ MoreFile \/ Copy \/ Overflow \/ SendRest
Next == Retr \/ Server

\* The selector calls the handler of a descriptor that is ready, and the client
\* keeps reading.
Spec == Init /\ [][Next]_vars
FairSpec == Spec /\ WF_vars(Server)
=============================================================================
