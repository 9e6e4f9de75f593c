---------------------------- MODULE ByteStuffing ----------------------------
(***************************************************************************)
(* The byte stuffing loop of RETR (pop3.c): a dot at the start of a line   *)
(* of a mail is doubled.  Stuff is the loop itself, byte by byte; Moves is *)
(* all that a model which only counts bytes knows of it.                   *)
(***************************************************************************)
EXTENDS Naturals, Sequences

Char == {"CR", "LF", "DOT", "TEXT"}
Flag == {"CR", "LF", "DOT", "NOTHING"}  \* byte_stuffing_state

\* Mutation: any LF starts a line.
GetFlagLoose(curr_flag, c) ==
  CASE c \in {"CR", "LF"} -> c
    [] c = "DOT" /\ curr_flag = "LF" -> "DOT"
    [] OTHER -> "NOTHING"

\* get_flag: how much of CR LF DOT the last bytes are.
GetFlag(curr_flag, c) ==
  CASE c = "CR" -> "CR"
    [] c = "LF" /\ curr_flag = "CR" -> "LF"
    [] c = "DOT" /\ curr_flag = "LF" -> "DOT"
    [] OTHER -> "NOTHING"

\* Mutation: one byte of room is not kept for a stuffed dot.
TurnTight(s, c, max) ==
  LET g == GetFlag(s.flag, c)
  IN  IF Len(s.out) < max
      THEN [flag |-> g, file |-> s.file + 1,
            out |-> s.out \o (IF g = "DOT" THEN <<c, c>> ELSE <<c>>)]
      ELSE s

\* The loop takes the byte c, when there is room; s is the flag, the bytes it
\* took so far, and what it wrote.
Turn(s, c, max) ==
  LET g == GetFlag(s.flag, c)
  IN  IF Len(s.out) + 1 < max
      THEN [flag |-> g, file |-> s.file + 1,
            out |-> s.out \o (IF g = "DOT" THEN <<c, c>> ELSE <<c>>)]
      ELSE s

\* The loop over the bytes of the file buffer, with room for max > 0 bytes.
Stuff(flag, bytes, max) ==
  LET Turns[i \in 0..Len(bytes)] ==
        IF i = 0 THEN [flag |-> flag, file |-> 0, out |-> <<>>]
                 ELSE Turn(Turns[i - 1], bytes[i], max)
  IN  Turns[Len(bytes)]

\* Mutation: the loop runs up to the end of the output buffer, where a last
\* stuffed byte does not fit.
MovesTight(avail, space) ==
  {m \in (0..avail) \X (0..avail) :
     LET n == m[1]
         k == m[2]
     IN  /\ k <= (n + 2) \div 3
         /\ n + k <= space + 1
         /\ n = avail \/ n + k >= space
         /\ n + k = space + 1 => k > 0}

\* The loop moves n bytes and adds k dots.  It stops one byte before the end of
\* the output buffer, which a last stuffed byte still takes.
Moves(avail, space) ==
  {m \in (0..avail) \X (0..avail) :
     LET n == m[1]
         k == m[2]
     IN  /\ k <= (n + 2) \div 3               \* a dot needs a line of its own
         /\ n + k <= space
         /\ n = avail \/ n + k >= space - 1
         /\ n + k = space => k > 0 \/ n = 0}
=============================================================================
