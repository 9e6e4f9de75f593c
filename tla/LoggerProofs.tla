---------------------------- MODULE LoggerProofs ----------------------------
(***************************************************************************)
(* The log loses nothing between its buffer and its file, and its buffer   *)
(* always has the byte it needs for a NUL: for every size of memory, every *)
(* message and every way in which the file accepts bytes.                  *)
(***************************************************************************)
EXTENDS Logger, SequenceTheorems, TLAPS

\* Together these are inductive: a flush needs the waiting bytes to lie inside
\* the memory, and the next message needs the room the last one left.
IInv == TypeOK /\ RoomForNul /\ NothingLost

-----------------------------------------------------------------------------
(* Lemmas about memories, sizes and what waits.                            *)

\* Rounding up to whole chunks does not make a size smaller.
LEMMA RoundedUp ==
  ASSUME NEW n \in Nat, NEW c \in Nat, c > 0
  PROVE  /\ ((n + c - 1) \div c) * c \in Nat
         /\ ((n + c - 1) \div c) * c >= n
<1> DEFINE m == n + c - 1
           q == m \div c
           r == m % c
<1>1. m \in Nat
  OBVIOUS
<1>2. q \in Nat /\ r \in 0..(c - 1)
  BY <1>1
<1>3. m = c * q + r
  BY <1>1, SMT
<1>4. c * q = q * c /\ c * q \in Nat
  BY <1>2, SMT
<1>5. n + c - 1 = c * q + r
  BY <1>3
<1> HIDE DEF m, q, r
<1>6. c * q >= n
  BY <1>2, <1>4, <1>5, SMT
<1>7. q * c \in Nat /\ q * c >= n
  BY <1>4, <1>6
<1> QED
  BY <1>7 DEF q, m

\* A function from 1..n to numbers is a sequence of length n.
LEMMA SequenceOfLength ==
  ASSUME NEW n \in Nat, NEW s \in [1..n -> Nat]
  PROVE  s \in Seq(Nat) /\ Len(s) = n
<1>1. s \in Seq(Nat)
  BY SeqDef
<1>2. Len(s) \in Nat /\ DOMAIN s = 1..Len(s)
  BY <1>1, LenProperties
<1>3. 1..Len(s) = 1..n
  BY <1>2
<1>4. Len(s) = n
  BY <1>2, <1>3, SMT
<1> QED
  BY <1>1, <1>4

\* Copying bytes into a memory keeps its length, replaces the bytes from its
\* position on and leaves the others.
LEMMA PutProperties ==
  ASSUME NEW mem \in Seq(Nat), NEW at \in Nat, NEW bytes \in Seq(Nat)
  PROVE  /\ Put(mem, at, bytes) \in Seq(Nat)
         /\ Len(Put(mem, at, bytes)) = Len(mem)
         /\ \A i \in 1..Len(mem) :
              Put(mem, at, bytes)[i] =
                IF i \in at + 1 .. at + Len(bytes) THEN bytes[i - at] ELSE mem[i]
<1>1. DOMAIN mem = 1..Len(mem) /\ Len(mem) \in Nat
  BY LenProperties
<1>2. ASSUME NEW i \in 1..Len(mem)
      PROVE  (IF i \in at + 1 .. at + Len(bytes) THEN bytes[i - at] ELSE mem[i]) \in Nat
  <2>1. CASE i \in at + 1 .. at + Len(bytes)
    <3>1. Len(bytes) \in Nat
      BY LenProperties
    <3>2. i - at \in 1..Len(bytes)
      BY <2>1, <3>1
    <3> QED
      BY <2>1, <3>2, ElementOfSeq
  <2>2. CASE i \notin at + 1 .. at + Len(bytes)
    BY <2>2, ElementOfSeq
  <2> QED
    BY <2>1, <2>2
<1>3. Put(mem, at, bytes) \in [1..Len(mem) -> Nat]
  BY <1>1, <1>2 DEF Put
<1>4. Put(mem, at, bytes) \in Seq(Nat) /\ Len(Put(mem, at, bytes)) = Len(mem)
  BY <1>1, <1>3, SequenceOfLength
<1>5. \A i \in 1..Len(mem) :
        Put(mem, at, bytes)[i] =
          IF i \in at + 1 .. at + Len(bytes) THEN bytes[i - at] ELSE mem[i]
  BY <1>1 DEF Put
<1> QED
  BY <1>4, <1>5

\* The waiting bytes of a memory that holds them.
LEMMA WaitingProperties ==
  ASSUME NEW mem \in Seq(Nat), NEW start \in Nat, NEW length \in Nat,
         start + length <= Len(mem)
  PROVE  /\ Waiting(mem, start, length) \in Seq(Nat)
         /\ Len(Waiting(mem, start, length)) = length
         /\ \A i \in 1..length : Waiting(mem, start, length)[i] = mem[start + i]
<1>1. Len(mem) \in Nat
  BY LenProperties
<1>2. \A i \in start + 1 .. start + length : mem[i] \in Nat
  <2>1. SUFFICES ASSUME NEW i \in start + 1 .. start + length
                 PROVE  i \in 1..Len(mem)
    BY <2>1, ElementOfSeq
  <2> QED
    BY <1>1
<1>3. start + 1 \in Int /\ start + length \in Int
  OBVIOUS
<1>4. /\ Waiting(mem, start, length) \in Seq(Nat)
      /\ Len(Waiting(mem, start, length)) =
           IF start + 1 <= start + length THEN start + length - (start + 1) + 1 ELSE 0
      /\ \A i \in 1 .. start + length - (start + 1) + 1 :
           Waiting(mem, start, length)[i] = mem[start + 1 + i - 1]
  BY <1>2, <1>3, SubSeqProperties DEF Waiting
<1>5. Len(Waiting(mem, start, length)) = length
  BY <1>4
<1>6. ASSUME NEW i \in 1..length
      PROVE  Waiting(mem, start, length)[i] = mem[start + i]
  <2>1. i \in 1 .. start + length - (start + 1) + 1 /\ start + 1 + i - 1 = start + i
    OBVIOUS
  <2> QED
    BY <1>4, <2>1
<1> QED
  BY <1>4, <1>5, <1>6

\* Waiting bytes copied to the start of a memory that is long enough wait there.
LEMMA CopiedToStart ==
  ASSUME NEW mem \in Seq(Nat), NEW bytes \in Seq(Nat), Len(bytes) <= Len(mem)
  PROVE  Waiting(Put(mem, 0, bytes), 0, Len(bytes)) = bytes
<1> DEFINE new == Put(mem, 0, bytes)
           out == Waiting(new, 0, Len(bytes))
<1>1. Len(bytes) \in Nat /\ Len(mem) \in Nat
  BY LenProperties
<1>2. /\ new \in Seq(Nat) /\ Len(new) = Len(mem)
      /\ \A i \in 1..Len(mem) :
           new[i] = IF i \in 0 + 1 .. 0 + Len(bytes) THEN bytes[i - 0] ELSE mem[i]
  BY PutProperties
<1> HIDE DEF new
<1>3. /\ out \in Seq(Nat) /\ Len(out) = Len(bytes)
      /\ \A i \in 1..Len(bytes) : out[i] = new[0 + i]
  <2>1. 0 \in Nat /\ new \in Seq(Nat) /\ Len(bytes) \in Nat /\ 0 + Len(bytes) <= Len(new)
    BY <1>1, <1>2
  <2> QED
    BY <2>1, WaitingProperties
<1> HIDE DEF out
<1>4. ASSUME NEW i \in 1..Len(bytes)
      PROVE  out[i] = bytes[i]
  <2>1. i \in 1..Len(mem) /\ i \in 0 + 1 .. 0 + Len(bytes) /\ 0 + i = i /\ i - 0 = i
    BY <1>1
  <2> QED
    BY <1>2, <1>3, <2>1
<1>5. out = bytes
  BY <1>3, <1>4, SeqEqual
<1> QED
  BY <1>5 DEF out, new

\* Text printed after the waiting bytes, with its NUL, waits after them.
LEMMA Printed ==
  ASSUME NEW mem \in Seq(Nat), NEW start \in Nat, NEW length \in Nat,
         NEW text \in Seq(Nat), start + length + Len(text) < Len(mem)
  PROVE  Waiting(Put(mem, start + length, Append(text, Junk)), start,
                 length + Len(text))
           = Waiting(mem, start, length) \o text
<1> DEFINE end   == start + length
           bytes == Append(text, Junk)
           new   == Put(mem, end, bytes)
           total == length + Len(text)
           out   == Waiting(new, start, total)
           old   == Waiting(mem, start, length)
<1>1. Len(text) \in Nat /\ Len(mem) \in Nat
  BY LenProperties
<1>2. /\ bytes \in Seq(Nat) /\ Len(bytes) = Len(text) + 1
      /\ \A i \in 1..Len(text) : bytes[i] = text[i]
  <2>1. Junk \in Nat
    BY DEF Junk
  <2>2. bytes = Append(text, Junk)
    OBVIOUS
  <2> HIDE DEF bytes
  <2>3. bytes \in Seq(Nat) /\ Len(bytes) = Len(text) + 1
    BY <2>1, <2>2
  <2>4. ASSUME NEW i \in 1..Len(text)
        PROVE  bytes[i] = text[i]
    BY <1>1, <2>1, <2>2
  <2> QED
    BY <2>3, <2>4
<1>3. end \in Nat /\ total \in Nat
  BY <1>1
<1> HIDE DEF bytes
<1>4. /\ new \in Seq(Nat) /\ Len(new) = Len(mem)
      /\ \A i \in 1..Len(mem) :
           new[i] = IF i \in end + 1 .. end + Len(bytes) THEN bytes[i - end] ELSE mem[i]
  BY <1>2, <1>3, PutProperties
<1> HIDE DEF new
<1>5. start + total <= Len(new) /\ start + length <= Len(mem)
  BY <1>1, <1>4
<1> HIDE DEF total
<1>6. /\ out \in Seq(Nat) /\ Len(out) = total
      /\ \A i \in 1..total : out[i] = new[start + i]
  BY <1>3, <1>4, <1>5, WaitingProperties
<1>7. /\ old \in Seq(Nat) /\ Len(old) = length
      /\ \A i \in 1..length : old[i] = mem[start + i]
  BY <1>5, WaitingProperties
<1> HIDE DEF out, old
<1>8. /\ old \o text \in Seq(Nat) /\ Len(old \o text) = total
      /\ \A i \in 1..total :
           (old \o text)[i] = IF i <= length THEN old[i] ELSE text[i - length]
  BY <1>7, ConcatProperties DEF total
<1>9. ASSUME NEW i \in 1..total
      PROVE  out[i] = (old \o text)[i]
  <2>1. start + i \in 1..Len(mem)
    BY <1>1, <1>3 DEF total
  <2>2. CASE i <= length
    <3>1. i \in 1..length /\ start + i \notin end + 1 .. end + Len(bytes)
      BY <1>1, <1>2, <2>2
    <3> QED
      BY <1>4, <1>6, <1>7, <1>8, <2>1, <2>2, <3>1
  <2>3. CASE ~(i <= length)
    <3>1. /\ start + i \in end + 1 .. end + Len(bytes)
          /\ (start + i) - end = i - length
          /\ i - length \in 1..Len(text)
      BY <1>1, <1>2, <1>3, <2>3 DEF total
    <3>2. new[start + i] = bytes[i - length]
      BY <1>4, <2>1, <3>1
    <3> QED
      BY <1>2, <1>6, <1>8, <2>3, <3>1, <3>2
  <2> QED
    BY <2>2, <2>3
<1>10. out = old \o text
  BY <1>6, <1>8, <1>9, SeqEqual
<1> QED
  BY <1>10 DEF out, old, new, bytes, total

\* Concatenation of bytes is associative.
LEMMA Associative ==
  ASSUME NEW s \in Seq(Nat), NEW t \in Seq(Nat), NEW u \in Seq(Nat)
  PROVE  (s \o t) \o u = s \o (t \o u)
  BY ConcatAssociative, SMT

\* What is kept of a message leaves a byte of the room it was printed in.
LEMMA KeptFits ==
  ASSUME NEW written \in Nat, NEW maxlen \in Nat, maxlen > 0
  PROVE  Kept(written, maxlen) \in Nat /\ Kept(written, maxlen) < maxlen
  BY DEF Kept

\* Nothing waits in no bytes.
LEMMA NoneWaits ==
  ASSUME NEW mem, NEW start \in Nat
  PROVE  Waiting(mem, start, 0) = <<>>
<1>1. start + 1 \in Int /\ start + 0 \in Int /\ start + 0 < start + 1
  OBVIOUS
<1> QED
  BY <1>1, SubSeqEmpty DEF Waiting

\* What a write took and what it left is what waited.
LEMMA Split ==
  ASSUME NEW mem \in Seq(Nat), NEW start \in Nat, NEW length \in Nat,
         start + length <= Len(mem), NEW n \in 0..length
  PROVE  Waiting(mem, start, n) \o Waiting(mem, start + n, length - n)
           = Waiting(mem, start, length)
<1>1. Len(mem) \in Nat
  BY LenProperties
<1>2. /\ start + 1 \in 1 .. Len(mem) + 1
      /\ start + n \in (start + 1) - 1 .. Len(mem)
      /\ start + length \in start + n .. Len(mem)
  BY <1>1
<1>3. SubSeq(mem, start + 1, start + n) \o SubSeq(mem, (start + n) + 1, start + length)
        = SubSeq(mem, start + 1, start + length)
  BY <1>2, ConcatAdjacentSubSeq
<1>4. (start + n) + (length - n) = start + length
  OBVIOUS
<1> QED
  BY <1>3, <1>4 DEF Waiting

-----------------------------------------------------------------------------
(* The operations.                                                         *)

\* make_buffer_space keeps what waits, and leaves the byte for the NUL.
LEMMA SpacesKeep ==
  ASSUME IInv, NEW space \in Spaces(PrintMax)
  PROVE  /\ space[1] \in Seq(Nat) /\ Len(space[1]) \in MinSize..MaxSize
         /\ space[2] \in Nat
         /\ space[2] + buffer_length < Len(space[1])
         /\ Waiting(space[1], space[2], buffer_length)
              = Waiting(buffer, buffer_start, buffer_length)
<1> DEFINE waiting == Waiting(buffer, buffer_start, buffer_length)
           size    == Len(buffer)
<1>1. /\ buffer \in Seq(Nat) /\ size \in MinSize..MaxSize /\ size \in Nat
      /\ buffer_start \in Nat /\ buffer_length \in Nat
      /\ buffer_start + buffer_length < size
      /\ MinSize \in Nat /\ MaxSize \in Nat /\ PrintMax \in Nat /\ PrintMax > 0
      /\ Chunk \in Nat /\ Chunk > 0
  BY LoggerAssumption, LenProperties DEF IInv, TypeOK, RoomForNul
<1>2. waiting \in Seq(Nat) /\ Len(waiting) = buffer_length
  BY <1>1, WaitingProperties
<1> HIDE DEF waiting
<1>3. CASE space = <<buffer, buffer_start>>
  BY <1>1, <1>3 DEF waiting
<1>4. CASE space = <<Put(buffer, 0, waiting), 0>>
  <2>1. Put(buffer, 0, waiting) \in Seq(Nat) /\ Len(Put(buffer, 0, waiting)) = size
    BY <1>1, <1>2, PutProperties
  <2>2. Waiting(Put(buffer, 0, waiting), 0, buffer_length) = waiting
    BY <1>1, <1>2, CopiedToStart
  <2>3. space[1] = Put(buffer, 0, waiting) /\ space[2] = 0
    BY <1>4
  <2> QED
    BY <1>1, <2>1, <2>2, <2>3 DEF waiting
<1>5. CASE /\ ~(PrintMax < size - buffer_length) /\ size < MaxSize
           /\ space = <<Put(Blanks(Grown(PrintMax)), 0, waiting), 0>>
  <2> DEFINE rounded == ((buffer_length + PrintMax + Chunk - 1) \div Chunk) * Chunk
             g == Grown(PrintMax)
  <2>1. rounded \in Nat /\ rounded >= buffer_length + PrintMax
    <3>1. buffer_length + PrintMax \in Nat
      BY <1>1
    <3> QED
      BY <1>1, <3>1, RoundedUp
  <2>2. g = IF rounded < MaxSize THEN rounded ELSE MaxSize
    BY DEF Grown, Smaller
  <2> HIDE DEF rounded, g
  <2>3. g \in MinSize..MaxSize /\ g \in Nat /\ buffer_length < g
    BY <1>1, <1>5, <2>1, <2>2
  <2>4. Blanks(g) \in Seq(Nat) /\ Len(Blanks(g)) = g
    <3>1. Blanks(g) \in [1..g -> Nat]
      BY DEF Blanks, Junk
    <3> QED
      BY <2>3, <3>1, SequenceOfLength
  <2>5. Put(Blanks(g), 0, waiting) \in Seq(Nat) /\ Len(Put(Blanks(g), 0, waiting)) = g
    BY <1>2, <2>4, PutProperties
  <2>6. Waiting(Put(Blanks(g), 0, waiting), 0, buffer_length) = waiting
    BY <1>1, <1>2, <2>3, <2>4, CopiedToStart
  <2>7. space[1] = Put(Blanks(g), 0, waiting) /\ space[2] = 0
    BY <1>5 DEF g
  <2> QED
    BY <1>1, <2>3, <2>5, <2>6, <2>7 DEF waiting
<1>6. Moved = Put(buffer, 0, waiting)
  BY DEF Moved, waiting
<1>7. \/ space = <<buffer, buffer_start>>
      \/ space = <<Put(buffer, 0, waiting), 0>>
      \/ /\ ~(PrintMax < size - buffer_length) /\ size < MaxSize
         /\ space = <<Put(Blanks(Grown(PrintMax)), 0, waiting), 0>>
  BY <1>6 DEF Spaces, waiting
<1> QED
  BY <1>3, <1>4, <1>5, <1>7

\* try_flush_buffer_to_file writes a part of what waits, and the rest waits on.
LEMMA FlushKeeps ==
  ASSUME NEW mem \in Seq(Nat), NEW start \in Nat, NEW length \in Nat, NEW all,
         start + length < Len(mem), file \in Seq(Nat),
         file \o Waiting(mem, start, length) = all,
         TryFlush(mem, start, length)
  PROVE  /\ buffer' = mem
         /\ buffer_start' \in Nat /\ buffer_length' \in Nat
         /\ buffer_start' + buffer_length' < Len(mem)
         /\ file' \in Seq(Nat)
         /\ interest' \in {"NOOP", "WRITE"}
         /\ file' \o Waiting(mem, buffer_start', buffer_length') = all
<1>1. PICK n \in Accepts(length) :
        /\ file' = file \o Waiting(mem, start, n)
        /\ buffer' = mem
        /\ buffer_length' = length - n
        /\ buffer_start' = IF n > 0 THEN Advanced(start, length, n) ELSE start
        /\ interest' = InterestFor(length - n)
  BY DEF TryFlush
<1>2. n \in 0..length /\ Len(mem) \in Nat
  BY LenProperties DEF Accepts, Smaller
<1>3. /\ buffer_start' \in Nat /\ buffer_length' \in Nat
      /\ buffer_start' + buffer_length' < Len(mem)
      /\ buffer_length' = 0 \/ buffer_start' = start + n
  BY <1>1, <1>2 DEF Advanced
<1>4. interest' \in {"NOOP", "WRITE"}
  BY <1>1 DEF InterestFor
<1> DEFINE out  == Waiting(mem, start, n)
           rest == Waiting(mem, start + n, length - n)
<1>5. out \in Seq(Nat)
  <2>1. start + n <= Len(mem) /\ n \in Nat
    BY <1>2
  <2> QED
    BY <2>1, WaitingProperties
<1>6. rest \in Seq(Nat)
  <2>1. (start + n) + (length - n) <= Len(mem) /\ start + n \in Nat /\ length - n \in Nat
    BY <1>2
  <2> QED
    BY <2>1, WaitingProperties
<1>7. out \o rest = Waiting(mem, start, length)
  <2>1. start + length <= Len(mem)
    BY <1>2
  <2> QED
    BY <1>2, <2>1, Split
<1>8. Waiting(mem, buffer_start', buffer_length') = rest
  <2>1. CASE buffer_start' = start + n
    BY <1>1, <2>1
  <2>2. CASE buffer_length' = 0
    <3>1. length - n = 0
      BY <1>1, <2>2
    <3>2. Waiting(mem, buffer_start', 0) = <<>>
      BY <1>3, NoneWaits
    <3>3. start + n \in Nat
      BY <1>2
    <3>4. Waiting(mem, start + n, 0) = <<>>
      BY <3>3, NoneWaits
    <3> QED
      BY <2>2, <3>1, <3>2, <3>4
  <2> QED
    BY <1>3, <2>1, <2>2
<1> HIDE DEF out, rest
<1>9. file' = file \o out
  BY <1>1 DEF out
<1>10. file' \in Seq(Nat)
  BY <1>5, <1>9, ConcatProperties
<1>11. (file \o out) \o rest = file \o (out \o rest)
  BY <1>5, <1>6, Associative
<1>12. file' \o Waiting(mem, buffer_start', buffer_length') = all
  BY <1>7, <1>8, <1>9, <1>11
<1> QED
  BY <1>1, <1>3, <1>4, <1>10, <1>12

-----------------------------------------------------------------------------
(* The invariant.                                                          *)

\* A fresh log is empty.
LEMMA InitIInv == Init => IInv
<1> SUFFICES ASSUME Init PROVE IInv
  OBVIOUS
<1>1. Blanks(MinSize) \in Seq(Nat) /\ Len(Blanks(MinSize)) = MinSize
  <2>1. Blanks(MinSize) \in [1..MinSize -> Nat] /\ MinSize \in Nat
    BY LoggerAssumption DEF Blanks, Junk
  <2> QED
    BY <2>1, SequenceOfLength
<1>2. TypeOK
  BY <1>1, LoggerAssumption DEF Init, TypeOK
<1>3. RoomForNul
  BY <1>1, LoggerAssumption DEF Init, RoomForNul
<1>4. Waiting(buffer, 0, 0) = <<>>
  BY NoneWaits
<1>5. NothingLost
  BY <1>4, EmptySeq, ConcatProperties, SMT DEF Init, NothingLost
<1> QED
  BY <1>2, <1>3, <1>5 DEF IInv

\* A message is printed after what waits, and flushed with it.
LEMMA LogKeeps ==
  ASSUME IInv, Log
  PROVE  IInv'
<1>1. PICK written \in Lengths, space \in Spaces(PrintMax) :
        LET start  == space[2]
            end    == start + buffer_length
            maxlen == Len(space[1]) - end
            kept   == Kept(written, maxlen)
            text   == [i \in 1..kept |-> logs + 1]
            mem    == Put(space[1], end, Append(text, Junk))
        IN  /\ printed' = printed \o text
            /\ TryFlush(mem, start, buffer_length + kept)
  BY DEF Log
<1> DEFINE start  == space[2]
           end    == start + buffer_length
           maxlen == Len(space[1]) - end
           kept   == Kept(written, maxlen)
           text   == [i \in 1..kept |-> logs + 1]
           mem    == Put(space[1], end, Append(text, Junk))
           old    == Waiting(buffer, buffer_start, buffer_length)
           length == buffer_length + kept
<1>2. /\ space[1] \in Seq(Nat) /\ Len(space[1]) \in MinSize..MaxSize
      /\ start \in Nat
      /\ start + buffer_length < Len(space[1])
      /\ Waiting(space[1], start, buffer_length) = old
  BY SpacesKeep
<1>3. /\ buffer_length \in Nat /\ logs \in Nat /\ file \in Seq(Nat) /\ printed \in Seq(Nat)
      /\ Len(space[1]) \in Nat /\ written \in Nat
      /\ log_file = "open" /\ log_file' = "open" /\ logs' \in 0..MaxLogs
      /\ file \o old = printed
  <2>1. /\ log_file = "open" /\ log_file' = log_file
        /\ logs < MaxLogs /\ logs' = logs + 1
    BY DEF Log
  <2>2. /\ buffer_length \in Nat /\ logs \in 0..MaxLogs /\ file \in Seq(Nat)
        /\ printed \in Seq(Nat) /\ MaxLogs \in Nat
    BY LoggerAssumption DEF IInv, TypeOK
  <2>3. file \o old = printed
    BY <2>1 DEF IInv, NothingLost
  <2>4. Len(space[1]) \in Nat /\ written \in Nat
    BY <1>2, LenProperties, LoggerAssumption
  <2> HIDE DEF old
  <2> QED
    BY <2>1, <2>2, <2>3, <2>4
<1>4. kept \in Nat /\ start + buffer_length + kept < Len(space[1])
  <2>1. maxlen \in Nat /\ maxlen > 0
    BY <1>2, <1>3
  <2>2. kept \in Nat /\ kept < maxlen
    BY <1>3, <2>1, KeptFits
  <2> HIDE DEF kept
  <2> QED
    BY <1>2, <1>3, <2>2
<1> HIDE DEF kept
<1>5. text \in Seq(Nat) /\ Len(text) = kept
  <2>1. text \in [1..kept -> Nat]
    BY <1>3
  <2> QED
    BY <1>4, <2>1, SequenceOfLength
<1>6. printed' = printed \o text /\ TryFlush(mem, start, length)
  BY <1>1 DEF kept
<1> HIDE DEF text
<1>7. Append(text, Junk) \in Seq(Nat)
  BY <1>5 DEF Junk
<1>8. mem \in Seq(Nat) /\ Len(mem) = Len(space[1])
  <2>1. end \in Nat
    BY <1>2, <1>3
  <2> QED
    BY <1>2, <1>7, <2>1, PutProperties
<1>9. Waiting(mem, start, length) = old \o text
  <2>1. start + buffer_length + Len(text) < Len(space[1])
    BY <1>4, <1>5
  <2>2. Waiting(mem, start, buffer_length + Len(text))
          = Waiting(space[1], start, buffer_length) \o text
    <3> DEFINE before == space[1]
    <3>1. before \in Seq(Nat) /\ start \in Nat /\ buffer_length \in Nat /\ text \in Seq(Nat)
      BY <1>2, <1>3, <1>5
    <3>2. start + buffer_length + Len(text) < Len(before)
      BY <2>1
    <3> HIDE DEF before, start
    <3>3. Waiting(Put(before, start + buffer_length, Append(text, Junk)), start,
                  buffer_length + Len(text))
            = Waiting(before, start, buffer_length) \o text
      BY <3>1, <3>2, Printed
    <3> QED
      BY <3>3 DEF before
  <2> QED
    BY <1>2, <1>5, <2>2
<1> HIDE DEF mem
<1>10. old \in Seq(Nat)
  <2>1. /\ buffer \in Seq(Nat) /\ buffer_start \in Nat
        /\ buffer_start + buffer_length <= Len(buffer)
    BY <1>3, LenProperties DEF IInv, TypeOK, RoomForNul
  <2> QED
    BY <1>3, <2>1, WaitingProperties
<1> HIDE DEF old
<1>11. file \o Waiting(mem, start, length) = printed'
  <2>1. (file \o old) \o text = file \o (old \o text)
    BY <1>3, <1>5, <1>10, Associative
  <2> QED
    BY <1>3, <1>6, <1>9, <2>1
<1>12. length \in Nat /\ start + length < Len(mem)
  BY <1>3, <1>4, <1>2, <1>8
<1> HIDE DEF start, length
<1>13. /\ buffer' = mem
       /\ buffer_start' \in Nat /\ buffer_length' \in Nat
       /\ buffer_start' + buffer_length' < Len(mem)
       /\ file' \in Seq(Nat)
       /\ interest' \in {"NOOP", "WRITE"}
       /\ file' \o Waiting(mem, buffer_start', buffer_length') = printed'
  BY <1>2, <1>3, <1>6, <1>8, <1>11, <1>12, FlushKeeps
<1>14. printed' \in Seq(Nat)
  BY <1>3, <1>5, <1>6, ConcatProperties
<1>15. TypeOK'
  BY <1>2, <1>3, <1>8, <1>13, <1>14 DEF TypeOK
<1>16. RoomForNul'
  BY <1>13 DEF RoomForNul
<1>17. NothingLost'
  BY <1>13 DEF NothingLost
<1> QED
  BY <1>15, <1>16, <1>17 DEF IInv

\* A flush from the selector.
LEMMA FdWriteKeeps ==
  ASSUME IInv, FdWrite
  PROVE  IInv'
<1>1. /\ buffer \in Seq(Nat) /\ Len(buffer) \in MinSize..MaxSize
      /\ buffer_start \in Nat /\ buffer_length \in Nat
      /\ buffer_start + buffer_length < Len(buffer)
      /\ file \in Seq(Nat) /\ printed \in Seq(Nat) /\ logs \in 0..MaxLogs
      /\ log_file = "open"
      /\ file \o Waiting(buffer, buffer_start, buffer_length) = printed
  BY DEF IInv, TypeOK, RoomForNul, NothingLost, FdWrite
<1>2. /\ TryFlush(buffer, buffer_start, buffer_length)
      /\ log_file' = log_file /\ printed' = printed /\ logs' = logs
  BY DEF FdWrite
<1>3. /\ buffer' = buffer
      /\ buffer_start' \in Nat /\ buffer_length' \in Nat
      /\ buffer_start' + buffer_length' < Len(buffer)
      /\ file' \in Seq(Nat)
      /\ interest' \in {"NOOP", "WRITE"}
      /\ file' \o Waiting(buffer, buffer_start', buffer_length') = printed
  BY <1>1, <1>2, FlushKeeps
<1>4. TypeOK'
  BY <1>1, <1>2, <1>3 DEF TypeOK
<1>5. RoomForNul'
  BY <1>3 DEF RoomForNul
<1>6. NothingLost'
  BY <1>2, <1>3 DEF NothingLost
<1> QED
  BY <1>4, <1>5, <1>6 DEF IInv

\* The last write keeps the positions inside the memory, whatever it wrote.
LEMMA FdCloseKeeps ==
  ASSUME IInv, FdClose
  PROVE  IInv'
<1>1. PICK n \in 0..buffer_length :
        /\ file' = file \o SubSeq(LastWrite, 1, n)
        /\ buffer_length' = buffer_length - n
        /\ buffer_start' = IF n > 0 THEN Advanced(buffer_start, buffer_length, n)
                                    ELSE buffer_start
  BY DEF FdClose, IInv, TypeOK
<1>2. /\ buffer \in Seq(Nat) /\ Len(buffer) \in MinSize..MaxSize /\ Len(buffer) \in Nat
      /\ buffer_start \in Nat /\ buffer_length \in Nat
      /\ buffer_start + buffer_length < Len(buffer)
      /\ file \in Seq(Nat) /\ printed \in Seq(Nat) /\ logs \in 0..MaxLogs
  BY LenProperties DEF IInv, TypeOK, RoomForNul
<1>3. /\ log_file' = "closed" /\ interest' = "NOOP"
      /\ buffer' = buffer /\ printed' = printed /\ logs' = logs
  BY DEF FdClose
<1>4. SubSeq(LastWrite, 1, n) \in Seq(Nat)
  <2>1. 0 + buffer_length <= Len(buffer)
    BY <1>2
  <2>2. LastWrite \in Seq(Nat) /\ Len(LastWrite) = buffer_length
    BY <1>2, <2>1, WaitingProperties DEF LastWrite
  <2>3. n \in Int /\ \A i \in 1..n : LastWrite[i] \in Nat
    <3>1. \A i \in 1..n : i \in 1..Len(LastWrite)
      BY <1>2, <2>2
    <3> QED
      BY <2>2, <3>1, ElementOfSeq
  <2> QED
    BY <2>3, SubSeqProperties
<1>5. file' \in Seq(Nat)
  BY <1>1, <1>2, <1>4, ConcatProperties
<1>6. /\ buffer_start' \in Nat /\ buffer_length' \in Nat
      /\ buffer_start' + buffer_length' < Len(buffer)
  BY <1>1, <1>2 DEF Advanced
<1>7. TypeOK'
  BY <1>2, <1>3, <1>5, <1>6 DEF TypeOK
<1>8. RoomForNul'
  BY <1>3, <1>6 DEF RoomForNul
<1>9. NothingLost'
  BY <1>3 DEF NothingLost
<1> QED
  BY <1>7, <1>8, <1>9 DEF IInv

\* Every step keeps the invariant.
LEMMA NextIInv == IInv /\ [Next]_vars => IInv'
<1> SUFFICES ASSUME IInv, [Next]_vars PROVE IInv'
  OBVIOUS
<1>1. CASE Log
  BY <1>1, LogKeeps
<1>2. CASE FdWrite
  BY <1>2, FdWriteKeeps
<1>3. CASE FdClose
  BY <1>3, FdCloseKeeps
<1>4. CASE UNCHANGED vars
  BY <1>4 DEF vars, IInv, TypeOK, RoomForNul, NothingLost
<1> QED
  BY <1>1, <1>2, <1>3, <1>4 DEF Next

\* The invariant holds in every reachable state.
THEOREM Invariant == Spec => []IInv
<1>1. Init => IInv
  BY InitIInv
<1>2. IInv /\ [Next]_vars => IInv'
  BY NextIInv
<1> QED
  BY <1>1, <1>2, PTL DEF Spec

\* maxlen is never 0 in logger_post_print: the byte for the NUL is always there.
THEOREM RoomAlways == Spec => []RoomForNul
<1>1. IInv => RoomForNul
  BY DEF IInv
<1> QED
  BY <1>1, Invariant, PTL

\* No byte is lost, repeated or overtaken on its way through the buffer while the
\* log is open.
THEOREM NeverLost == Spec => []NothingLost
<1>1. IInv => NothingLost
  BY DEF IInv
<1> QED
  BY <1>1, Invariant, PTL

\* The memory stays between its limits and the positions are numbers, whatever
\* the limits are and whatever fails.
THEOREM TypeCorrect == Spec => []TypeOK
<1>1. IInv => TypeOK
  BY DEF IInv
<1> QED
  BY <1>1, Invariant, PTL

\* The file is selected exactly while bytes wait: no step leaves some forgotten.
THEOREM NoneForgotten == Spec => []SelectedWhileWaiting
<1>1. Init => SelectedWhileWaiting
  BY DEF Init, SelectedWhileWaiting
<1>2. SelectedWhileWaiting /\ [Next]_vars => SelectedWhileWaiting'
  <2> SUFFICES ASSUME SelectedWhileWaiting, [Next]_vars PROVE SelectedWhileWaiting'
    OBVIOUS
  <2>1. ASSUME NEW mem, NEW start, NEW length, TryFlush(mem, start, length)
        PROVE  interest' = "WRITE" <=> buffer_length' > 0
    BY <2>1 DEF TryFlush, InterestFor
  <2>2. CASE Log
    BY <2>1, <2>2 DEF Log, SelectedWhileWaiting
  <2>3. CASE FdWrite
    BY <2>1, <2>3 DEF FdWrite, SelectedWhileWaiting
  <2>4. CASE FdClose
    BY <2>4 DEF FdClose, SelectedWhileWaiting
  <2>5. CASE UNCHANGED vars
    BY <2>5 DEF vars, SelectedWhileWaiting
  <2> QED
    BY <2>2, <2>3, <2>4, <2>5 DEF Next
<1> QED
  BY <1>1, <1>2, PTL DEF Spec
=============================================================================
