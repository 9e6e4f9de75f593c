-------------------------- MODULE TransferProofs --------------------------
(***************************************************************************)
(* Proofs that the client of a RETR has the mail, byte by byte, for every  *)
(* mail, every size of the buffers and every way of cutting it into reads  *)
(* and sends.  The byte stuffing loop is a recursive function, so the      *)
(* first part derives induction over the natural numbers from the order    *)
(* of finite sets, and with it that such functions exist.                  *)
(***************************************************************************)
EXTENDS TransferProperties, Integers, FiniteSetTheorems, SequenceTheorems, TLAPS

\* Every nonempty set of natural numbers has a least element: the interval up to
\* it has no other below it.
LEMMA Least ==
  ASSUME NEW T, T \subseteq Nat, T # {}
  PROVE  \E x \in T : \A y \in T : x <= y
<1> DEFINE Upto == {0..x : x \in T}
<1>1. Upto \subseteq FiniteSubsetsOf(Nat)
  <2>1. \A x \in Nat : IsFiniteSet(0..x)
    BY FS_Interval
  <2> QED
    BY <2>1 DEF FiniteSubsetsOf
<1>2. Upto # {}
  OBVIOUS
<1>3. PICK S \in Upto : \A U \in Upto : ~(<<U, S>> \in StrictSubsetOrdering(Nat))
  <2> HIDE DEF Upto
  <2> QED
    BY <1>1, <1>2, WFMin, FS_StrictSubsetOrderingWellFounded
<1>4. PICK x \in T : S = 0..x
  OBVIOUS
<1>5. \A y \in T : x <= y
  <2> SUFFICES ASSUME NEW y \in T, y < x PROVE FALSE
    OBVIOUS
  <2>1. 0..y \in Upto /\ 0..y \subseteq 0..x /\ x \in 0..x /\ x \notin 0..y
    OBVIOUS
  <2>2. <<0..y, S>> \in StrictSubsetOrdering(Nat)
    BY <2>1, <1>4 DEF StrictSubsetOrdering
  <2> QED
    BY <2>1, <2>2, <1>3
<1> QED
  BY <1>5

\* Induction over the natural numbers, for the members of a set.
LEMMA Induction ==
  ASSUME NEW G, 0 \in G, \A n \in Nat : n \in G => n + 1 \in G
  PROVE  \A n \in Nat : n \in G
<1> SUFFICES ASSUME Nat \ G # {} PROVE FALSE
  OBVIOUS
<1>1. PICK x \in Nat \ G : \A y \in Nat \ G : x <= y
  BY Least
<1>2. x - 1 \in Nat /\ x - 1 \in G
  BY <1>1
<1> QED
  BY <1>1, <1>2

\* T has n steps after a, of which each is a function of the one before it and
\* of its number.
Iterates(T, S, a, F, n) ==
  /\ T \in [0..n -> S]
  /\ T[0] = a
  /\ \A i \in 1..n : T[i] = F[<<T[i - 1], i>>]

\* There are n steps of every function from every start.
LEMMA Recursion ==
  ASSUME NEW S, NEW a \in S, NEW n \in Nat, NEW F \in [S \X Nat -> S]
  PROVE  \E T : Iterates(T, S, a, F, n)
<1> DEFINE
    Steps(T, k) ==
      T \in [0..k -> S] /\ T[0] = a /\ \A i \in 1..k : T[i] = F[<<T[i - 1], i>>]
    G == {k \in Nat : \E T : Steps(T, k)}
<1>1. 0 \in G
  <2>1. Steps([i \in 0..0 |-> a], 0)
    OBVIOUS
  <2> QED
    BY <2>1
<1>2. ASSUME NEW k \in Nat, k \in G PROVE k + 1 \in G
  <2>1. PICK T : Steps(T, k)
    BY <1>2
  <2> DEFINE U == [i \in 0..k + 1 |-> IF i = k + 1 THEN F[<<T[k], k + 1>>] ELSE T[i]]
  <2>2. F[<<T[k], k + 1>>] \in S
    <3>1. T[k] \in S
      BY <2>1
    <3> QED
      BY <3>1
  <2>3. U \in [0..k + 1 -> S]
    BY <2>1, <2>2
  <2>4. U[0] = a
    BY <2>1
  <2>5. ASSUME NEW i \in 1..k + 1 PROVE U[i] = F[<<U[i - 1], i>>]
    <3>1. CASE i = k + 1
      <4>1. U[i] = F[<<T[k], k + 1>>] /\ U[i - 1] = T[k]
        BY <3>1
      <4> QED
        BY <3>1, <4>1
    <3>2. CASE i \in 1..k
      <4>1. U[i] = T[i] /\ U[i - 1] = T[i - 1]
        BY <3>2
      <4> QED
        BY <2>1, <3>2, <4>1
    <3> QED
      BY <3>1, <3>2
  <2>6. Steps(U, k + 1)
    BY <2>3, <2>4, <2>5
  <2> HIDE DEF Steps, U
  <2> QED
    BY <2>6
<1>3. n \in G
  <2> HIDE DEF G
  <2> QED
    BY <1>1, <1>2, Induction
<1>4. PICK T : Steps(T, n)
  BY <1>3
<1> QED
  BY <1>4 DEF Iterates

-----------------------------------------------------------------------------
(* The byte stuffing loop.                                                 *)

\* The states of the loop.
Loop == [flag : Flag, file : Nat, out : Seq(Char)]

\* The bytes a turn writes.
Copied(f, c) == IF GetFlag(f, c) = "DOT" THEN <<c, c>> ELSE <<c>>

\* A byte is written once, or twice when it is a dot that starts a line.
LEMMA CopiedType ==
  ASSUME NEW f \in Flag, NEW c \in Char
  PROVE  /\ GetFlag(f, c) \in Flag
         /\ Copied(f, c) \in Seq(Char)
         /\ Len(Copied(f, c)) = IF GetFlag(f, c) = "DOT" THEN 2 ELSE 1
<1>1. GetFlag(f, c) \in Flag
  BY DEF GetFlag, Flag, Char
<1> QED
  BY <1>1 DEF Copied

\* A turn of the loop, with names for its parts.
LEMMA TurnType ==
  ASSUME NEW s \in Loop, NEW c \in Char, NEW max \in Nat
  PROVE  /\ Turn(s, c, max) \in Loop
         /\ Turn(s, c, max) =
              IF Len(s.out) + 1 < max
              THEN [flag |-> GetFlag(s.flag, c), file |-> s.file + 1,
                    out |-> s.out \o Copied(s.flag, c)]
              ELSE s
<1>1. Turn(s, c, max) =
              IF Len(s.out) + 1 < max
              THEN [flag |-> GetFlag(s.flag, c), file |-> s.file + 1,
                    out |-> s.out \o Copied(s.flag, c)]
              ELSE s
  BY DEF Turn, Copied
<1>2. s.out \o Copied(s.flag, c) \in Seq(Char) /\ GetFlag(s.flag, c) \in Flag
  BY CopiedType, ConcatProperties DEF Loop
<1> QED
  BY <1>1, <1>2 DEF Loop

\* T has the states after each turn.
Turns(T, f, bytes, max) ==
  T = [i \in 0..Len(bytes) |-> IF i = 0 THEN [flag |-> f, file |-> 0, out |-> <<>>]
                               ELSE Turn(T[i - 1], bytes[i], max)]

\* The turns of the loop exist, and Stuff is the last of them.
LEMMA StuffTurns ==
  ASSUME NEW f \in Flag, NEW bytes \in Seq(Char), NEW max \in Nat
  PROVE  \E T : /\ Turns(T, f, bytes, max)
                /\ Stuff(f, bytes, max) = T[Len(bytes)]
<1> DEFINE a == [flag |-> f, file |-> 0, out |-> <<>>]
           F == [x \in Loop \X Nat |->
                   IF x[2] \in 1..Len(bytes) THEN Turn(x[1], bytes[x[2]], max) ELSE a]
<1>1. a \in Loop /\ Len(bytes) \in Nat
  BY DEF Loop
<1>2. F \in [Loop \X Nat -> Loop]
  BY <1>1, TurnType, ElementOfSeq
<1>3. PICK T : Iterates(T, Loop, a, F, Len(bytes))
  <2> HIDE DEF a, F
  <2> QED
    BY <1>1, <1>2, Recursion
<1>4. ASSUME NEW i \in 0..Len(bytes)
      PROVE  T[i] = IF i = 0 THEN a ELSE Turn(T[i - 1], bytes[i], max)
  <2>1. CASE i \in 1..Len(bytes)
    <3>1. T[i - 1] \in Loop /\ i \in Nat
      BY <1>1, <1>3, <2>1 DEF Iterates
    <3>2. F[<<T[i - 1], i>>] = Turn(T[i - 1], bytes[i], max)
      BY <2>1, <3>1
    <3> QED
      BY <1>1, <1>3, <2>1, <3>2 DEF Iterates
  <2> QED
    BY <1>1, <1>3, <2>1 DEF Iterates
<1>5. Turns(T, f, bytes, max)
  <2> HIDE DEF F
  <2> QED
    BY <1>3, <1>4 DEF Turns, Iterates
<1>6. Turns(CHOOSE U : Turns(U, f, bytes, max), f, bytes, max)
  BY <1>5, Zenon
<1>7. Stuff(f, bytes, max) = (CHOOSE U : Turns(U, f, bytes, max))[Len(bytes)]
  BY DEF Stuff, Turns
<1> QED
  BY <1>6, <1>7

\* How much of CR LF was just seen; a dot that is doubled needs both.
Weight(f) == IF f = "LF" THEN 2 ELSE IF f = "CR" THEN 1 ELSE 0

\* What holds after i turns.
Counts(s, i, max) ==
  /\ s \in Loop
  /\ s.file <= i /\ s.file <= Len(s.out) /\ Len(s.out) <= max
  /\ s.file = i \/ Len(s.out) + 1 >= max
  /\ 3 * (Len(s.out) - s.file) + Weight(s.flag) <= s.file + 2
  /\ Len(s.out) = max => Len(s.out) > s.file

\* The arithmetic of one turn: n bytes were taken and k written, now one more is
\* taken and d are written; u and v are what the last bytes weigh before and after.
LEMMA DotsAdd ==
  ASSUME NEW n \in Nat, NEW k \in Nat, NEW d \in Nat, NEW u \in Nat, NEW v \in Nat,
         3 * (k - n) + u <= n + 2, 3 * (d - 1) + v <= u + 1
  PROVE  3 * ((k + d) - (n + 1)) + v <= (n + 1) + 2
  OBVIOUS

\* A turn keeps the counts.
LEMMA TurnCounts ==
  ASSUME NEW i \in Nat, NEW max \in Nat, NEW s, Counts(s, i, max), NEW c \in Char
  PROVE  Counts(Turn(s, c, max), i + 1, max)
<1> DEFINE w == Copied(s.flag, c)
<1>1. /\ s \in Loop /\ s.flag \in Flag /\ s.file \in Nat /\ s.out \in Seq(Char)
      /\ Len(s.out) \in Nat
  BY LenProperties DEF Counts, Loop
<1>2. CASE Len(s.out) + 1 < max
  <2> DEFINE t == Turn(s, c, max)
             g == GetFlag(s.flag, c)
  <2>1. t \in Loop /\ t = [flag |-> g, file |-> s.file + 1, out |-> s.out \o w]
    <3> HIDE DEF w
    <3> QED
      BY <1>1, <1>2, TurnType DEF w
  <2>2. w \in Seq(Char) /\ Len(w) = IF g = "DOT" THEN 2 ELSE 1
    BY <1>1, CopiedType
  <2>3. /\ g = "DOT" => s.flag = "LF"
        /\ g = "LF" => s.flag = "CR"
    BY DEF GetFlag
  <2> HIDE DEF t, w, g
  <2>4. t.flag = g /\ t.file = s.file + 1 /\ Len(t.out) = Len(s.out) + Len(w)
    BY <1>1, <2>1, <2>2, ConcatProperties
  <2>5. Weight(g) \in Nat /\ Weight(s.flag) \in Nat
    BY DEF Weight
  <2>6. 3 * (Len(w) - 1) + Weight(g) <= Weight(s.flag) + 1
    BY <2>2, <2>3 DEF Weight
  <2>7. s.file = i
    BY <1>1, <1>2 DEF Counts
  <2>8. /\ Len(w) \in Nat /\ 1 <= Len(w) /\ Len(w) <= 2
        /\ t.file \in Nat /\ Len(t.out) \in Nat
    <3>1. Len(w) \in Nat /\ 1 <= Len(w) /\ Len(w) <= 2
      BY <2>2
    <3> QED
      BY <1>1, <2>4, <3>1
  <2>9. Counts(t, i + 1, max)
    <3>1. t \in Loop
      BY <2>1
    <3>2. 3 * (Len(s.out) - s.file) + Weight(s.flag) <= s.file + 2
          /\ s.file <= Len(s.out)
      BY DEF Counts
    <3>3. t.file = i + 1 /\ t.file <= i + 1
      BY <2>4, <2>7
    <3>6. t.file <= Len(t.out) /\ Len(t.out) <= max
      BY <1>1, <1>2, <2>4, <2>8, <3>2
    <3>4. 3 * (Len(t.out) - t.file) + Weight(t.flag) <= t.file + 2
      <4>1. /\ Weight(t.flag) = Weight(g) /\ Len(t.out) = Len(s.out) + Len(w)
            /\ t.file = s.file + 1
        BY <2>4
      <4>2. 3 * ((Len(s.out) + Len(w)) - (s.file + 1)) + Weight(g) <= (s.file + 1) + 2
        BY <1>1, <2>5, <2>6, <2>8, <3>2, DotsAdd
      <4> QED
        BY <4>1, <4>2
    <3>5. Len(t.out) = max => Len(t.out) > t.file
      BY <1>1, <1>2, <2>4, <2>8, <3>2
    <3> QED
      BY <3>1, <3>3, <3>4, <3>5, <3>6 DEF Counts
  <2> QED
    BY <2>9 DEF t
<1>3. CASE ~(Len(s.out) + 1 < max)
  <2>1. Turn(s, c, max) = s
    BY <1>1, <1>3, TurnType
  <2> QED
    BY <1>1, <1>3, <2>1 DEF Counts
<1> QED
  BY <1>2, <1>3

\* What the loop leaves.
LEMMA StuffCounts ==
  ASSUME NEW f \in Flag, NEW bytes \in Seq(Char), NEW max \in Nat \ {0}
  PROVE  Counts(Stuff(f, bytes, max), Len(bytes), max)
<1>1. PICK T : Turns(T, f, bytes, max) /\ Stuff(f, bytes, max) = T[Len(bytes)]
  BY StuffTurns
<1>2. Len(bytes) \in Nat
  OBVIOUS
<1> DEFINE G == {i \in Nat : i <= Len(bytes) => Counts(T[i], i, max)}
<1>3. 0 \in G
  <2>1. T[0] = [flag |-> f, file |-> 0, out |-> <<>>]
    BY <1>1, <1>2 DEF Turns
  <2>2. T[0] \in Loop /\ Len(T[0].out) = 0 /\ T[0].file = 0 /\ Weight(T[0].flag) <= 2
        /\ Weight(T[0].flag) \in Nat
    BY <2>1 DEF Loop, Weight
  <2> QED
    BY <2>2 DEF Counts
<1>4. ASSUME NEW i \in Nat, i \in G PROVE i + 1 \in G
  <2> SUFFICES ASSUME i + 1 <= Len(bytes) PROVE Counts(T[i + 1], i + 1, max)
    OBVIOUS
  <2>1. Counts(T[i], i, max) /\ bytes[i + 1] \in Char
    BY <1>2, <1>4
  <2>2. T[i + 1] = Turn(T[i], bytes[i + 1], max)
    BY <1>1, <1>2 DEF Turns
  <2> QED
    BY <2>1, <2>2, TurnCounts
<1>5. Len(bytes) \in G
  <2> HIDE DEF G
  <2> QED
    BY <1>2, <1>3, <1>4, Induction
<1> QED
  BY <1>1, <1>2, <1>5

-----------------------------------------------------------------------------
(* What the loop makes of a whole mail, one byte after the other.          *)

Coding(E, m) ==
  /\ E \in [0..Len(m) -> [flag : Flag, out : Seq(Char)]]
  /\ E[0] = [flag |-> "LF", out |-> <<>>]
  /\ \A i \in 1..Len(m) :
       E[i] = [flag |-> GetFlag(E[i - 1].flag, m[i]),
               out |-> E[i - 1].out \o Copied(E[i - 1].flag, m[i])]
Code(m) == CHOOSE E : Coding(E, m)

\* The flag after i bytes of m, and what was written of them.
FlagAfter(m, i) == Code(m)[i].flag
Stuffed(m, i) == Code(m)[i].out

\* The code of a mail exists.
LEMMA CodeExists ==
  ASSUME NEW m \in Seq(Char)
  PROVE  Coding(Code(m), m)
<1> DEFINE S == [flag : Flag, out : Seq(Char)]
           a == [flag |-> "LF", out |-> <<>>]
           Step(s, c) == [flag |-> GetFlag(s.flag, c), out |-> s.out \o Copied(s.flag, c)]
           F == [x \in S \X Nat |-> IF x[2] \in 1..Len(m) THEN Step(x[1], m[x[2]]) ELSE a]
<1>1. a \in S /\ Len(m) \in Nat
  BY DEF Flag
<1>2. ASSUME NEW s \in S, NEW c \in Char PROVE Step(s, c) \in S
  BY CopiedType, ConcatProperties
<1>3. F \in [S \X Nat -> S]
  <2> HIDE DEF S, a, Step
  <2> QED
    BY <1>1, <1>2, ElementOfSeq
<1>4. PICK T : Iterates(T, S, a, F, Len(m))
  <2> HIDE DEF S, a, F
  <2> QED
    BY <1>1, <1>3, Recursion
<1>5. ASSUME NEW i \in 1..Len(m) PROVE T[i] = Step(T[i - 1], m[i])
  <2> HIDE DEF S, a, Step
  <2>1. T[i - 1] \in S /\ i \in Nat
    BY <1>1, <1>4 DEF Iterates
  <2> QED
    BY <1>4, <2>1 DEF Iterates
<1>6. Coding(T, m)
  BY <1>4, <1>5 DEF Coding, Iterates
<1> QED
  BY <1>6, Zenon DEF Code

\* Each byte of a mail adds to its code what the loop writes of it.
LEMMA CodeSteps ==
  ASSUME NEW m \in Seq(Char)
  PROVE  /\ \A i \in 0..Len(m) : FlagAfter(m, i) \in Flag /\ Stuffed(m, i) \in Seq(Char)
         /\ FlagAfter(m, 0) = "LF" /\ Stuffed(m, 0) = <<>>
         /\ \A i \in 1..Len(m) :
              /\ FlagAfter(m, i) = GetFlag(FlagAfter(m, i - 1), m[i])
              /\ Stuffed(m, i) = Stuffed(m, i - 1) \o Copied(FlagAfter(m, i - 1), m[i])
<1> DEFINE E == Code(m)
<1>1. /\ E \in [0..Len(m) -> [flag : Flag, out : Seq(Char)]]
      /\ E[0] = [flag |-> "LF", out |-> <<>>]
      /\ \A i \in 1..Len(m) :
           E[i] = [flag |-> GetFlag(E[i - 1].flag, m[i]),
                   out |-> E[i - 1].out \o Copied(E[i - 1].flag, m[i])]
  BY CodeExists DEF Coding
<1> HIDE DEF E
<1>2. \A i \in 0..Len(m) : E[i].flag \in Flag /\ E[i].out \in Seq(Char)
  BY <1>1
<1>3. E[0].flag = "LF" /\ E[0].out = <<>>
  BY <1>1
<1>4. ASSUME NEW i \in 1..Len(m)
      PROVE  /\ E[i].flag = GetFlag(E[i - 1].flag, m[i])
             /\ E[i].out = E[i - 1].out \o Copied(E[i - 1].flag, m[i])
  <2> DEFINE g == GetFlag(E[i - 1].flag, m[i])
             o == E[i - 1].out \o Copied(E[i - 1].flag, m[i])
  <2>1. E[i] = [flag |-> g, out |-> o]
    BY <1>1
  <2> HIDE DEF g, o
  <2>2. E[i].flag = g /\ E[i].out = o
    BY <2>1
  <2> QED
    BY <2>2 DEF g, o
<1> QED
  BY <1>2, <1>3, <1>4 DEF E, FlagAfter, Stuffed

\* Bytes are appended in any order.
LEMMA Associative ==
  \A x, y, z \in Seq(Char) : x \o (y \o z) = (x \o y) \o z
  BY ConcatAssociative

\* After some turns on bytes that follow the first i of m.
Follows(s, m, i) ==
  /\ i + s.file <= Len(m)
  /\ s.flag = FlagAfter(m, i + s.file)
  /\ Stuffed(m, i) \o s.out = Stuffed(m, i + s.file)

\* A turn takes the next byte of the mail as the whole mail would be taken.
LEMMA TurnFollows ==
  ASSUME NEW m \in Seq(Char), NEW i \in 0..Len(m), NEW max \in Nat,
         NEW s \in Loop, Follows(s, m, i),
         i + s.file < Len(m)
  PROVE  Follows(Turn(s, m[i + s.file + 1], max), m, i)
<1> DEFINE j == i + s.file
           c == m[j + 1]
<1>1. /\ s.flag \in Flag /\ s.file \in Nat /\ s.out \in Seq(Char)
      /\ j \in 0..Len(m) /\ j + 1 \in 1..Len(m) /\ c \in Char
  BY DEF Loop
<1>2. CASE Len(s.out) + 1 < max
  <2> DEFINE w == Copied(s.flag, c)
             t == Turn(s, c, max)
  <2>1. t.flag = GetFlag(s.flag, c) /\ t.file = s.file + 1 /\ t.out = s.out \o w
    <3> HIDE DEF c, w
    <3>1. t = [flag |-> GetFlag(s.flag, c), file |-> s.file + 1, out |-> s.out \o w]
      BY <1>1, <1>2, TurnType DEF w
    <3> QED
      BY <3>1
  <2>2. w \in Seq(Char)
    <3> HIDE DEF c
    <3> QED
      BY <1>1, CopiedType
  <2>5. s.flag = FlagAfter(m, j) /\ Stuffed(m, i) \o s.out = Stuffed(m, j)
    BY DEF Follows
  <2>6. Stuffed(m, i) \in Seq(Char)
    BY CodeSteps
  <2>7. /\ FlagAfter(m, j + 1) = GetFlag(FlagAfter(m, j), c)
        /\ Stuffed(m, j + 1) = Stuffed(m, j) \o Copied(FlagAfter(m, j), c)
    <3> DEFINE n == j + 1
    <3>1. n \in 1..Len(m) /\ n - 1 = j /\ c = m[n]
      BY <1>1
    <3> HIDE DEF n, j, c
    <3>2. n \in 1..Len(m) =>
            /\ FlagAfter(m, n) = GetFlag(FlagAfter(m, n - 1), m[n])
            /\ Stuffed(m, n) = Stuffed(m, n - 1) \o Copied(FlagAfter(m, n - 1), m[n])
      BY CodeSteps
    <3> QED
      BY <3>1, <3>2 DEF n
  <2>3. i + t.file = j + 1
    <3> HIDE DEF t
    <3> QED
      BY <1>1, <2>1
  <2> HIDE DEF t, c, j
  <2>8. w = Copied(FlagAfter(m, j), c)
    BY <2>5
  <2> HIDE DEF w
  <2>9. Stuffed(m, i) \o (s.out \o w) = (Stuffed(m, i) \o s.out) \o w
    BY <1>1, <2>2, <2>6, Associative
  <2>10. Stuffed(m, i) \o t.out = Stuffed(m, j + 1)
    BY <2>1, <2>5, <2>7, <2>8, <2>9
  <2>11. t.flag = FlagAfter(m, j + 1)
    BY <2>1, <2>5, <2>7
  <2>12. Follows(t, m, i)
    BY <1>1, <2>3, <2>10, <2>11 DEF Follows
  <2> QED
    BY <2>12 DEF t, c, j
<1>3. CASE ~(Len(s.out) + 1 < max)
  <2>1. Turn(s, c, max) = s
    BY <1>3 DEF Turn
  <2> QED
    BY <2>1
<1> QED
  BY <1>2, <1>3

\* The loop continues where it stopped: its parts add up to the whole.
LEMMA StuffFollows ==
  ASSUME NEW m \in Seq(Char), NEW i \in 0..Len(m), NEW bytes \in Seq(Char),
         i + Len(bytes) <= Len(m), \A k \in 1..Len(bytes) : bytes[k] = m[i + k],
         NEW max \in Nat \ {0}
  PROVE  Follows(Stuff(FlagAfter(m, i), bytes, max), m, i)
<1> DEFINE f == FlagAfter(m, i)
<1>1. f \in Flag /\ Len(bytes) \in Nat /\ Stuffed(m, i) \in Seq(Char)
  BY CodeSteps
<1>2. PICK T : Turns(T, f, bytes, max) /\ Stuff(f, bytes, max) = T[Len(bytes)]
  BY <1>1, StuffTurns
<1> DEFINE G == {k \in Nat : k <= Len(bytes) => Counts(T[k], k, max) /\ Follows(T[k], m, i)}
<1>3. 0 \in G
  <2>1. T[0] = [flag |-> f, file |-> 0, out |-> <<>>]
    BY <1>1, <1>2 DEF Turns
  <2>2. T[0] \in Loop /\ Len(T[0].out) = 0 /\ T[0].file = 0 /\ Weight(T[0].flag) <= 2
        /\ Weight(T[0].flag) \in Nat
    BY <1>1, <2>1 DEF Loop, Weight
  <2>3. Counts(T[0], 0, max)
    BY <2>2 DEF Counts
  <2>4. T[0].flag = f /\ T[0].file = 0 /\ T[0].out = <<>> /\ i + 0 = i
    BY <2>1
  <2>5. Stuffed(m, i) \o <<>> = Stuffed(m, i)
    BY <1>1, ConcatEmptySeq
  <2>6. Follows(T[0], m, i)
    BY <2>4, <2>5 DEF Follows
  <2> QED
    BY <2>3, <2>6
<1>4. ASSUME NEW k \in Nat, k \in G PROVE k + 1 \in G
  <2> SUFFICES ASSUME k + 1 <= Len(bytes)
               PROVE  Counts(T[k + 1], k + 1, max) /\ Follows(T[k + 1], m, i)
    OBVIOUS
  <2> DEFINE s == T[k]
  <2>1. Counts(s, k, max) /\ Follows(s, m, i) /\ bytes[k + 1] \in Char
    BY <1>1, <1>4
  <2>2. T[k + 1] = Turn(s, bytes[k + 1], max)
    BY <1>1, <1>2 DEF Turns
  <2> HIDE DEF s
  <2>3. Counts(T[k + 1], k + 1, max)
    BY <2>1, <2>2, TurnCounts
  <2>4. s \in Loop /\ s.file \in Nat /\ (s.file = k \/ ~(Len(s.out) + 1 < max))
    <3>1. /\ s \in Loop /\ s.file \in Nat /\ s.out \in Seq(Char)
          /\ s.file = k \/ Len(s.out) + 1 >= max
      BY <2>1 DEF Counts, Loop
    <3> QED
      BY <3>1, LenProperties
  <2>5. CASE s.file = k
    <3>1. bytes[k + 1] = m[i + s.file + 1] /\ i + s.file < Len(m)
      <4>1. i + (k + 1) = i + k + 1
        OBVIOUS
      <4> QED
        BY <1>1, <2>5, <4>1
    <3> QED
      BY <2>1, <2>2, <2>3, <2>4, <3>1, TurnFollows
  <2>6. CASE ~(Len(s.out) + 1 < max)
    <3>1. T[k + 1] = s
      BY <2>2, <2>6 DEF Turn
    <3> QED
      BY <2>1, <2>3, <3>1
  <2> QED
    BY <2>4, <2>5, <2>6
<1>5. Len(bytes) \in G
  <2> HIDE DEF G
  <2> QED
    BY <1>1, <1>3, <1>4, Induction
<1> QED
  BY <1>1, <1>2, <1>5

-----------------------------------------------------------------------------
(* Where the bytes of a mail are in what is sent.                          *)

\* The i-th byte of m is a dot that starts a line.
Doubled(m, i) == GetFlag(FlagAfter(m, i - 1), m[i]) = "DOT"

\* Where the i-th byte of m is.
Place(m, i) == Len(Stuffed(m, i))

\* s starts with x.
Extends(s, x) == Len(x) <= Len(s) /\ \A p \in 1..Len(x) : s[p] = x[p]

\* A place is a length, and before the first byte nothing is written.
LEMMA PlaceType ==
  ASSUME NEW m \in Seq(Char), NEW i \in 0..Len(m)
  PROVE  Place(m, i) \in Nat /\ Place(m, 0) = 0
<1>1. Stuffed(m, i) \in Seq(Char) /\ Stuffed(m, 0) = <<>>
  BY CodeSteps
<1> QED
  BY <1>1, LenProperties DEF Place

\* Only a dot after CR LF is doubled.
LEMMA DoubledDot ==
  ASSUME NEW m \in Seq(Char), NEW i \in 1..Len(m), Doubled(m, i)
  PROVE  m[i] = "DOT" /\ FlagAfter(m, i - 1) = "LF"
  BY DEF Doubled, GetFlag

\* A byte more.
LEMMA StuffedStep ==
  ASSUME NEW m \in Seq(Char), NEW i \in 1..Len(m)
  PROVE  /\ Place(m, i) = Place(m, i - 1) + (IF Doubled(m, i) THEN 2 ELSE 1)
         /\ \A p \in 1..Place(m, i - 1) : Stuffed(m, i)[p] = Stuffed(m, i - 1)[p]
         /\ Stuffed(m, i)[Place(m, i)] = m[i]
         /\ Doubled(m, i) => Stuffed(m, i)[Place(m, i) - 1] = "DOT"
<1> DEFINE f == FlagAfter(m, i - 1)
           c == m[i]
           w == Copied(f, c)
           x == Stuffed(m, i - 1)
           y == Stuffed(m, i)
<1>1. f \in Flag /\ x \in Seq(Char) /\ y \in Seq(Char) /\ y = x \o w
  <2>1. i \in 0..Len(m) /\ i - 1 \in 0..Len(m)
    OBVIOUS
  <2> QED
    BY <2>1, CodeSteps
<1>2. w \in Seq(Char) /\ Len(w) = (IF Doubled(m, i) THEN 2 ELSE 1)
  <2>1. c \in Char
    OBVIOUS
  <2> HIDE DEF f, c
  <2> QED
    BY <1>1, <2>1, CopiedType DEF Doubled, f, c
<1>3. w[Len(w)] = c /\ (Doubled(m, i) => w[1] = c)
  BY DEF Copied, Doubled
<1>4. Doubled(m, i) => c = "DOT"
  BY DoubledDot
<1> HIDE DEF f, c, w, x, y
<1>5. /\ Len(y) = Len(x) + Len(w)
      /\ \A p \in 1..Len(x) + Len(w) : y[p] = IF p <= Len(x) THEN x[p] ELSE w[p - Len(x)]
  BY <1>1, <1>2, ConcatProperties
<1>6. Len(x) \in Nat /\ Len(w) \in Nat
  BY <1>1, <1>2
<1>7. \A p \in 1..Len(x) : y[p] = x[p]
  BY <1>5, <1>6
<1>8. y[Len(y)] = c
  <2>1. Len(y) \in 1..Len(x) + Len(w) /\ ~(Len(y) <= Len(x)) /\ Len(y) - Len(x) = Len(w)
    BY <1>2, <1>5, <1>6
  <2>2. y[Len(y)] = w[Len(w)]
    BY <1>5, <2>1
  <2> QED
    BY <1>3, <2>2
<1>9. ASSUME Doubled(m, i) PROVE y[Len(y) - 1] = "DOT"
  <2>1. /\ Len(y) - 1 \in 1..Len(x) + Len(w) /\ ~(Len(y) - 1 <= Len(x))
        /\ Len(y) - 1 - Len(x) = 1
    BY <1>2, <1>5, <1>6, <1>9
  <2>2. y[Len(y) - 1] = w[1]
    BY <1>5, <2>1
  <2> QED
    BY <1>3, <1>4, <1>9, <2>2
<1> QED
  BY <1>2, <1>5, <1>7, <1>8, <1>9 DEF x, y, c, Place

\* What is written stays where it is.
LEMMA StuffedExtends ==
  ASSUME NEW m \in Seq(Char), NEW i \in 0..Len(m), NEW j \in i..Len(m)
  PROVE  Extends(Stuffed(m, j), Stuffed(m, i))
<1> DEFINE G == {k \in Nat : i + k <= Len(m) => Extends(Stuffed(m, i + k), Stuffed(m, i))}
<1>1. Len(m) \in Nat /\ i \in Nat /\ j \in Nat
  OBVIOUS
<1>2. 0 \in G
  BY <1>1, PlaceType DEF Extends, Place
<1>3. ASSUME NEW k \in Nat, k \in G PROVE k + 1 \in G
  <2> SUFFICES ASSUME i + (k + 1) <= Len(m)
               PROVE  Extends(Stuffed(m, i + (k + 1)), Stuffed(m, i))
    OBVIOUS
  <2> DEFINE n == i + (k + 1)
  <2>1. n \in 1..Len(m) /\ n - 1 = i + k /\ n - 1 \in 0..Len(m)
    BY <1>1
  <2>2. Extends(Stuffed(m, n - 1), Stuffed(m, i))
    BY <1>1, <1>3, <2>1
  <2> HIDE DEF n
  <2>3. /\ Place(m, n) = Place(m, n - 1) + (IF Doubled(m, n) THEN 2 ELSE 1)
        /\ \A p \in 1..Place(m, n - 1) : Stuffed(m, n)[p] = Stuffed(m, n - 1)[p]
        /\ Place(m, n - 1) \in Nat /\ Place(m, i) \in Nat
    BY <2>1, StuffedStep, PlaceType
  <2>4. Place(m, i) <= Place(m, n - 1)
    BY <2>2 DEF Extends, Place
  <2>5. Place(m, i) <= Place(m, n)
    BY <2>3, <2>4
  <2>6. ASSUME NEW p \in 1..Place(m, i) PROVE Stuffed(m, n)[p] = Stuffed(m, i)[p]
    <3>1. p \in 1..Place(m, n - 1)
      BY <2>3, <2>4
    <3>2. Stuffed(m, n - 1)[p] = Stuffed(m, i)[p]
      BY <2>2 DEF Extends, Place
    <3> QED
      BY <2>3, <3>1, <3>2
  <2>7. Extends(Stuffed(m, n), Stuffed(m, i))
    BY <2>5, <2>6 DEF Extends, Place
  <2> QED
    BY <2>7 DEF n
<1>4. j - i \in G
  <2>1. j - i \in Nat
    BY <1>1
  <2> HIDE DEF G
  <2> QED
    BY <1>2, <1>3, <2>1, Induction
<1>5. i + (j - i) = j
  BY <1>1
<1> QED
  BY <1>1, <1>4, <1>5

\* The bytes of m in whatever starts with the whole mail.
LEMMA Placed ==
  ASSUME NEW m \in Seq(Char), NEW s \in Seq(Char), Extends(s, Stuffed(m, Len(m))),
         NEW i \in 1..Len(m)
  PROVE  /\ Place(m, i - 1) \in Nat /\ Place(m, i) \in Nat
         /\ Place(m, i) = Place(m, i - 1) + (IF Doubled(m, i) THEN 2 ELSE 1)
         /\ Place(m, i) <= Place(m, Len(m))
         /\ s[Place(m, i)] = m[i]
         /\ Doubled(m, i) => s[Place(m, i) - 1] = "DOT"
<1> DEFINE n == Len(m)
           a == Place(m, i - 1)
           b == Place(m, i)
           z == Place(m, n)
<1>1. n \in Nat /\ n \in i..n /\ i \in 0..n /\ i - 1 \in 0..n /\ n \in 0..n
  OBVIOUS
<1>2. a \in Nat /\ b \in Nat /\ z \in Nat
  BY <1>1, PlaceType
<1>3. /\ b = a + (IF Doubled(m, i) THEN 2 ELSE 1)
      /\ Stuffed(m, i)[b] = m[i]
      /\ Doubled(m, i) => Stuffed(m, i)[b - 1] = "DOT"
  BY StuffedStep
<1>4. Extends(Stuffed(m, n), Stuffed(m, i))
  BY <1>1, StuffedExtends
<1>5. b <= z /\ \A p \in 1..b : Stuffed(m, n)[p] = Stuffed(m, i)[p]
  BY <1>4 DEF Extends, Place
<1>6. \A p \in 1..z : s[p] = Stuffed(m, n)[p]
  BY DEF Extends, Place
<1> HIDE DEF a, b, z, n
<1>7. b \in 1..b /\ b \in 1..z /\ (Doubled(m, i) => b - 1 \in 1..b /\ b - 1 \in 1..z)
  BY <1>2, <1>3, <1>5
<1> QED
  BY <1>2, <1>3, <1>5, <1>6, <1>7 DEF a, b, z, n

-----------------------------------------------------------------------------
(* Where the client sees lines start.                                      *)

\* The flag remembers whether the last bytes are CR, or CR LF.
LEMMA LineFlag ==
  ASSUME NEW m \in Seq(Char), NEW i \in 0..Len(m)
  PROVE  FlagAfter(m, i) = "LF" <=> i = 0 \/ (i > 1 /\ m[i] = "LF" /\ m[i - 1] = "CR")
<1>1. Len(m) \in Nat /\ i \in Nat
  OBVIOUS
<1>2. CASE i = 0
  BY <1>2, CodeSteps
<1>3. CASE i = 1
  <2>1. FlagAfter(m, 0) = "LF" /\ FlagAfter(m, 1) = GetFlag(FlagAfter(m, 0), m[1])
    <3>1. 1 \in 1..Len(m) /\ 1 - 1 = 0
      BY <1>1, <1>3
    <3> QED
      BY <3>1, CodeSteps
  <2>2. FlagAfter(m, 1) # "LF"
    BY <2>1 DEF GetFlag
  <2> QED
    BY <1>3, <2>2
<1>4. CASE i > 1
  <2> DEFINE j == i - 1
             h == FlagAfter(m, j - 1)
  <2>1. i \in 1..Len(m) /\ j \in 1..Len(m)
    BY <1>1, <1>4
  <2>2. FlagAfter(m, i) = GetFlag(FlagAfter(m, j), m[i])
    BY <2>1, CodeSteps
  <2>3. FlagAfter(m, j) = GetFlag(h, m[j])
    BY <2>1, CodeSteps
  <2> HIDE DEF j, h
  <2>4. FlagAfter(m, i) = "LF" <=> m[i] = "LF" /\ FlagAfter(m, j) = "CR"
    BY <2>2 DEF GetFlag
  <2>5. FlagAfter(m, j) = "CR" <=> m[j] = "CR"
    BY <2>3 DEF GetFlag
  <2> QED
    BY <1>4, <2>4, <2>5 DEF j
<1> QED
  BY <1>1, <1>2, <1>3, <1>4

\* After i bytes of the mail a line starts, for the client, when the flag says so.
LEMMA StartsLine ==
  ASSUME NEW m \in Seq(Char), NEW s \in Seq(Char), Extends(s, Stuffed(m, Len(m))),
         NEW i \in 0..Len(m)
  PROVE  LineStart(s, Place(m, i) + 1) <=> FlagAfter(m, i) = "LF"
<1> DEFINE p == Place(m, i)
<1>1. Len(m) \in Nat /\ i \in Nat
  OBVIOUS
<1>2. p \in Nat /\ Place(m, 0) = 0
  BY PlaceType
<1>3. CASE i = 0
  BY <1>2, <1>3, LineFlag DEF LineStart
<1>4. CASE i > 0
  <2> DEFINE q == Place(m, i - 1)
  <2>1. /\ q \in Nat /\ p = q + (IF Doubled(m, i) THEN 2 ELSE 1)
        /\ s[p] = m[i] /\ (Doubled(m, i) => m[i] = "DOT")
    <3>1. i \in 1..Len(m)
      BY <1>1, <1>4
    <3> QED
      BY <3>1, Placed, DoubledDot
  <2> HIDE DEF p, q
  <2>2. p > 0 /\ p + 1 # 1 /\ p + 1 - 1 = p /\ p + 1 - 2 = p - 1
    BY <1>2, <2>1
  <2>3. LineStart(s, p + 1) <=> p > 1 /\ s[p - 1] = "CR" /\ s[p] = "LF"
    BY <1>2, <2>2 DEF LineStart
  <2>4. CASE m[i] # "LF"
    BY <1>4, <2>1, <2>3, <2>4, LineFlag DEF p
  <2>5. CASE m[i] = "LF"
    <3>1. p = q + 1 /\ p - 1 = q
      BY <2>1, <2>5
    <3>2. CASE i = 1
      <4>1. q = 0
        BY <1>2, <3>2 DEF q
      <4>2. ~(p > 1)
        BY <3>1, <4>1
      <4>3. FlagAfter(m, i) # "LF"
        BY <3>2, LineFlag
      <4> QED
        BY <2>3, <4>2, <4>3 DEF p
    <3>3. CASE i > 1
      <4>1. i - 1 \in 1..Len(m)
        BY <1>1, <3>3
      <4>2. /\ s[q] = m[i - 1] /\ Place(m, i - 1 - 1) \in Nat
            /\ q = Place(m, i - 1 - 1) + (IF Doubled(m, i - 1) THEN 2 ELSE 1)
        BY <4>1, Placed DEF q
      <4>3. p > 1
        BY <3>1, <4>2
      <4>4. FlagAfter(m, i) = "LF" <=> m[i - 1] = "CR"
        BY <1>1, <2>5, <3>3, LineFlag
      <4> QED
        BY <2>1, <2>3, <2>5, <3>1, <4>2, <4>3, <4>4 DEF p
    <3> QED
      BY <1>1, <1>4, <3>2, <3>3
  <2> QED
    BY <2>4, <2>5
<1> QED
  BY <1>1, <1>3, <1>4

\* The dot that a dot was doubled with is the only one of them at its start.
LEMMA SecondDot ==
  ASSUME NEW m \in Seq(Char), NEW s \in Seq(Char), Extends(s, Stuffed(m, Len(m))),
         NEW i \in 1..Len(m), Doubled(m, i)
  PROVE  ~LineStart(s, Place(m, i))
<1> DEFINE p == Place(m, i)
<1>1. p \in Nat /\ p >= 2 /\ s[p - 1] = "DOT"
  <2>1. /\ Place(m, i - 1) \in Nat /\ Place(m, i) = Place(m, i - 1) + 2
        /\ s[Place(m, i) - 1] = "DOT"
    BY Placed
  <2> QED
    BY <2>1
<1> HIDE DEF p
<1>2. ~LineStart(s, p)
  BY <1>1 DEF LineStart
<1> QED
  BY <1>2 DEF p

\* Every byte of what is written belongs to a byte of the mail.
LEMMA WrittenFrom ==
  ASSUME NEW m \in Seq(Char), NEW p \in 1..Place(m, Len(m))
  PROVE  \E i \in 1..Len(m) :
           p = Place(m, i) \/ (Doubled(m, i) /\ p = Place(m, i) - 1)
<1> DEFINE T == {i \in 0..Len(m) : p <= Place(m, i)}
<1>1. Len(m) \in Nat /\ Place(m, Len(m)) \in Nat /\ p \in Nat /\ p > 0
  <2>1. Len(m) \in Nat /\ Len(m) \in 0..Len(m)
    OBVIOUS
  <2>2. Place(m, Len(m)) \in Nat
    BY <2>1, PlaceType
  <2> QED
    BY <2>1, <2>2
<1>2. Len(m) \in T
  BY <1>1
<1>3. PICK i \in T : \A k \in T : i <= k
  <2>1. T \subseteq Nat /\ T # {}
    BY <1>1, <1>2
  <2> HIDE DEF T
  <2> QED
    BY <2>1, Least
<1>4. i # 0
  BY <1>1, <1>3, PlaceType
<1>5. i \in 1..Len(m) /\ i - 1 \in 0..Len(m) /\ i - 1 \notin T
  BY <1>1, <1>3, <1>4
<1>6. ~(p <= Place(m, i - 1)) /\ p <= Place(m, i)
  BY <1>3, <1>5
<1>7. /\ Place(m, i) = Place(m, i - 1) + (IF Doubled(m, i) THEN 2 ELSE 1)
      /\ Place(m, i - 1) \in Nat
  BY <1>5, StuffedStep, PlaceType
<1> HIDE DEF T
<1>8. p = Place(m, i) \/ (Doubled(m, i) /\ p = Place(m, i) - 1)
  BY <1>1, <1>6, <1>7
<1> QED
  BY <1>5, <1>8

-----------------------------------------------------------------------------
(* What the client decodes.                                                *)

IsFlat(T, x) ==
  T = [i \in 1..Len(x) |-> IF i = 1 THEN x[i] ELSE T[i - 1] \o x[i]]

\* FlattenSeq appends the parts one after the other.
LEMMA FlattenSteps ==
  ASSUME NEW N \in Nat \ {0}, NEW x \in [1..N -> Seq(Char)]
  PROVE  \E T : /\ T \in [0..N -> Seq(Char)] /\ T[0] = <<>>
                /\ \A p \in 1..N : T[p] = T[p - 1] \o x[p]
                /\ FlattenSeq(x) = T[N]
<1> DEFINE S == Seq(Char)
           F == [y \in S \X Nat |-> IF y[2] \in 1..N THEN y[1] \o x[y[2]] ELSE <<>>]
<1>1. Len(x) = N /\ <<>> \in S
  OBVIOUS
<1>2. F \in [S \X Nat -> S]
  BY ConcatProperties
<1>3. PICK U : Iterates(U, S, <<>>, F, N)
  <2> HIDE DEF S, F
  <2> QED
    BY <1>1, <1>2, Recursion
<1>4. U \in [0..N -> S] /\ U[0] = <<>>
  BY <1>3 DEF Iterates
<1>5. ASSUME NEW p \in 1..N PROVE U[p] = U[p - 1] \o x[p]
  <2>1. U[p - 1] \in S /\ p \in Nat
    BY <1>4
  <2>2. F[<<U[p - 1], p>>] = U[p - 1] \o x[p]
    <3> HIDE DEF S
    <3> QED
      BY <2>1
  <2> QED
    BY <1>3, <2>2 DEF Iterates
<1>6. IsFlat([p \in 1..N |-> U[p]], x)
  <2>1. ASSUME NEW p \in 1..N
        PROVE  U[p] = IF p = 1 THEN x[p] ELSE [q \in 1..N |-> U[q]][p - 1] \o x[p]
    <3>1. CASE p = 1
      <4>1. p - 1 = 0
        BY <3>1
      <4>2. U[p] = <<>> \o x[p]
        BY <1>4, <1>5, <4>1
      <4> QED
        BY <3>1, <4>2, ConcatEmptySeq
    <3>2. CASE p # 1
      <4>1. p - 1 \in 1..N
        BY <3>2
      <4> QED
        BY <1>5, <3>2, <4>1
    <3> QED
      BY <3>1, <3>2
  <2> QED
    BY <1>1, <2>1 DEF IsFlat
<1> DEFINE V == CHOOSE T : IsFlat(T, x)
<1>7. IsFlat(V, x)
  BY <1>6, Zenon
<1>8. FlattenSeq(x) = V[N]
  BY <1>1 DEF FlattenSeq, IsFlat
<1> HIDE DEF V
<1>9. \A p \in 1..N : V[p] = IF p = 1 THEN x[p] ELSE V[p - 1] \o x[p]
  BY <1>1, <1>7 DEF IsFlat
<1> DEFINE G == {p \in Nat : p + 1 <= N => V[p + 1] = U[p + 1]}
<1>10. 0 \in G
  <2> DEFINE p == 1
  <2>1. p \in 1..N /\ p - 1 = 0 /\ p = 1
    OBVIOUS
  <2> HIDE DEF p
  <2>2. V[p] = x[p] /\ U[p] = U[p - 1] \o x[p] /\ x[p] \in Seq(Char)
    BY <1>5, <1>9, <2>1
  <2>3. U[p] = <<>> \o x[p]
    BY <1>4, <2>1, <2>2
  <2>4. V[p] = U[p]
    BY <2>2, <2>3, ConcatEmptySeq
  <2> QED
    BY <2>4 DEF p
<1>11. ASSUME NEW p \in Nat, p \in G PROVE p + 1 \in G
  <2> SUFFICES ASSUME p + 2 <= N PROVE V[p + 2] = U[p + 2]
    OBVIOUS
  <2> DEFINE q == p + 2
  <2>1. q \in 1..N /\ q # 1 /\ q - 1 = p + 1 /\ p + 1 <= N
    OBVIOUS
  <2> HIDE DEF q
  <2>2. V[q] = V[q - 1] \o x[q] /\ U[q] = U[q - 1] \o x[q]
    BY <1>5, <1>9, <2>1
  <2>3. V[q] = U[q]
    BY <1>11, <2>1, <2>2
  <2> QED
    BY <2>3 DEF q
<1>12. N - 1 \in G
  <2>1. N - 1 \in Nat
    OBVIOUS
  <2> HIDE DEF G
  <2> QED
    BY <1>10, <1>11, <2>1, Induction
<1>13. V[N] = U[N]
  BY <1>12
<1> QED
  BY <1>4, <1>5, <1>8, <1>13

\* The first i bytes are the first i - 1 and one more.
LEMMA OneMore ==
  ASSUME NEW m \in Seq(Char), NEW i \in 1..Len(m)
  PROVE  SubSeq(m, 1, i) = SubSeq(m, 1, i - 1) \o <<m[i]>>
<1>1. 1 \in 1..Len(m) /\ i \in 1..Len(m)
  OBVIOUS
<1> QED
  BY <1>1, SubSeqRecursiveSecond

\* The client that drops a dot at the start of each line has the mail.
LEMMA Decoded ==
  ASSUME NEW m \in Seq(Char)
  PROVE  Unstuffed(Stuffed(m, Len(m)) \o <<"CR", "LF">>) = m \o <<"CR", "LF">>
<1> DEFINE n == Len(m)
           z == Place(m, n)
           y == Stuffed(m, n)
           w == <<"CR", "LF">>
           s == y \o w
           N == Len(s)
           x == [p \in DOMAIN s |->
                   IF LineStart(s, p) /\ s[p] = "DOT" THEN <<>> ELSE <<s[p]>>]
<1>1. n \in Nat /\ n \in 0..n /\ z \in Nat /\ y \in Seq(Char) /\ z = Len(y)
  <2>1. n \in Nat /\ n \in 0..n
    OBVIOUS
  <2> QED
    BY <2>1, PlaceType, CodeSteps DEF Place
<1>2. w \in Seq(Char) /\ Len(w) = 2 /\ w[1] = "CR" /\ w[2] = "LF"
  BY DEF Char
<1>3. /\ s \in Seq(Char) /\ N = z + 2
      /\ \A p \in 1..z : s[p] = y[p]
      /\ s[z + 1] = "CR" /\ s[z + 2] = "LF"
  <2> HIDE DEF y, z, w
  <2>0. /\ y \o w \in Seq(Char) /\ Len(y \o w) = Len(y) + Len(w)
        /\ \A p \in 1..Len(y) + Len(w) :
             (y \o w)[p] = IF p <= Len(y) THEN y[p] ELSE w[p - Len(y)]
    BY <1>1, <1>2, ConcatProperties
  <2> HIDE DEF s
  <2>1. s \in Seq(Char) /\ N = z + 2
    BY <1>1, <1>2, <2>0 DEF s
  <2>2. \A p \in 1..z + 2 : s[p] = IF p <= z THEN y[p] ELSE w[p - z]
    BY <1>1, <1>2, <2>0 DEF s
  <2>3. \A p \in 1..z : s[p] = y[p]
    BY <1>1, <2>2
  <2>4. s[z + 1] = w[1]
    <3> DEFINE p == z + 1
    <3>1. p \in 1..z + 2 /\ ~(p <= z) /\ p - z = 1
      BY <1>1
    <3> HIDE DEF p
    <3>2. s[p] = w[p - z]
      BY <2>2, <3>1
    <3>3. s[p] = w[1]
      BY <3>1, <3>2
    <3> QED
      BY <3>3 DEF p
  <2>5. s[z + 2] = w[2]
    <3> DEFINE p == z + 2
    <3>1. p \in 1..z + 2 /\ ~(p <= z) /\ p - z = 2
      BY <1>1
    <3> HIDE DEF p
    <3>2. s[p] = w[p - z]
      BY <2>2, <3>1
    <3>3. s[p] = w[2]
      BY <3>1, <3>2
    <3> QED
      BY <3>3 DEF p
  <2> QED
    BY <1>2, <2>1, <2>3, <2>4, <2>5 DEF s
<1>4. Extends(s, y)
  BY <1>1, <1>3 DEF Extends
<1> HIDE DEF y, s
<1>5. N \in Nat \ {0} /\ DOMAIN s = 1..N
  BY <1>1, <1>3
<1>6. x \in [1..N -> Seq(Char)]
  BY <1>3, <1>5
<1>7. PICK T : /\ T \in [0..N -> Seq(Char)] /\ T[0] = <<>>
               /\ \A p \in 1..N : T[p] = T[p - 1] \o x[p]
               /\ FlattenSeq(x) = T[N]
  <2> HIDE DEF x, N
  <2> QED
    BY <1>5, <1>6, FlattenSteps
<1>8. \A p \in 1..N : x[p] = IF LineStart(s, p) /\ s[p] = "DOT" THEN <<>> ELSE <<s[p]>>
  BY <1>5
<1>9. Unstuffed(s) = T[N]
  BY <1>7 DEF Unstuffed
<1> HIDE DEF x, N, n
<1> DEFINE G == {i \in Nat : i <= n => T[Place(m, i)] = SubSeq(m, 1, i)}
<1>10. 0 \in G
  <2>1. Place(m, 0) = 0 /\ SubSeq(m, 1, 0) = <<>>
    BY <1>1, PlaceType DEF n
  <2> QED
    BY <1>7, <2>1
<1>11. ASSUME NEW k \in Nat, k \in G PROVE k + 1 \in G
  <2> SUFFICES ASSUME k + 1 <= n PROVE T[Place(m, k + 1)] = SubSeq(m, 1, k + 1)
    OBVIOUS
  <2> DEFINE i == k + 1
             a == Place(m, i - 1)
             b == Place(m, i)
  <2>1. i \in 1..n /\ i - 1 = k /\ i - 1 \in 0..n
    BY <1>1
  <2>2. T[a] = SubSeq(m, 1, i - 1)
    BY <1>1, <1>11, <2>1
  <2> HIDE DEF i
  <2>3. /\ a \in Nat /\ b \in Nat
        /\ b = a + (IF Doubled(m, i) THEN 2 ELSE 1)
        /\ b <= z
        /\ s[b] = m[i]
        /\ Doubled(m, i) => s[b - 1] = "DOT" /\ m[i] = "DOT"
    BY <1>3, <1>4, <2>1, Placed, DoubledDot DEF n, y
  <2>4. LineStart(s, a + 1) <=> FlagAfter(m, i - 1) = "LF"
    BY <1>3, <1>4, <2>1, StartsLine DEF n, y
  <2>5. Doubled(m, i) => ~LineStart(s, b)
    BY <1>3, <1>4, <2>1, SecondDot DEF n, y
  <2>6. Doubled(m, i) <=> FlagAfter(m, i - 1) = "LF" /\ m[i] = "DOT"
    BY DEF Doubled, GetFlag
  <2>7. T[a] \in Seq(Char) /\ m[i] \in Char /\ <<m[i]>> \in Seq(Char)
    BY <2>1, <2>2 DEF n
  <2> HIDE DEF a, b
  <2>8. b \in 1..N /\ (Doubled(m, i) => b - 1 \in 1..N)
    BY <1>1, <1>3, <2>3
  <2>9. T[b] = T[a] \o <<m[i]>>
    <3>1. CASE Doubled(m, i)
      <4>1. b - 1 = a + 1 /\ b - 1 - 1 = a
        BY <2>3, <3>1
      <4>2. x[b - 1] = <<>> /\ x[b] = <<m[i]>>
        BY <1>8, <2>3, <2>4, <2>5, <2>6, <2>8, <3>1, <4>1
      <4>3. T[b - 1] = T[a] \o <<>>
        BY <1>7, <2>8, <3>1, <4>1, <4>2
      <4>4. T[b - 1] = T[a]
        BY <2>7, <4>3, ConcatEmptySeq
      <4> QED
        BY <1>7, <2>8, <4>2, <4>4
    <3>2. CASE ~Doubled(m, i)
      <4>1. b = a + 1 /\ b - 1 = a
        BY <2>3, <3>2
      <4>2. x[b] = <<m[i]>>
        BY <1>8, <2>3, <2>4, <2>6, <2>8, <3>2, <4>1
      <4> QED
        BY <1>7, <2>8, <4>1, <4>2
    <3> QED
      BY <3>1, <3>2
  <2>10. SubSeq(m, 1, i) = SubSeq(m, 1, i - 1) \o <<m[i]>>
    BY <2>1, OneMore DEF n
  <2>11. T[b] = SubSeq(m, 1, i)
    BY <2>2, <2>9, <2>10
  <2> QED
    BY <2>11 DEF b, i
<1>12. n \in G
  <2> HIDE DEF G
  <2> QED
    BY <1>1, <1>10, <1>11, Induction
<1>13. T[z] = m
  <2>1. SubSeq(m, 1, n) = m
    BY SubSeqFull DEF n
  <2> QED
    BY <1>1, <1>12, <2>1
<1> HIDE DEF z
<1>14. T[N] = m \o <<"CR", "LF">>
  <2>1. z + 1 \in 1..N /\ z + 2 \in 1..N /\ z + 1 - 1 = z /\ z + 2 - 1 = z + 1 /\ N = z + 2
    BY <1>1, <1>3 DEF N
  <2>2. x[z + 1] = <<"CR">> /\ x[z + 2] = <<"LF">>
    BY <1>3, <1>8, <2>1
  <2>3. \A p \in 1..N : T[p] = T[p - 1] \o x[p]
    BY <1>7
  <2> DEFINE p == z + 1
             q == z + 2
  <2>6. p \in 1..N /\ q \in 1..N /\ p - 1 = z /\ q - 1 = p /\ N = q
    BY <1>1, <2>1
  <2> HIDE DEF p, q
  <2>7. T[p] = T[z] \o x[p] /\ T[q] = T[p] \o x[q]
    BY <2>3, <2>6
  <2>4. (m \o <<"CR">>) \o <<"LF">> = m \o (<<"CR">> \o <<"LF">>)
    <3>1. <<"CR">> \in Seq(Char) /\ <<"LF">> \in Seq(Char)
      BY DEF Char
    <3> QED
      BY <3>1, Associative
  <2>5. <<"CR">> \o <<"LF">> = <<"CR", "LF">>
    <3> DEFINE c == <<"CR">>
               l == <<"LF">>
    <3>1. /\ c \in Seq(Char) /\ l \in Seq(Char) /\ Len(c) = 1 /\ Len(l) = 1
          /\ c[1] = "CR" /\ l[1] = "LF"
      BY DEF Char
    <3> HIDE DEF c, l
    <3>2. /\ c \o l \in Seq(Char) /\ Len(c \o l) = Len(c) + Len(l)
          /\ \A k \in 1..Len(c) + Len(l) :
               (c \o l)[k] = IF k <= Len(c) THEN c[k] ELSE l[k - Len(c)]
      BY <3>1, ConcatProperties
    <3>3. Len(c \o l) = 2 /\ (c \o l)[1] = "CR" /\ (c \o l)[2] = "LF"
      BY <3>1, <3>2
    <3>4. w \in Seq(Char) /\ Len(w) = 2 /\ w[1] = "CR" /\ w[2] = "LF"
      BY <1>2
    <3> HIDE DEF w
    <3>5. c \o l = w
      <4>1. \A k \in 1..2 : k = 1 \/ k = 2
        OBVIOUS
      <4>2. \A k \in 1..Len(w) : (c \o l)[k] = w[k]
        BY <3>3, <3>4, <4>1
      <4> QED
        BY <3>2, <3>3, <3>4, <4>2, SeqEqual
    <3> QED
      BY <3>5 DEF c, l, w
  <2> QED
    <3>1. x[p] = <<"CR">> /\ x[q] = <<"LF">>
      BY <2>2 DEF p, q
    <3> QED
      BY <1>13, <2>4, <2>5, <2>6, <2>7, <3>1
<1> QED
  BY <1>9, <1>14 DEF s, w, y, n

-----------------------------------------------------------------------------
(* Where the client finds the end.                                         *)

\* The three bytes at i are those of the line that ends an answer.
LastLine(s, i) == s[i] = "DOT" /\ s[i + 1] = "CR" /\ s[i + 2] = "LF"

\* The client compares the three bytes of the last line one by one.
LEMMA ThreeBytes ==
  ASSUME NEW s \in Seq(Char), NEW i \in 1..Len(s) - 2
  PROVE  SubSeq(s, i, i + 2) = <<"DOT", "CR", "LF">> <=> LastLine(s, i)
<1> DEFINE t == SubSeq(s, i, i + 2)
           u == <<"DOT", "CR", "LF">>
<1>1. Len(s) \in Nat /\ i \in Nat /\ i >= 1 /\ i + 2 <= Len(s)
  OBVIOUS
<1>2. /\ t \in Seq(Char) /\ Len(t) = 3
      /\ t[1] = s[i] /\ t[2] = s[i + 1] /\ t[3] = s[i + 2]
  <2>1. /\ t = [k \in 1..3 |-> s[i + k - 1]]
        /\ i + 1 - 1 = i /\ i + 2 - 1 = i + 1 /\ i + 3 - 1 = i + 2
    BY <1>1
  <2>2. \A k \in 1..3 : s[i + k - 1] \in Char
    BY <1>1
  <2> HIDE DEF t
  <2>3. t \in Seq(Char) /\ Len(t) = 3
    BY <2>1, <2>2
  <2>4. t[1] = s[i + 1 - 1] /\ t[2] = s[i + 2 - 1] /\ t[3] = s[i + 3 - 1]
    BY <2>1
  <2> QED
    BY <2>1, <2>3, <2>4
<1>3. u \in Seq(Char) /\ Len(u) = 3 /\ u[1] = "DOT" /\ u[2] = "CR" /\ u[3] = "LF"
  BY DEF Char
<1> HIDE DEF t, u
<1>4. ASSUME LastLine(s, i) PROVE t = u
  <2>1. \A k \in 1..3 : k = 1 \/ k = 2 \/ k = 3
    OBVIOUS
  <2>2. \A k \in 1..Len(u) : t[k] = u[k]
    BY <1>2, <1>3, <1>4, <2>1 DEF LastLine
  <2> QED
    BY <1>2, <1>3, <2>2, SeqEqual
<1>5. ASSUME t = u PROVE LastLine(s, i)
  BY <1>2, <1>3, <1>5 DEF LastLine
<1> QED
  BY <1>4, <1>5 DEF t, u

\* The body of the answer, and where each of its bytes is.
Answer(m) == Stuffed(m, Len(m)) \o Terminator

\* The body of the answer is the code of the mail and the five bytes after it.
LEMMA AnswerBytes ==
  ASSUME NEW m \in Seq(Char)
  PROVE  LET s == Answer(m)
             z == Place(m, Len(m))
         IN  /\ s \in Seq(Char) /\ z \in Nat /\ Len(s) = z + 5
             /\ Extends(s, Stuffed(m, Len(m)))
             /\ s[z + 1] = "CR" /\ s[z + 2] = "LF" /\ LastLine(s, z + 3)
<1> DEFINE y == Stuffed(m, Len(m))
           z == Place(m, Len(m))
           s == Answer(m)
<1>1. y \in Seq(Char) /\ z \in Nat /\ z = Len(y) /\ s = y \o Terminator
  <2>1. Len(m) \in 0..Len(m)
    OBVIOUS
  <2> QED
    BY <2>1, PlaceType, CodeSteps DEF Place, Answer
<1>2. /\ Terminator \in Seq(Char) /\ Len(Terminator) = 5
      /\ Terminator[1] = "CR" /\ Terminator[2] = "LF" /\ Terminator[3] = "DOT"
      /\ Terminator[4] = "CR" /\ Terminator[5] = "LF"
  BY DEF Terminator, Char
<1> HIDE DEF y, z, s
<1>3. /\ s \in Seq(Char) /\ Len(s) = z + 5
      /\ \A p \in 1..z + 5 : s[p] = IF p <= z THEN y[p] ELSE Terminator[p - z]
  <2> DEFINE w == Terminator
  <2>1. w \in Seq(Char) /\ Len(w) = 5
    BY <1>2
  <2> HIDE DEF w
  <2>2. /\ y \o w \in Seq(Char) /\ Len(y \o w) = Len(y) + Len(w)
        /\ \A p \in 1..Len(y) + Len(w) :
             (y \o w)[p] = IF p <= Len(y) THEN y[p] ELSE w[p - Len(y)]
    BY <1>1, <2>1, ConcatProperties
  <2>3. s = y \o w
    BY <1>1 DEF w
  <2>4. /\ s \in Seq(Char) /\ Len(s) = z + 5
        /\ \A p \in 1..z + 5 : s[p] = IF p <= z THEN y[p] ELSE w[p - z]
    BY <1>1, <2>1, <2>2, <2>3
  <2> QED
    BY <2>4 DEF w
<1>4. Extends(s, y)
  BY <1>1, <1>3 DEF Extends
<1>5. ASSUME NEW d \in 1..5 PROVE s[z + d] = Terminator[d]
  <2> DEFINE p == z + d
  <2>1. p \in 1..z + 5 /\ ~(p <= z) /\ p - z = d
    BY <1>1
  <2> HIDE DEF p
  <2>2. s[p] = Terminator[d]
    BY <1>3, <2>1
  <2> QED
    BY <2>2 DEF p
<1>6. /\ s[z + 1] = "CR" /\ s[z + 2] = "LF" /\ s[z + 3] = "DOT"
      /\ s[z + 4] = "CR" /\ s[z + 5] = "LF"
  BY <1>2, <1>5
<1>7. z + 3 + 1 = z + 4 /\ z + 3 + 2 = z + 5
  BY <1>1
<1>8. LastLine(s, z + 3)
  BY <1>6, <1>7 DEF LastLine
<1> QED
  BY <1>1, <1>3, <1>4, <1>6, <1>8 DEF y, z, s

\* No line of the mail looks like the last line.
LEMMA NotInTheMail ==
  ASSUME NEW m \in Seq(Char), NEW s \in Seq(Char), Extends(s, Stuffed(m, Len(m))),
         NEW p \in 1..Place(m, Len(m)), LineStart(s, p), LastLine(s, p)
  PROVE  FALSE
<1>1. PICK k \in 1..Len(m) : p = Place(m, k) \/ (Doubled(m, k) /\ p = Place(m, k) - 1)
  BY WrittenFrom
<1>2. /\ Place(m, k - 1) \in Nat /\ Place(m, k) \in Nat
      /\ Place(m, k) = Place(m, k - 1) + (IF Doubled(m, k) THEN 2 ELSE 1)
      /\ s[Place(m, k)] = m[k]
  BY Placed
<1>3. CASE Doubled(m, k) /\ p = Place(m, k) - 1
  <2>1. p + 1 = Place(m, k)
    BY <1>2, <1>3
  <2>2. s[p + 1] = "DOT"
    BY <1>2, <1>3, <2>1, DoubledDot
  <2> QED
    BY <2>2 DEF LastLine
<1>4. CASE Doubled(m, k) /\ p = Place(m, k)
  BY <1>4, SecondDot
<1>5. CASE ~Doubled(m, k) /\ p = Place(m, k)
  <2>1. p = Place(m, k - 1) + 1 /\ k - 1 \in 0..Len(m)
    BY <1>2, <1>5
  <2>2. FlagAfter(m, k - 1) = "LF"
    BY <2>1, StartsLine
  <2>3. m[k] = "DOT"
    BY <1>2, <1>5 DEF LastLine
  <2>4. Doubled(m, k)
    BY <2>2, <2>3 DEF Doubled, GetFlag
  <2> QED
    BY <1>5, <2>4
<1> QED
  BY <1>1, <1>3, <1>4, <1>5

\* The client finds the end of an answer where it is.
LEMMA EndFound ==
  ASSUME NEW m \in Seq(Char)
  PROVE  EndsAt(Answer(m)) = {Len(Answer(m)) - 2}
<1> DEFINE s == Answer(m)
           z == Place(m, Len(m))
<1>1. /\ s \in Seq(Char) /\ z \in Nat /\ Len(s) = z + 5
      /\ Extends(s, Stuffed(m, Len(m)))
      /\ s[z + 1] = "CR" /\ s[z + 2] = "LF" /\ LastLine(s, z + 3)
  BY AnswerBytes
<1> HIDE DEF s
<1>2. ASSUME NEW i \in 1..Len(s) - 2
      PROVE  i \in EndsAt(s) <=> LineStart(s, i) /\ LastLine(s, i)
  BY <1>1, ThreeBytes DEF EndsAt
<1>3. Len(s) - 2 \in EndsAt(s)
  <2> DEFINE i == z + 3
  <2>1. i \in 1..Len(s) - 2 /\ i = Len(s) - 2 /\ i > 2 /\ i - 2 = z + 1 /\ i - 1 = z + 2
    BY <1>1
  <2>2. LastLine(s, i)
    BY <1>1
  <2> HIDE DEF i
  <2>3. LineStart(s, i)
    BY <1>1, <2>1 DEF LineStart
  <2> QED
    BY <1>2, <2>1, <2>2, <2>3
<1>4. ASSUME NEW i \in EndsAt(s) PROVE i = Len(s) - 2
  <2>1. i \in 1..Len(s) - 2
    BY DEF EndsAt
  <2>2. LineStart(s, i) /\ LastLine(s, i)
    BY <1>2, <2>1
  <2>3. CASE i \in 1..z
    BY <1>1, <2>2, <2>3, NotInTheMail DEF z
  <2>4. CASE i = z + 1 \/ i = z + 2
    BY <1>1, <2>2, <2>4 DEF LastLine
  <2> HIDE DEF z
  <2> QED
    BY <1>1, <2>1, <2>3, <2>4
<1> QED
  BY <1>3, <1>4 DEF s

\* It finds none in less than an answer.
LEMMA NoEndBefore ==
  ASSUME NEW m \in Seq(Char), NEW t \in Seq(Char),
         Extends(Answer(m), t), Len(t) < Len(Answer(m))
  PROVE  EndsAt(t) = {}
<1> DEFINE s == Answer(m)
<1>1. s \in Seq(Char) /\ Len(s) \in Nat /\ Len(t) \in Nat
  <2>1. s \in Seq(Char)
    BY AnswerBytes
  <2> HIDE DEF s
  <2> QED
    BY <2>1
<1>2. Len(t) < Len(s) /\ \A p \in 1..Len(t) : s[p] = t[p]
  BY DEF Extends
<1>3. EndsAt(s) = {Len(s) - 2}
  BY EndFound
<1> HIDE DEF s
<1> SUFFICES ASSUME NEW i \in EndsAt(t) PROVE FALSE
  OBVIOUS
<1>4. i \in 1..Len(t) - 2 /\ LineStart(t, i) /\ SubSeq(t, i, i + 2) = <<"DOT", "CR", "LF">>
  BY DEF EndsAt
<1>5. LastLine(t, i)
  BY <1>4, ThreeBytes
<1>6. /\ i \in 1..Len(s) - 2
      /\ i \in 1..Len(t) /\ i + 1 \in 1..Len(t) /\ i + 2 \in 1..Len(t)
      /\ (i > 2 => i - 2 \in 1..Len(t) /\ i - 1 \in 1..Len(t))
  BY <1>1, <1>2, <1>4
<1>7. LastLine(s, i)
  BY <1>2, <1>5, <1>6 DEF LastLine
<1>8. LineStart(s, i)
  BY <1>2, <1>4, <1>6 DEF LineStart
<1>9. i \in EndsAt(s)
  BY <1>1, <1>6, <1>7, <1>8, ThreeBytes DEF EndsAt
<1> QED
  BY <1>1, <1>2, <1>3, <1>4, <1>9

-----------------------------------------------------------------------------
(* Bytes that move.                                                        *)

\* Both parts of a sequence that is cut after n bytes.
LEMMA Cut ==
  ASSUME NEW x \in Seq(Char), NEW n \in 0..Len(x)
  PROVE  /\ SubSeq(x, 1, n) \in Seq(Char) /\ Len(SubSeq(x, 1, n)) = n
         /\ SubSeq(x, n + 1, Len(x)) \in Seq(Char)
         /\ Len(SubSeq(x, n + 1, Len(x))) = Len(x) - n
         /\ \A k \in 1..n : SubSeq(x, 1, n)[k] = x[k]
         /\ \A k \in 1..Len(x) - n : SubSeq(x, n + 1, Len(x))[k] = x[n + k]
<1> DEFINE z == Len(x)
           a == n + 1
<1>1. z \in Nat /\ n \in Nat /\ n <= z /\ 1 \in Int /\ n \in Int /\ a \in Int /\ z \in Int
  OBVIOUS
<1>2. (\A i \in 1..n : x[i] \in Char) /\ (\A i \in a..z : x[i] \in Char)
  OBVIOUS
<1> HIDE DEF z, a
<1>3. /\ SubSeq(x, 1, n) \in Seq(Char)
      /\ Len(SubSeq(x, 1, n)) = IF 1 <= n THEN n - 1 + 1 ELSE 0
      /\ \A i \in 1..n - 1 + 1 : SubSeq(x, 1, n)[i] = x[1 + i - 1]
  BY <1>1, <1>2, SubSeqProperties
<1>4. /\ SubSeq(x, a, z) \in Seq(Char)
      /\ Len(SubSeq(x, a, z)) = IF a <= z THEN z - a + 1 ELSE 0
      /\ \A i \in 1..z - a + 1 : SubSeq(x, a, z)[i] = x[a + i - 1]
  BY <1>1, <1>2, SubSeqProperties
<1>5. Len(SubSeq(x, 1, n)) = n
  BY <1>1, <1>3
<1>6. Len(SubSeq(x, a, z)) = z - n
  BY <1>1, <1>4 DEF a
<1>7. ASSUME NEW k \in 1..n PROVE SubSeq(x, 1, n)[k] = x[k]
  <2>1. k \in 1..n - 1 + 1 /\ 1 + k - 1 = k
    BY <1>1
  <2>2. SubSeq(x, 1, n)[k] = x[1 + k - 1]
    BY <1>3, <2>1
  <2> QED
    BY <2>1, <2>2
<1>8. ASSUME NEW k \in 1..z - n PROVE SubSeq(x, a, z)[k] = x[n + k]
  <2>1. k \in 1..z - a + 1 /\ a + k - 1 = n + k
    BY <1>1 DEF a
  <2>2. SubSeq(x, a, z)[k] = x[a + k - 1]
    BY <1>4, <2>1
  <2> QED
    BY <2>1, <2>2
<1> QED
  BY <1>3, <1>4, <1>5, <1>6, <1>7, <1>8 DEF a, z

\* The parts make the whole.
LEMMA Joined ==
  ASSUME NEW x \in Seq(Char), NEW n \in 0..Len(x)
  PROVE  SubSeq(x, 1, n) \o SubSeq(x, n + 1, Len(x)) = x
<1>1. 1 \in 1..Len(x) + 1 /\ n \in (1 - 1)..Len(x) /\ Len(x) \in n..Len(x)
  OBVIOUS
<1>2. SubSeq(x, 1, n) \o SubSeq(x, n + 1, Len(x)) = SubSeq(x, 1, Len(x))
  BY <1>1, ConcatAdjacentSubSeq
<1>3. SubSeq(x, 1, Len(x)) = x
  BY SubSeqFull
<1> QED
  BY <1>2, <1>3

\* send() moves n of the bytes y behind the bytes x.
LEMMA Moved ==
  ASSUME NEW x \in Seq(Char), NEW y \in Seq(Char), NEW n \in 0..Len(y)
  PROVE  /\ x \o SubSeq(y, 1, n) \in Seq(Char)
         /\ (x \o SubSeq(y, 1, n)) \o SubSeq(y, n + 1, Len(y)) = x \o y
         /\ n = Len(y) => x \o SubSeq(y, 1, n) = x \o y /\ SubSeq(y, n + 1, Len(y)) = <<>>
         /\ n # Len(y) => SubSeq(y, n + 1, Len(y)) # <<>>
<1> DEFINE a == SubSeq(y, 1, n)
           b == SubSeq(y, n + 1, Len(y))
<1>1. a \in Seq(Char) /\ b \in Seq(Char) /\ Len(b) = Len(y) - n
  BY Cut
<1>2. a \o b = y
  BY Joined
<1>3. n = Len(y) => a = y
  BY SubSeqFull
<1>4. Len(y) \in Nat /\ n \in Nat
  OBVIOUS
<1> HIDE DEF a, b
<1>5. x \o (a \o b) = (x \o a) \o b
  BY <1>1, Associative
<1>6. x \o a \in Seq(Char)
  BY <1>1, ConcatProperties
<1>7. n = Len(y) => b = <<>>
  BY <1>1, <1>4, EmptySeq
<1>8. n # Len(y) => b # <<>>
  BY <1>1, <1>4, EmptySeq
<1> QED
  BY <1>2, <1>3, <1>5, <1>6, <1>7, <1>8 DEF a, b

\* A buffer and its bytes.  An empty buffer starts over.
Holds(b, x, limit) ==
  /\ b \in Buffers(limit)
  /\ x \in Seq(Char)
  /\ Len(x) = ReadSpace(b)
  /\ CanRead(b) \/ b = Fresh

\* What is known of a buffer and its bytes.
LEMMA HoldsFacts ==
  ASSUME NEW limit \in Nat, NEW b, NEW x, Holds(b, x, limit)
  PROVE  /\ b.r \in Nat /\ b.w \in Nat /\ b.r <= b.w /\ b.w <= limit
         /\ b = [r |-> b.r, w |-> b.w]
         /\ x \in Seq(Char) /\ Len(x) \in Nat /\ Len(x) = b.w - b.r
         /\ WriteSpace(b, limit) \in Nat /\ WriteSpace(b, limit) = limit - b.w
         /\ CanRead(b) <=> x # <<>>
         /\ Len(x) = 0 => b.r = 0 /\ b.w = 0
         /\ x = <<>> => WriteSpace(b, limit) = limit
<1>1. b.r \in Nat /\ b.w \in Nat /\ b.r <= b.w /\ b.w <= limit
  BY DEF Holds, Buffers
<1>2. b = [r |-> b.r, w |-> b.w]
  BY DEF Holds, Buffers
<1>3. x \in Seq(Char) /\ Len(x) \in Nat /\ Len(x) = b.w - b.r
  BY DEF Holds, ReadSpace
<1>4. WriteSpace(b, limit) \in Nat /\ WriteSpace(b, limit) = limit - b.w
  BY <1>1 DEF WriteSpace
<1>5. CanRead(b) <=> Len(x) # 0
  BY <1>1, <1>3 DEF CanRead, ReadSpace
<1>6. Len(x) = 0 <=> x = <<>>
  BY <1>3, EmptySeq
<1>7. Len(x) = 0 => b.r = 0 /\ b.w = 0
  BY <1>5 DEF Holds, Fresh
<1> QED
  BY <1>1, <1>2, <1>3, <1>4, <1>5, <1>6, <1>7

\* When positions and bytes make a buffer.
LEMMA HoldsWhen ==
  ASSUME NEW limit \in Nat, NEW r \in Nat, NEW w \in Nat, r <= w, w <= limit,
         NEW x \in Seq(Char), Len(x) = w - r, Len(x) = 0 => w = 0
  PROVE  Holds([r |-> r, w |-> w], x, limit)
<1> DEFINE b == [r |-> r, w |-> w]
<1>1. b \in Buffers(limit) /\ ReadSpace(b) = w - r
  BY DEF Buffers, ReadSpace
<1>2. CanRead(b) \/ b = Fresh
  BY DEF CanRead, ReadSpace, Fresh
<1> HIDE DEF b
<1>3. Holds(b, x, limit)
  BY <1>1, <1>2 DEF Holds
<1> QED
  BY <1>3 DEF b

\* buffer_write_adv
LEMMA Advanced ==
  ASSUME NEW limit \in Nat, NEW b, NEW x, Holds(b, x, limit),
         NEW y \in Seq(Char), Len(y) <= WriteSpace(b, limit)
  PROVE  /\ Holds(WriteAdv(b, Len(y)), x \o y, limit)
         /\ WriteSpace(WriteAdv(b, Len(y)), limit) = WriteSpace(b, limit) - Len(y)
<1>1. /\ b.r \in Nat /\ b.w \in Nat /\ b.r <= b.w /\ b.w <= limit
      /\ b = [r |-> b.r, w |-> b.w]
      /\ x \in Seq(Char) /\ Len(x) \in Nat /\ Len(x) = b.w - b.r
      /\ WriteSpace(b, limit) = limit - b.w
      /\ Len(x) = 0 => b.r = 0 /\ b.w = 0
  BY HoldsFacts
<1>2. Len(y) \in Nat
  OBVIOUS
<1> DEFINE n == Len(y)
           r == b.r
           w == b.w
           u == w + n
<1>3. WriteAdv(b, n) = [r |-> r, w |-> u]
  <2> HIDE DEF n
  <2>1. [b EXCEPT !.w = @ + n] = [r |-> b.r, w |-> b.w + n]
    BY <1>1
  <2> QED
    BY <2>1 DEF WriteAdv
<1>4. x \o y \in Seq(Char) /\ Len(x \o y) = Len(x) + Len(y)
  BY <1>1, ConcatProperties
<1> HIDE DEF r, w, n
<1>5. /\ r \in Nat /\ u \in Nat /\ r <= u /\ u <= limit
      /\ Len(x \o y) = u - r /\ (Len(x \o y) = 0 => u = 0)
  BY <1>1, <1>2, <1>4 DEF r, w, n
<1>6. Holds([r |-> r, w |-> u], x \o y, limit)
  <2> HIDE DEF u
  <2> QED
    BY <1>4, <1>5, HoldsWhen
<1>7. WriteSpace([r |-> r, w |-> u], limit) = limit - u
  BY DEF WriteSpace
<1>8. limit - u = WriteSpace(b, limit) - n
  BY <1>1, <1>2 DEF w, n
<1> QED
  BY <1>3, <1>6, <1>7, <1>8 DEF n

\* buffer_read_adv
LEMMA Consumed ==
  ASSUME NEW limit \in Nat, NEW b, NEW x, Holds(b, x, limit), NEW n \in 0..Len(x)
  PROVE  Holds(ReadAdv(b, n), SubSeq(x, n + 1, Len(x)), limit)
<1>1. /\ b.r \in Nat /\ b.w \in Nat /\ b.r <= b.w /\ b.w <= limit
      /\ b = [r |-> b.r, w |-> b.w]
      /\ x \in Seq(Char) /\ Len(x) \in Nat /\ Len(x) = b.w - b.r
  BY HoldsFacts
<1> DEFINE y == SubSeq(x, n + 1, Len(x))
           r == b.r
           w == b.w
           q == r + n
           c == [b EXCEPT !.r = @ + n]
<1>2. y \in Seq(Char) /\ Len(y) = Len(x) - n
  BY <1>1, Cut
<1>3. c = [r |-> q, w |-> w]
  BY <1>1
<1>4. ReadAdv(b, n) = IF CanRead(c) THEN c ELSE Compact(c)
  BY DEF ReadAdv
<1> HIDE DEF c, y, r, w
<1>5. /\ r \in Nat /\ w \in Nat /\ q \in Nat /\ q <= w /\ w <= limit
      /\ Len(y) = w - q /\ n \in Nat
  BY <1>1, <1>2 DEF r, w
<1> HIDE DEF q
<1>6. CanRead(c) <=> w - q > 0
  BY <1>3 DEF CanRead, ReadSpace
<1>7. CASE w - q > 0
  <2>1. Holds([r |-> q, w |-> w], y, limit)
    BY <1>2, <1>5, <1>7, HoldsWhen
  <2> QED
    BY <1>3, <1>4, <1>6, <1>7, <2>1 DEF y
<1>8. CASE w = q
  <2>1. Compact(c) = [r |-> 0, w |-> 0]
    BY <1>3, <1>5, <1>8 DEF Compact, ReadSpace
  <2>2. Holds([r |-> 0, w |-> 0], y, limit)
    <3> DEFINE o == 0
    <3>1. o \in Nat /\ o <= o /\ o <= limit /\ Len(y) = o - o /\ (Len(y) = 0 => o = 0)
      BY <1>5, <1>8
    <3> HIDE DEF o
    <3>2. Holds([r |-> o, w |-> o], y, limit)
      BY <1>2, <3>1, HoldsWhen
    <3> QED
      BY <3>2 DEF o
  <2> QED
    BY <1>4, <1>5, <1>6, <1>8, <2>1, <2>2 DEF y
<1> QED
  BY <1>5, <1>7, <1>8

-----------------------------------------------------------------------------
(* The invariant.                                                          *)

\* The bytes x are those of m after the first i.
Part(x, m, i) == i + Len(x) <= Len(m) /\ \A k \in 1..Len(x) : x[k] = m[i + k]

Typed ==
  /\ Holds(info_file_buff, file_buff, FileLimit)
  /\ Holds(info_write_buff, write_buff, WriteLimit)
  /\ file \in Seq(Char) /\ sent \in Seq(Char) /\ asked \in Seq(Mails)
  /\ multiline_state \in {"FIRST_LINE", "MULTILINE", "END_LINE"}
  /\ flag \in Flag /\ finished \in BOOLEAN /\ file_ended \in BOOLEAN
  /\ st \in {"IDLE", "PROCESSING_RESPONSE", "WRITING_RESPONSE", "OVERFLOW"}

\* Between two requests the last answer was sent, whole.
AtRest ==
  st = "IDLE" =>
    /\ file_buff = <<>> /\ write_buff = <<>> /\ ~file_ended /\ ~finished
    /\ asked = <<>> => sent = <<>>
    /\ asked # <<>> => sent = FirstLine \o Answer(Asked)

\* The loop took i bytes of the mail, the next are in the file buffer, the rest
\* are in the file; what it made of them was sent or is about to be.
Halfway(i) ==
  /\ i \in 0..Len(Asked) /\ Len(Asked) = i + Len(file_buff) + Len(file)
  /\ Part(file_buff, Asked, i) /\ Part(file, Asked, i + Len(file_buff))
  /\ flag = FlagAfter(Asked, i)
  /\ sent \o write_buff = FirstLine \o Stuffed(Asked, i)

InMail ==
  st # "IDLE" /\ ~finished =>
    /\ asked # <<>>
    /\ \E i \in Nat : Halfway(i)
    /\ multiline_state # "FIRST_LINE"
    /\ multiline_state = "END_LINE" =>
         file_ended /\ file_buff = <<>> /\ st = "WRITING_RESPONSE"
    /\ st = "PROCESSING_RESPONSE" => file_buff = <<>> /\ ~file_ended

\* The end of the answer is in the output buffer.
InEnd ==
  st # "IDLE" /\ finished =>
    /\ st = "WRITING_RESPONSE" /\ asked # <<>>
    /\ file_buff = <<>> /\ write_buff # <<>> /\ ~file_ended
    /\ sent \o write_buff = FirstLine \o Answer(Asked)

TransferInv == Typed /\ AtRest /\ InMail /\ InEnd /\ EndIsReal

-----------------------------------------------------------------------------

\* The mail that was asked for last is one of Mails.
LEMMA AskedType ==
  ASSUME asked \in Seq(Mails), asked # <<>>
  PROVE  Asked \in Mails /\ Asked \in Seq(Char)
<1>1. Len(asked) \in 1..Len(asked)
  BY EmptySeq
<1> QED
  BY <1>1, TransferAssumption DEF TransferAssumption, Asked, Last

\* The sizes of the buffers and of the fixed parts of an answer.
LEMMA Limits ==
  /\ FileLimit \in Nat /\ FileLimit > 0 /\ WriteLimit \in Nat /\ WriteLimit >= 5
  /\ FirstLine \in Seq(Char) /\ Len(FirstLine) = 3
  /\ Terminator \in Seq(Char) /\ Len(Terminator) = 5
<1>1. /\ FirstLine \in Seq(Char) /\ Len(FirstLine) = 3
      /\ Terminator \in Seq(Char) /\ Len(Terminator) = 5
  BY DEF FirstLine, Terminator, Char
<1> QED
  BY <1>1, TransferAssumption DEF TransferAssumption

\* Both parts of a piece of the mail are where they were in it.
LEMMA CutParts ==
  ASSUME NEW m \in Seq(Char), NEW x \in Seq(Char), NEW i \in Nat, Part(x, m, i),
         NEW n \in 0..Len(x)
  PROVE  Part(SubSeq(x, 1, n), m, i) /\ Part(SubSeq(x, n + 1, Len(x)), m, i + n)
<1> DEFINE a == SubSeq(x, 1, n)
           b == SubSeq(x, n + 1, Len(x))
<1>1. /\ Len(a) = n /\ \A k \in 1..n : a[k] = x[k]
      /\ Len(b) = Len(x) - n /\ \A k \in 1..Len(x) - n : b[k] = x[n + k]
  BY Cut
<1>2. Len(x) \in Nat /\ n \in Nat /\ n <= Len(x) /\ Len(m) \in Nat
  OBVIOUS
<1>3. i + Len(x) <= Len(m) /\ \A k \in 1..Len(x) : x[k] = m[i + k]
  BY DEF Part
<1> HIDE DEF a, b
<1>4. Part(a, m, i)
  <2>1. i + Len(a) <= Len(m)
    BY <1>1, <1>2, <1>3
  <2>2. ASSUME NEW k \in 1..Len(a) PROVE a[k] = m[i + k]
    <3>1. k \in 1..n /\ k \in 1..Len(x)
      BY <1>1, <1>2
    <3> QED
      BY <1>1, <1>3, <3>1
  <2> QED
    BY <2>1, <2>2 DEF Part
<1>5. ASSUME NEW k \in 1..Len(x) - n PROVE b[k] = m[i + n + k]
  <2> DEFINE q == n + k
  <2>1. q \in 1..Len(x) /\ i + q = i + n + k
    BY <1>2
  <2> HIDE DEF q
  <2>2. x[q] = m[i + q]
    BY <1>3, <2>1
  <2>3. b[k] = x[q]
    BY <1>1 DEF q
  <2> QED
    BY <2>1, <2>2, <2>3
<1>6. Part(b, m, i + n)
  BY <1>1, <1>2, <1>3, <1>5 DEF Part
<1> QED
  BY <1>4, <1>6 DEF a, b

\* Nothing is after the last byte.
LEMMA NothingLeft ==
  ASSUME NEW x \in Seq(Char)
  PROVE  SubSeq(x, Len(x) + 1, Len(x)) = <<>>
  BY SubSeqEmpty

\* Before the first request nothing was asked and nothing sent.
LEMMA InvInit == Init => TransferInv
<1> SUFFICES ASSUME Init PROVE TransferInv
  OBVIOUS
<1>1. \A limit \in Nat : Holds(Fresh, <<>>, limit)
  <2>1. <<>> \in Seq(Char) /\ Len(<<>>) = 0
    OBVIOUS
  <2> QED
    BY <2>1 DEF Holds, Fresh, Buffers, ReadSpace
<1>2. Typed
  <2>1. Holds(info_file_buff, file_buff, FileLimit)
    BY <1>1, Limits DEF Init
  <2>2. Holds(info_write_buff, write_buff, WriteLimit)
    BY <1>1, Limits DEF Init
  <2>3. file \in Seq(Char) /\ sent \in Seq(Char) /\ asked \in Seq(Mails)
    BY DEF Init
  <2> QED
    BY <2>1, <2>2, <2>3 DEF Init, Typed, Flag
<1>3. AtRest /\ InMail /\ InEnd /\ EndIsReal
  BY DEF Init, AtRest, InMail, InEnd, EndIsReal
<1> QED
  BY <1>2, <1>3 DEF TransferInv

\* RETR starts with the whole mail in the file and the first line to send.
LEMMA RetrStep == ASSUME TransferInv, Retr PROVE TransferInv'
<1>1. PICK m \in Mails : asked' = Append(asked, m) /\ file' = m
  BY DEF Retr
<1>2. /\ st = "IDLE" /\ write_buff' = FirstLine
      /\ info_write_buff' = WriteAdv(info_write_buff, Len(FirstLine))
      /\ multiline_state' = "MULTILINE" /\ flag' = "LF" /\ st' = "PROCESSING_RESPONSE"
      /\ sent' = <<>>
      /\ file_ended' = file_ended /\ info_file_buff' = info_file_buff
      /\ file_buff' = file_buff /\ finished' = finished
  BY DEF Retr, FirstFlag
<1>3. Typed /\ file_buff = <<>> /\ write_buff = <<>> /\ ~file_ended /\ ~finished
  BY <1>2 DEF TransferInv, AtRest
<1>4. m \in Seq(Char) /\ asked \in Seq(Mails) /\ Len(m) \in Nat
  BY <1>3, TransferAssumption DEF Typed, TransferAssumption
<1>5. asked' \in Seq(Mails) /\ asked' # <<>> /\ Asked' = m
  <2>1. asked' \in Seq(Mails) /\ Len(asked') = Len(asked) + 1 /\ asked'[Len(asked) + 1] = m
    BY <1>1, <1>4, AppendProperties
  <2>2. Len(asked') # 0
    BY <1>4, <2>1
  <2> QED
    BY <2>1, <2>2, EmptySeq DEF Asked, Last
<1>6. Holds(info_write_buff', write_buff', WriteLimit)
  <2>1. Holds(info_write_buff, write_buff, WriteLimit)
    BY <1>3 DEF Typed
  <2>2. Len(FirstLine) <= WriteSpace(info_write_buff, WriteLimit)
    <3>1. WriteSpace(info_write_buff, WriteLimit) = WriteLimit
      BY <1>3, <2>1, Limits, HoldsFacts
    <3> QED
      BY <3>1, Limits
  <2>3. Holds(WriteAdv(info_write_buff, Len(FirstLine)), write_buff \o FirstLine, WriteLimit)
    BY <2>1, <2>2, Limits, Advanced
  <2>4. write_buff \o FirstLine = FirstLine
    BY <1>3, Limits, ConcatEmptySeq
  <2> QED
    BY <1>2, <2>3, <2>4
<1>7. Typed'
  BY <1>1, <1>2, <1>3, <1>4, <1>5, <1>6 DEF Typed, Flag
<1>8. Halfway(0)'
  <2>1. 0 \in 0..Len(m) /\ Len(file_buff) = 0 /\ Len(m) = 0 + 0 + Len(m)
    BY <1>3, <1>4
  <2>2. Part(<<>>, m, 0) /\ Part(m, m, 0 + 0)
    BY <1>4 DEF Part
  <2>3. FlagAfter(m, 0) = "LF" /\ Stuffed(m, 0) = <<>>
    BY <1>4, CodeSteps
  <2>4. <<>> \o FirstLine = FirstLine /\ FirstLine \o <<>> = FirstLine
    BY Limits, ConcatEmptySeq
  <2>5. file_buff' = <<>> /\ file' = m /\ flag' = "LF" /\ sent' = <<>>
        /\ write_buff' = FirstLine /\ Asked' = m /\ Len(<<>>) = 0
    BY <1>1, <1>2, <1>3, <1>5
  <2> QED
    BY <2>1, <2>2, <2>3, <2>4, <2>5 DEF Halfway
<1>9. InMail'
  BY <1>2, <1>3, <1>5, <1>8 DEF InMail
<1>10. AtRest' /\ InEnd' /\ EndIsReal'
  BY <1>2, <1>3 DEF AtRest, InEnd, EndIsReal
<1> QED
  BY <1>7, <1>9, <1>10 DEF TransferInv

\* read() moves bytes from the file to the empty file buffer.
LEMMA ReadFileStep == ASSUME TransferInv, ReadFile PROVE TransferInv'
<1> DEFINE space == WriteSpace(info_file_buff, FileLimit)
           n == IF Len(file) < space THEN Len(file) ELSE space
           x == SubSeq(file, 1, n)
<1>1. /\ st = "PROCESSING_RESPONSE"
      /\ file_buff' = file_buff \o x
      /\ info_file_buff' = WriteAdv(info_file_buff, n)
      /\ file' = SubSeq(file, n + 1, Len(file))
      /\ file_ended' = (file_ended \/ n = 0)
      /\ st' = "WRITING_RESPONSE"
      /\ multiline_state' = multiline_state /\ flag' = flag
      /\ info_write_buff' = info_write_buff /\ write_buff' = write_buff
      /\ finished' = finished /\ asked' = asked /\ sent' = sent
  BY DEF ReadFile
<1>2. /\ Typed /\ ~finished /\ asked # <<>> /\ multiline_state = "MULTILINE"
      /\ file_buff = <<>> /\ ~file_ended
  BY <1>1 DEF TransferInv, InMail, InEnd, Typed
<1>3. PICK i \in Nat : Halfway(i)
  BY <1>1, <1>2 DEF TransferInv, InMail
<1>4. Asked \in Seq(Char) /\ Asked' = Asked
  BY <1>1, <1>2, AskedType DEF Typed, Asked
<1>5. Holds(info_file_buff, file_buff, FileLimit) /\ file \in Seq(Char) /\ Len(file) \in Nat
  BY <1>2 DEF Typed
<1>6. space \in Nat /\ space = FileLimit /\ space > 0
  <2>1. space \in Nat /\ space = FileLimit
    BY <1>2, <1>5, Limits, HoldsFacts
  <2> QED
    BY <2>1, Limits
<1>7. n \in 0..Len(file) /\ n <= space /\ (n = 0 => Len(file) = 0)
  BY <1>5, <1>6
<1> HIDE DEF space, n
<1>8. /\ x \in Seq(Char) /\ Len(x) = n
      /\ file' \in Seq(Char) /\ Len(file') = Len(file) - n
  BY <1>1, <1>5, <1>7, Cut
<1>9. file_buff' = x
  BY <1>1, <1>2, <1>8, ConcatEmptySeq
<1>10. Holds(info_file_buff', file_buff', FileLimit)
  <2> HIDE DEF x
  <2>1. Len(x) <= WriteSpace(info_file_buff, FileLimit)
    BY <1>7, <1>8 DEF space
  <2>2. Holds(WriteAdv(info_file_buff, Len(x)), file_buff \o x, FileLimit)
    BY <1>5, <1>8, <2>1, Limits, Advanced
  <2> QED
    BY <1>1, <1>8, <2>2
<1>11. Typed'
  BY <1>1, <1>2, <1>8, <1>10 DEF Typed
<1>12. Halfway(i)'
  <2>1. /\ i \in 0..Len(Asked) /\ Len(Asked) = i + Len(file_buff) + Len(file)
        /\ Part(file, Asked, i + Len(file_buff))
        /\ flag = FlagAfter(Asked, i)
        /\ sent \o write_buff = FirstLine \o Stuffed(Asked, i)
    BY <1>3 DEF Halfway
  <2>2. Len(file_buff) = 0 /\ i + 0 = i
    BY <1>2
  <2>3. Part(file, Asked, i)
    BY <2>1, <2>2
  <2>4. Part(x, Asked, i) /\ Part(file', Asked, i + n)
    BY <1>1, <1>4, <1>5, <1>7, <2>3, CutParts
  <2> HIDE DEF x
  <2>5. Len(Asked) = i + Len(x) + Len(file')
    <3>1. n \in Nat
      BY <1>5, <1>7
    <3> QED
      BY <1>5, <1>7, <1>8, <2>1, <2>2, <3>1
  <2> QED
    BY <1>1, <1>4, <1>8, <1>9, <2>1, <2>4, <2>5 DEF Halfway
<1>13. EndIsReal'
  <2>1. ASSUME n = 0 PROVE file' = <<>>
    <3>1. Len(file') = 0
      BY <1>5, <1>7, <1>8, <2>1
    <3> QED
      BY <1>8, <3>1, EmptySeq
  <2> QED
    BY <1>1, <1>2, <2>1 DEF EndIsReal
<1>14. InMail' /\ AtRest' /\ InEnd'
  BY <1>1, <1>2, <1>12 DEF InMail, AtRest, InEnd
<1> QED
  BY <1>11, <1>13, <1>14 DEF TransferInv

\* Going back to the file changes no bytes.
LEMMA MoreFileStep == ASSUME TransferInv, MoreFile PROVE TransferInv'
<1>1. /\ st = "WRITING_RESPONSE" /\ ~finished /\ st' = "PROCESSING_RESPONSE"
      /\ multiline_state = "MULTILINE" /\ ~CanRead(info_file_buff) /\ ~file_ended
      /\ multiline_state' = multiline_state /\ flag' = flag /\ file' = file
      /\ file_ended' = file_ended
      /\ info_file_buff' = info_file_buff /\ file_buff' = file_buff
      /\ info_write_buff' = info_write_buff /\ write_buff' = write_buff
      /\ finished' = finished /\ asked' = asked /\ sent' = sent
  BY DEF MoreFile, NeedsFile, buffers
<1>2. Typed /\ InMail /\ EndIsReal
  BY DEF TransferInv
<1>3. file_buff = <<>>
  BY <1>1, <1>2, Limits, HoldsFacts DEF Typed
<1>4. Typed' /\ AtRest' /\ InEnd' /\ EndIsReal'
  BY <1>1, <1>2 DEF Typed, AtRest, InEnd, EndIsReal
<1>5. ASSUME NEW i \in Nat, Halfway(i) PROVE Halfway(i)'
  BY <1>1, <1>5 DEF Halfway, Asked
<1>6. InMail'
  BY <1>1, <1>2, <1>3, <1>5 DEF InMail
<1> QED
  BY <1>4, <1>6 DEF TransferInv

\* A loop that overruns the buffer leaves a session that moves no more bytes.
LEMMA OverflowStep == ASSUME TransferInv, Overflow PROVE TransferInv'
<1>1. /\ st = "WRITING_RESPONSE" /\ ~finished /\ st' = "OVERFLOW"
      /\ multiline_state = "MULTILINE"
      /\ multiline_state' = multiline_state /\ flag' = flag /\ file' = file
      /\ file_ended' = file_ended
      /\ info_file_buff' = info_file_buff /\ file_buff' = file_buff
      /\ info_write_buff' = info_write_buff /\ write_buff' = write_buff
      /\ finished' = finished /\ asked' = asked /\ sent' = sent
  BY DEF Overflow, buffers
<1>2. Typed /\ InMail /\ EndIsReal
  BY DEF TransferInv
<1>4. Typed' /\ AtRest' /\ InEnd' /\ EndIsReal'
  BY <1>1, <1>2 DEF Typed, AtRest, InEnd, EndIsReal
<1>5. ASSUME NEW i \in Nat, Halfway(i) PROVE Halfway(i)'
  BY <1>1, <1>5 DEF Halfway, Asked
<1>6. InMail'
  BY <1>1, <1>2, <1>5 DEF InMail
<1> QED
  BY <1>4, <1>6 DEF TransferInv

\* What send() leaves: of the end of an answer, nothing or something.
Sends(bytes, over) ==
  /\ Holds(info_write_buff', write_buff', WriteLimit)
  /\ sent' \in Seq(Char) /\ sent' \o write_buff' = sent \o bytes
  /\ \/ /\ st' = "IDLE" /\ over /\ finished' = FALSE
        /\ write_buff' = <<>> /\ sent' = sent \o bytes
     \/ /\ st' = "WRITING_RESPONSE" /\ finished' = over
        /\ over => write_buff' # <<>>

\* send() takes the first bytes of the output buffer.
LEMMA Sending ==
  ASSUME NEW b, NEW bytes, Holds(b, bytes, WriteLimit), sent \in Seq(Char),
         NEW over \in BOOLEAN, over => bytes # <<>>, Send(b, bytes, over)
  PROVE  Sends(bytes, over)
<1>1. PICK n \in IF bytes = <<>> THEN {0} ELSE 1..Len(bytes) :
        /\ sent' = sent \o SubSeq(bytes, 1, n)
        /\ write_buff' = SubSeq(bytes, n + 1, Len(bytes))
        /\ info_write_buff' = ReadAdv(b, n)
        /\ IF over /\ n = Len(bytes)
           THEN st' = "IDLE" /\ finished' = FALSE
           ELSE st' = "WRITING_RESPONSE" /\ finished' = over
  BY DEF Send
<1>2. bytes \in Seq(Char) /\ Len(bytes) \in Nat
  BY DEF Holds
<1>3. n \in 0..Len(bytes)
  BY <1>1, <1>2
<1>4. Holds(ReadAdv(b, n), SubSeq(bytes, n + 1, Len(bytes)), WriteLimit)
  BY <1>3, Limits, Consumed
<1>5. /\ sent \o SubSeq(bytes, 1, n) \in Seq(Char)
      /\ (sent \o SubSeq(bytes, 1, n)) \o SubSeq(bytes, n + 1, Len(bytes)) = sent \o bytes
      /\ n = Len(bytes) => /\ sent \o SubSeq(bytes, 1, n) = sent \o bytes
                           /\ SubSeq(bytes, n + 1, Len(bytes)) = <<>>
      /\ n # Len(bytes) => SubSeq(bytes, n + 1, Len(bytes)) # <<>>
  BY <1>2, <1>3, Moved
<1>6. CASE over /\ n = Len(bytes)
  BY <1>1, <1>4, <1>5, <1>6 DEF Sends
<1>7. CASE over /\ n # Len(bytes)
  BY <1>1, <1>4, <1>5, <1>7 DEF Sends
<1>8. CASE ~over
  BY <1>1, <1>4, <1>5, <1>8 DEF Sends
<1> QED
  BY <1>6, <1>7, <1>8

\* The end of an answer is not empty.
LEMMA Ended == ASSUME NEW x \in Seq(Char) PROVE x \o Terminator # <<>>
<1> DEFINE y == Terminator
<1>1. y \in Seq(Char) /\ Len(y) = 5
  BY Limits
<1> HIDE DEF y
<1>2. /\ x \o y \in Seq(Char) /\ Len(x \o y) = Len(x) + Len(y)
      /\ \A i \in 1..Len(x) + Len(y) :
           (x \o y)[i] = IF i <= Len(x) THEN x[i] ELSE y[i - Len(x)]
  BY <1>1, ConcatProperties
<1>3. Len(x \o y) # 0
  <2>1. Len(x) \in Nat
    OBVIOUS
  <2> QED
    BY <1>1, <1>2, <2>1
<1> HIDE DEF y
<1>4. x \o y # <<>>
  BY <1>3
<1> QED
  BY <1>4 DEF y

\* write_response, with the whole answer in the output buffer.
LEMMA SendRestStep == ASSUME TransferInv, SendRest PROVE TransferInv'
<1>1. /\ st = "WRITING_RESPONSE" /\ finished /\ Send(info_write_buff, write_buff, TRUE)
      /\ multiline_state' = multiline_state /\ flag' = flag /\ file' = file
      /\ file_ended' = file_ended
      /\ info_file_buff' = info_file_buff /\ file_buff' = file_buff /\ asked' = asked
  BY DEF SendRest
<1>2. Typed /\ InEnd /\ EndIsReal
  BY DEF TransferInv
<1>3. /\ asked # <<>> /\ file_buff = <<>> /\ write_buff # <<>> /\ ~file_ended
      /\ sent \o write_buff = FirstLine \o Answer(Asked)
  BY <1>1, <1>2 DEF InEnd
<1>4. /\ Holds(info_write_buff', write_buff', WriteLimit)
      /\ sent' \in Seq(Char) /\ sent' \o write_buff' = sent \o write_buff
      /\ \/ /\ st' = "IDLE" /\ finished' = FALSE
            /\ write_buff' = <<>> /\ sent' = sent \o write_buff
         \/ /\ st' = "WRITING_RESPONSE" /\ finished' = TRUE
            /\ write_buff' # <<>>
  <2>1. Sends(write_buff, TRUE)
    BY <1>1, <1>2, <1>3, Sending DEF Typed
  <2> QED
    BY <2>1 DEF Sends
<1>5. Typed'
  BY <1>1, <1>2, <1>4 DEF Typed
<1>6. Asked' = Asked
  BY <1>1 DEF Asked
<1>7. AtRest' /\ InMail' /\ InEnd' /\ EndIsReal'
  BY <1>1, <1>2, <1>3, <1>4, <1>6 DEF AtRest, InMail, InEnd, EndIsReal
<1> QED
  BY <1>5, <1>7 DEF TransferInv

\* What the loop did is opaque to the rest of the proof: it took n bytes, wrote
\* the bytes w, and left the flag f.
Looped(n, w, f) ==
  \E i \in Nat :
    /\ Halfway(i)
    /\ n \in 0..Len(file_buff) /\ w \in Seq(Char) /\ Len(w) <= Room
    /\ i + n <= Len(Asked)
    /\ f = FlagAfter(Asked, i + n)
    /\ Stuffed(Asked, i) \o w = Stuffed(Asked, i + n)

\* The loop takes bytes of the file buffer and writes their code.
LEMMA StuffLooped ==
  ASSUME TransferInv, st = "WRITING_RESPONSE", ~finished, Room > 0
  PROVE  LET loop == Stuff(flag, file_buff, Room)
         IN  Looped(loop.file, loop.out, loop.flag)
<1> DEFINE loop == Stuff(flag, file_buff, Room)
           m == Asked
<1>1. Typed /\ asked # <<>>
  BY DEF TransferInv, InMail
<1>2. PICK i \in Nat : Halfway(i)
  BY DEF TransferInv, InMail
<1>3. m \in Seq(Char)
  BY <1>1, AskedType DEF Typed
<1>4. file_buff \in Seq(Char) /\ Len(file_buff) \in Nat /\ flag \in Flag /\ Room \in Nat \ {0}
  <2>1. Room \in Nat
    BY <1>1, Limits, HoldsFacts DEF Typed, Room
  <2>2. file_buff \in Seq(Char) /\ Len(file_buff) \in Nat /\ flag \in Flag
    BY <1>1 DEF Typed, Holds
  <2> QED
    BY <2>1, <2>2
<1>5. /\ i \in 0..Len(m) /\ i + Len(file_buff) <= Len(m)
      /\ \A k \in 1..Len(file_buff) : file_buff[k] = m[i + k]
      /\ flag = FlagAfter(m, i)
  BY <1>2 DEF Halfway, Part
<1>6. Counts(loop, Len(file_buff), Room)
  BY <1>4, StuffCounts
<1>7. Follows(loop, m, i)
  <2> HIDE DEF m
  <2>1. Follows(Stuff(FlagAfter(m, i), file_buff, Room), m, i)
    BY <1>3, <1>4, <1>5, StuffFollows
  <2> QED
    BY <1>5, <2>1
<1> HIDE DEF loop
<1>8. /\ loop.file \in Nat /\ loop.file <= Len(file_buff)
      /\ loop.out \in Seq(Char) /\ Len(loop.out) <= Room
  BY <1>6 DEF Counts, Loop
<1>9. Looped(loop.file, loop.out, loop.flag)
  BY <1>2, <1>4, <1>7, <1>8 DEF Looped, Follows
<1> QED
  BY <1>9 DEF loop

\* Without the loop nothing is taken.
LEMMA IdleLooped ==
  ASSUME TransferInv, st = "WRITING_RESPONSE", ~finished
  PROVE  Looped(0, <<>>, flag)
<1>1. Typed /\ asked # <<>>
  BY DEF TransferInv, InMail
<1>2. PICK i \in Nat : Halfway(i)
  BY DEF TransferInv, InMail
<1>3. Asked \in Seq(Char)
  BY <1>1, AskedType DEF Typed
<1>4. /\ i \in 0..Len(Asked) /\ i + 0 = i /\ flag = FlagAfter(Asked, i) /\ i <= Len(Asked)
  BY <1>2, <1>3 DEF Halfway
<1>5. Room \in Nat /\ Len(file_buff) \in Nat
  BY <1>1, Limits, HoldsFacts DEF Typed, Room
<1>6. Stuffed(Asked, i) \o <<>> = Stuffed(Asked, i)
  BY <1>3, <1>4, CodeSteps, ConcatEmptySeq
<1>7. <<>> \in Seq(Char) /\ Len(<<>>) = 0 /\ Len(<<>>) <= Room /\ 0 \in 0..Len(file_buff)
  BY <1>5
<1> QED
  BY <1>2, <1>4, <1>6, <1>7 DEF Looped

\* What the session has then: as much more of the mail as the loop took.
LoopLeaves(n, w, f) ==
  LET rest == SubSeq(file_buff, n + 1, Len(file_buff))
      out  == write_buff \o w
  IN  /\ Holds(ReadAdv(info_file_buff, n), rest, FileLimit)
      /\ Holds(WriteAdv(info_write_buff, Len(w)), out, WriteLimit) /\ f \in Flag
      /\ n = Len(file_buff) => rest = <<>>
      /\ \E j \in 0..Len(Asked) :
           /\ Len(Asked) = j + Len(rest) + Len(file)
           /\ Part(rest, Asked, j) /\ Part(file, Asked, j + Len(rest))
           /\ f = FlagAfter(Asked, j)
           /\ sent \o out = FirstLine \o Stuffed(Asked, j)

\* The buffers and the mail after the loop.
LEMMA LoopedFacts ==
  ASSUME TransferInv, asked # <<>>, NEW n, NEW w, NEW f, Looped(n, w, f)
  PROVE  LoopLeaves(n, w, f)
<1> DEFINE rest == SubSeq(file_buff, n + 1, Len(file_buff))
           b == WriteAdv(info_write_buff, Len(w))
           out == write_buff \o w
           m == Asked
<1>1. PICK i \in Nat :
        /\ Halfway(i)
        /\ n \in 0..Len(file_buff) /\ w \in Seq(Char) /\ Len(w) <= Room
        /\ i + n <= Len(Asked)
        /\ f = FlagAfter(Asked, i + n)
        /\ Stuffed(Asked, i) \o w = Stuffed(Asked, i + n)
  BY DEF Looped
<1>2. Typed /\ m \in Seq(Char) /\ Len(m) \in Nat
  <2>1. Typed
    BY DEF TransferInv
  <2>2. Asked \in Seq(Char)
    BY <2>1, AskedType DEF Typed
  <2> QED
    BY <2>1, <2>2
<1>3. /\ file_buff \in Seq(Char) /\ Len(file_buff) \in Nat /\ n \in Nat
      /\ write_buff \in Seq(Char) /\ sent \in Seq(Char) /\ file \in Seq(Char)
      /\ Len(file) \in Nat /\ n <= Len(file_buff)
  BY <1>1, <1>2 DEF Typed, Holds
<1>4. Holds(ReadAdv(info_file_buff, n), rest, FileLimit)
  BY <1>1, <1>2, Limits, Consumed DEF Typed
<1>5. Holds(b, out, WriteLimit)
  BY <1>1, <1>2, Limits, Advanced DEF Typed, Room
<1>6. n = Len(file_buff) => rest = <<>>
  BY <1>3, NothingLeft
<1> DEFINE j == i + n
<1>7. j \in 0..Len(m) /\ i \in 0..Len(m)
  BY <1>1, <1>2, <1>3
<1>8. f \in Flag /\ Stuffed(m, i) \in Seq(Char)
  BY <1>1, <1>2, <1>7, CodeSteps
<1>9. /\ Len(m) = i + Len(file_buff) + Len(file)
      /\ Part(file_buff, m, i) /\ Part(file, m, i + Len(file_buff))
      /\ sent \o write_buff = FirstLine \o Stuffed(m, i)
  BY <1>1 DEF Halfway
<1>10. Part(rest, m, j)
  BY <1>1, <1>2, <1>3, <1>9, CutParts
<1>11. Len(rest) = Len(file_buff) - n
  BY <1>1, <1>3, Cut
<1> HIDE DEF rest, b
<1>12. j + Len(rest) = i + Len(file_buff)
  BY <1>3, <1>11
<1>13. Len(m) = j + Len(rest) + Len(file)
  BY <1>9, <1>12
<1>14. sent \o out = FirstLine \o Stuffed(m, j)
  <2> HIDE DEF j, m
  <2>1. sent \o (write_buff \o w) = (sent \o write_buff) \o w
    BY <1>1, <1>3, Associative
  <2>2. FirstLine \o (Stuffed(m, i) \o w) = (FirstLine \o Stuffed(m, i)) \o w
    BY <1>1, <1>8, Limits, Associative
  <2>3. Stuffed(m, i) \o w = Stuffed(m, j)
    BY <1>1 DEF j, m
  <2> QED
    BY <1>9, <2>1, <2>2, <2>3
<1>15. Part(file, m, j + Len(rest)) /\ f = FlagAfter(m, j)
  BY <1>1, <1>9, <1>12
<1> HIDE DEF out, j, m
<1> QED
  BY <1>4, <1>5, <1>6, <1>7, <1>8, <1>10, <1>13, <1>14, <1>15 DEF rest, out, b, m, LoopLeaves

\* The loop, the end of the answer when there is room for it, and a send().
LEMMA CopyStep == ASSUME TransferInv, Copy PROVE TransferInv'
<1> DEFINE loop == IF multiline_state = "END_LINE" \/ Room = 0
                   THEN [flag |-> flag, file |-> 0, out |-> <<>>]
                   ELSE Stuff(flag, file_buff, Room)
           n    == loop.file
           w    == loop.out
           f    == loop.flag
           b    == WriteAdv(info_write_buff, Len(w))
           out  == write_buff \o w
           end  == multiline_state = "END_LINE"
                     \/ (file_ended /\ n = Len(file_buff))
           over == end /\ WriteSpace(b, WriteLimit) >= Len(Terminator)
           rest == SubSeq(file_buff, n + 1, Len(file_buff))
<1>1. /\ st = "WRITING_RESPONSE" /\ ~finished
      /\ info_file_buff' = ReadAdv(info_file_buff, n) /\ file_buff' = rest
      /\ over => /\ multiline_state' = "FIRST_LINE" /\ flag' = "CR" /\ file_ended' = FALSE
                 /\ Send(WriteAdv(b, Len(Terminator)), out \o Terminator, TRUE)
      /\ ~over => /\ multiline_state' = (IF end THEN "END_LINE" ELSE "MULTILINE")
                  /\ flag' = f /\ file_ended' = file_ended
                  /\ Send(b, out, FALSE)
      /\ file' = file /\ asked' = asked
  BY DEF Copy
<1>2. /\ Typed /\ InMail /\ EndIsReal
      /\ asked # <<>> /\ multiline_state # "FIRST_LINE"
      /\ multiline_state = "END_LINE" => file_ended /\ file_buff = <<>>
  BY <1>1 DEF TransferInv, InMail
<1>3. Looped(n, w, f)
  <2>1. CASE multiline_state = "END_LINE" \/ Room = 0
    <3>1. n = 0 /\ w = <<>> /\ f = flag
      BY <2>1
    <3> HIDE DEF n, w, f
    <3> QED
      BY <1>1, <3>1, IdleLooped
  <2>2. CASE ~(multiline_state = "END_LINE" \/ Room = 0)
    <3>1. Room \in Nat
      BY <1>2, Limits, HoldsFacts DEF Typed, Room
    <3>2. LET l == Stuff(flag, file_buff, Room) IN Looped(l.file, l.out, l.flag)
      BY <1>1, <2>2, <3>1, StuffLooped
    <3>3. loop = Stuff(flag, file_buff, Room)
      BY <2>2
    <3> HIDE DEF loop
    <3> QED
      BY <3>2, <3>3
  <2> QED
    BY <2>1, <2>2
<1> HIDE DEF loop, n, w, f
<1>4. /\ Holds(ReadAdv(info_file_buff, n), rest, FileLimit)
      /\ Holds(b, out, WriteLimit) /\ f \in Flag
      /\ n = Len(file_buff) => rest = <<>>
      /\ \E j \in 0..Len(Asked) :
           /\ Len(Asked) = j + Len(rest) + Len(file)
           /\ Part(rest, Asked, j) /\ Part(file, Asked, j + Len(rest))
           /\ f = FlagAfter(Asked, j)
           /\ sent \o out = FirstLine \o Stuffed(Asked, j)
  <2>1. LoopLeaves(n, w, f)
    BY <1>2, <1>3, LoopedFacts
  <2> QED
    BY <2>1 DEF LoopLeaves
<1>5. end => file = <<>> /\ rest = <<>> /\ file_ended
  <2>1. CASE multiline_state = "END_LINE"
    <3>1. file_ended /\ file_buff = <<>>
      BY <1>2, <2>1
    <3>2. Len(file_buff) = 0 /\ n \in 0..Len(file_buff)
      BY <1>3, <3>1 DEF Looped
    <3>3. n = Len(file_buff)
      BY <3>2
    <3> QED
      BY <1>2, <1>4, <3>1, <3>3 DEF EndIsReal
  <2>2. CASE file_ended /\ n = Len(file_buff)
    BY <1>2, <1>4, <2>2 DEF EndIsReal
  <2> QED
    BY <2>1, <2>2
<1>6. Asked' = Asked /\ Asked \in Seq(Char) /\ sent \in Seq(Char)
  <2>1. Asked' = Asked
    BY <1>1 DEF Asked
  <2>2. Asked \in Seq(Char) /\ sent \in Seq(Char)
    BY <1>2, AskedType DEF Typed
  <2> QED
    BY <2>1, <2>2
<1>7. CASE over
  <2> DEFINE c == WriteAdv(b, Len(Terminator))
             bytes == out \o Terminator
  <2>1. Holds(c, bytes, WriteLimit)
    <3>1. Len(Terminator) <= WriteSpace(b, WriteLimit)
      BY <1>4, <1>7, Limits, HoldsFacts
    <3> HIDE DEF b, out
    <3> QED
      BY <1>4, <3>1, Limits, Advanced
  <2>2. out \in Seq(Char)
    BY <1>4 DEF Holds
  <2>3. sent \o bytes = FirstLine \o Answer(Asked)
    <3>1. PICK j \in 0..Len(Asked) :
            /\ Len(Asked) = j + Len(rest) + Len(file)
            /\ sent \o out = FirstLine \o Stuffed(Asked, j)
      BY <1>4
    <3>2. Len(rest) = 0 /\ Len(file) = 0
      BY <1>5, <1>7
    <3> HIDE DEF rest, out
    <3>3. j = Len(Asked) /\ j \in 0..Len(Asked)
      BY <1>6, <3>1, <3>2
    <3>4. Stuffed(Asked, j) \in Seq(Char)
      BY <1>6, <3>3, CodeSteps
    <3>5. sent \o (out \o Terminator) = (sent \o out) \o Terminator
      BY <1>6, <2>2, Limits, Associative
    <3>6. FirstLine \o (Stuffed(Asked, j) \o Terminator)
            = (FirstLine \o Stuffed(Asked, j)) \o Terminator
      BY <3>4, Limits, Associative
    <3>7. Answer(Asked) = Stuffed(Asked, j) \o Terminator
      BY <3>3 DEF Answer
    <3> QED
      BY <3>1, <3>5, <3>6, <3>7
  <2>4. bytes # <<>>
    BY <2>2, Ended
  <2>5. Send(c, bytes, TRUE)
    BY <1>1, <1>7
  <2> HIDE DEF c, bytes
  <2>6. /\ Holds(info_write_buff', write_buff', WriteLimit)
        /\ sent' \in Seq(Char) /\ sent' \o write_buff' = sent \o bytes
        /\ \/ /\ st' = "IDLE" /\ finished' = FALSE
              /\ write_buff' = <<>> /\ sent' = sent \o bytes
           \/ /\ st' = "WRITING_RESPONSE" /\ finished' = TRUE
              /\ write_buff' # <<>>
    <3>1. Sends(bytes, TRUE)
      BY <1>6, <2>1, <2>4, <2>5, Sending
    <3> QED
      BY <3>1 DEF Sends
  <2>7. /\ multiline_state' = "FIRST_LINE" /\ flag' = "CR" /\ file_ended' = FALSE
        /\ file_buff' = <<>> /\ info_file_buff' = ReadAdv(info_file_buff, n)
        /\ file_buff' = rest
    BY <1>1, <1>5, <1>7
  <2> HIDE DEF over, end, rest, b, out
  <2>8. Typed'
    BY <1>1, <1>2, <1>4, <2>6, <2>7 DEF Typed, Flag
  <2>9. AtRest' /\ InMail' /\ InEnd' /\ EndIsReal'
    BY <1>1, <1>2, <1>6, <2>3, <2>6, <2>7 DEF AtRest, InMail, InEnd, EndIsReal
  <2> QED
    BY <2>8, <2>9 DEF TransferInv
<1>8. CASE ~over
  <2>1. /\ multiline_state' = (IF end THEN "END_LINE" ELSE "MULTILINE")
        /\ flag' = f /\ file_ended' = file_ended /\ Send(b, out, FALSE)
    BY <1>1, <1>8
  <2> HIDE DEF over, b, out
  <2>2. /\ Holds(info_write_buff', write_buff', WriteLimit)
        /\ sent' \in Seq(Char) /\ sent' \o write_buff' = sent \o out
        /\ st' = "WRITING_RESPONSE" /\ finished' = FALSE
    <3>1. Sends(out, FALSE)
      BY <1>4, <1>6, <2>1, Sending
    <3> QED
      BY <3>1 DEF Sends
  <2> HIDE DEF rest
  <2>3. Typed'
    BY <1>1, <1>2, <1>4, <2>1, <2>2 DEF Typed
  <2>4. PICK j \in 0..Len(Asked) :
          /\ Len(Asked) = j + Len(rest) + Len(file)
          /\ Part(rest, Asked, j) /\ Part(file, Asked, j + Len(rest))
          /\ f = FlagAfter(Asked, j)
          /\ sent \o out = FirstLine \o Stuffed(Asked, j)
    BY <1>4
  <2>5. Halfway(j)'
    BY <1>1, <1>6, <2>1, <2>2, <2>4 DEF Halfway
  <2>6. end => file_ended' /\ file_buff' = <<>>
    BY <1>1, <1>5, <2>1
  <2> HIDE DEF end
  <2>7. InMail'
    <3>1. j \in Nat
      BY <2>4
    <3> QED
      BY <1>1, <1>2, <2>1, <2>2, <2>5, <2>6, <3>1 DEF InMail
  <2>8. AtRest' /\ InEnd' /\ EndIsReal'
    BY <1>1, <1>2, <2>1, <2>2 DEF AtRest, InEnd, EndIsReal
  <2> QED
    BY <2>3, <2>7, <2>8 DEF TransferInv
<1> QED
  BY <1>7, <1>8

\* A step that changes nothing.
LEMMA InvStutter == ASSUME TransferInv, UNCHANGED vars PROVE TransferInv'
<1>1. /\ st' = st /\ multiline_state' = multiline_state /\ flag' = flag /\ file' = file
      /\ file_ended' = file_ended
      /\ info_file_buff' = info_file_buff /\ file_buff' = file_buff
      /\ info_write_buff' = info_write_buff /\ write_buff' = write_buff
      /\ finished' = finished /\ asked' = asked /\ sent' = sent
  BY DEF vars, buffers
<1>2. Typed' /\ AtRest' /\ InEnd' /\ EndIsReal'
  BY <1>1 DEF TransferInv, Typed, AtRest, InEnd, EndIsReal, Asked
<1>3. ASSUME NEW i \in Nat, Halfway(i) PROVE Halfway(i)'
  BY <1>1, <1>3 DEF Halfway, Asked
<1>4. InMail'
  BY <1>1, <1>3 DEF TransferInv, InMail
<1> QED
  BY <1>2, <1>4 DEF TransferInv

\* The bytes of a mail are in its file, in the file buffer, or, doubled where
\* they have to be, in the output buffer or sent, in this order (retr_action and
\* process_response take turns at it, pop3.c:919-1078).
THEOREM TransferInvariant == Spec => []TransferInv
<1>1. TransferInv /\ [Next]_vars => TransferInv'
  <2> SUFFICES ASSUME TransferInv, [Next]_vars PROVE TransferInv'
    OBVIOUS
  <2>1. CASE Retr
    BY <2>1, RetrStep
  <2>2. CASE ReadFile
    BY <2>2, ReadFileStep
  <2>3. CASE MoreFile
    BY <2>3, MoreFileStep
  <2>4. CASE Copy
    BY <2>4, CopyStep
  <2>5. CASE Overflow
    BY <2>5, OverflowStep
  <2>6. CASE SendRest
    BY <2>6, SendRestStep
  <2>7. CASE UNCHANGED vars
    BY <2>7, InvStutter
  <2> QED
    BY <2>1, <2>2, <2>3, <2>4, <2>5, <2>6, <2>7 DEF Next, Server
<1> QED
  BY <1>1, InvInit, PTL DEF Spec

-----------------------------------------------------------------------------
(* What it shows.                                                          *)

\* However long the mails and however small the buffers, no byte is written past
\* a buffer and its positions agree with its bytes (buffer.h:24-25).
THEOREM TypeCorrect == Spec => []TypeOK
<1>1. TransferInv => TypeOK
  BY DEF TransferInv, Typed, Holds, TypeOK
<1> QED
  BY <1>1, TransferInvariant, PTL

\* No read of the file comes back empty before its end (pop3.c:1053-1056).
THEOREM EndCorrect == Spec => []EndIsReal
<1>1. TransferInv => EndIsReal
  BY DEF TransferInv
<1> QED
  BY <1>1, TransferInvariant, PTL

\* What a turn of the loop moves, the bytes it adds included, is always one of
\* the Moves that Pop3Server chooses from (pop3.c:973-985).
THEOREM MovesCorrect == Spec => []LoopMoves
<1>1. TransferInv => LoopMoves
  <2> SUFFICES ASSUME TransferInv, Room > 0
               PROVE  LET loop == Stuff(flag, file_buff, Room)
                      IN  <<loop.file, Len(loop.out) - loop.file>>
                            \in Moves(Len(file_buff), Room)
    BY DEF LoopMoves
  <2> DEFINE loop == Stuff(flag, file_buff, Room)
             a == Len(file_buff)
             z == Room
             n == loop.file
             k == Len(loop.out) - n
             u == Weight(loop.flag)
  <2>1. file_buff \in Seq(Char) /\ a \in Nat /\ flag \in Flag /\ z \in Nat \ {0}
    <3>1. Typed
      BY DEF TransferInv
    <3>2. z \in Nat
      BY <3>1, Limits, HoldsFacts DEF Typed, Room
    <3>3. file_buff \in Seq(Char) /\ a \in Nat /\ flag \in Flag
      BY <3>1 DEF Typed, Holds
    <3> QED
      BY <3>2, <3>3
  <2>2. Counts(loop, a, z)
    BY <2>1, StuffCounts
  <2> HIDE DEF loop
  <2>3. /\ n \in Nat /\ Len(loop.out) \in Nat /\ u \in Nat
        /\ n <= a /\ n <= Len(loop.out) /\ Len(loop.out) <= z
        /\ n = a \/ Len(loop.out) + 1 >= z
        /\ 3 * (Len(loop.out) - n) + u <= n + 2
        /\ Len(loop.out) = z => Len(loop.out) > n
    BY <2>2 DEF Counts, Loop, Weight
  <2> HIDE DEF a, z, n, u
  <2>4. /\ k \in Nat /\ Len(loop.out) = n + k
        /\ n \in 0..a /\ n + k <= z
        /\ n = a \/ n + k >= z - 1
        /\ n + k = z => k > 0 \/ n = 0
    BY <2>1, <2>3
  <2>5. 3 * k <= n + 2
    BY <2>3
  <2> HIDE DEF k
  <2>6. k <= (n + 2) \div 3
    BY <2>3, <2>4, <2>5
  <2>7. k \in 0..a
    BY <2>1, <2>3, <2>4, <2>5
  <2>8. <<n, k>> \in Moves(a, z)
    BY <2>4, <2>6, <2>7 DEF Moves
  <2> QED
    BY <2>8 DEF n, k, a, z, loop
<1> QED
  BY <1>1, TransferInvariant, PTL

\* The answer that was sent, after its first line.
LEMMA BodyOf ==
  ASSUME NEW x \in Seq(Char)
  PROVE  Body(FirstLine \o x) = x
<1> DEFINE s == FirstLine \o x
           t == SubSeq(s, 4, Len(s))
<1>1. /\ s \in Seq(Char) /\ Len(s) = 3 + Len(x)
      /\ \A i \in 1..3 + Len(x) : s[i] = IF i <= 3 THEN FirstLine[i] ELSE x[i - 3]
  <2> DEFINE y == FirstLine
  <2>1. y \in Seq(Char) /\ Len(y) = 3
    BY Limits
  <2> HIDE DEF y
  <2>2. /\ y \o x \in Seq(Char) /\ Len(y \o x) = Len(y) + Len(x)
        /\ \A i \in 1..Len(y) + Len(x) :
             (y \o x)[i] = IF i <= Len(y) THEN y[i] ELSE x[i - Len(y)]
    BY <2>1, ConcatProperties
  <2>3. /\ y \o x \in Seq(Char) /\ Len(y \o x) = 3 + Len(x)
        /\ \A i \in 1..3 + Len(x) : (y \o x)[i] = IF i <= 3 THEN y[i] ELSE x[i - 3]
    BY <2>1, <2>2
  <2> QED
    BY <2>3 DEF y
<1> HIDE DEF s
<1>2. Len(x) \in Nat /\ 3 \in 0..Len(s)
  BY <1>1
<1>3. /\ t \in Seq(Char) /\ Len(t) = Len(s) - 3
      /\ \A k \in 1..Len(s) - 3 : t[k] = s[3 + k]
  <2>1. 3 + 1 = 4
    OBVIOUS
  <2> HIDE DEF t
  <2> QED
    BY <1>1, <1>2, <2>1, Cut DEF t
<1> HIDE DEF t
<1>4. Len(t) = Len(x)
  BY <1>1, <1>2, <1>3
<1>5. ASSUME NEW k \in 1..Len(x) PROVE t[k] = x[k]
  <2> DEFINE i == 3 + k
  <2>1. i \in 1..3 + Len(x) /\ ~(i <= 3) /\ i - 3 = k /\ k \in 1..Len(s) - 3
    BY <1>1, <1>2
  <2> HIDE DEF i
  <2>2. s[i] = x[k]
    BY <1>1, <2>1
  <2> QED
    BY <1>3, <2>1, <2>2 DEF i
<1>6. t = x
  BY <1>3, <1>4, <1>5, SeqEqual
<1>7. Body(s) = t
  <2>1. Len(FirstLine) + 1 = 4
    BY Limits
  <2> QED
    BY <2>1 DEF Body, t
<1> QED
  BY <1>6, <1>7 DEF s

\* However the answer was cut into reads and sends, the client that reads it up
\* to the last line and drops a dot that starts a line has the mail
\* (pop3.c:973-1012).
THEOREM MailCorrect == Spec => []ClientReadsTheMail
<1>1. TransferInv => ClientReadsTheMail
  <2> SUFFICES ASSUME TransferInv, st = "IDLE", asked # <<>>
               PROVE  LET body == Body(sent)
                      IN  Unstuffed(SubSeq(body, 1, Len(body) - 3))
                            = Asked \o <<"CR", "LF">>
    BY DEF ClientReadsTheMail
  <2> DEFINE m == Asked
             s == Answer(m)
             z == Place(m, Len(m))
             y == Stuffed(m, Len(m)) \o <<"CR", "LF">>
  <2>1. m \in Seq(Char) /\ sent = FirstLine \o s
    BY AskedType DEF TransferInv, AtRest, Typed
  <2>2. s \in Seq(Char) /\ z \in Nat /\ Len(s) = z + 5 /\ s[z + 1] = "CR" /\ s[z + 2] = "LF"
        /\ Extends(s, Stuffed(m, Len(m)))
    <3> HIDE DEF m
    <3> QED
      BY <2>1, AnswerBytes
  <2>3. Body(sent) = s
    <3> HIDE DEF s
    <3> QED
      BY <2>1, <2>2, BodyOf
  <2> HIDE DEF m, s
  <2>4. /\ SubSeq(s, 1, z + 2) \in Seq(Char) /\ Len(SubSeq(s, 1, z + 2)) = z + 2
        /\ \A k \in 1..z + 2 : SubSeq(s, 1, z + 2)[k] = s[k]
    <3>1. z + 2 \in 0..Len(s)
      BY <2>2
    <3> QED
      BY <2>2, <3>1, Cut
  <2>5. SubSeq(s, 1, z + 2) = y
    <3> DEFINE w == <<"CR", "LF">>
               x == Stuffed(m, Len(m))
    <3>1. w \in Seq(Char) /\ Len(w) = 2 /\ w[1] = "CR" /\ w[2] = "LF"
      BY DEF Char
    <3>2. x \in Seq(Char) /\ Len(x) = z
      BY <2>1, CodeSteps DEF Place
    <3> HIDE DEF w, x, z
    <3>3. /\ x \o w \in Seq(Char) /\ Len(x \o w) = Len(x) + Len(w)
          /\ \A k \in 1..Len(x) + Len(w) :
               (x \o w)[k] = IF k <= Len(x) THEN x[k] ELSE w[k - Len(x)]
      BY <3>1, <3>2, ConcatProperties
    <3>4. ASSUME NEW k \in 1..z + 2 PROVE s[k] = (x \o w)[k]
      <4>1. CASE k <= z
        BY <2>2, <3>1, <3>2, <3>3, <4>1 DEF Extends, x
      <4>2. CASE k = z + 1
        <5>1. ~(k <= z) /\ k - z = 1 /\ k \in 1..Len(x) + Len(w)
          BY <2>2, <3>1, <3>2, <4>2
        <5>2. (x \o w)[k] = w[1]
          BY <3>2, <3>3, <5>1
        <5> QED
          BY <2>2, <3>1, <4>2, <5>2
      <4>3. CASE k = z + 2
        <5>1. ~(k <= z) /\ k - z = 2 /\ k \in 1..Len(x) + Len(w)
          BY <2>2, <3>1, <3>2, <4>3
        <5>2. (x \o w)[k] = w[2]
          BY <3>2, <3>3, <5>1
        <5> QED
          BY <2>2, <3>1, <4>3, <5>2
      <4>4. k <= z \/ k = z + 1 \/ k = z + 2
        <5>1. z \in Nat
          BY <2>2
        <5> QED
          BY <5>1
      <4> QED
        BY <4>1, <4>2, <4>3, <4>4
    <3>5. Len(x \o w) = z + 2
      BY <2>2, <3>1, <3>2, <3>3
    <3>6. SubSeq(s, 1, z + 2) = x \o w
      BY <2>4, <3>3, <3>4, <3>5, SeqEqual
    <3> QED
      BY <3>6 DEF x, w
  <2>6. Len(s) - 3 = z + 2
    BY <2>2
  <2>7. Unstuffed(y) = m \o <<"CR", "LF">>
    BY <2>1, Decoded
  <2> HIDE DEF y, z
  <2> QED
    BY <2>3, <2>5, <2>6, <2>7 DEF m
<1> QED
  BY <1>1, TransferInvariant, PTL

\* A part of the answer that was sent, after its first line.
LEMMA BodyBefore ==
  ASSUME NEW x \in Seq(Char), NEW y \in Seq(Char), NEW a \in Seq(Char),
         x \o y = FirstLine \o a
  PROVE  /\ Body(x) \in Seq(Char) /\ Extends(a, Body(x))
         /\ y # <<>> => Len(Body(x)) < Len(a) \/ Len(a) = 0
<1>1. /\ x \o y \in Seq(Char) /\ Len(x \o y) = Len(x) + Len(y)
      /\ \A i \in 1..Len(x) + Len(y) :
           (x \o y)[i] = IF i <= Len(x) THEN x[i] ELSE y[i - Len(x)]
  BY ConcatProperties
<1>2. Len(x) \in Nat /\ Len(y) \in Nat /\ Len(a) \in Nat
  OBVIOUS
<1>3. /\ Len(FirstLine \o a) = 3 + Len(a)
      /\ \A k \in 1..Len(a) : (FirstLine \o a)[3 + k] = a[k]
  <2> DEFINE f == FirstLine
  <2>1. f \in Seq(Char) /\ Len(f) = 3
    BY Limits
  <2> HIDE DEF f
  <2>2. /\ Len(f \o a) = Len(f) + Len(a)
        /\ \A i \in 1..Len(f) + Len(a) :
             (f \o a)[i] = IF i <= Len(f) THEN f[i] ELSE a[i - Len(f)]
    BY <2>1, ConcatProperties
  <2>3. ASSUME NEW k \in 1..Len(a) PROVE (f \o a)[3 + k] = a[k]
    <3> DEFINE i == 3 + k
    <3>1. i \in 1..Len(f) + Len(a) /\ ~(i <= Len(f)) /\ i - Len(f) = k
      BY <1>2, <2>1
    <3> HIDE DEF i
    <3>2. (f \o a)[i] = a[k]
      BY <2>2, <3>1
    <3> QED
      BY <3>2 DEF i
  <2> QED
    BY <2>1, <2>2, <2>3 DEF f
<1>4. Len(x) + Len(y) = 3 + Len(a)
  BY <1>1, <1>3
<1>5. Body(x) = SubSeq(x, 4, Len(x))
  <2>1. Len(FirstLine) + 1 = 4
    BY Limits
  <2> QED
    BY <2>1 DEF Body
<1>6. CASE Len(x) < 3
  <2>1. Body(x) = <<>>
    BY <1>2, <1>5, <1>6, SubSeqEmpty
  <2> QED
    BY <1>2, <2>1 DEF Extends
<1>7. CASE Len(x) >= 3
  <2> DEFINE t == Body(x)
  <2>1. /\ t \in Seq(Char) /\ Len(t) = Len(x) - 3
        /\ \A k \in 1..Len(x) - 3 : t[k] = x[3 + k]
    <3> DEFINE d == 3
               u == SubSeq(x, d + 1, Len(x))
    <3>1. d \in 0..Len(x) /\ d + 1 = 4 /\ d = 3
      BY <1>2, <1>7
    <3> HIDE DEF t, d
    <3>2. /\ u \in Seq(Char) /\ Len(u) = Len(x) - d
          /\ \A k \in 1..Len(x) - d : u[k] = x[d + k]
      BY <3>1, Cut
    <3>3. t = u
      BY <1>5, <3>1 DEF t
    <3> QED
      BY <3>1, <3>2, <3>3
  <2> HIDE DEF t
  <2>2. Len(t) <= Len(a)
    BY <1>2, <1>4, <2>1
  <2>3. ASSUME NEW k \in 1..Len(t) PROVE a[k] = t[k]
    <3> DEFINE i == 3 + k
    <3>1. i \in 1..Len(x) + Len(y) /\ i <= Len(x) /\ k \in 1..Len(a) /\ k \in 1..Len(x) - 3
      BY <1>2, <1>4, <1>7, <2>1, <2>2
    <3> HIDE DEF i
    <3>2. (x \o y)[i] = x[i]
      BY <1>1, <3>1
    <3>3. (FirstLine \o a)[i] = a[k]
      BY <1>3, <3>1 DEF i
    <3>4. t[k] = x[i]
      BY <2>1, <3>1 DEF i
    <3> QED
      BY <3>2, <3>3, <3>4
  <2>4. y # <<>> => Len(y) # 0
    OBVIOUS
  <2>5. y # <<>> => Len(t) < Len(a)
    BY <1>2, <1>4, <1>7, <2>1, <2>4
  <2> QED
    BY <2>1, <2>2, <2>3, <2>5 DEF Extends, t
<1> QED
  BY <1>2, <1>6, <1>7

\* The client sees the end of an answer when all of it was sent and not before:
\* no line of a mail, cut wherever a send cuts it, is taken for the end
\* (pop3.c:973-1012).
THEOREM EndSeenOnce == Spec => []EndsOnce
<1>1. TransferInv => EndsOnce
  <2> SUFFICES ASSUME TransferInv PROVE EndsOnce
    OBVIOUS
  <2> DEFINE m == Asked
             s == Answer(m)
  <2>1. Typed /\ sent \in Seq(Char) /\ write_buff \in Seq(Char)
    BY DEF TransferInv, Typed, Holds
  <2>2. ASSUME asked # <<>>
        PROVE  m \in Seq(Char) /\ s \in Seq(Char) /\ Len(s) \in Nat /\ Len(s) >= 5
    <3>1. m \in Seq(Char)
      BY <2>1, <2>2, AskedType DEF Typed
    <3> HIDE DEF m
    <3>2. s \in Seq(Char) /\ Place(m, Len(m)) \in Nat /\ Len(s) = Place(m, Len(m)) + 5
      BY <3>1, AnswerBytes
    <3> QED
      BY <3>1, <3>2
  <2>3. CASE st = "IDLE" /\ asked # <<>>
    <3>1. sent = FirstLine \o s
      BY <2>3 DEF TransferInv, AtRest
    <3> HIDE DEF m
    <3>2. EndsAt(s) = {Len(s) - 2}
      BY <2>2, <2>3, EndFound
    <3> HIDE DEF s
    <3>3. Body(sent) = s
      BY <2>2, <2>3, <3>1, BodyOf
    <3> QED
      BY <2>3, <3>2, <3>3 DEF EndsOnce
  <2>4. CASE st = "IDLE" /\ asked = <<>>
    <3>1. sent = <<>>
      BY <2>4 DEF TransferInv, AtRest
    <3>2. EndsAt(Body(sent)) = {}
      <4>1. Body(sent) = <<>>
        BY <3>1, Limits, SubSeqEmpty DEF Body
      <4> QED
        BY <4>1 DEF EndsAt
    <3> QED
      BY <2>4, <3>2 DEF EndsOnce
  <2>5. CASE st # "IDLE"
    <3>1. asked # <<>>
      BY <2>5 DEF TransferInv, InMail, InEnd
    <3>2. Body(sent) \in Seq(Char) /\ Extends(s, Body(sent)) /\ Len(Body(sent)) < Len(s)
      <4>1. CASE finished
        <5>1. sent \o write_buff = FirstLine \o s /\ write_buff # <<>>
          BY <2>5, <4>1 DEF TransferInv, InEnd
        <5> HIDE DEF s
        <5>2. /\ Body(sent) \in Seq(Char) /\ Extends(s, Body(sent))
              /\ Len(Body(sent)) < Len(s) \/ Len(s) = 0
          BY <2>1, <2>2, <3>1, <5>1, BodyBefore
        <5> QED
          BY <2>2, <3>1, <5>2
      <4>2. CASE ~finished
        <5>1. PICK i \in Nat : Halfway(i)
          BY <2>5, <4>2 DEF TransferInv, InMail
        <5> DEFINE a == Stuffed(m, i)
        <5>2. i \in 0..Len(m) /\ sent \o write_buff = FirstLine \o a
          BY <5>1 DEF Halfway
        <5> HIDE DEF m
        <5>3. a \in Seq(Char)
          BY <2>2, <3>1, <5>2, CodeSteps
        <5>4. Extends(Stuffed(m, Len(m)), a)
          <6>1. Len(m) \in i..Len(m)
            BY <2>2, <3>1, <5>2
          <6> QED
            BY <2>2, <3>1, <5>2, <6>1, StuffedExtends
        <5>5. Extends(s, Stuffed(m, Len(m))) /\ Len(s) = Place(m, Len(m)) + 5
          BY <2>2, <3>1, AnswerBytes
        <5> DEFINE y == Stuffed(m, Len(m))
        <5>6. y \in Seq(Char) /\ Len(s) = Len(y) + 5
          <6>1. Len(m) \in 0..Len(m)
            BY <2>2, <3>1
          <6> QED
            BY <2>2, <3>1, <5>5, <6>1, CodeSteps DEF Place
        <5> HIDE DEF a, y, s
        <5>7. Body(sent) \in Seq(Char) /\ Extends(a, Body(sent))
          BY <2>1, <5>2, <5>3, BodyBefore
        <5>8. Extends(y, a) /\ Extends(s, y)
          BY <5>4, <5>5 DEF y
        <5>9. Len(y) \in Nat /\ Len(a) \in Nat /\ Len(Body(sent)) \in Nat
          BY <5>3, <5>6, <5>7
        <5>10. Extends(s, Body(sent)) /\ Len(Body(sent)) < Len(s)
          BY <5>6, <5>7, <5>8, <5>9 DEF Extends
        <5> QED
          BY <5>7, <5>10
      <4> QED
        BY <2>1, <4>1, <4>2 DEF Typed
    <3> HIDE DEF m
    <3>3. EndsAt(Body(sent)) = {}
      BY <2>2, <3>1, <3>2, NoEndBefore
    <3> QED
      BY <2>5, <3>3 DEF EndsOnce
  <2> QED
    BY <2>3, <2>4, <2>5
<1> QED
  BY <1>1, TransferInvariant, PTL
=============================================================================
