--------------------------- MODULE RequestProofs ---------------------------
(***************************************************************************)
(* Proofs that a session takes exactly the requests of its client out of   *)
(* the bytes it receives, for every stream of bytes, every way of cutting  *)
(* it into pieces and every size of the read buffer.                       *)
(***************************************************************************)
EXTENDS RequestProperties, Integers, FiniteSetTheorems, SequenceTheorems, TLAPS

-----------------------------------------------------------------------------
(* Induction, as in TransferProofs.                                        *)

\* Every nonempty set of natural numbers has a least element: the interval up to
\* it has no other below it.
LEMMA Least ==
  ASSUME NEW T, T \subseteq Nat, T # {}
  PROVE  \E x \in T : \A y \in T : x <= y
<1> DEFINE Upto == {0..x : x \in T}
<1>1. Upto \subseteq FiniteSubsetsOf(Nat)
  <2>1. \A x \in Nat : IsFiniteSet(0..x)
    BY FS_Interval
  <2> QED
    BY <2>1 DEF FiniteSubsetsOf
<1>2. Upto # {}
  OBVIOUS
<1>3. PICK S \in Upto : \A U \in Upto : ~(<<U, S>> \in StrictSubsetOrdering(Nat))
  <2> HIDE DEF Upto
  <2> QED
    BY <1>1, <1>2, WFMin, FS_StrictSubsetOrderingWellFounded
<1>4. PICK x \in T : S = 0..x
  OBVIOUS
<1>5. \A y \in T : x <= y
  <2> SUFFICES ASSUME NEW y \in T, y < x PROVE FALSE
    OBVIOUS
  <2>1. 0..y \in Upto /\ 0..y \subseteq 0..x /\ x \in 0..x /\ x \notin 0..y
    OBVIOUS
  <2>2. <<0..y, S>> \in StrictSubsetOrdering(Nat)
    BY <2>1, <1>4 DEF StrictSubsetOrdering
  <2> QED
    BY <2>1, <2>2, <1>3
<1> QED
  BY <1>5

\* Induction over the natural numbers, for the members of a set.
LEMMA Induction ==
  ASSUME NEW G, 0 \in G, \A n \in Nat : n \in G => n + 1 \in G
  PROVE  \A n \in Nat : n \in G
<1> SUFFICES ASSUME Nat \ G # {} PROVE FALSE
  OBVIOUS
<1>1. PICK x \in Nat \ G : \A y \in Nat \ G : x <= y
  BY Least
<1>2. x - 1 \in Nat /\ x - 1 \in G
  BY <1>1
<1> QED
  BY <1>1, <1>2

\* T has n steps after a, of which each is a function of the one before it and
\* of its number.
Iterates(T, S, a, F, n) ==
  /\ T \in [0..n -> S]
  /\ T[0] = a
  /\ \A i \in 1..n : T[i] = F[<<T[i - 1], i>>]

\* There are n steps of every function from every start.
LEMMA Recursion ==
  ASSUME NEW S, NEW a \in S, NEW n \in Nat, NEW F \in [S \X Nat -> S]
  PROVE  \E T : Iterates(T, S, a, F, n)
<1> DEFINE
    Steps(T, k) ==
      T \in [0..k -> S] /\ T[0] = a /\ \A i \in 1..k : T[i] = F[<<T[i - 1], i>>]
    G == {k \in Nat : \E T : Steps(T, k)}
<1>1. 0 \in G
  <2>1. Steps([i \in 0..0 |-> a], 0)
    OBVIOUS
  <2> QED
    BY <2>1
<1>2. ASSUME NEW k \in Nat, k \in G PROVE k + 1 \in G
  <2>1. PICK T : Steps(T, k)
    BY <1>2
  <2> DEFINE U == [i \in 0..k + 1 |-> IF i = k + 1 THEN F[<<T[k], k + 1>>] ELSE T[i]]
  <2>2. F[<<T[k], k + 1>>] \in S
    <3>1. T[k] \in S
      BY <2>1
    <3> QED
      BY <3>1
  <2>3. U \in [0..k + 1 -> S]
    BY <2>1, <2>2
  <2>4. U[0] = a
    BY <2>1
  <2>5. ASSUME NEW i \in 1..k + 1 PROVE U[i] = F[<<U[i - 1], i>>]
    <3>1. CASE i = k + 1
      <4>1. U[i] = F[<<T[k], k + 1>>] /\ U[i - 1] = T[k]
        BY <3>1
      <4> QED
        BY <3>1, <4>1
    <3>2. CASE i \in 1..k
      <4>1. U[i] = T[i] /\ U[i - 1] = T[i - 1]
        BY <3>2
      <4> QED
        BY <2>1, <3>2, <4>1
    <3> QED
      BY <3>1, <3>2
  <2>6. Steps(U, k + 1)
    BY <2>3, <2>4, <2>5
  <2> HIDE DEF Steps, U
  <2> QED
    BY <2>6
<1>3. n \in G
  <2> HIDE DEF G
  <2> QED
    BY <1>1, <1>2, Induction
<1>4. PICK T : Steps(T, n)
  BY <1>3
<1> QED
  BY <1>4 DEF Iterates

-----------------------------------------------------------------------------
(* The tables of the parser.                                               *)

\* What parser_feed finds in a row.
First(row, c) ==
  LET hits == {i \in DOMAIN row : c \in row[i].when}
  IN  row[CHOOSE i \in hits : \A j \in hits : i <= j]

\* The least of a set of numbers is what CHOOSE finds.
LEMMA Chosen ==
  ASSUME NEW S, S \subseteq Nat, NEW k \in S, \A j \in S : k <= j
  PROVE  (CHOOSE i \in S : \A j \in S : i <= j) = k
<1> DEFINE x == CHOOSE i \in S : \A j \in S : i <= j
<1>1. x \in S /\ \A j \in S : x <= j
  OBVIOUS
<1> HIDE DEF x
<1>2. x <= k /\ k <= x
  BY <1>1
<1>3. x \in Nat /\ k \in Nat
  BY <1>1
<1>4. x = k
  BY <1>2, <1>3
<1> QED
  BY <1>4 DEF x

\* The first transition of three that matches, when the last matches.
LEMMA FirstOfThree ==
  ASSUME NEW r1, NEW r2, NEW r3, NEW c, c \in r3.when
  PROVE  First(<<r1, r2, r3>>, c) =
           IF c \in r1.when THEN r1 ELSE IF c \in r2.when THEN r2 ELSE r3
<1> DEFINE row == <<r1, r2, r3>>
           hits == {i \in DOMAIN row : c \in row[i].when}
           k == IF c \in r1.when THEN 1 ELSE IF c \in r2.when THEN 2 ELSE 3
<1>1. DOMAIN row = 1..3 /\ row[1] = r1 /\ row[2] = r2 /\ row[3] = r3
  OBVIOUS
<1>2. \A i \in 1..3 : i = 1 \/ i = 2 \/ i = 3
  OBVIOUS
<1>3. k \in hits /\ \A j \in hits : k <= j
  BY <1>1, <1>2
<1>4. hits \subseteq Nat
  BY <1>1
<1>5. row[k] = IF c \in r1.when THEN r1 ELSE IF c \in r2.when THEN r2 ELSE r3
  BY <1>1
<1>6. First(row, c) = row[CHOOSE i \in hits : \A j \in hits : i <= j]
  BY DEF First
<1> HIDE DEF hits, row, k
<1>7. (CHOOSE i \in hits : \A j \in hits : i <= j) = k
  BY <1>3, <1>4, Chosen
<1> QED
  BY <1>5, <1>6, <1>7 DEF row

\* The same of two.
LEMMA FirstOfTwo ==
  ASSUME NEW r1, NEW r2, NEW c, c \in r2.when
  PROVE  First(<<r1, r2>>, c) = IF c \in r1.when THEN r1 ELSE r2
<1> DEFINE row == <<r1, r2>>
           hits == {i \in DOMAIN row : c \in row[i].when}
           k == IF c \in r1.when THEN 1 ELSE 2
<1>1. DOMAIN row = 1..2 /\ row[1] = r1 /\ row[2] = r2
  OBVIOUS
<1>2. \A i \in 1..2 : i = 1 \/ i = 2
  OBVIOUS
<1>3. k \in hits /\ \A j \in hits : k <= j
  BY <1>1, <1>2
<1>4. hits \subseteq Nat
  BY <1>1
<1>5. row[k] = IF c \in r1.when THEN r1 ELSE r2
  BY <1>1
<1>6. First(row, c) = row[CHOOSE i \in hits : \A j \in hits : i <= j]
  BY DEF First
<1> HIDE DEF hits, row, k
<1>7. (CHOOSE i \in hits : \A j \in hits : i <= j) = k
  BY <1>3, <1>4, Chosen
<1> QED
  BY <1>5, <1>6, <1>7 DEF row

\* A row is one transition and the two that most rows end with.
LEMMA RowOfThree ==
  ASSUME NEW r1, NEW r2, NEW r3
  PROVE  <<r1>> \o <<r2, r3>> = <<r1, r2, r3>>
<1> DEFINE S == {r1, r2, r3}
           x == <<r1>>
           y == <<r2, r3>>
           z == <<r1, r2, r3>>
<1>1. /\ x \in Seq(S) /\ y \in Seq(S) /\ z \in Seq(S)
      /\ Len(x) = 1 /\ Len(y) = 2 /\ Len(z) = 3
      /\ x[1] = r1 /\ y[1] = r2 /\ y[2] = r3 /\ z[1] = r1 /\ z[2] = r2 /\ z[3] = r3
  OBVIOUS
<1> HIDE DEF S, x, y, z
<1>2. /\ x \o y \in Seq(S) /\ Len(x \o y) = Len(x) + Len(y)
      /\ \A i \in 1..Len(x) + Len(y) :
           (x \o y)[i] = IF i <= Len(x) THEN x[i] ELSE y[i - Len(x)]
  BY <1>1, ConcatProperties
<1>3. Len(x \o y) = 3 /\ (x \o y)[1] = r1 /\ (x \o y)[2] = r2 /\ (x \o y)[3] = r3
  BY <1>1, <1>2
<1>4. \A i \in 1..3 : i = 1 \/ i = 2 \/ i = 3
  OBVIOUS
<1>5. \A i \in 1..Len(z) : (x \o y)[i] = z[i]
  BY <1>1, <1>3, <1>4
<1>6. x \o y = z
  BY <1>1, <1>2, <1>3, <1>5, SeqEqual
<1> QED
  BY <1>6 DEF x, y, z

\* The parser in another state.
At(p, state) == [p EXCEPT !.state = state]

\* What a byte does in a state: one set of bytes leads on, a CR may end the
\* request, any other byte spoils it.
Fed(p, c, on, dest, action, cr) ==
  IF c \in on THEN Act(At(p, dest), action, c)
  ELSE IF c = CR THEN Act(At(p, "MAYEND"), cr, c)
  ELSE Act(At(p, "ERRST"), "err", c)

\* Feeding a byte in a state whose row has three transitions.
LEMMA FedInRow ==
  ASSUME NEW p, NEW c \in Byte, NEW on, NEW dest, NEW action, NEW cr,
         Table[p.state] = <<To(on, dest, action)>> \o Otherwise(cr)
  PROVE  Feed(p, c) = Fed(p, c, on, dest, action, cr)
<1> DEFINE r1 == To(on, dest, action)
           r2 == To({CR}, "MAYEND", cr)
           r3 == To(Byte, "ERRST", "err")
           hit == First(Table[p.state], c)
<1>1. /\ r1.when = on /\ r1.dest = dest /\ r1.action = action
      /\ r2.when = {CR} /\ r2.dest = "MAYEND" /\ r2.action = cr
      /\ r3.when = Byte /\ r3.dest = "ERRST" /\ r3.action = "err"
  BY DEF To
<1>2. Table[p.state] = <<r1>> \o <<r2, r3>>
  BY DEF Otherwise
<1>3. Feed(p, c) = Act([p EXCEPT !.state = hit.dest], hit.action, c)
  BY DEF Feed, First
<1> HIDE DEF r1, r2, r3
<1>4. hit = IF c \in r1.when THEN r1 ELSE IF c \in r2.when THEN r2 ELSE r3
  <2>1. Table[p.state] = <<r1, r2, r3>>
    BY <1>2, RowOfThree
  <2>2. c \in r3.when
    BY <1>1
  <2>3. First(<<r1, r2, r3>>, c) =
          IF c \in r1.when THEN r1 ELSE IF c \in r2.when THEN r2 ELSE r3
    BY <2>2, FirstOfThree
  <2> QED
    BY <2>1, <2>3
<1> HIDE DEF hit
<1> QED
  BY <1>1, <1>3, <1>4 DEF Fed, At

\* What each state does with a byte.
LEMMA FeedIs ==
  ASSUME NEW p \in Parser, NEW c \in Byte
  PROVE  /\ p.state = "INIT" => Feed(p, c) = Fed(p, c, Letter, "CMD_1", "cmd", "err")
         /\ p.state = "CMD_1" => Feed(p, c) = Fed(p, c, Letter, "CMD_2", "cmd", "err")
         /\ p.state = "CMD_2" => Feed(p, c) = Fed(p, c, Letter, "CMD_3", "cmd", "err")
         /\ p.state = "CMD_3" => Feed(p, c) = Fed(p, c, Letter, "CMD_4", "cmd", "err")
         /\ p.state = "CMD_4" => Feed(p, c) = Fed(p, c, {SP}, "ARGST", "def", "def")
         /\ p.state = "ARGST" => Feed(p, c) = Fed(p, c, Printable, "ARGST", "arg", "def")
         /\ p.state = "MAYEND" => Feed(p, c) = Fed(p, c, {LF}, "ENDST", "end", "err")
         /\ p.state = "ERRST" => Feed(p, c) = Fed(p, c, {}, "ERRST", "err", "err")
<1>1. /\ Table["INIT"] = CmdRow("CMD_1") /\ Table["CMD_1"] = CmdRow("CMD_2")
      /\ Table["CMD_2"] = CmdRow("CMD_3") /\ Table["CMD_3"] = CmdRow("CMD_4")
      /\ Table["CMD_4"] = <<To({SP}, "ARGST", "def")>> \o Otherwise("def")
      /\ Table["ARGST"] = <<To(Printable, "ARGST", "arg")>> \o Otherwise("def")
      /\ Table["MAYEND"] = <<To({LF}, "ENDST", "end")>> \o Otherwise("err")
      /\ Table["ERRST"] = Otherwise("err")
  BY DEF Table
<1>2. CASE p.state = "INIT"
  BY <1>1, <1>2, FedInRow DEF CmdRow
<1>3. CASE p.state = "CMD_1"
  BY <1>1, <1>3, FedInRow DEF CmdRow
<1>4. CASE p.state = "CMD_2"
  BY <1>1, <1>4, FedInRow DEF CmdRow
<1>5. CASE p.state = "CMD_3"
  BY <1>1, <1>5, FedInRow DEF CmdRow
<1>6. CASE p.state = "CMD_4"
  BY <1>1, <1>6, FedInRow
<1>7. CASE p.state = "ARGST"
  BY <1>1, <1>7, FedInRow
<1>8. CASE p.state = "MAYEND"
  BY <1>1, <1>8, FedInRow
<1>9. CASE p.state = "ERRST"
  <2> DEFINE r1 == To({CR}, "MAYEND", "err")
             r2 == To(Byte, "ERRST", "err")
             hit == First(Table[p.state], c)
  <2>1. /\ r1.when = {CR} /\ r1.dest = "MAYEND" /\ r1.action = "err"
        /\ r2.when = Byte /\ r2.dest = "ERRST" /\ r2.action = "err"
    BY DEF To
  <2>2. Table[p.state] = <<r1, r2>>
    BY <1>1, <1>9 DEF Otherwise
  <2>3. Feed(p, c) = Act([p EXCEPT !.state = hit.dest], hit.action, c)
    BY DEF Feed, First
  <2> HIDE DEF r1, r2
  <2>4. hit = IF c \in r1.when THEN r1 ELSE r2
    BY <2>1, <2>2, FirstOfTwo
  <2> HIDE DEF hit
  <2> QED
    BY <1>9, <2>1, <2>3, <2>4 DEF Fed, At
<1> QED
  BY <1>2, <1>3, <1>4, <1>5, <1>6, <1>7, <1>8, <1>9 DEF Parser, ParserState

-----------------------------------------------------------------------------
(* A line, byte by byte.                                                   *)

\* What may stand at a place of a well-formed line.
Fits(i, c) == IF i <= CmdLength THEN c \in Letter
              ELSE IF i = CmdLength + 1 THEN c = SP ELSE c \in Printable

\* The beginning of a well-formed line.
Good(x) == /\ Len(x) <= CmdLength + 1 + ArgMax
           /\ \A i \in 1..Len(x) : Fits(i, x[i])

\* A longer beginning.
LEMMA GoodStep ==
  ASSUME NEW x \in Seq(Byte), NEW c \in Byte
  PROVE  /\ Append(x, c) \in Seq(Byte) /\ Len(Append(x, c)) = Len(x) + 1
         /\ \A i \in 1..Len(x) : Append(x, c)[i] = x[i]
         /\ Append(x, c)[Len(x) + 1] = c
         /\ Good(Append(x, c)) <=> /\ Good(x) /\ Fits(Len(x) + 1, c)
                                   /\ Len(x) + 1 <= CmdLength + 1 + ArgMax
<1> DEFINE n == Len(x)
           y == Append(x, c)
<1>1. n \in Nat /\ y \in Seq(Byte) /\ Len(y) = n + 1 /\ y[n + 1] = c
      /\ \A i \in 1..n : y[i] = x[i]
  OBVIOUS
<1> HIDE DEF y
<1>2. (\A i \in 1..n + 1 : Fits(i, y[i])) <=>
        (\A i \in 1..n : Fits(i, y[i])) /\ Fits(n + 1, y[n + 1])
  <2> HIDE DEF n
  <2>1. \A i \in 1..n + 1 : i \in 1..n \/ i = n + 1
    BY <1>1
  <2>2. 1..n \subseteq 1..n + 1 /\ n + 1 \in 1..n + 1
    BY <1>1
  <2> QED
    BY <2>1, <2>2
<1>3. (\A i \in 1..n : Fits(i, y[i])) <=> \A i \in 1..n : Fits(i, x[i])
  BY <1>1
<1>4. Good(y) <=> n + 1 <= CmdLength + 1 + ArgMax /\ \A i \in 1..n + 1 : Fits(i, y[i])
  BY <1>1 DEF Good
<1>5. Good(x) <=> n <= CmdLength + 1 + ArgMax /\ \A i \in 1..n : Fits(i, x[i])
  BY DEF Good
<1>6. Good(y) <=> Good(x) /\ Fits(n + 1, c) /\ n + 1 <= CmdLength + 1 + ArgMax
  <2>1. CmdLength + 1 + ArgMax \in Nat
    BY BytesAssumption DEF CmdLength
  <2>2. n + 1 <= CmdLength + 1 + ArgMax => n <= CmdLength + 1 + ArgMax
    BY <1>1, <2>1
  <2> HIDE DEF n
  <2> QED
    BY <1>1, <1>2, <1>3, <1>4, <1>5, <2>2
<1> QED
  BY <1>1, <1>6 DEF y

\* A line is well formed when it begins like one and has a command.
LEMMA WellFormedIs ==
  ASSUME NEW x \in Seq(Byte)
  PROVE  WellFormed(x) <=> Len(x) >= CmdLength /\ Good(x)
<1> DEFINE n == Len(x)
<1>1. n \in Nat /\ ArgMax \in Nat
  BY BytesAssumption
<1>2. ASSUME WellFormed(x) PROVE n >= CmdLength /\ Good(x)
  <2>1. /\ n >= 4
        /\ \A i \in 1..4 : x[i] \in Letter
        /\ n > 4 => x[5] = SP
        /\ \A i \in 6..n : x[i] \in Printable
        /\ n <= 5 + ArgMax
    BY <1>2 DEF WellFormed, CmdLength
  <2>2. ASSUME NEW i \in 1..n PROVE Fits(i, x[i])
    <3>1. i \in 1..4 \/ i = 5 \/ i \in 6..n
      BY <1>1
    <3> QED
      BY <1>1, <2>1, <3>1 DEF Fits, CmdLength
  <2> QED
    BY <1>1, <2>1, <2>2 DEF Good, CmdLength
<1>3. ASSUME n >= CmdLength, Good(x) PROVE WellFormed(x)
  <2>1. n >= 4 /\ n <= 5 + ArgMax /\ \A i \in 1..n : Fits(i, x[i])
    BY <1>1, <1>3 DEF Good, CmdLength
  <2>2. ASSUME NEW i \in 1..4 PROVE x[i] \in Letter
    <3>1. i \in 1..n /\ i <= 4
      BY <1>1, <2>1
    <3> QED
      BY <2>1, <3>1 DEF Fits, CmdLength
  <2>3. ASSUME n > 4 PROVE x[5] = SP
    <3>1. 5 \in 1..n
      BY <1>1, <2>3
    <3> QED
      BY <2>1, <3>1 DEF Fits, CmdLength
  <2>4. ASSUME NEW i \in 6..n PROVE x[i] \in Printable
    <3>1. i \in 1..n /\ ~(i <= 4) /\ i # 5
      BY <1>1
    <3> QED
      BY <2>1, <3>1 DEF Fits, CmdLength
  <2>5. n > CmdLength => x[CmdLength + 1] = SP
    BY <2>3 DEF CmdLength
  <2>6. \A i \in CmdLength + 2 .. n : x[i] \in Printable
    BY <2>4 DEF CmdLength
  <2>7. \A i \in 1..CmdLength : x[i] \in Letter
    BY <2>2 DEF CmdLength
  <2>8. n <= CmdLength + 1 + ArgMax
    BY <1>1, <2>1 DEF CmdLength
  <2> QED
    BY <1>3, <2>5, <2>6, <2>7, <2>8 DEF WellFormed
<1> QED
  BY <1>2, <1>3

\* What the parser kept of a line is the line.
Text(p, x) ==
  /\ Len(p.cmd) = IF Len(x) <= CmdLength THEN Len(x) ELSE CmdLength
  /\ \A i \in 1..Len(p.cmd) : p.cmd[i] = x[i]
  /\ Len(p.arg) = IF Len(x) <= CmdLength + 1 THEN 0 ELSE Len(x) - (CmdLength + 1)
  /\ \A i \in 1..Len(p.arg) : p.arg[i] = x[i + CmdLength + 1]

StateAt(n) == IF n = 0 THEN "INIT" ELSE IF n = 1 THEN "CMD_1" ELSE IF n = 2 THEN "CMD_2"
              ELSE IF n = 3 THEN "CMD_3" ELSE IF n = 4 THEN "CMD_4" ELSE "ARGST"

\* The arrays are not overrun.
Sound(p) == p \in Parser /\ Len(p.cmd) <= CmdLength /\ Len(p.arg) <= ArgMax

\* The parser in the middle of line x, after line x and a CR, and in a line.
MidLine(p, x) ==
  /\ p.error <=> ~Good(x)
  /\ p.error => p.state \in {"ERRST", "ARGST"}
  /\ ~p.error => p.state = StateAt(Len(x)) /\ Text(p, x)

AtReturn(p, x) ==
  /\ p.state = "MAYEND"
  /\ p.error <=> ~WellFormed(x)
  /\ ~p.error => Text(p, x)

Returned(x) == x # <<>> /\ x[Len(x)] = CR

Parsed(p, x) ==
  /\ Sound(p) /\ x \in Seq(Byte)
  /\ ~Returned(x) => MidLine(p, x)
  /\ Returned(x) => \E y \in Seq(Byte) : x = Append(y, CR) /\ AtReturn(p, y)

\* Another state, and an error or what it was.
Spoilt(p, q, state) ==
  Sound(q) /\ q.state = state /\ q.error = TRUE /\ q.cmd = p.cmd /\ q.arg = p.arg
Passed(p, q, state) ==
  Sound(q) /\ q.state = state /\ q.error = p.error /\ q.cmd = p.cmd /\ q.arg = p.arg

\* A byte that spoils a line, or that does not change what was kept of it.
LEMMA Spoils ==
  ASSUME NEW p, Sound(p), NEW c, NEW state \in ParserState
  PROVE  /\ Spoilt(p, Act(At(p, state), "err", c), state)
         /\ Passed(p, Act(At(p, state), "def", c), state)
         /\ Passed(p, Act(At(p, state), "end", c), state)
  BY DEF Sound, Parser, Act, At, Spoilt, Passed

\* How a command and an argument grow.
CmdGrows(p, q, c, state) ==
  /\ Sound(q) /\ q.state = state /\ q.arg = p.arg
  /\ Len(p.cmd) < CmdLength => q.cmd = Append(p.cmd, c) /\ q.error = p.error
  /\ p.error => q.error
ArgGrows(p, q, c, state) ==
  /\ Sound(q) /\ q.state = state /\ q.cmd = p.cmd
  /\ Len(p.arg) < ArgMax => q.arg = Append(p.arg, c) /\ q.error = p.error
  /\ ~(Len(p.arg) < ArgMax) => q.error
  /\ p.error => q.error

\* A byte of the command.
LEMMA KeepsCmd ==
  ASSUME NEW p, Sound(p), NEW c \in Letter, NEW state \in ParserState
  PROVE  CmdGrows(p, Act(At(p, state), "cmd", c), c, state)
<1> DEFINE r == At(p, state)
           q == CmdAction(r, c)
<1>1. Act(r, "cmd", c) = q
  BY DEF Act
<1>2. /\ p.cmd \in Seq(Letter) /\ Len(p.cmd) \in Nat /\ Len(p.cmd) <= CmdLength
      /\ p.error \in BOOLEAN /\ p \in Parser
  BY DEF Sound, Parser
<1>3. r \in Parser /\ r.state = state /\ r.cmd = p.cmd /\ r.arg = p.arg /\ r.error = p.error
  BY <1>2 DEF Parser, At
<1>4. CASE Len(p.cmd) < CmdLength
  <2>1. q = [r EXCEPT !.cmd = Append(p.cmd, c)]
    BY <1>3, <1>4 DEF CmdAction
  <2>2. Append(p.cmd, c) \in Seq(Letter) /\ Len(Append(p.cmd, c)) = Len(p.cmd) + 1
    BY <1>2
  <2>3. q \in Parser /\ q.state = state /\ q.cmd = Append(p.cmd, c) /\ q.arg = p.arg
        /\ q.error = p.error
    BY <1>3, <2>1, <2>2 DEF Parser
  <2>4. Len(q.cmd) <= CmdLength
    BY <1>2, <1>4, <2>2, <2>3 DEF CmdLength
  <2> HIDE DEF q, r
  <2> QED
    BY <1>1, <1>2, <2>3, <2>4 DEF Sound, r, CmdGrows
<1>5. CASE ~(Len(p.cmd) < CmdLength)
  <2>1. q = [r EXCEPT !.error = TRUE]
    BY <1>3, <1>5 DEF CmdAction
  <2>2. q \in Parser /\ q.state = state /\ q.cmd = p.cmd /\ q.arg = p.arg /\ q.error = TRUE
    BY <1>3, <2>1 DEF Parser
  <2> HIDE DEF q, r
  <2> QED
    BY <1>1, <1>2, <1>5, <2>2 DEF Sound, r, CmdGrows
<1> QED
  BY <1>4, <1>5

\* A byte of the argument.
LEMMA KeepsArg ==
  ASSUME NEW p, Sound(p), NEW c \in Printable, NEW state \in ParserState
  PROVE  ArgGrows(p, Act(At(p, state), "arg", c), c, state)
<1> DEFINE r == At(p, state)
           q == ArgAction(r, c)
<1>1. Act(r, "arg", c) = q
  BY DEF Act
<1>2. /\ p.arg \in Seq(Printable) /\ Len(p.arg) \in Nat /\ Len(p.arg) <= ArgMax
      /\ p.error \in BOOLEAN /\ p \in Parser /\ ArgMax \in Nat
  BY BytesAssumption DEF Sound, Parser
<1>3. r \in Parser /\ r.state = state /\ r.cmd = p.cmd /\ r.arg = p.arg /\ r.error = p.error
  BY <1>2 DEF Parser, At
<1>4. CASE Len(p.arg) < ArgMax
  <2>1. q = [r EXCEPT !.arg = Append(p.arg, c)]
    BY <1>3, <1>4 DEF ArgAction
  <2>2. Append(p.arg, c) \in Seq(Printable) /\ Len(Append(p.arg, c)) = Len(p.arg) + 1
    BY <1>2
  <2>3. q \in Parser /\ q.state = state /\ q.arg = Append(p.arg, c) /\ q.cmd = p.cmd
        /\ q.error = p.error
    BY <1>3, <2>1, <2>2 DEF Parser
  <2>4. Len(q.arg) <= ArgMax /\ Len(q.cmd) <= CmdLength
    BY <1>2, <1>4, <2>2, <2>3 DEF Sound
  <2> HIDE DEF q, r
  <2> QED
    BY <1>1, <1>2, <1>4, <2>3, <2>4 DEF Sound, r, ArgGrows
<1>5. CASE ~(Len(p.arg) < ArgMax)
  <2>1. q = [r EXCEPT !.error = TRUE]
    BY <1>3, <1>5 DEF ArgAction
  <2>2. q \in Parser /\ q.state = state /\ q.cmd = p.cmd /\ q.arg = p.arg /\ q.error = TRUE
    BY <1>3, <2>1 DEF Parser
  <2>3. Len(q.arg) <= ArgMax /\ Len(q.cmd) <= CmdLength
    BY <1>2, <2>2 DEF Sound
  <2> HIDE DEF q, r
  <2> QED
    BY <1>1, <1>2, <1>5, <2>2, <2>3 DEF Sound, r, ArgGrows
<1> QED
  BY <1>4, <1>5

\* The bytes the tables tell apart.
LEMMA Classes ==
  /\ CR \notin Letter /\ CR \notin Printable /\ CR # SP /\ CR # LF /\ CR \in Byte
  /\ Letter \subseteq Byte /\ Printable \subseteq Byte /\ SP \in Byte
  BY BytesAssumption DEF Printable, Byte

\* An error that is latched stays, whatever comes.
LEMMA SpoiltStep ==
  ASSUME NEW p, Sound(p), p.error, p.state \in {"ERRST", "ARGST"}, NEW c \in Byte
  PROVE  LET q == Feed(p, c)
         IN  /\ Sound(q) /\ q.error
             /\ IF c = CR THEN q.state = "MAYEND" ELSE q.state \in {"ERRST", "ARGST"}
<1> DEFINE q == Feed(p, c)
<1>0. p \in Parser /\ p.error \in BOOLEAN /\ p.error = TRUE
  BY DEF Sound, Parser
<1>s. "ERRST" \in ParserState /\ "ARGST" \in ParserState /\ "MAYEND" \in ParserState
  BY DEF ParserState
<1>1. CASE p.state = "ERRST"
  <2>1. q = IF c = CR THEN Act(At(p, "MAYEND"), "err", c)
            ELSE Act(At(p, "ERRST"), "err", c)
    BY <1>0, <1>1, FeedIs DEF Fed
  <2> HIDE DEF q
  <2>2. CASE c = CR
    <3>1. q = Act(At(p, "MAYEND"), "err", c)
      BY <2>1, <2>2
    <3>a. Spoilt(p, q, "MAYEND")
      BY <1>s, <3>1, Spoils
    <3> QED
      BY <1>s, <2>2, <3>1, <3>a, Classes DEF Spoilt, q
  <2>3. CASE c # CR
    <3>1. q = Act(At(p, "ERRST"), "err", c)
      BY <2>1, <2>3
    <3>a. Spoilt(p, q, "ERRST")
      BY <1>s, <3>1, Spoils
    <3> QED
      BY <1>s, <2>3, <3>1, <3>a, Classes DEF Spoilt, q
  <2> QED
    BY <2>2, <2>3
<1>2. CASE p.state = "ARGST"
  <2>1. q = IF c \in Printable THEN Act(At(p, "ARGST"), "arg", c)
            ELSE IF c = CR THEN Act(At(p, "MAYEND"), "def", c)
            ELSE Act(At(p, "ERRST"), "err", c)
    BY <1>0, <1>2, FeedIs DEF Fed
  <2> HIDE DEF q
  <2>2. CASE c \in Printable
    <3>1. q = Act(At(p, "ARGST"), "arg", c) /\ c # CR
      BY <2>1, <2>2, Classes
    <3>a. ArgGrows(p, q, c, "ARGST")
      BY <1>s, <3>1, <2>2, KeepsArg
    <3> QED
      BY <1>0, <1>s, <2>2, <3>1, <3>a, Classes DEF ArgGrows, q
  <2>3. CASE c = CR
    <3>1. q = Act(At(p, "MAYEND"), "def", c)
      BY <2>1, <2>3, Classes
    <3>a. Passed(p, q, "MAYEND")
      BY <1>s, <3>1, Spoils
    <3> QED
      BY <1>0, <1>s, <2>3, <3>1, <3>a, Classes DEF Passed, q
  <2>4. CASE c \notin Printable /\ c # CR
    <3>1. q = Act(At(p, "ERRST"), "err", c)
      BY <2>1, <2>4
    <3>a. Spoilt(p, q, "ERRST")
      BY <1>s, <3>1, Spoils
    <3> QED
      BY <1>s, <2>4, <3>1, <3>a, Classes DEF Spoilt, q
  <2> QED
    BY <2>2, <2>3, <2>4
<1> QED
  BY <1>1, <1>2

\* A byte of the command, of a line that is good so far.
LEMMA CommandStep ==
  ASSUME NEW p, Sound(p), ~p.error, NEW x \in Seq(Byte), Len(x) < CmdLength,
         p.state = StateAt(Len(x)), Text(p, x), NEW c \in Byte
  PROVE  LET q == Feed(p, c)
         IN  /\ Sound(q)
             /\ IF c \in Letter
                THEN /\ q.state = StateAt(Len(x) + 1) /\ ~q.error
                     /\ Text(q, Append(x, c))
                ELSE /\ q.error
                     /\ q.state = IF c = CR THEN "MAYEND" ELSE "ERRST"
<1> DEFINE q == Feed(p, c)
           dest == StateAt(Len(x) + 1)
<1>e. p.error = FALSE
  BY Zenon DEF Sound, Parser
<1>l. Len(x) \in 0..3
  <2>1. Len(x) \in Nat /\ Len(x) < 4
    BY DEF CmdLength
  <2>2. \A k \in Nat : k < 4 => k \in 0..3
    OBVIOUS
  <2> QED
    BY <2>1, <2>2
<1>p. p \in Parser /\ p.cmd \in Seq(Letter) /\ p.arg \in Seq(Printable)
  BY DEF Sound, Parser
<1>0. p \in Parser /\ p.error = FALSE /\ Len(x) \in 0..3
      /\ p.cmd \in Seq(Letter) /\ p.arg \in Seq(Printable)
  BY <1>e, <1>l, <1>p
<1>s. "ERRST" \in ParserState /\ "MAYEND" \in ParserState /\ dest \in ParserState
  BY <1>0 DEF ParserState, StateAt
<1>1. q = Fed(p, c, Letter, dest, "cmd", "err")
  <2>1. \/ Len(x) = 0 /\ p.state = "INIT" /\ dest = "CMD_1"
        \/ Len(x) = 1 /\ p.state = "CMD_1" /\ dest = "CMD_2"
        \/ Len(x) = 2 /\ p.state = "CMD_2" /\ dest = "CMD_3"
        \/ Len(x) = 3 /\ p.state = "CMD_3" /\ dest = "CMD_4"
    <3>1. \A k \in 0..3 : \/ k = 0 /\ StateAt(k) = "INIT" /\ StateAt(k + 1) = "CMD_1"
                          \/ k = 1 /\ StateAt(k) = "CMD_1" /\ StateAt(k + 1) = "CMD_2"
                          \/ k = 2 /\ StateAt(k) = "CMD_2" /\ StateAt(k + 1) = "CMD_3"
                          \/ k = 3 /\ StateAt(k) = "CMD_3" /\ StateAt(k + 1) = "CMD_4"
      BY DEF StateAt
    <3> QED
      BY <1>l, <3>1
  <2> HIDE DEF dest
  <2> QED
    BY <1>0, <2>1, FeedIs
<1> HIDE DEF q, dest
<1>2. CASE c \in Letter
  <2>1. q = Act(At(p, dest), "cmd", c)
    BY <1>1, <1>2 DEF Fed
  <2>2. Len(p.cmd) = Len(x) /\ Len(p.arg) = 0 /\ Len(x) < CmdLength
        /\ \A i \in 1..Len(x) : p.cmd[i] = x[i]
    BY <1>0 DEF Text, CmdLength
  <2>a. CmdGrows(p, q, c, dest)
    BY <1>s, <2>1, <1>2, KeepsCmd
  <2>3. Sound(q) /\ q.state = dest /\ q.arg = p.arg /\ q.cmd = Append(p.cmd, c)
        /\ q.error = FALSE
    BY <1>0, <1>s, <1>2, <2>1, <2>2, <2>a, Classes DEF CmdGrows
  <2>4. Text(q, Append(x, c))
    <3> DEFINE n == Len(x)
               z == Append(x, c)
               k == q.cmd
    <3>1. n \in 0..3 /\ Len(z) = n + 1 /\ z[n + 1] = c /\ \A i \in 1..n : z[i] = x[i]
      BY <1>0
    <3>2. Len(k) = n + 1 /\ k[n + 1] = c /\ \A i \in 1..n : k[i] = p.cmd[i]
      BY <1>0, <2>2, <2>3
    <3>3. Len(q.arg) = 0
      BY <2>2, <2>3
    <3>4. \A i \in 1..n : p.cmd[i] = x[i]
      BY <2>2
    <3> HIDE DEF n, z, k
    <3>5. \A i \in 1..n + 1 : i \in 1..n \/ i = n + 1
      BY <3>1
    <3>6. \A i \in 1..n + 1 : k[i] = z[i]
      BY <3>1, <3>2, <3>4, <3>5
    <3>7. Len(k) = IF Len(z) <= CmdLength THEN Len(z) ELSE CmdLength
      BY <3>1, <3>2 DEF CmdLength
    <3>8. Len(q.arg) = IF Len(z) <= CmdLength + 1 THEN 0 ELSE Len(z) - (CmdLength + 1)
      BY <3>1, <3>3 DEF CmdLength
    <3>9. \A i \in 1..Len(q.arg) : q.arg[i] = z[i + CmdLength + 1]
      BY <3>3
    <3>10. \A i \in 1..Len(k) : k[i] = z[i]
      BY <3>2, <3>6
    <3> QED
      BY <3>7, <3>8, <3>9, <3>10 DEF Text, k, z
  <2> QED
    BY <1>2, <2>3, <2>4 DEF q, dest
<1>3. CASE c = CR
  <2>1. q = Act(At(p, "MAYEND"), "err", c) /\ c \notin Letter
    BY <1>1, <1>3, Classes DEF Fed
  <2>a. Spoilt(p, q, "MAYEND")
    BY <1>s, <2>1, Spoils
  <2> QED
    BY <1>s, <1>3, <2>1, <2>a, Classes DEF Spoilt, q
<1>4. CASE c \notin Letter /\ c # CR
  <2>1. q = Act(At(p, "ERRST"), "err", c)
    BY <1>1, <1>4 DEF Fed
  <2>a. Spoilt(p, q, "ERRST")
    BY <1>s, <2>1, Spoils
  <2> QED
    BY <1>s, <1>4, <2>1, <2>a, Classes DEF Spoilt, q
<1> QED
  BY <1>2, <1>3, <1>4

\* The byte after the command, of a line that is good so far.
LEMMA SpaceStep ==
  ASSUME NEW p, Sound(p), ~p.error, NEW x \in Seq(Byte), Len(x) = CmdLength,
         p.state = StateAt(Len(x)), Text(p, x), NEW c \in Byte
  PROVE  LET q == Feed(p, c)
         IN  /\ Sound(q)
             /\ c = SP => q.state = "ARGST" /\ ~q.error /\ Text(q, Append(x, c))
             /\ c = CR => q.state = "MAYEND" /\ ~q.error /\ Text(q, x)
             /\ c # SP /\ c # CR => q.state = "ERRST" /\ q.error
<1> DEFINE q == Feed(p, c)
<1>e. p.error = FALSE
  BY Zenon DEF Sound, Parser
<1>0. p \in Parser /\ p.error = FALSE /\ Len(x) = 4 /\ p.state = "CMD_4"
      /\ p.cmd \in Seq(Letter) /\ p.arg \in Seq(Printable)
  BY <1>e DEF Sound, Parser, CmdLength, StateAt
<1>s. "ERRST" \in ParserState /\ "ARGST" \in ParserState /\ "MAYEND" \in ParserState
  BY DEF ParserState
<1>1. q = Fed(p, c, {SP}, "ARGST", "def", "def")
  BY <1>0, FeedIs
<1> HIDE DEF q
<1>2. CASE c = SP
  <2>1. q = Act(At(p, "ARGST"), "def", c)
    BY <1>1, <1>2 DEF Fed
  <2>a. Passed(p, q, "ARGST")
    BY <1>s, <2>1, Spoils
  <2>2. Sound(q) /\ q.state = "ARGST" /\ q.error = FALSE /\ q.cmd = p.cmd /\ q.arg = p.arg
    BY <1>0, <1>s, <2>1, <2>a, Classes DEF Passed
  <2>3. /\ Len(p.cmd) = 4 /\ Len(p.arg) = 0 /\ \A i \in 1..4 : p.cmd[i] = x[i]
    BY <1>0 DEF Text, CmdLength
  <2> DEFINE z == Append(x, c)
  <2>4. Len(z) = 5 /\ \A i \in 1..4 : z[i] = x[i]
    <3>1. Len(z) = Len(x) + 1 /\ \A i \in 1..Len(x) : z[i] = x[i]
      OBVIOUS
    <3> QED
      BY <1>0, <3>1
  <2> HIDE DEF z
  <2>5. Text(q, z)
    BY <2>2, <2>3, <2>4 DEF Text, CmdLength
  <2> QED
    BY <1>2, <2>2, <2>5, Classes DEF q, z
<1>3. CASE c = CR
  <2>1. q = Act(At(p, "MAYEND"), "def", c)
    BY <1>1, <1>3, Classes DEF Fed
  <2>a. Passed(p, q, "MAYEND")
    BY <1>s, <2>1, Spoils
  <2>2. Sound(q) /\ q.state = "MAYEND" /\ q.error = FALSE /\ q.cmd = p.cmd /\ q.arg = p.arg
    BY <1>0, <1>s, <2>1, <2>a, Classes DEF Passed
  <2>3. Text(q, x)
    BY <2>2 DEF Text
  <2> QED
    BY <1>3, <2>2, <2>3, Classes DEF q
<1>4. CASE c # SP /\ c # CR
  <2>1. q = Act(At(p, "ERRST"), "err", c)
    BY <1>1, <1>4 DEF Fed
  <2>a. Spoilt(p, q, "ERRST")
    BY <1>s, <2>1, Spoils
  <2> QED
    BY <1>s, <1>4, <2>1, <2>a, Classes DEF Spoilt, q
<1> QED
  BY <1>2, <1>3, <1>4

\* A byte of the argument, of a line that is good so far.
LEMMA ArgumentStep ==
  ASSUME NEW p, Sound(p), ~p.error, NEW x \in Seq(Byte), Len(x) > CmdLength,
         p.state = StateAt(Len(x)), Text(p, x), NEW c \in Byte
  PROVE  LET q == Feed(p, c)
         IN  /\ Sound(q)
             /\ c \in Printable =>
                  /\ q.state = "ARGST"
                  /\ q.error <=> ~(Len(x) + 1 <= CmdLength + 1 + ArgMax)
                  /\ ~q.error => Text(q, Append(x, c))
             /\ c = CR => q.state = "MAYEND" /\ ~q.error /\ Text(q, x)
             /\ c \notin Printable /\ c # CR => q.state = "ERRST" /\ q.error
<1> DEFINE q == Feed(p, c)
           n == Len(x)
<1>e. p.error = FALSE
  BY Zenon DEF Sound, Parser
<1>0. p \in Parser /\ p.error = FALSE /\ n \in Nat /\ n > 4 /\ p.state = "ARGST"
      /\ p.cmd \in Seq(Letter) /\ p.arg \in Seq(Printable) /\ ArgMax \in Nat
  <2>1. n \in Nat /\ n > 4
    BY DEF CmdLength
  <2>2. p \in Parser /\ p.cmd \in Seq(Letter) /\ p.arg \in Seq(Printable)
    BY DEF Sound, Parser
  <2>3. \A k \in Nat : k > 4 => StateAt(k) = "ARGST"
    BY DEF StateAt
  <2>4. p.state = "ARGST"
    BY <2>1, <2>3
  <2> HIDE DEF n
  <2> QED
    BY <1>e, <2>1, <2>2, <2>4, BytesAssumption
<1>s. "ERRST" \in ParserState /\ "ARGST" \in ParserState /\ "MAYEND" \in ParserState
  BY DEF ParserState
<1>1. q = Fed(p, c, Printable, "ARGST", "arg", "def")
  BY <1>0, FeedIs
<1> HIDE DEF q
<1>2. CASE c \in Printable
  <2>1. q = Act(At(p, "ARGST"), "arg", c)
    BY <1>1, <1>2 DEF Fed
  <2>2. /\ Len(p.cmd) = 4 /\ Len(p.arg) = n - 5 /\ \A i \in 1..4 : p.cmd[i] = x[i]
        /\ \A i \in 1..n - 5 : p.arg[i] = x[i + 4 + 1]
    <3>1. /\ Len(p.cmd) = IF n <= 4 THEN n ELSE 4
          /\ \A i \in 1..Len(p.cmd) : p.cmd[i] = x[i]
          /\ Len(p.arg) = IF n <= 4 + 1 THEN 0 ELSE n - (4 + 1)
          /\ \A i \in 1..Len(p.arg) : p.arg[i] = x[i + 4 + 1]
      BY DEF Text, CmdLength
    <3> HIDE DEF n
    <3>2. Len(p.cmd) = 4 /\ Len(p.arg) = n - 5
      BY <1>0, <3>1
    <3> QED
      BY <3>1, <3>2
  <2>a. ArgGrows(p, q, c, "ARGST")
    BY <1>s, <2>1, <1>2, KeepsArg
  <2>3. /\ Sound(q) /\ q.state = "ARGST" /\ q.cmd = p.cmd
        /\ n - 5 < ArgMax => q.arg = Append(p.arg, c) /\ q.error = FALSE
        /\ ~(n - 5 < ArgMax) => q.error
    BY <1>0, <1>s, <1>2, <2>1, <2>2, <2>a, Classes DEF ArgGrows
  <2>4. n - 5 < ArgMax <=> n + 1 <= 4 + 1 + ArgMax
    BY <1>0
  <2>5. ASSUME n - 5 < ArgMax PROVE Text(q, Append(x, c))
    <3> DEFINE z == Append(x, c)
               g == q.arg
               m == n - 5
    <3>1. Len(z) = n + 1 /\ z[n + 1] = c /\ \A i \in 1..n : z[i] = x[i]
      BY <1>0
    <3>2. m \in Nat /\ n = m + 5
      BY <1>0
    <3>3. Len(g) = m + 1 /\ g[m + 1] = c /\ \A i \in 1..m : g[i] = p.arg[i]
      <4>1. g = Append(p.arg, c) /\ Len(p.arg) = m
        BY <2>2, <2>3, <2>5
      <4> HIDE DEF m
      <4> QED
        BY <1>0, <1>2, <4>1
    <3>4. \A i \in 1..m : p.arg[i] = x[i + 4 + 1]
      BY <2>2
    <3> HIDE DEF z, g, m
    <3>5. ASSUME NEW i \in 1..m + 1 PROVE g[i] = z[i + 4 + 1]
      <4>1. CASE i = m + 1
        <5>1. i + 4 + 1 = n + 1
          BY <3>2, <4>1
        <5> QED
          BY <3>1, <3>3, <4>1, <5>1
      <4>2. CASE i # m + 1
        <5>1. i \in 1..m /\ i + 4 + 1 \in 1..n
          BY <3>2, <4>2
        <5> QED
          BY <3>1, <3>3, <3>4, <5>1
      <4> QED
        BY <4>1, <4>2
    <3>6. /\ Len(g) = IF Len(z) <= 4 + 1 THEN 0 ELSE Len(z) - (4 + 1)
      BY <1>0, <3>1, <3>2, <3>3
    <3>7. Len(q.cmd) = IF Len(z) <= 4 THEN Len(z) ELSE 4
      <4>1. Len(q.cmd) = 4
        BY <2>2, <2>3
      <4>2. n \in Nat /\ n > 4
        BY <1>0
      <4> QED
        BY <3>1, <4>1, <4>2
    <3>8. \A i \in 1..Len(q.cmd) : q.cmd[i] = z[i]
      <4>1. 1..4 \subseteq 1..n /\ Len(q.cmd) = 4
        BY <1>0, <2>2, <2>3
      <4> QED
        BY <2>2, <2>3, <3>1, <4>1
    <3>9. \A i \in 1..Len(g) : g[i] = z[i + 4 + 1]
      BY <3>3, <3>5
    <3> QED
      BY <3>6, <3>7, <3>8, <3>9 DEF Text, CmdLength, g, z
  <2> HIDE DEF n
  <2>6. q.error <=> ~(n + 1 <= CmdLength + 1 + ArgMax)
    BY <2>3, <2>4 DEF CmdLength
  <2>7. ~q.error => Text(q, Append(x, c))
    BY <2>3, <2>5
  <2>8. c # CR
    BY <1>2, Classes
  <2> QED
    BY <1>2, <2>3, <2>6, <2>7, <2>8 DEF q, n
<1>3. CASE c = CR
  <2>1. q = Act(At(p, "MAYEND"), "def", c) /\ c \notin Printable
    BY <1>1, <1>3, Classes DEF Fed
  <2>a. Passed(p, q, "MAYEND")
    BY <1>s, <2>1, Spoils
  <2>2. Sound(q) /\ q.state = "MAYEND" /\ q.error = FALSE /\ q.cmd = p.cmd /\ q.arg = p.arg
    BY <1>0, <1>s, <2>1, <2>a, Classes DEF Passed
  <2>3. Text(q, x)
    BY <2>2 DEF Text
  <2> QED
    BY <1>3, <2>1, <2>2, <2>3 DEF q
<1>4. CASE c \notin Printable /\ c # CR
  <2>1. q = Act(At(p, "ERRST"), "err", c)
    BY <1>1, <1>4 DEF Fed
  <2>a. Spoilt(p, q, "ERRST")
    BY <1>s, <2>1, Spoils
  <2> QED
    BY <1>s, <1>4, <2>1, <2>a, Classes DEF Spoilt, q
<1> QED
  BY <1>2, <1>3, <1>4

\* What a byte makes of a parser in the middle of a line.
LEMMA MidStep ==
  ASSUME NEW p, Sound(p), NEW x \in Seq(Byte), MidLine(p, x), NEW c \in Byte
  PROVE  LET q == Feed(p, c)
         IN  /\ Sound(q)
             /\ c = CR => AtReturn(q, x)
             /\ c # CR => MidLine(q, Append(x, c))
<1> DEFINE q == Feed(p, c)
           z == Append(x, c)
           n == Len(x)
<1>1. /\ z \in Seq(Byte) /\ Len(z) = n + 1
      /\ Good(z) <=> Good(x) /\ Fits(n + 1, c) /\ n + 1 <= CmdLength + 1 + ArgMax
  BY GoodStep
<1>2. WellFormed(x) <=> n >= CmdLength /\ Good(x)
  BY WellFormedIs
<1>3. n \in Nat /\ ArgMax \in Nat /\ CmdLength \in Nat
  BY BytesAssumption DEF CmdLength
<1> HIDE DEF q, z, n
<1>4. CASE p.error
  <2>1. ~Good(x) /\ ~Good(z) /\ ~WellFormed(x) /\ p.state \in {"ERRST", "ARGST"}
    BY <1>1, <1>2, <1>4 DEF MidLine
  <2>2. /\ Sound(q) /\ q.error
        /\ IF c = CR THEN q.state = "MAYEND" ELSE q.state \in {"ERRST", "ARGST"}
    BY <1>4, <2>1, SpoiltStep DEF q
  <2>3. c = CR => AtReturn(q, x)
    BY <2>1, <2>2 DEF AtReturn
  <2>4. c # CR => MidLine(q, z)
    BY <2>1, <2>2 DEF MidLine
  <2> QED
    BY <2>2, <2>3, <2>4 DEF q, z
<1>5. CASE ~p.error /\ n < CmdLength
  <2>1. Good(x) /\ p.state = StateAt(n) /\ Text(p, x)
    BY <1>5 DEF MidLine, n
  <2>2. /\ Sound(q)
        /\ IF c \in Letter THEN q.state = StateAt(n + 1) /\ ~q.error /\ Text(q, z)
           ELSE q.error /\ q.state = IF c = CR THEN "MAYEND" ELSE "ERRST"
    BY <1>5, <2>1, CommandStep DEF q, z, n
  <2>3. ~WellFormed(x)
    BY <1>2, <1>3, <1>5
  <2>4. Good(z) <=> c \in Letter
    BY <1>1, <1>3, <1>5, <2>1 DEF Fits
  <2>5. c = CR => AtReturn(q, x)
    BY <2>2, <2>3, Classes DEF AtReturn
  <2>6. c # CR => MidLine(q, z)
    BY <1>1, <2>2, <2>4 DEF MidLine
  <2> QED
    BY <2>2, <2>5, <2>6 DEF q, z
<1>6. CASE ~p.error /\ n = CmdLength
  <2>1. Good(x) /\ p.state = StateAt(n) /\ Text(p, x)
    BY <1>6 DEF MidLine, n
  <2>2. /\ Sound(q)
        /\ c = SP => q.state = "ARGST" /\ ~q.error /\ Text(q, z)
        /\ c = CR => q.state = "MAYEND" /\ ~q.error /\ Text(q, x)
        /\ c # SP /\ c # CR => q.state = "ERRST" /\ q.error
    BY <1>6, <2>1, SpaceStep DEF q, z, n
  <2>3. WellFormed(x)
    BY <1>2, <1>3, <1>6, <2>1
  <2>4. Good(z) <=> c = SP
    BY <1>1, <1>3, <1>6, <2>1 DEF Fits
  <2>5. StateAt(n + 1) = "ARGST"
    BY <1>6 DEF StateAt, CmdLength
  <2>6. c = CR => AtReturn(q, x)
    BY <2>2, <2>3 DEF AtReturn
  <2>7. c # CR => MidLine(q, z)
    BY <1>1, <2>2, <2>4, <2>5 DEF MidLine
  <2> QED
    BY <2>2, <2>6, <2>7 DEF q, z
<1>7. CASE ~p.error /\ n > CmdLength
  <2>1. Good(x) /\ p.state = StateAt(n) /\ Text(p, x)
    BY <1>7 DEF MidLine, n
  <2>2. /\ Sound(q)
        /\ c \in Printable => /\ q.state = "ARGST"
                              /\ q.error <=> ~(n + 1 <= CmdLength + 1 + ArgMax)
                              /\ ~q.error => Text(q, z)
        /\ c = CR => q.state = "MAYEND" /\ ~q.error /\ Text(q, x)
        /\ c \notin Printable /\ c # CR => q.state = "ERRST" /\ q.error
    BY <1>7, <2>1, ArgumentStep DEF q, z, n
  <2>3. WellFormed(x)
    BY <1>2, <1>3, <1>7, <2>1
  <2>4. Good(z) <=> c \in Printable /\ n + 1 <= CmdLength + 1 + ArgMax
    <3>1. ~(n + 1 <= CmdLength) /\ n + 1 # CmdLength + 1
      BY <1>3, <1>7
    <3> QED
      BY <1>1, <2>1, <3>1 DEF Fits
  <2>5. StateAt(n + 1) = "ARGST"
    <3>1. n > 4
      BY <1>7 DEF CmdLength
    <3> QED
      BY <1>3, <3>1 DEF StateAt
  <2>6. c = CR => AtReturn(q, x)
    BY <2>2, <2>3 DEF AtReturn
  <2>7. c # CR => MidLine(q, z)
    BY <1>1, <2>2, <2>4, <2>5 DEF MidLine
  <2> QED
    BY <2>2, <2>6, <2>7 DEF q, z
<1> QED
  BY <1>3, <1>4, <1>5, <1>6, <1>7

\* What a byte that does not end a request makes of a parser after a CR.
LEMMA ReturnStep ==
  ASSUME NEW p, Sound(p), p.state = "MAYEND", NEW c \in Byte, c # LF
  PROVE  LET q == Feed(p, c)
         IN  /\ Sound(q) /\ q.error
             /\ q.state = IF c = CR THEN "MAYEND" ELSE "ERRST"
<1> DEFINE q == Feed(p, c)
<1>1. p \in Parser /\ "MAYEND" \in ParserState /\ "ERRST" \in ParserState
  BY DEF Sound, ParserState
<1>2. q = Fed(p, c, {LF}, "ENDST", "end", "err")
  BY <1>1, FeedIs
<1> HIDE DEF q
<1>3. CASE c = CR
  <2>1. q = Act(At(p, "MAYEND"), "err", c)
    BY <1>2, <1>3 DEF Fed
  <2>2. Spoilt(p, q, "MAYEND")
    BY <1>1, <2>1, Spoils
  <2> QED
    BY <1>3, <2>2 DEF Spoilt, q
<1>4. CASE c # CR
  <2>1. q = Act(At(p, "ERRST"), "err", c)
    BY <1>2, <1>4 DEF Fed
  <2>2. Spoilt(p, q, "ERRST")
    BY <1>1, <2>1, Spoils
  <2> QED
    BY <1>4, <2>2 DEF Spoilt, q
<1> QED
  BY <1>3, <1>4

\* The end of a request: the parser has what the line means.
LEMMA EndStep ==
  ASSUME NEW p, Sound(p), NEW x \in Seq(Byte), AtReturn(p, x)
  PROVE  LET q == Feed(p, LF)
         IN  Sound(q) /\ Complete(q) /\ Request(q) = Meaning(x)
<1> DEFINE q == Feed(p, LF)
<1>1. p \in Parser /\ p.state = "MAYEND" /\ "ENDST" \in ParserState /\ LF \in Byte
  BY DEF Sound, ParserState, AtReturn, Byte
<1>2. q = Fed(p, LF, {LF}, "ENDST", "end", "err")
  BY <1>1, FeedIs
<1> HIDE DEF q
<1>3. q = Act(At(p, "ENDST"), "end", LF)
  BY <1>2 DEF Fed
<1>4. Passed(p, q, "ENDST")
  BY <1>1, <1>3, Spoils
<1>5. Sound(q) /\ q.state = "ENDST" /\ q.error = p.error /\ q.cmd = p.cmd /\ q.arg = p.arg
  BY <1>4 DEF Passed
<1>6. p.cmd \in Seq(Letter) /\ p.arg \in Seq(Printable)
  BY <1>1 DEF Parser
<1>7. CASE p.error
  <2>1. Request(q) = Bad
    BY <1>5, <1>7 DEF Request
  <2>2. Meaning(x) = Bad
    BY <1>7 DEF AtReturn, Meaning
  <2> QED
    BY <1>5, <2>1, <2>2 DEF Complete, q
<1>8. CASE ~p.error
  <2> DEFINE n == Len(x)
  <2>1. WellFormed(x) /\ Text(p, x)
    BY <1>8 DEF AtReturn
  <2>2. n \in Nat /\ n >= 4
    BY <2>1 DEF WellFormed, CmdLength
  <2>3. /\ Len(p.cmd) = IF n <= 4 THEN n ELSE 4
        /\ \A i \in 1..Len(p.cmd) : p.cmd[i] = x[i]
        /\ Len(p.arg) = IF n <= 4 + 1 THEN 0 ELSE n - (4 + 1)
        /\ \A i \in 1..Len(p.arg) : p.arg[i] = x[i + 4 + 1]
    BY <2>1 DEF Text, CmdLength
  <2>4. p.cmd = SubSeq(x, 1, CmdLength)
    <3> DEFINE y == SubSeq(x, 1, 4)
    <3>1. 4 \in 0..n
      BY <2>2
    <3>2. y \in Seq(Byte) /\ Len(y) = 4 /\ \A i \in 1..4 : y[i] = x[i]
      BY <3>1
    <3> HIDE DEF y, n
    <3>3. Len(p.cmd) = 4 /\ Len(p.cmd) = Len(y)
      BY <2>2, <2>3, <3>2
    <3>4. \A i \in 1..Len(p.cmd) : p.cmd[i] = y[i]
      BY <2>3, <3>2, <3>3
    <3>5. p.cmd = y
      <4>1. p.cmd \in Seq(Byte)
        BY <1>6, Classes
      <4> QED
        BY <3>2, <3>3, <3>4, <4>1, SeqEqual
    <3> QED
      BY <3>5 DEF y, CmdLength
  <2>5. p.arg = SubSeq(x, CmdLength + 2, Len(x))
    <3> DEFINE y == SubSeq(x, 6, n)
               m == IF n <= 5 THEN 0 ELSE n - 5
    <3>1. y \in Seq(Byte) /\ Len(y) = m /\ \A i \in 1..m : y[i] = x[i + 5]
      BY <2>2
    <3> HIDE DEF y, n
    <3>2. Len(p.arg) = m /\ m \in Nat
      BY <2>2, <2>3
    <3> HIDE DEF m
    <3>3. ASSUME NEW i \in 1..Len(p.arg) PROVE p.arg[i] = y[i]
      <4>1. p.arg[i] = x[i + 4 + 1] /\ i + 4 + 1 = i + 5
        BY <2>3
      <4> QED
        BY <3>1, <3>2, <4>1
    <3>4. p.arg = y
      <4>1. p.arg \in Seq(Byte)
        BY <1>6, Classes
      <4>2. Len(p.arg) = Len(y)
        BY <3>1, <3>2
      <4> QED
        BY <3>1, <3>3, <4>1, <4>2, SeqEqual
    <3> QED
      BY <3>4 DEF y, n, CmdLength
  <2>6. Request(q) = [bad |-> FALSE, cmd |-> p.cmd, arg |-> p.arg]
    BY <1>5, <1>8 DEF Request
  <2>7. Meaning(x) = [bad |-> FALSE, cmd |-> p.cmd, arg |-> p.arg]
    BY <2>1, <2>4, <2>5 DEF Meaning
  <2> QED
    BY <1>5, <2>6, <2>7 DEF Complete, q
<1> QED
  BY <1>7, <1>8

\* A parser that was reset knows the empty line.
LEMMA ResetParsed ==
  ASSUME NEW p, Sound(p)
  PROVE  Parsed(Reset(p), <<>>)
<1> DEFINE q == Reset(p)
<1>1. q \in Parser /\ q.state = "INIT" /\ q.error = FALSE /\ q.cmd = <<>> /\ q.arg = <<>>
  <2>1. p \in Parser /\ DOMAIN p = {"state", "cmd", "arg", "error"}
    BY DEF Sound, Parser
  <2> DEFINE a == [p EXCEPT !.state = "INIT"]
             b == [a EXCEPT !.error = FALSE]
             e == <<>>
             c == [b EXCEPT !.cmd = e]
             d == [c EXCEPT !.arg = e]
  <2>2. q = d
    BY Zenon DEF Reset
  <2>3. a \in Parser /\ a.state = "INIT"
    BY <2>1 DEF Parser, ParserState
  <2>e. e \in Seq(Letter) /\ e \in Seq(Printable)
    OBVIOUS
  <2> HIDE DEF a, e
  <2>4. b \in Parser /\ b.state = "INIT" /\ b.error = FALSE
    BY <2>3 DEF Parser
  <2> HIDE DEF b
  <2>5. c \in Parser /\ c.state = "INIT" /\ c.error = FALSE /\ c.cmd = e
    BY <2>4, <2>e DEF Parser
  <2> HIDE DEF c
  <2>6. d \in Parser /\ d.state = "INIT" /\ d.error = FALSE /\ d.cmd = e /\ d.arg = e
    BY <2>5, <2>e DEF Parser
  <2> HIDE DEF d, q
  <2> QED
    BY <2>2, <2>6 DEF e
<1> HIDE DEF q
<1>2. Sound(q)
  BY <1>1, BytesAssumption DEF Sound, CmdLength
<1>3. Good(<<>>)
  BY BytesAssumption DEF Good, CmdLength
<1>4. Text(q, <<>>)
  BY <1>1 DEF Text, CmdLength
<1>5. MidLine(q, <<>>)
  BY <1>1, <1>3, <1>4 DEF MidLine, StateAt
<1>6. ~Returned(<<>>) /\ <<>> \in Seq(Byte)
  BY DEF Returned
<1> QED
  BY <1>2, <1>5, <1>6 DEF Parsed, q

\* The parser at the start of a session knows it too.
LEMMA StartParsed == Parsed(Start, <<>>)
<1> DEFINE q == Start
<1>1. q \in Parser /\ q.state = "INIT" /\ q.error = FALSE /\ q.cmd = <<>> /\ q.arg = <<>>
  BY DEF Start, Parser, ParserState
<1> HIDE DEF q
<1>2. Sound(q)
  BY <1>1, BytesAssumption DEF Sound, CmdLength
<1>3. Good(<<>>)
  BY BytesAssumption DEF Good, CmdLength
<1>4. Text(q, <<>>)
  BY <1>1 DEF Text, CmdLength
<1>5. MidLine(q, <<>>)
  BY <1>1, <1>3, <1>4 DEF MidLine, StateAt
<1>6. ~Returned(<<>>) /\ <<>> \in Seq(Byte)
  BY DEF Returned
<1> QED
  BY <1>2, <1>5, <1>6 DEF Parsed, q

\* A byte more of a line: a LF after a CR ends the request that the line means,
\* any other byte is of the same line.
LEMMA ByteParsed ==
  ASSUME NEW p, NEW x, Parsed(p, x), NEW c \in Byte
  PROVE  LET q == Feed(p, c)
         IN  IF c = LF /\ Returned(x)
             THEN /\ Complete(q) /\ Sound(q) /\ x \in Seq(Byte)
                  /\ \E y \in Seq(Byte) : x = Append(y, CR) /\ Request(q) = Meaning(y)
             ELSE ~Complete(q) /\ Parsed(q, Append(x, c))
<1> DEFINE q == Feed(p, c)
           z == Append(x, c)
<1>1. Sound(p) /\ x \in Seq(Byte)
  BY DEF Parsed
<1>2. Returned(z) <=> c = CR
  <2>1. z \in Seq(Byte) /\ Len(z) = Len(x) + 1 /\ z[Len(x) + 1] = c /\ z # <<>>
    BY <1>1
  <2> HIDE DEF z
  <2> QED
    BY <2>1 DEF Returned
<1>z. z \in Seq(Byte)
  BY <1>1
<1>3. CASE Returned(x) /\ c = LF
  <2>1. PICK y \in Seq(Byte) : x = Append(y, CR) /\ AtReturn(p, y)
    BY <1>3 DEF Parsed
  <2>2. Sound(q) /\ Complete(q) /\ Request(q) = Meaning(y)
    BY <1>1, <1>3, <2>1, EndStep
  <2> HIDE DEF q
  <2> QED
    BY <1>1, <1>3, <2>1, <2>2 DEF q
<1>4. CASE Returned(x) /\ c # LF
  <2>1. PICK y \in Seq(Byte) : x = Append(y, CR) /\ AtReturn(p, y)
    BY <1>4 DEF Parsed
  <2>2. p.state = "MAYEND"
    BY <2>1 DEF AtReturn
  <2>3. Sound(q) /\ q.error /\ q.state = IF c = CR THEN "MAYEND" ELSE "ERRST"
    BY <1>1, <1>4, <2>2, ReturnStep
  <2>4. ~Good(x)
    <3>1. x[Len(y) + 1] = CR /\ Good(x) => Fits(Len(y) + 1, CR)
      BY <2>1, GoodStep, Classes
    <3>2. ~Fits(Len(y) + 1, CR)
      BY Classes DEF Fits
    <3> QED
      BY <2>1, <3>1, <3>2
  <2>5. ~Good(z) /\ ~WellFormed(x)
    BY <1>1, <2>4, GoodStep, WellFormedIs
  <2> HIDE DEF q, z
  <2>6. ~Complete(q)
    BY <2>3 DEF Complete
  <2>7. c = CR => AtReturn(q, x)
    BY <2>3, <2>5 DEF AtReturn
  <2>8. c # CR => MidLine(q, z)
    BY <2>3, <2>5 DEF MidLine
  <2>9. Parsed(q, z)
    <3>1. c = CR => \E u \in Seq(Byte) : z = Append(u, CR) /\ AtReturn(q, u)
      BY <1>1, <2>7 DEF z
    <3> QED
      BY <1>2, <1>z, <2>3, <2>8, <3>1 DEF Parsed
  <2> QED
    BY <1>4, <2>6, <2>9 DEF q, z
<1>5. CASE ~Returned(x)
  <2>1. MidLine(p, x)
    BY <1>5 DEF Parsed
  <2>2. /\ Sound(q)
        /\ c = CR => AtReturn(q, x)
        /\ c # CR => MidLine(q, z)
    BY <1>1, <2>1, MidStep
  <2> HIDE DEF q, z
  <2>3. ~Complete(q)
    <3>1. c = CR => q.state = "MAYEND"
      BY <2>2 DEF AtReturn
    <3>2. c # CR => q.state \in {"ERRST", "ARGST"} \/ q.state = StateAt(Len(z))
      BY <2>2 DEF MidLine
    <3>3. StateAt(Len(z)) # "ENDST"
      BY DEF StateAt
    <3> QED
      BY <3>1, <3>2, <3>3 DEF Complete
  <2>4. Parsed(q, z)
    <3>1. c = CR => \E u \in Seq(Byte) : z = Append(u, CR) /\ AtReturn(q, u)
      BY <1>1, <2>2 DEF z
    <3> QED
      BY <1>2, <1>z, <2>2, <3>1 DEF Parsed
  <2> QED
    BY <1>5, <2>3, <2>4 DEF q, z
<1> QED
  BY <1>3, <1>4, <1>5

-----------------------------------------------------------------------------
(* Ranks: the i-th member of a set of numbers.                             *)

Rank(S, e) == Cardinality({d \in S : d <= e})

\* Every rank is taken.
Ranked(S) ==
  /\ IsFiniteSet(S) /\ S \subseteq Nat
  /\ \A j \in 1..Cardinality(S) : \E e \in S : Rank(S, e) = j

\* No rank is taken twice.
LEMMA RankOnce ==
  ASSUME NEW S, IsFiniteSet(S), S \subseteq Nat, NEW e \in S, NEW f \in S,
         Rank(S, e) = Rank(S, f)
  PROVE  e = f
<1>1. ASSUME NEW a \in S, NEW b \in S, a < b PROVE Rank(S, a) # Rank(S, b)
  <2> DEFINE A == {d \in S : d <= a}
             B == {d \in S : d <= b}
  <2>1. a \in Nat /\ b \in Nat
    OBVIOUS
  <2>2. A \subseteq B /\ b \in B /\ b \notin A /\ B \subseteq S
    <3>1. \A d \in S : d <= a => d <= b
      BY <1>1, <2>1
    <3>2. b <= b /\ ~(b <= a)
      BY <1>1, <2>1
    <3> QED
      BY <3>1, <3>2
  <2> HIDE DEF A, B
  <2>3. IsFiniteSet(B)
    BY <2>2, FS_Subset
  <2>4. Cardinality(B) # Cardinality(A)
    BY <2>2, <2>3, FS_Subset
  <2> QED
    BY <2>4 DEF Rank, A, B
<1>2. e \in Nat /\ f \in Nat
  OBVIOUS
<1>3. e < f \/ f < e \/ e = f
  BY <1>2
<1> QED
  BY <1>1, <1>3

\* Nth finds the member of a rank.
LEMMA NthIs ==
  ASSUME NEW S, IsFiniteSet(S), S \subseteq Nat, NEW e \in S
  PROVE  Nth(S, Rank(S, e)) = e
<1> DEFINE f == CHOOSE x \in S : Rank(S, x) = Rank(S, e)
<1>1. f \in S /\ Rank(S, f) = Rank(S, e)
  OBVIOUS
<1>2. Nth(S, Rank(S, e)) = f
  BY Zenon DEF Nth, Rank
<1> HIDE DEF f
<1>3. f = e
  BY <1>1, RankOnce
<1> QED
  BY <1>2, <1>3

\* A greater member has the next rank and changes no other.
LEMMA RankMore ==
  ASSUME NEW S, Ranked(S), NEW m \in Nat, \A d \in S : d < m
  PROVE  /\ Ranked(S \cup {m})
         /\ Cardinality(S) \in Nat
         /\ Cardinality(S \cup {m}) = Cardinality(S) + 1
         /\ \A e \in S : Rank(S \cup {m}, e) = Rank(S, e)
         /\ Rank(S \cup {m}, m) = Cardinality(S) + 1
<1> DEFINE T == S \cup {m}
           n == Cardinality(S)
<1>1. IsFiniteSet(S) /\ S \subseteq Nat /\ \A j \in 1..n : \E e \in S : Rank(S, e) = j
  BY DEF Ranked
<1>2. n \in Nat
  BY <1>1, FS_CardinalityType
<1>3. m \notin S
  OBVIOUS
<1>4. IsFiniteSet(T) /\ Cardinality(T) = n + 1
  BY <1>1, <1>3, FS_AddElement
<1>5. ASSUME NEW e \in S PROVE Rank(T, e) = Rank(S, e)
  <2>1. ~(m <= e)
    BY <1>1
  <2>2. {d \in T : d <= e} = {d \in S : d <= e}
    BY <2>1
  <2> QED
    BY <2>2 DEF Rank
<1>6. Rank(T, m) = n + 1
  <2>1. \A d \in T : d <= m
    BY <1>1
  <2>2. {d \in T : d <= m} = T
    BY <2>1
  <2> HIDE DEF T
  <2> QED
    BY <1>4, <2>2 DEF Rank
<1>7. Ranked(T)
  <2>1. T \subseteq Nat
    BY <1>1
  <2>2. ASSUME NEW j \in 1..n + 1 PROVE \E e \in T : Rank(T, e) = j
    <3>1. CASE j = n + 1
      BY <1>6, <3>1
    <3>2. CASE j \in 1..n
      <4>1. PICK e \in S : Rank(S, e) = j
        BY <1>1, <3>2
      <4>2. e \in T /\ Rank(T, e) = j
        BY <1>5, <4>1
      <4> QED
        BY <4>2
    <3> QED
      BY <1>2, <3>1, <3>2
  <2> HIDE DEF T, n
  <2> QED
    BY <1>4, <2>1, <2>2 DEF Ranked
<1> QED
  BY <1>2, <1>4, <1>5, <1>6, <1>7

\* The empty set has no ranks.
LEMMA RankNone == Ranked({})
<1>1. IsFiniteSet({}) /\ Cardinality({}) = 0
  BY FS_EmptySet
<1> QED
  BY <1>1 DEF Ranked

-----------------------------------------------------------------------------
(* Cutting a stream at every CRLF.                                         *)

Upto(s, n) == SubSeq(s, 1, n)

IsEnd(s, e) == s[e - 1] = CR /\ s[e] = LF

\* The ends among the first n bytes.
EndsIn(s, n) == {e \in 2..n : IsEnd(s, e)}

\* The line that is open after n bytes starts after the d-th of them.
OpenAt(s, n, d) ==
  /\ d \in 0..n
  /\ d = 0 \/ d \in EndsIn(s, n)
  /\ \A e \in EndsIn(s, n) : e <= d

\* The bytes of a beginning.
LEMMA UptoIs ==
  ASSUME NEW s \in Seq(Byte), NEW n \in 0..Len(s)
  PROVE  /\ Upto(s, n) \in Seq(Byte) /\ Len(Upto(s, n)) = n
         /\ \A i \in 1..n : Upto(s, n)[i] = s[i]
  BY DEF Upto

\* The ends of a beginning are those of the stream.
LEMMA EndsUpto ==
  ASSUME NEW s \in Seq(Byte), NEW n \in 0..Len(s)
  PROVE  Ends(Upto(s, n)) = EndsIn(s, n)
<1> DEFINE x == Upto(s, n)
<1>1. Len(x) = n /\ \A i \in 1..n : x[i] = s[i]
  BY UptoIs
<1> HIDE DEF x
<1>2. \A e \in 2..n : e \in 1..n /\ e - 1 \in 1..n
  OBVIOUS
<1>3. \A e \in 2..n : (x[e - 1] = CR /\ x[e] = LF) <=> IsEnd(s, e)
  BY <1>1, <1>2 DEF IsEnd
<1>4. Ends(x) = {e \in 2..n : x[e - 1] = CR /\ x[e] = LF}
  BY <1>1 DEF Ends
<1>5. Ends(x) = EndsIn(s, n)
  BY <1>3, <1>4 DEF EndsIn
<1> QED
  BY <1>5 DEF x

\* One byte more is the end of a line, or not.
LEMMA EndsMore ==
  ASSUME NEW s, NEW n \in Nat
  PROVE  EndsIn(s, n + 1) = IF n >= 1 /\ IsEnd(s, n + 1) THEN EndsIn(s, n) \cup {n + 1}
                                                      ELSE EndsIn(s, n)
<1>1. \A e \in 2..n + 1 : e \in 2..n \/ e = n + 1
  OBVIOUS
<1>2. 2..n \subseteq 2..n + 1 /\ n + 1 \in 2..n + 1 <=> n >= 1
  OBVIOUS
<1>3. n + 1 \notin 2..n
  OBVIOUS
<1> QED
  BY <1>1, <1>2, <1>3 DEF EndsIn

\* The ends have ranks.
LEMMA EndsRanked ==
  ASSUME NEW s, NEW n \in Nat
  PROVE  Ranked(EndsIn(s, n))
<1> DEFINE G == {k \in Nat : Ranked(EndsIn(s, k))}
<1>1. 0 \in G
  <2>1. EndsIn(s, 0) = {}
    BY DEF EndsIn
  <2> QED
    BY <2>1, RankNone
<1>2. ASSUME NEW k \in Nat, k \in G PROVE k + 1 \in G
  <2>1. Ranked(EndsIn(s, k))
    BY <1>2
  <2>2. \A d \in EndsIn(s, k) : d < k + 1
    BY DEF EndsIn
  <2>3. Ranked(EndsIn(s, k) \cup {k + 1})
    <3>1. k + 1 \in Nat
      OBVIOUS
    <3> HIDE DEF G
    <3> QED
      BY <2>1, <2>2, <3>1, RankMore
  <2>4. Ranked(EndsIn(s, k + 1))
    BY <2>1, <2>3, EndsMore
  <2> QED
    BY <2>4
<1>3. n \in G
  <2> HIDE DEF G
  <2> QED
    BY <1>1, <1>2, Induction
<1> QED
  BY <1>3

\* Where the open line starts.
LEMMA OpenMore ==
  ASSUME NEW s, NEW n \in Nat, NEW d, OpenAt(s, n, d)
  PROVE  OpenAt(s, n + 1, IF n >= 1 /\ IsEnd(s, n + 1) THEN n + 1 ELSE d)
<1>1. d \in 0..n /\ (d = 0 \/ d \in EndsIn(s, n)) /\ \A e \in EndsIn(s, n) : e <= d
  BY DEF OpenAt
<1>2. \A e \in EndsIn(s, n) : e <= n + 1
  BY DEF EndsIn
<1>3. d \in 0..n + 1 /\ n + 1 \in 0..n + 1
  BY <1>1
<1>4. CASE n >= 1 /\ IsEnd(s, n + 1)
  <2>1. EndsIn(s, n + 1) = EndsIn(s, n) \cup {n + 1}
    BY <1>4, EndsMore
  <2>2. \A e \in EndsIn(s, n + 1) : e <= n + 1
    BY <1>2, <2>1
  <2> QED
    BY <1>3, <1>4, <2>1, <2>2 DEF OpenAt
<1>5. CASE ~(n >= 1 /\ IsEnd(s, n + 1))
  <2>1. EndsIn(s, n + 1) = EndsIn(s, n)
    BY <1>5, EndsMore
  <2> QED
    BY <1>1, <1>3, <1>5, <2>1 DEF OpenAt
<1> QED
  BY <1>4, <1>5

\* There is always an open line.
LEMMA OpenExists ==
  ASSUME NEW s, NEW n \in Nat
  PROVE  \E d : OpenAt(s, n, d)
<1> DEFINE G == {k \in Nat : \E d : OpenAt(s, k, d)}
<1>1. 0 \in G
  <2>1. OpenAt(s, 0, 0)
    BY DEF OpenAt, EndsIn
  <2> QED
    BY <2>1
<1>2. ASSUME NEW k \in Nat, k \in G PROVE k + 1 \in G
  <2>1. PICK d : OpenAt(s, k, d)
    BY <1>2
  <2>2. OpenAt(s, k + 1, IF k >= 1 /\ IsEnd(s, k + 1) THEN k + 1 ELSE d)
    BY <2>1, OpenMore
  <2> QED
    BY <2>2
<1>3. n \in G
  <2> HIDE DEF G
  <2> QED
    BY <1>1, <1>2, Induction
<1> QED
  BY <1>3

\* The line before an end, wherever the beginning is cut after it.
LEMMA LineIs ==
  ASSUME NEW s \in Seq(Byte), NEW n \in 0..Len(s), NEW e \in EndsIn(s, n),
         NEW d, OpenAt(s, e - 1, d)
  PROVE  LineAt(Upto(s, n), e) = SubSeq(s, d + 1, e - 2)
<1> DEFINE x == Upto(s, n)
           B == {a \in Ends(x) : a < e}
           start == IF B = {} THEN 0 ELSE Max(B)
<1>1. n \in Nat /\ e \in 2..n /\ Len(s) \in Nat /\ n <= Len(s)
  BY DEF EndsIn
<1>2. d \in 0..e - 1 /\ (d = 0 \/ d \in EndsIn(s, e - 1)) /\ \A a \in EndsIn(s, e - 1) : a <= d
  BY DEF OpenAt
<1>3. B = EndsIn(s, e - 1)
  <2>1. Ends(x) = EndsIn(s, n)
    BY EndsUpto
  <2>2. 2..e - 1 \subseteq 2..n /\ \A a \in 2..n : a < e <=> a \in 2..e - 1
    BY <1>1
  <2> QED
    BY <2>1, <2>2 DEF EndsIn
<1>4. start = d
  <2>1. CASE B = {}
    BY <1>2, <1>3, <2>1
  <2>2. CASE B # {}
    <3>1. B \subseteq Nat
      BY <1>3 DEF EndsIn
    <3>2. d \in B
      <4>1. PICK a \in B : TRUE
        BY <2>2
      <4>2. a >= 2 /\ a <= d
        BY <1>2, <1>3, <4>1 DEF EndsIn
      <4> QED
        BY <1>2, <1>3, <3>1, <4>2
    <3>3. \A y \in B : d >= y
      BY <1>2, <1>3, <3>1
    <3> DEFINE m == CHOOSE a \in B : \A y \in B : a >= y
    <3> HIDE DEF B
    <3>4. m \in B /\ \A y \in B : m >= y
      BY <3>2, <3>3
    <3>5. Max(B) = m
      BY DEF Max
    <3> HIDE DEF m
    <3>6. m = d
      BY <3>1, <3>2, <3>3, <3>4
    <3> QED
      BY <2>2, <3>5, <3>6 DEF B
  <2> QED
    BY <2>1, <2>2
<1>5. LineAt(x, e) = SubSeq(x, start + 1, e - 2)
  BY DEF LineAt
<1>6. SubSeq(x, d + 1, e - 2) = SubSeq(s, d + 1, e - 2)
  <2> DEFINE i == d + 1
             j == e - 2
  <2>1. x \in Seq(Byte) /\ Len(x) = n /\ \A a \in 1..n : x[a] = s[a]
    BY UptoIs
  <2>2. i \in Nat /\ i >= 1 /\ j \in Nat /\ j <= n /\ j <= Len(s)
    BY <1>1, <1>2
  <2> HIDE DEF x, i, j
  <2>3. /\ SubSeq(x, i, j) \in Seq(Byte) /\ SubSeq(s, i, j) \in Seq(Byte)
        /\ Len(SubSeq(x, i, j)) = IF i <= j THEN j - i + 1 ELSE 0
        /\ Len(SubSeq(s, i, j)) = IF i <= j THEN j - i + 1 ELSE 0
        /\ \A a \in 1..j - i + 1 : SubSeq(x, i, j)[a] = x[i + a - 1]
        /\ \A a \in 1..j - i + 1 : SubSeq(s, i, j)[a] = s[i + a - 1]
    <3>1. \A a \in i..j : x[a] \in Byte /\ s[a] \in Byte
      BY <2>1, <2>2
    <3>2. i \in Int /\ j \in Int
      BY <2>2
    <3> QED
      BY <3>1, <3>2, SubSeqProperties
  <2>4. \A a \in 1..j - i + 1 : i + a - 1 \in 1..n
    BY <1>1, <2>2
  <2>5. \A a \in 1..Len(SubSeq(x, i, j)) : SubSeq(x, i, j)[a] = SubSeq(s, i, j)[a]
    BY <2>1, <2>2, <2>3, <2>4
  <2>6. SubSeq(x, i, j) = SubSeq(s, i, j)
    BY <2>3, <2>5, SeqEqual
  <2> QED
    BY <2>6 DEF i, j
<1> HIDE DEF start, x
<1> QED
  BY <1>4, <1>5, <1>6 DEF x

\* One line is open.
LEMMA OpenOnce ==
  ASSUME NEW s, NEW n \in Nat, NEW d, OpenAt(s, n, d), NEW f, OpenAt(s, n, f)
  PROVE  d = f
<1>1. /\ d \in Nat /\ f \in Nat
      /\ d = 0 \/ d \in EndsIn(s, n)
      /\ f = 0 \/ f \in EndsIn(s, n)
      /\ \A e \in EndsIn(s, n) : e <= d /\ e <= f
  BY DEF OpenAt
<1>2. \A e \in EndsIn(s, n) : e >= 2
  BY DEF EndsIn
<1>3. (d = 0 \/ d <= f) /\ (f = 0 \/ f <= d)
  BY <1>1
<1> QED
  BY <1>1, <1>3

\* The line that an end of the stream closes, and what such lines mean.
Before(s, e) == CHOOSE d : OpenAt(s, e - 1, d)
LineOf(s, e) == SubSeq(s, Before(s, e) + 1, e - 2)
Meanings == {Meaning(y) : y \in Seq(Byte)}
Requests(s, n) == RequestsIn(Upto(s, n))

\* A line is a sequence of bytes.
LEMMA LineType ==
  ASSUME NEW s \in Seq(Byte), NEW n \in 0..Len(s), NEW e \in EndsIn(s, n)
  PROVE  /\ OpenAt(s, e - 1, Before(s, e))
         /\ LineAt(Upto(s, n), e) = LineOf(s, e)
         /\ LineOf(s, e) \in Seq(Byte)
<1> DEFINE d == Before(s, e)
<1>1. n \in Nat /\ e \in 2..n /\ Len(s) \in Nat /\ n <= Len(s)
  BY DEF EndsIn
<1>2. OpenAt(s, e - 1, d)
  <2>1. e - 1 \in Nat
    BY <1>1
  <2>2. \E x : OpenAt(s, e - 1, x)
    BY <2>1, OpenExists
  <2> QED
    BY <2>2 DEF Before
<1> HIDE DEF d
<1>3. LineAt(Upto(s, n), e) = SubSeq(s, d + 1, e - 2)
  BY <1>2, LineIs
<1>4. SubSeq(s, d + 1, e - 2) \in Seq(Byte)
  <2> DEFINE i == d + 1
             j == e - 2
  <2>1. d \in Nat
    BY <1>1, <1>2 DEF OpenAt
  <2>2. i \in Int /\ j \in Int /\ i >= 1 /\ j <= Len(s)
    BY <1>1, <2>1
  <2> HIDE DEF i, j
  <2>3. \A a \in i..j : s[a] \in Byte
    BY <1>1, <2>2
  <2>4. SubSeq(s, i, j) \in Seq(Byte)
    BY <2>2, <2>3, SubSeqProperties
  <2> QED
    BY <2>4 DEF i, j
<1> QED
  BY <1>2, <1>3, <1>4 DEF LineOf, d

\* The requests of the first n bytes, by the ends of their lines.
LEMMA RequestsAre ==
  ASSUME NEW s \in Seq(Byte), NEW n \in 0..Len(s)
  PROVE  /\ Requests(s, n) \in Seq(Meanings)
         /\ Len(Requests(s, n)) = Cardinality(EndsIn(s, n))
         /\ \A e \in EndsIn(s, n) :
              /\ Rank(EndsIn(s, n), e) \in 1..Cardinality(EndsIn(s, n)) =>
                   Requests(s, n)[Rank(EndsIn(s, n), e)] = Meaning(LineOf(s, e))
<1> DEFINE E == EndsIn(s, n)
           k == Cardinality(E)
           r == Requests(s, n)
           x == Upto(s, n)
<1>1. Ranked(E) /\ IsFiniteSet(E) /\ E \subseteq Nat
      /\ \A j \in 1..k : \E e \in E : Rank(E, e) = j
  <2>1. Ranked(E)
    BY EndsRanked
  <2> QED
    BY <2>1 DEF Ranked
<1>2. k \in Nat
  BY <1>1, FS_CardinalityType
<1>3. r = [j \in 1..k |-> Meaning(LineAt(x, Nth(E, j)))]
  BY EndsUpto DEF Requests, RequestsIn
<1> HIDE DEF E, x
<1>4. \A e \in E : LineAt(x, e) = LineOf(s, e) /\ LineOf(s, e) \in Seq(Byte)
  BY LineType DEF E, x
<1>5. ASSUME NEW j \in 1..k PROVE Meaning(LineAt(x, Nth(E, j))) \in Meanings
  <2>1. PICK e \in E : Rank(E, e) = j
    BY <1>1
  <2>2. Nth(E, j) = e
    BY <1>1, <2>1, NthIs
  <2>3. LineAt(x, e) \in Seq(Byte)
    BY <1>4, <2>1
  <2> QED
    BY <2>2, <2>3 DEF Meanings
<1>6. ASSUME NEW e \in E, Rank(E, e) \in 1..k
      PROVE  r[Rank(E, e)] = Meaning(LineOf(s, e))
  <2>1. Nth(E, Rank(E, e)) = e
    BY <1>1, NthIs
  <2>2. r[Rank(E, e)] = Meaning(LineAt(x, Nth(E, Rank(E, e))))
    BY <1>3, <1>6
  <2> QED
    BY <1>4, <2>1, <2>2
<1>7. r \in [1..k -> Meanings]
  BY <1>3, <1>5
<1> HIDE DEF r, k
<1>8. r \in Seq(Meanings) /\ Len(r) = k
  BY <1>2, <1>7
<1> QED
  BY <1>6, <1>8 DEF r, k, E

\* A byte that ends no line leaves the requests alone.
LEMMA RequestsSame ==
  ASSUME NEW s \in Seq(Byte), NEW n \in Nat, n + 1 <= Len(s), ~(n >= 1 /\ IsEnd(s, n + 1))
  PROVE  Requests(s, n + 1) = Requests(s, n)
<1> DEFINE E == EndsIn(s, n)
           m == n + 1
           q == Requests(s, n)
           r == Requests(s, m)
<1>1. n \in 0..Len(s) /\ m \in 0..Len(s)
  OBVIOUS
<1>2. EndsIn(s, m) = E
  BY EndsMore
<1>3. Ranked(E)
  BY EndsRanked
<1> HIDE DEF m
<1>4. /\ q \in Seq(Meanings) /\ Len(q) = Cardinality(E)
      /\ \A e \in E : Rank(E, e) \in 1..Cardinality(E) =>
           q[Rank(E, e)] = Meaning(LineOf(s, e))
  BY <1>1, RequestsAre
<1>5. /\ r \in Seq(Meanings) /\ Len(r) = Cardinality(EndsIn(s, m))
      /\ \A e \in EndsIn(s, m) : Rank(EndsIn(s, m), e) \in 1..Cardinality(EndsIn(s, m)) =>
           r[Rank(EndsIn(s, m), e)] = Meaning(LineOf(s, e))
  BY <1>1, RequestsAre
<1> HIDE DEF E, q, r
<1>6. ASSUME NEW j \in 1..Len(r) PROVE r[j] = q[j]
  <2>1. PICK e \in E : Rank(E, e) = j
    BY <1>2, <1>3, <1>5 DEF Ranked
  <2> QED
    BY <1>2, <1>4, <1>5, <2>1
<1>7. r = q
  BY <1>2, <1>4, <1>5, <1>6, SeqEqual
<1> QED
  BY <1>7 DEF r, q, m

\* The end of a line adds the request that the line is.
LEMMA RequestsMore ==
  ASSUME NEW s \in Seq(Byte), NEW n \in Nat, n + 1 <= Len(s), n >= 1, IsEnd(s, n + 1),
         NEW d, OpenAt(s, n, d)
  PROVE  Requests(s, n + 1) = Append(Requests(s, n), Meaning(SubSeq(s, d + 1, n - 1)))
<1> DEFINE E == EndsIn(s, n)
           k == Cardinality(E)
           m == n + 1
           F == EndsIn(s, m)
           q == Requests(s, n)
           r == Requests(s, m)
           a == Meaning(LineOf(s, m))
           t == Append(q, a)
<1>1. n \in 0..Len(s) /\ m \in 0..Len(s) /\ m \in Nat
  OBVIOUS
<1>2. F = E \cup {m}
  BY EndsMore
<1>3. Ranked(E) /\ \A e \in E : e < m
  <2>1. \A e \in E : e < m
    BY DEF EndsIn
  <2> QED
    BY <2>1, EndsRanked
<1>4. a = Meaning(SubSeq(s, d + 1, n - 1)) /\ a \in Meanings
  <2>1. OpenAt(s, m - 1, Before(s, m)) /\ LineOf(s, m) \in Seq(Byte)
    <3>1. m \in F
      BY <1>2
    <3> HIDE DEF m
    <3> QED
      BY <1>1, <3>1, LineType DEF F
  <2>2. m - 1 = n /\ m - 2 = n - 1
    OBVIOUS
  <2>3. Before(s, m) = d
    <3>1. OpenAt(s, n, Before(s, m))
      BY <2>1, <2>2
    <3> QED
      BY <3>1, OpenOnce
  <2>4. LineOf(s, m) = SubSeq(s, d + 1, n - 1)
    BY <2>2, <2>3 DEF LineOf
  <2> QED
    BY <2>1, <2>4 DEF Meanings
<1> HIDE DEF m, a
<1>5. /\ q \in Seq(Meanings) /\ Len(q) = k
      /\ \A e \in E : Rank(E, e) \in 1..k => q[Rank(E, e)] = Meaning(LineOf(s, e))
  BY <1>1, RequestsAre
<1>6. /\ r \in Seq(Meanings) /\ Len(r) = Cardinality(F)
      /\ \A e \in F : Rank(F, e) \in 1..Cardinality(F) =>
           r[Rank(F, e)] = Meaning(LineOf(s, e))
  BY <1>1, RequestsAre
<1> HIDE DEF E, F, q, r
<1>7. /\ k \in Nat /\ Cardinality(F) = k + 1
      /\ \A e \in E : Rank(F, e) = Rank(E, e)
      /\ Rank(F, m) = k + 1
  BY <1>1, <1>2, <1>3, RankMore
<1> HIDE DEF k
<1>8. /\ t \in Seq(Meanings) /\ Len(t) = k + 1 /\ t[k + 1] = a
      /\ \A j \in 1..k : t[j] = q[j]
  BY <1>4, <1>5, AppendProperties
<1> HIDE DEF t
<1>9. ASSUME NEW j \in 1..k + 1 PROVE r[j] = t[j]
  <2>1. CASE j = k + 1
    <3>1. m \in F /\ Rank(F, m) \in 1..k + 1
      BY <1>2, <1>7
    <3>2. r[Rank(F, m)] = Meaning(LineOf(s, m))
      BY <1>6, <1>7, <3>1
    <3>3. r[j] = Meaning(LineOf(s, m))
      BY <1>7, <2>1, <3>2
    <3> QED
      BY <1>8, <2>1, <3>3 DEF a
  <2>2. CASE j \in 1..k
    <3>1. PICK e \in E : Rank(E, e) = j
      BY <1>3, <2>2 DEF Ranked, k
    <3>2. q[j] = Meaning(LineOf(s, e))
      BY <1>5, <2>2, <3>1
    <3>3. e \in F /\ Rank(F, e) = j
      BY <1>2, <1>7, <3>1
    <3>4. r[j] = Meaning(LineOf(s, e))
      BY <1>6, <1>7, <3>3
    <3> QED
      BY <1>8, <2>2, <3>2, <3>4
  <2> QED
    BY <1>7, <2>1, <2>2
<1>10. r = t
  <2>1. Len(r) = k + 1
    BY <1>6, <1>7
  <2> QED
    BY <1>6, <1>8, <1>9, <2>1, SeqEqual
<1> QED
  BY <1>4, <1>10 DEF r, t, q, m

\* The requests of a beginning are the first requests of a longer one.
LEMMA RequestsGrow ==
  ASSUME NEW s \in Seq(Byte), NEW n \in Nat, NEW m \in Nat, n <= m, m <= Len(s)
  PROVE  IsPrefix(Requests(s, n), Requests(s, m))
<1> DEFINE q == Requests(s, n)
           Goes(k) == /\ Len(q) <= Len(Requests(s, k))
                      /\ \A j \in 1..Len(q) : Requests(s, k)[j] = q[j]
           G == {i \in Nat : n + i <= Len(s) => Goes(n + i)}
<1>1. 0 \in G
  <2>1. n \in 0..Len(s) /\ n + 0 = n
    OBVIOUS
  <2>2. q \in Seq(Meanings)
    BY <2>1, RequestsAre
  <2>3. Goes(n)
    BY <2>2
  <2> HIDE DEF Goes
  <2> QED
    BY <2>1, <2>3
<1>2. ASSUME NEW i \in Nat, i \in G PROVE i + 1 \in G
  <2> SUFFICES ASSUME n + (i + 1) <= Len(s) PROVE Goes(n + (i + 1))
    OBVIOUS
  <2> DEFINE k == n + i
  <2>1. k \in Nat /\ k + 1 <= Len(s) /\ n + (i + 1) = k + 1 /\ k \in 0..Len(s)
    OBVIOUS
  <2>2. Goes(k)
    BY <1>2, <2>1
  <2> HIDE DEF k
  <2>3. CASE k >= 1 /\ IsEnd(s, k + 1)
    <3>1. PICK d : OpenAt(s, k, d)
      BY <2>1, OpenExists
    <3> DEFINE a == Meaning(SubSeq(s, d + 1, k - 1))
               r == Requests(s, k)
    <3>2. Requests(s, k + 1) = Append(r, a)
      BY <2>1, <2>3, <3>1, RequestsMore
    <3>3. r \in Seq(Meanings)
      BY <2>1, RequestsAre
    <3>n. n \in 0..Len(s)
      OBVIOUS
    <3>4. q \in Seq(Meanings) /\ Len(q) \in Nat
      BY <3>n, RequestsAre
    <3> HIDE DEF a, r, q
    <3>5. Len(Append(r, a)) = Len(r) + 1 /\ \A j \in 1..Len(r) : Append(r, a)[j] = r[j]
      <4>1. r \in Seq(Meanings \cup {a}) /\ a \in Meanings \cup {a}
        BY <3>3
      <4> QED
        BY <4>1, AppendProperties
    <3>6. Len(q) <= Len(r) /\ \A j \in 1..Len(q) : r[j] = q[j]
      BY <2>2 DEF r
    <3>7. Len(q) <= Len(Append(r, a)) /\ \A j \in 1..Len(q) : Append(r, a)[j] = q[j]
      BY <3>3, <3>4, <3>5, <3>6
    <3> QED
      BY <2>1, <3>2, <3>7
  <2>4. CASE ~(k >= 1 /\ IsEnd(s, k + 1))
    <3>1. Requests(s, k + 1) = Requests(s, k)
      BY <2>1, <2>4, RequestsSame
    <3> QED
      BY <2>1, <2>2, <3>1
  <2> QED
    BY <2>3, <2>4
<1>3. m - n \in Nat /\ n + (m - n) = m
  OBVIOUS
<1>4. m - n \in G
  <2> HIDE DEF G
  <2> QED
    BY <1>1, <1>2, <1>3, Induction
<1>5. Goes(m)
  BY <1>3, <1>4
<1> DEFINE r == Requests(s, m)
<1>6. n \in 0..Len(s) /\ m \in 0..Len(s)
  OBVIOUS
<1>7. q \in Seq(Meanings) /\ r \in Seq(Meanings)
  BY <1>6, RequestsAre
<1>8. Len(q) <= Len(r) /\ \A j \in 1..Len(q) : r[j] = q[j]
  BY <1>5
<1> HIDE DEF q, r
<1>9. SubSeq(q, 1, Len(q)) = SubSeq(r, 1, Len(q))
  <2> DEFINE k == Len(q)
  <2>1. k \in Nat /\ Len(r) \in Nat /\ k <= Len(r)
    BY <1>7, <1>8
  <2>2. \A i \in 1..k : q[i] \in Meanings /\ r[i] \in Meanings
    BY <1>7, <2>1
  <2> HIDE DEF k
  <2>3. /\ SubSeq(q, 1, k) \in Seq(Meanings) /\ SubSeq(r, 1, k) \in Seq(Meanings)
        /\ Len(SubSeq(q, 1, k)) = IF 1 <= k THEN k - 1 + 1 ELSE 0
        /\ Len(SubSeq(r, 1, k)) = IF 1 <= k THEN k - 1 + 1 ELSE 0
        /\ \A i \in 1..k - 1 + 1 : SubSeq(q, 1, k)[i] = q[1 + i - 1]
        /\ \A i \in 1..k - 1 + 1 : SubSeq(r, 1, k)[i] = r[1 + i - 1]
    BY <2>1, <2>2, SubSeqProperties
  <2>4. \A i \in 1..k : i \in 1..k - 1 + 1 /\ 1 + i - 1 = i
    BY <2>1
  <2>5. \A i \in 1..k : r[i] = q[i]
    BY <1>8 DEF k
  <2>6. Len(SubSeq(q, 1, k)) = k /\ Len(SubSeq(r, 1, k)) = k
    BY <2>1, <2>3
  <2>7. \A i \in 1..Len(SubSeq(q, 1, k)) : SubSeq(q, 1, k)[i] = SubSeq(r, 1, k)[i]
    BY <2>3, <2>4, <2>5, <2>6
  <2>8. SubSeq(q, 1, k) = SubSeq(r, 1, k)
    BY <2>3, <2>6, <2>7, SeqEqual
  <2> QED
    BY <2>8 DEF k
<1>10. IsPrefix(q, r)
  BY <1>8, <1>9 DEF IsPrefix
<1> QED
  BY <1>10 DEF q, r

-----------------------------------------------------------------------------
(* The parser knows the line that is open.                                 *)

Knows(p, s, n) == \E d \in 0..n : OpenAt(s, n, d) /\ Parsed(p, SubSeq(s, d + 1, n))

\* The open line and its last byte.
LEMMA OpenLine ==
  ASSUME NEW s \in Seq(Byte), NEW n \in Nat, n + 1 <= Len(s), NEW d \in 0..n
  PROVE  LET x == SubSeq(s, d + 1, n)
         IN  /\ x \in Seq(Byte) /\ Len(x) = n - d
             /\ Append(x, s[n + 1]) = SubSeq(s, d + 1, n + 1)
             /\ x # <<>> => d < n /\ x[Len(x)] = s[n]
             /\ d < n => x # <<>>
             /\ \A y \in Seq(Byte) : x = Append(y, CR) => y = SubSeq(s, d + 1, n - 1)
<1> DEFINE x == SubSeq(s, d + 1, n)
           c == s[n + 1]
           z == SubSeq(s, d + 1, n + 1)
           w == SubSeq(s, d + 1, n - 1)
           k == n - d
<1>1. /\ k \in Nat /\ n = d + k /\ d \in Nat /\ c \in Byte
      /\ \A i \in 1..Len(s) : s[i] \in Byte
  OBVIOUS
<1>2. \A i \in d + 1..n + 1 : s[i] \in Byte
  OBVIOUS
<1>3. x \in Seq(Byte) /\ Len(x) = k /\ \A i \in 1..k : x[i] = s[d + i]
  <2>1. \A i \in d + 1..n : s[i] \in Byte
    BY <1>2
  <2>2. d + 1 \in Int /\ n \in Int
    BY <1>1
  <2>3. /\ x \in Seq(Byte) /\ Len(x) = IF d + 1 <= n THEN n - (d + 1) + 1 ELSE 0
        /\ \A i \in 1..n - (d + 1) + 1 : x[i] = s[d + 1 + i - 1]
    BY <2>1, <2>2, SubSeqProperties
  <2> HIDE DEF x
  <2>4. n - (d + 1) + 1 = k /\ \A i \in 1..k : d + 1 + i - 1 = d + i
    BY <1>1
  <2> QED
    BY <1>1, <2>3, <2>4
<1>4. z \in Seq(Byte) /\ Len(z) = k + 1 /\ \A i \in 1..k + 1 : z[i] = s[d + i]
  <2>2. d + 1 \in Int /\ n + 1 \in Int
    BY <1>1
  <2>3. /\ z \in Seq(Byte) /\ Len(z) = IF d + 1 <= n + 1 THEN n + 1 - (d + 1) + 1 ELSE 0
        /\ \A i \in 1..n + 1 - (d + 1) + 1 : z[i] = s[d + 1 + i - 1]
    BY <1>2, <2>2, SubSeqProperties
  <2> HIDE DEF z
  <2>4. n + 1 - (d + 1) + 1 = k + 1 /\ \A i \in 1..k + 1 : d + 1 + i - 1 = d + i
    BY <1>1
  <2> QED
    BY <1>1, <2>3, <2>4
<1>5. k >= 1 => w \in Seq(Byte) /\ Len(w) = k - 1 /\ \A i \in 1..k - 1 : w[i] = s[d + i]
  <2> SUFFICES ASSUME k >= 1
               PROVE  w \in Seq(Byte) /\ Len(w) = k - 1 /\ \A i \in 1..k - 1 : w[i] = s[d + i]
    OBVIOUS
  <2>1. \A i \in d + 1..n - 1 : s[i] \in Byte
    BY <1>2
  <2>2. d + 1 \in Int /\ n - 1 \in Int
    BY <1>1
  <2>3. /\ w \in Seq(Byte) /\ Len(w) = IF d + 1 <= n - 1 THEN n - 1 - (d + 1) + 1 ELSE 0
        /\ \A i \in 1..n - 1 - (d + 1) + 1 : w[i] = s[d + 1 + i - 1]
    BY <2>1, <2>2, SubSeqProperties
  <2> HIDE DEF w
  <2>4. n - 1 - (d + 1) + 1 = k - 1 /\ \A i \in 1..k - 1 : d + 1 + i - 1 = d + i
    BY <1>1
  <2> QED
    BY <1>1, <2>3, <2>4
<1>k. d < n <=> k >= 1
  BY <1>1
<1>n. n + 1 = d + (k + 1)
  BY <1>1
<1> HIDE DEF x, z, w, k
<1>6. Append(x, c) = z
  <2> DEFINE t == Append(x, c)
  <2>1. /\ t \in Seq(Byte) /\ Len(t) = k + 1 /\ t[k + 1] = c
        /\ \A i \in 1..k : t[i] = x[i]
    BY <1>1, <1>3, AppendProperties
  <2> HIDE DEF t
  <2>2. c = s[d + (k + 1)]
    BY <1>n
  <2> HIDE DEF c
  <2>3. ASSUME NEW i \in 1..k + 1 PROVE t[i] = z[i]
    <3>1. CASE i = k + 1
      BY <1>1, <1>4, <2>1, <2>2, <3>1
    <3>2. CASE i \in 1..k
      BY <1>1, <1>3, <1>4, <2>1, <3>2
    <3> QED
      BY <1>1, <3>1, <3>2
  <2>4. t = z
    BY <1>4, <2>1, <2>3, SeqEqual
  <2> QED
    BY <2>4 DEF t
<1>7. x # <<>> <=> k >= 1
  BY <1>1, <1>3
<1>8. k >= 1 => x[Len(x)] = s[n]
  BY <1>1, <1>3
<1>9. ASSUME NEW y \in Seq(Byte), x = Append(y, CR) PROVE y = w
  <2>1. Len(x) = Len(y) + 1 /\ \A i \in 1..Len(y) : x[i] = y[i]
    BY <1>9, Classes, AppendProperties
  <2>2. Len(y) \in Nat
    OBVIOUS
  <2>3. k >= 1 /\ Len(y) = k - 1
    BY <1>1, <1>3, <2>1, <2>2
  <2>4. w \in Seq(Byte) /\ Len(w) = k - 1 /\ \A i \in 1..k - 1 : w[i] = s[d + i]
    BY <1>5, <2>3
  <2>5. ASSUME NEW i \in 1..Len(y) PROVE y[i] = w[i]
    <3>1. i \in 1..k - 1 /\ i \in 1..k
      BY <1>1, <2>3
    <3> QED
      BY <1>3, <2>1, <2>4, <3>1
  <2> QED
    BY <2>3, <2>4, <2>5, SeqEqual
<1> QED
  BY <1>3, <1>6, <1>7, <1>8, <1>9, <1>k DEF x, z, w, k, c

\* A byte more: it may end a request, and then it is the one that the parser has.
LEMMA KnowsStep ==
  ASSUME NEW s \in Seq(Byte), NEW n \in Nat, n + 1 <= Len(s), NEW p, Knows(p, s, n)
  PROVE  LET q == Feed(p, s[n + 1])
         IN  IF Complete(q)
             THEN /\ Knows(Reset(q), s, n + 1)
                  /\ Requests(s, n + 1) = Append(Requests(s, n), Request(q))
             ELSE /\ Knows(q, s, n + 1)
                  /\ Requests(s, n + 1) = Requests(s, n)
<1>1. PICK d \in 0..n : OpenAt(s, n, d) /\ Parsed(p, SubSeq(s, d + 1, n))
  BY DEF Knows
<1> DEFINE c == s[n + 1]
           q == Feed(p, c)
           x == SubSeq(s, d + 1, n)
<1>2. d \in 0..n /\ (d = 0 \/ d \in EndsIn(s, n))
  BY <1>1 DEF OpenAt
<1>3. /\ x \in Seq(Byte) /\ Len(x) = n - d
      /\ Append(x, c) = SubSeq(s, d + 1, n + 1)
      /\ x # <<>> => d < n /\ x[Len(x)] = s[n]
      /\ d < n => x # <<>>
      /\ \A y \in Seq(Byte) : x = Append(y, CR) => y = SubSeq(s, d + 1, n - 1)
  BY <1>2, OpenLine
<1>4. c \in Byte
  OBVIOUS
<1>5. IF c = LF /\ Returned(x)
      THEN /\ Complete(q) /\ Sound(q)
           /\ \E y \in Seq(Byte) : x = Append(y, CR) /\ Request(q) = Meaning(y)
      ELSE ~Complete(q) /\ Parsed(q, Append(x, c))
  BY <1>1, <1>4, ByteParsed
<1>6. c = LF /\ Returned(x) <=> n >= 1 /\ IsEnd(s, n + 1)
  <2>1. n + 1 - 1 = n
    OBVIOUS
  <2>2. IsEnd(s, n + 1) <=> s[n] = CR /\ c = LF
    BY <2>1 DEF IsEnd
  <2>3. ASSUME n >= 1, s[n] = CR PROVE d < n
    <3>1. d # n
      <4>1. n \in EndsIn(s, n) => s[n] = LF
        BY DEF EndsIn, IsEnd
      <4> QED
        BY <1>2, <2>3, <4>1, Classes
    <3> QED
      BY <1>2, <3>1
  <2>4. Returned(x) => n >= 1 /\ s[n] = CR
    BY <1>2, <1>3 DEF Returned
  <2>5. n >= 1 /\ s[n] = CR => Returned(x)
    BY <1>3, <2>3 DEF Returned
  <2> HIDE DEF c, x
  <2> QED
    BY <2>2, <2>4, <2>5
<1> HIDE DEF q, c
<1>7. CASE n >= 1 /\ IsEnd(s, n + 1)
  <2>1. PICK y \in Seq(Byte) : x = Append(y, CR) /\ Request(q) = Meaning(y)
    BY <1>5, <1>6, <1>7
  <2>2. Complete(q) /\ Sound(q)
    BY <1>5, <1>6, <1>7
  <2>3. y = SubSeq(s, d + 1, n - 1)
    BY <1>3, <2>1
  <2>4. Requests(s, n + 1) = Append(Requests(s, n), Request(q))
    <3>1. Requests(s, n + 1) = Append(Requests(s, n), Meaning(SubSeq(s, d + 1, n - 1)))
      BY <1>1, <1>7, RequestsMore
    <3> QED
      BY <2>1, <2>3, <3>1
  <2>5. OpenAt(s, n + 1, n + 1)
    BY <1>1, <1>7, OpenMore
  <2>6. SubSeq(s, (n + 1) + 1, n + 1) = <<>>
    OBVIOUS
  <2>7. Parsed(Reset(q), <<>>)
    BY <2>2, ResetParsed
  <2>8. Knows(Reset(q), s, n + 1)
    <3>1. n + 1 \in 0..n + 1
      OBVIOUS
    <3> QED
      BY <2>5, <2>6, <2>7, <3>1 DEF Knows
  <2> QED
    BY <2>2, <2>4, <2>8 DEF q, c
<1>8. CASE ~(n >= 1 /\ IsEnd(s, n + 1))
  <2>1. ~Complete(q) /\ Parsed(q, Append(x, c))
    BY <1>5, <1>6, <1>8
  <2>2. OpenAt(s, n + 1, d)
    BY <1>1, <1>8, OpenMore
  <2>3. Parsed(q, SubSeq(s, d + 1, n + 1))
    BY <1>3, <2>1
  <2>4. Knows(q, s, n + 1)
    <3>1. d \in 0..n + 1
      BY <1>2
    <3> QED
      BY <2>2, <2>3, <3>1 DEF Knows
  <2>5. Requests(s, n + 1) = Requests(s, n)
    BY <1>8, RequestsSame
  <2> QED
    BY <2>1, <2>4, <2>5 DEF q, c
<1> QED
  BY <1>7, <1>8

-----------------------------------------------------------------------------
(* The loop around parser_feed.                                            *)

\* Feeding keeps a parser one.
LEMMA FeedType ==
  ASSUME NEW p \in Parser, ~Complete(p), NEW c \in Byte
  PROVE  Feed(p, c) \in Parser
<1>1. ASSUME NEW on, NEW dest \in ParserState,
             NEW action \in {"cmd", "arg", "def", "end", "err"},
             NEW cr \in {"def", "err"},
             action = "cmd" => on \subseteq Letter, action = "arg" => on \subseteq Printable
      PROVE  Fed(p, c, on, dest, action, cr) \in Parser
  <2>1. ASSUME NEW state \in ParserState PROVE At(p, state) \in Parser
    BY <2>1 DEF At, Parser
  <2>2. ASSUME NEW r \in Parser
        PROVE  /\ Act(r, "err", c) \in Parser /\ Act(r, "def", c) \in Parser
               /\ Act(r, "end", c) \in Parser
    BY <2>2 DEF Act, Parser
  <2>3. ASSUME NEW r \in Parser, c \in Letter PROVE Act(r, "cmd", c) \in Parser
    <3>1. Act(r, "cmd", c) = CmdAction(r, c)
      BY DEF Act
    <3>2. r.cmd \in Seq(Letter)
      BY <2>3 DEF Parser
    <3>3. Append(r.cmd, c) \in Seq(Letter)
      BY <2>3, <3>2, AppendProperties
    <3>4. CmdAction(r, c) \in Parser
      BY <2>3, <3>3 DEF CmdAction, Parser
    <3> QED
      BY <3>1, <3>4
  <2>4. ASSUME NEW r \in Parser, c \in Printable PROVE Act(r, "arg", c) \in Parser
    <3>1. Act(r, "arg", c) = ArgAction(r, c)
      BY DEF Act
    <3>2. r.arg \in Seq(Printable)
      BY <2>4 DEF Parser
    <3>3. Append(r.arg, c) \in Seq(Printable)
      BY <2>4, <3>2, AppendProperties
    <3>4. ArgAction(r, c) \in Parser
      BY <2>4, <3>3 DEF ArgAction, Parser
    <3> QED
      BY <3>1, <3>4
  <2>5. "MAYEND" \in ParserState /\ "ERRST" \in ParserState
    BY DEF ParserState
  <2>6. CASE c \in on
    <3>1. At(p, dest) \in Parser
      BY <2>1
    <3>2. Act(At(p, dest), action, c) \in Parser
      BY <1>1, <2>2, <2>3, <2>4, <2>6, <3>1
    <3> QED
      BY <2>6, <3>2 DEF Fed
  <2>7. CASE c \notin on /\ c = CR
    <3>1. Act(At(p, "MAYEND"), cr, c) \in Parser
      BY <1>1, <2>1, <2>2, <2>5
    <3> QED
      BY <2>7, <3>1 DEF Fed
  <2>8. CASE c \notin on /\ c # CR
    <3>1. Act(At(p, "ERRST"), "err", c) \in Parser
      BY <2>1, <2>2, <2>5
    <3> QED
      BY <2>8, <3>1 DEF Fed
  <2> QED
    BY <2>6, <2>7, <2>8
<1>2. /\ "CMD_1" \in ParserState /\ "CMD_2" \in ParserState /\ "CMD_3" \in ParserState
      /\ "CMD_4" \in ParserState /\ "ARGST" \in ParserState /\ "ENDST" \in ParserState
      /\ "ERRST" \in ParserState
  BY DEF ParserState
<1>3. /\ Fed(p, c, Letter, "CMD_1", "cmd", "err") \in Parser
      /\ Fed(p, c, Letter, "CMD_2", "cmd", "err") \in Parser
      /\ Fed(p, c, Letter, "CMD_3", "cmd", "err") \in Parser
      /\ Fed(p, c, Letter, "CMD_4", "cmd", "err") \in Parser
  BY <1>1, <1>2
<1>4. /\ Fed(p, c, {SP}, "ARGST", "def", "def") \in Parser
      /\ Fed(p, c, Printable, "ARGST", "arg", "def") \in Parser
      /\ Fed(p, c, {LF}, "ENDST", "end", "err") \in Parser
      /\ Fed(p, c, {}, "ERRST", "err", "err") \in Parser
  BY <1>1, <1>2
<1>5. p.state \in {"INIT", "CMD_1", "CMD_2", "CMD_3", "CMD_4", "ARGST", "MAYEND", "ERRST"}
  BY DEF Complete, Parser, ParserState
<1> QED
  BY <1>3, <1>4, <1>5, FeedIs

\* The function that the loop is.
IsRun(f, bytes) ==
  f = [x \in Parser \X (0..Len(bytes)) |->
         LET q == x[1]
             n == x[2]
         IN  IF Complete(q) \/ n = Len(bytes) THEN [parser |-> q, used |-> n]
             ELSE f[<<Feed(q, bytes[n + 1]), n + 1>>]]

\* Its values, from the last byte down.
LEMMA RunExists ==
  ASSUME NEW bytes \in Seq(Byte)
  PROVE  \E f : IsRun(f, bytes)
<1> DEFINE N == Len(bytes)
           R == [parser : Parser, used : Nat]
           S == [Parser -> R]
           Next1(g, k, q) == IF Complete(q) THEN [parser |-> q, used |-> N - k]
                             ELSE g[Feed(q, bytes[(N - k) + 1])]
           Down(g, k) == [q \in Parser |-> Next1(g, k, q)]
           a == [q \in Parser |-> [parser |-> q, used |-> N]]
           F == [x \in S \X Nat |-> IF x[2] \in 1..N THEN Down(x[1], x[2]) ELSE a]
<1>1. N \in Nat
  OBVIOUS
<1>2. a \in S
  BY <1>1
<1>3. ASSUME NEW g \in S, NEW k \in 1..N, NEW q \in Parser PROVE Next1(g, k, q) \in R
  <2>1. N - k \in Nat /\ (N - k) + 1 \in 1..N
    BY <1>1
  <2>2. bytes[(N - k) + 1] \in Byte
    BY <2>1
  <2>3. CASE Complete(q)
    BY <2>1, <2>3
  <2>4. CASE ~Complete(q)
    <3>1. Feed(q, bytes[(N - k) + 1]) \in Parser
      BY <2>2, <2>4, FeedType
    <3> HIDE DEF R, N
    <3> QED
      BY <2>4, <3>1
  <2> QED
    BY <2>3, <2>4
<1> HIDE DEF N, R, Next1
<1>4. ASSUME NEW g \in S, NEW k \in 1..N PROVE Down(g, k) \in S
  BY <1>3
<1>5. F \in [S \X Nat -> S]
  <2> HIDE DEF S, a, Down
  <2> QED
    BY <1>2, <1>4
<1>6. PICK T : Iterates(T, S, a, F, N)
  <2> HIDE DEF S, a, F
  <2> QED
    BY <1>1, <1>2, <1>5, Recursion
<1>7. /\ T \in [0..N -> S] /\ T[0] = a
      /\ \A k \in 1..N : T[k] = Down(T[k - 1], k)
  <2> HIDE DEF S, a, Down
  <2>1. T \in [0..N -> S] /\ T[0] = a /\ \A k \in 1..N : T[k] = F[<<T[k - 1], k>>]
    <3> HIDE DEF F
    <3> QED
      BY <1>6 DEF Iterates
  <2>2. ASSUME NEW k \in 1..N PROVE T[k] = Down(T[k - 1], k)
    <3>1. k - 1 \in 0..N /\ k \in Nat
      BY <1>1
    <3>2. T[k - 1] \in S
      BY <2>1, <3>1
    <3>3. F[<<T[k - 1], k>>] = Down(T[k - 1], k)
      BY <3>1, <3>2
    <3> QED
      BY <2>1, <3>3
  <2> QED
    BY <2>1, <2>2
<1> DEFINE f == [x \in Parser \X (0..N) |-> T[N - x[2]][x[1]]]
<1>8. ASSUME NEW q \in Parser, NEW n \in 0..N
      PROVE  f[<<q, n>>] = IF Complete(q) \/ n = N THEN [parser |-> q, used |-> n]
                           ELSE f[<<Feed(q, bytes[n + 1]), n + 1>>]
  <2>0. \A r \in Parser, m \in 0..N : f[<<r, m>>] = T[N - m][r]
    OBVIOUS
  <2> HIDE DEF f
  <2>1. CASE n = N
    <3>1. f[<<q, n>>] = T[0][q]
      BY <1>1, <2>0, <2>1
    <3>2. T[0][q] = [parser |-> q, used |-> N]
      BY <1>7
    <3> QED
      BY <2>1, <3>1, <3>2
  <2>2. CASE n # N
    <3> DEFINE k == N - n
    <3>1. k \in 1..N /\ N - k = n /\ N - (n + 1) = k - 1 /\ n + 1 \in 0..N /\ n + 1 \in 1..N
      BY <1>1, <2>2
    <3>2. f[<<q, n>>] = T[k][q]
      BY <2>0
    <3> HIDE DEF k
    <3>3. T[k][q] = Next1(T[k - 1], k, q)
      <4>1. T[k] = Down(T[k - 1], k)
        BY <1>7, <3>1
      <4>2. Down(T[k - 1], k)[q] = Next1(T[k - 1], k, q)
        OBVIOUS
      <4> HIDE DEF Down
      <4> QED
        BY <4>1, <4>2
    <3>4. CASE Complete(q)
      BY <2>2, <3>1, <3>2, <3>3, <3>4 DEF Next1
    <3>5. CASE ~Complete(q)
      <4> DEFINE r == Feed(q, bytes[n + 1])
      <4>1. r \in Parser
        <5>1. bytes[n + 1] \in Byte
          BY <3>1 DEF N
        <5> QED
          BY <3>5, <5>1, FeedType
      <4>2. T[k][q] = T[k - 1][r]
        BY <3>1, <3>3, <3>5 DEF Next1
      <4> HIDE DEF r
      <4>3. f[<<r, n + 1>>] = T[k - 1][r]
        BY <2>0, <3>1, <4>1
      <4> QED
        BY <2>2, <3>2, <3>5, <4>2, <4>3 DEF r
    <3> QED
      BY <3>4, <3>5
  <2> QED
    BY <2>1, <2>2
<1>9. IsRun(f, bytes)
  <2> DEFINE g == [x \in Parser \X (0..N) |->
                     IF Complete(x[1]) \/ x[2] = N THEN [parser |-> x[1], used |-> x[2]]
                     ELSE f[<<Feed(x[1], bytes[x[2] + 1]), x[2] + 1>>]]
  <2>1. ASSUME NEW x \in Parser \X (0..N) PROVE f[x] = g[x]
    <3>1. PICK q \in Parser, n \in 0..N : x = <<q, n>>
      OBVIOUS
    <3>2. x[1] = q /\ x[2] = n
      BY <3>1
    <3>3. g[x] = IF Complete(q) \/ n = N THEN [parser |-> q, used |-> n]
                 ELSE f[<<Feed(q, bytes[n + 1]), n + 1>>]
      <4> HIDE DEF f
      <4> QED
        BY <3>2
    <3> HIDE DEF f, g
    <3> QED
      BY <1>8, <3>1, <3>3
  <2>2. f = g
    <3>1. f = [x \in Parser \X (0..N) |-> f[x]]
      OBVIOUS
    <3>2. g = [x \in Parser \X (0..N) |-> g[x]]
      <4> HIDE DEF f
      <4> QED
        OBVIOUS
    <3> HIDE DEF f, g
    <3> QED
      BY <2>1, <3>1, <3>2
  <2> HIDE DEF f
  <2> QED
    BY <2>2 DEF IsRun, N
<1> QED
  BY <1>9

\* T has the parsers that the loop goes through, and it ends after n bytes.
Feeds(T, n, p, bytes) ==
  /\ n \in 0..Len(bytes)
  /\ T \in [0..n -> Parser]
  /\ T[0] = p
  /\ \A i \in 1..n : ~Complete(T[i - 1]) /\ T[i] = Feed(T[i - 1], bytes[i])
  /\ Complete(T[n]) \/ n = Len(bytes)

\* The loop goes through parsers.
LEMMA FeedAllFeeds ==
  ASSUME NEW p \in Parser, NEW bytes \in Seq(Byte)
  PROVE  \E T, n : Feeds(T, n, p, bytes) /\ FeedAll(p, bytes) = [parser |-> T[n], used |-> n]
<1> DEFINE N == Len(bytes)
           f == CHOOSE g : IsRun(g, bytes)
           F == [x \in Parser \X Nat |->
                   IF x[2] \in 1..N /\ ~Complete(x[1]) THEN Feed(x[1], bytes[x[2]]) ELSE x[1]]
<1>1. N \in Nat /\ \A i \in 1..N : bytes[i] \in Byte
  OBVIOUS
<1>2. IsRun(f, bytes)
  <2>1. \E g : IsRun(g, bytes)
    BY RunExists
  <2> QED
    BY <2>1, Zenon
<1>3. FeedAll(p, bytes) = f[<<p, 0>>]
  BY DEF FeedAll, IsRun
<1> HIDE DEF f, N
<1>4. ASSUME NEW q \in Parser, NEW n \in 0..N
      PROVE  f[<<q, n>>] = IF Complete(q) \/ n = N THEN [parser |-> q, used |-> n]
                           ELSE f[<<Feed(q, bytes[n + 1]), n + 1>>]
  <2>1. <<q, n>> \in Parser \X (0..N) /\ <<q, n>>[1] = q /\ <<q, n>>[2] = n
    OBVIOUS
  <2> DEFINE w == <<q, n>>
  <2> HIDE DEF w
  <2>2. w \in Parser \X (0..N) /\ w[1] = q /\ w[2] = n
    BY <2>1 DEF w
  <2>3. f = [x \in Parser \X (0..N) |->
               IF Complete(x[1]) \/ x[2] = N THEN [parser |-> x[1], used |-> x[2]]
               ELSE f[<<Feed(x[1], bytes[x[2] + 1]), x[2] + 1>>]]
    BY <1>2 DEF IsRun, N
  <2>4. f[w] = IF Complete(q) \/ n = N THEN [parser |-> q, used |-> n]
               ELSE f[<<Feed(q, bytes[n + 1]), n + 1>>]
    BY <2>2, <2>3
  <2> QED
    BY <2>4 DEF w
<1>5. F \in [Parser \X Nat -> Parser]
  BY <1>1, FeedType
<1>6. PICK T : Iterates(T, Parser, p, F, N)
  <2> HIDE DEF F
  <2> QED
    BY <1>1, <1>5, Recursion
<1>7. /\ T \in [0..N -> Parser] /\ T[0] = p
      /\ \A i \in 1..N : ~Complete(T[i - 1]) => T[i] = Feed(T[i - 1], bytes[i])
  <2>1. T \in [0..N -> Parser] /\ T[0] = p /\ \A i \in 1..N : T[i] = F[<<T[i - 1], i>>]
    <3> HIDE DEF F
    <3> QED
      BY <1>6 DEF Iterates
  <2>2. ASSUME NEW i \in 1..N, ~Complete(T[i - 1]) PROVE T[i] = Feed(T[i - 1], bytes[i])
    <3>1. T[i - 1] \in Parser /\ i \in Nat
      BY <1>1, <2>1
    <3>2. F[<<T[i - 1], i>>] = Feed(T[i - 1], bytes[i])
      BY <2>2, <3>1
    <3> QED
      BY <2>1, <3>2
  <2> QED
    BY <2>1, <2>2
<1> HIDE DEF F
<1> DEFINE D == {i \in 0..N : Complete(T[i]) \/ i = N}
<1>8. PICK n \in D : \A i \in D : n <= i
  <2>1. D \subseteq Nat /\ D # {}
    BY <1>1
  <2> HIDE DEF D
  <2> QED
    BY <2>1, Least
<1>9. n \in 0..N /\ (Complete(T[n]) \/ n = N)
  OBVIOUS
<1>10. \A i \in 0..N : i < n => ~Complete(T[i])
  BY <1>1, <1>8, <1>9
<1> HIDE DEF D
<1> DEFINE G == {i \in Nat : i <= n => f[<<T[i], i>>] = f[<<p, 0>>]}
<1>11. 0 \in G
  BY <1>7
<1>12. ASSUME NEW i \in Nat, i \in G PROVE i + 1 \in G
  <2> SUFFICES ASSUME i + 1 <= n PROVE f[<<T[i + 1], i + 1>>] = f[<<p, 0>>]
    OBVIOUS
  <2>1. i \in 0..N /\ i < n /\ i # N /\ i + 1 \in 1..N /\ (i + 1) - 1 = i
    BY <1>1, <1>9
  <2>2. T[i] \in Parser /\ ~Complete(T[i])
    BY <1>7, <1>10, <2>1
  <2>3. T[i + 1] = Feed(T[i], bytes[i + 1])
    BY <1>7, <2>1, <2>2
  <2>4. f[<<T[i], i>>] = f[<<Feed(T[i], bytes[i + 1]), i + 1>>]
    BY <1>4, <2>1, <2>2
  <2>5. f[<<T[i], i>>] = f[<<p, 0>>]
    <3>1. i <= n
      BY <1>1, <1>9, <2>1
    <3> HIDE DEF f
    <3> QED
      BY <1>12, <3>1
  <2> QED
    BY <2>3, <2>4, <2>5
<1>13. n \in G
  <2>1. n \in Nat
    BY <1>1, <1>9
  <2> HIDE DEF G
  <2> QED
    BY <1>11, <1>12, <2>1, Induction
<1>14. f[<<p, 0>>] = [parser |-> T[n], used |-> n]
  <2>1. f[<<T[n], n>>] = f[<<p, 0>>]
    BY <1>1, <1>9, <1>13
  <2>2. T[n] \in Parser
    BY <1>7, <1>9
  <2>3. f[<<T[n], n>>] = [parser |-> T[n], used |-> n]
    BY <1>4, <1>9, <2>2
  <2> QED
    BY <2>1, <2>3
<1> DEFINE U == [i \in 0..n |-> T[i]]
<1>15. Feeds(U, n, p, bytes)
  <2>0. n \in Nat /\ N \in Nat /\ n <= N
    BY <1>1, <1>9
  <2>1. U \in [0..n -> Parser]
    <3>1. \A i \in 0..n : i \in 0..N
      BY <2>0
    <3> QED
      BY <1>7, <3>1
  <2>2. U[0] = p /\ U[n] = T[n]
    BY <1>7, <2>0
  <2>3. ASSUME NEW i \in 1..n PROVE ~Complete(U[i - 1]) /\ U[i] = Feed(U[i - 1], bytes[i])
    <3>1. i - 1 \in 0..n /\ i \in 0..n /\ i - 1 \in 0..N /\ i \in 1..N /\ i - 1 < n
      BY <2>0
    <3>2. U[i] = T[i] /\ U[i - 1] = T[i - 1]
      BY <3>1
    <3> QED
      BY <1>7, <1>10, <3>1, <3>2
  <2> HIDE DEF U
  <2> QED
    BY <1>9, <2>1, <2>2, <2>3 DEF Feeds, N
<1>16. FeedAll(p, bytes) = [parser |-> U[n], used |-> n]
  BY <1>1, <1>3, <1>9, <1>14
<1> QED
  BY <1>15, <1>16

-----------------------------------------------------------------------------
(* Bytes in a buffer, as in TransferProofs.                                *)

\* Both parts of a sequence that is cut after n bytes.
LEMMA Cut ==
  ASSUME NEW x \in Seq(Byte), NEW n \in 0..Len(x)
  PROVE  /\ SubSeq(x, 1, n) \in Seq(Byte) /\ Len(SubSeq(x, 1, n)) = n
         /\ SubSeq(x, n + 1, Len(x)) \in Seq(Byte)
         /\ Len(SubSeq(x, n + 1, Len(x))) = Len(x) - n
         /\ \A k \in 1..n : SubSeq(x, 1, n)[k] = x[k]
         /\ \A k \in 1..Len(x) - n : SubSeq(x, n + 1, Len(x))[k] = x[n + k]
<1> DEFINE z == Len(x)
           a == n + 1
<1>1. z \in Nat /\ n \in Nat /\ n <= z /\ 1 \in Int /\ n \in Int /\ a \in Int /\ z \in Int
  OBVIOUS
<1>2. (\A i \in 1..n : x[i] \in Byte) /\ (\A i \in a..z : x[i] \in Byte)
  OBVIOUS
<1> HIDE DEF z, a
<1>3. /\ SubSeq(x, 1, n) \in Seq(Byte)
      /\ Len(SubSeq(x, 1, n)) = IF 1 <= n THEN n - 1 + 1 ELSE 0
      /\ \A i \in 1..n - 1 + 1 : SubSeq(x, 1, n)[i] = x[1 + i - 1]
  BY <1>1, <1>2, SubSeqProperties
<1>4. /\ SubSeq(x, a, z) \in Seq(Byte)
      /\ Len(SubSeq(x, a, z)) = IF a <= z THEN z - a + 1 ELSE 0
      /\ \A i \in 1..z - a + 1 : SubSeq(x, a, z)[i] = x[a + i - 1]
  BY <1>1, <1>2, SubSeqProperties
<1>5. Len(SubSeq(x, 1, n)) = n
  BY <1>1, <1>3
<1>6. Len(SubSeq(x, a, z)) = z - n
  BY <1>1, <1>4 DEF a
<1>7. ASSUME NEW k \in 1..n PROVE SubSeq(x, 1, n)[k] = x[k]
  <2>1. k \in 1..n - 1 + 1 /\ 1 + k - 1 = k
    BY <1>1
  <2>2. SubSeq(x, 1, n)[k] = x[1 + k - 1]
    BY <1>3, <2>1
  <2> QED
    BY <2>1, <2>2
<1>8. ASSUME NEW k \in 1..z - n PROVE SubSeq(x, a, z)[k] = x[n + k]
  <2>1. k \in 1..z - a + 1 /\ a + k - 1 = n + k
    BY <1>1 DEF a
  <2>2. SubSeq(x, a, z)[k] = x[a + k - 1]
    BY <1>4, <2>1
  <2> QED
    BY <2>1, <2>2
<1> QED
  BY <1>3, <1>4, <1>5, <1>6, <1>7, <1>8 DEF a, z

\* A buffer and its bytes.  An empty buffer starts over.
Holds(b, x, limit) ==
  /\ b \in Buffers(limit)
  /\ x \in Seq(Byte)
  /\ Len(x) = ReadSpace(b)
  /\ CanRead(b) \/ b = Fresh

\* What is known of a buffer and its bytes.
LEMMA HoldsFacts ==
  ASSUME NEW limit \in Nat, NEW b, NEW x, Holds(b, x, limit)
  PROVE  /\ b.r \in Nat /\ b.w \in Nat /\ b.r <= b.w /\ b.w <= limit
         /\ b = [r |-> b.r, w |-> b.w]
         /\ x \in Seq(Byte) /\ Len(x) \in Nat /\ Len(x) = b.w - b.r
         /\ WriteSpace(b, limit) \in Nat /\ WriteSpace(b, limit) = limit - b.w
         /\ CanRead(b) <=> x # <<>>
         /\ Len(x) = 0 => b.r = 0 /\ b.w = 0
         /\ x = <<>> => WriteSpace(b, limit) = limit
<1>1. b.r \in Nat /\ b.w \in Nat /\ b.r <= b.w /\ b.w <= limit
  BY DEF Holds, Buffers
<1>2. b = [r |-> b.r, w |-> b.w]
  BY DEF Holds, Buffers
<1>3. x \in Seq(Byte) /\ Len(x) \in Nat /\ Len(x) = b.w - b.r
  BY DEF Holds, ReadSpace
<1>4. WriteSpace(b, limit) \in Nat /\ WriteSpace(b, limit) = limit - b.w
  BY <1>1 DEF WriteSpace
<1>5. CanRead(b) <=> Len(x) # 0
  BY <1>1, <1>3 DEF CanRead, ReadSpace
<1>6. Len(x) = 0 <=> x = <<>>
  BY <1>3, EmptySeq
<1>7. Len(x) = 0 => b.r = 0 /\ b.w = 0
  BY <1>5 DEF Holds, Fresh
<1> QED
  BY <1>1, <1>2, <1>3, <1>4, <1>5, <1>6, <1>7

\* When positions and bytes make a buffer.
LEMMA HoldsWhen ==
  ASSUME NEW limit \in Nat, NEW r \in Nat, NEW w \in Nat, r <= w, w <= limit,
         NEW x \in Seq(Byte), Len(x) = w - r, Len(x) = 0 => w = 0
  PROVE  Holds([r |-> r, w |-> w], x, limit)
<1> DEFINE b == [r |-> r, w |-> w]
<1>1. b \in Buffers(limit) /\ ReadSpace(b) = w - r
  BY DEF Buffers, ReadSpace
<1>2. CanRead(b) \/ b = Fresh
  BY DEF CanRead, ReadSpace, Fresh
<1> HIDE DEF b
<1>3. Holds(b, x, limit)
  BY <1>1, <1>2 DEF Holds
<1> QED
  BY <1>3 DEF b

\* buffer_write_adv
LEMMA Advanced ==
  ASSUME NEW limit \in Nat, NEW b, NEW x, Holds(b, x, limit),
         NEW y \in Seq(Byte), Len(y) <= WriteSpace(b, limit)
  PROVE  /\ Holds(WriteAdv(b, Len(y)), x \o y, limit)
         /\ WriteSpace(WriteAdv(b, Len(y)), limit) = WriteSpace(b, limit) - Len(y)
<1>1. /\ b.r \in Nat /\ b.w \in Nat /\ b.r <= b.w /\ b.w <= limit
      /\ b = [r |-> b.r, w |-> b.w]
      /\ x \in Seq(Byte) /\ Len(x) \in Nat /\ Len(x) = b.w - b.r
      /\ WriteSpace(b, limit) = limit - b.w
      /\ Len(x) = 0 => b.r = 0 /\ b.w = 0
  BY HoldsFacts
<1>2. Len(y) \in Nat
  OBVIOUS
<1> DEFINE n == Len(y)
           r == b.r
           w == b.w
           u == w + n
<1>3. WriteAdv(b, n) = [r |-> r, w |-> u]
  <2> HIDE DEF n
  <2>1. [b EXCEPT !.w = @ + n] = [r |-> b.r, w |-> b.w + n]
    BY <1>1
  <2> QED
    BY <2>1 DEF WriteAdv
<1>4. x \o y \in Seq(Byte) /\ Len(x \o y) = Len(x) + Len(y)
  BY <1>1, ConcatProperties
<1> HIDE DEF r, w, n
<1>5. /\ r \in Nat /\ u \in Nat /\ r <= u /\ u <= limit
      /\ Len(x \o y) = u - r /\ (Len(x \o y) = 0 => u = 0)
  BY <1>1, <1>2, <1>4 DEF r, w, n
<1>6. Holds([r |-> r, w |-> u], x \o y, limit)
  <2> HIDE DEF u
  <2> QED
    BY <1>4, <1>5, HoldsWhen
<1>7. WriteSpace([r |-> r, w |-> u], limit) = limit - u
  BY DEF WriteSpace
<1>8. limit - u = WriteSpace(b, limit) - n
  BY <1>1, <1>2 DEF w, n
<1> QED
  BY <1>3, <1>6, <1>7, <1>8 DEF n

\* buffer_read_adv
LEMMA Consumed ==
  ASSUME NEW limit \in Nat, NEW b, NEW x, Holds(b, x, limit), NEW n \in 0..Len(x)
  PROVE  Holds(ReadAdv(b, n), SubSeq(x, n + 1, Len(x)), limit)
<1>1. /\ b.r \in Nat /\ b.w \in Nat /\ b.r <= b.w /\ b.w <= limit
      /\ b = [r |-> b.r, w |-> b.w]
      /\ x \in Seq(Byte) /\ Len(x) \in Nat /\ Len(x) = b.w - b.r
  BY HoldsFacts
<1> DEFINE y == SubSeq(x, n + 1, Len(x))
           r == b.r
           w == b.w
           q == r + n
           c == [b EXCEPT !.r = @ + n]
<1>2. y \in Seq(Byte) /\ Len(y) = Len(x) - n
  BY <1>1, Cut
<1>3. c = [r |-> q, w |-> w]
  BY <1>1
<1>4. ReadAdv(b, n) = IF CanRead(c) THEN c ELSE Compact(c)
  BY DEF ReadAdv
<1> HIDE DEF c, y, r, w
<1>5. /\ r \in Nat /\ w \in Nat /\ q \in Nat /\ q <= w /\ w <= limit
      /\ Len(y) = w - q /\ n \in Nat
  BY <1>1, <1>2 DEF r, w
<1> HIDE DEF q
<1>6. CanRead(c) <=> w - q > 0
  BY <1>3 DEF CanRead, ReadSpace
<1>7. CASE w - q > 0
  <2>1. Holds([r |-> q, w |-> w], y, limit)
    BY <1>2, <1>5, <1>7, HoldsWhen
  <2> QED
    BY <1>3, <1>4, <1>6, <1>7, <2>1 DEF y
<1>8. CASE w = q
  <2>1. Compact(c) = [r |-> 0, w |-> 0]
    BY <1>3, <1>5, <1>8 DEF Compact, ReadSpace
  <2>2. Holds([r |-> 0, w |-> 0], y, limit)
    <3> DEFINE o == 0
    <3>1. o \in Nat /\ o <= o /\ o <= limit /\ Len(y) = o - o /\ (Len(y) = 0 => o = 0)
      BY <1>5, <1>8
    <3> HIDE DEF o
    <3>2. Holds([r |-> o, w |-> o], y, limit)
      BY <1>2, <3>1, HoldsWhen
    <3> QED
      BY <3>2 DEF o
  <2> QED
    BY <1>4, <1>5, <1>6, <1>8, <2>1, <2>2 DEF y
<1> QED
  BY <1>5, <1>7, <1>8

-----------------------------------------------------------------------------
(* The invariant.                                                          *)

\* The stream s, of which n bytes arrived: the bytes x are the last of them, and
\* the parser p and the requests t are what the bytes before them make.
Cuts(s, n, x, p, t) ==
  /\ x \in Seq(Byte)
  /\ n \in 0..Len(s) /\ Len(x) <= n
  /\ \A i \in 1..Len(x) : x[i] = s[(n - Len(x)) + i]
  /\ Knows(p, s, n - Len(x))
  /\ t = Requests(s, n - Len(x))

RequestInv ==
  /\ stream \in Streams
  /\ Holds(info_read_buff, pending, ReadLimit)
  /\ Cuts(stream, received, pending, pop3_parser, taken)
  /\ st \in {"READING_REQUEST", "WRITING_RESPONSE", "FINISHED"}
  /\ st # "WRITING_RESPONSE" => pending = <<>>
  /\ st = "FINISHED" => received = Len(stream)

\* The parser of a line that is open is not at the end of a request.
LEMMA KnowsOpen ==
  ASSUME NEW s, NEW n, NEW p, Knows(p, s, n)
  PROVE  Sound(p) /\ p \in Parser /\ ~Complete(p)
<1>1. PICK d \in 0..n : Parsed(p, SubSeq(s, d + 1, n))
  BY DEF Knows
<1> DEFINE x == SubSeq(s, d + 1, n)
<1> HIDE DEF x
<1>2. Parsed(p, x)
  BY <1>1 DEF x
<1>3. Sound(p) /\ p \in Parser
  BY <1>2 DEF Parsed, Sound
<1>4. CASE Returned(x)
  <2>1. p.state = "MAYEND"
    BY <1>2, <1>4 DEF Parsed, AtReturn
  <2> QED
    BY <1>3, <2>1 DEF Complete
<1>5. CASE ~Returned(x)
  <2>1. p.state \in {"ERRST", "ARGST"} \/ p.state = StateAt(Len(x))
    BY <1>2, <1>5 DEF Parsed, MidLine
  <2>2. StateAt(Len(x)) # "ENDST"
    BY DEF StateAt
  <2> QED
    BY <1>3, <2>1, <2>2 DEF Complete
<1> QED
  BY <1>4, <1>5

\* The loop takes up to the end of a request, and leaves the rest.
LEMMA LoopTakes ==
  ASSUME NEW s \in Seq(Byte), NEW n \in Nat, NEW p, Knows(p, s, n),
         NEW x \in Seq(Byte), n + Len(x) <= Len(s), \A i \in 1..Len(x) : x[i] = s[n + i]
  PROVE  LET q == FeedAll(p, x).parser
             u == FeedAll(p, x).used
         IN  /\ u \in 0..Len(x)
             /\ IF Complete(q)
                THEN /\ Knows(Reset(q), s, n + u)
                     /\ Requests(s, n + u) = Append(Requests(s, n), Request(q))
                ELSE /\ u = Len(x)
                     /\ Knows(q, s, n + u) /\ Requests(s, n + u) = Requests(s, n)
<1>1. p \in Parser /\ ~Complete(p)
  BY KnowsOpen
<1>2. PICK T, u : Feeds(T, u, p, x) /\ FeedAll(p, x) = [parser |-> T[u], used |-> u]
  BY <1>1, FeedAllFeeds
<1>3. FeedAll(p, x).parser = T[u] /\ FeedAll(p, x).used = u
  BY <1>2
<1>4. /\ u \in 0..Len(x) /\ T[0] = p
      /\ \A i \in 1..u : ~Complete(T[i - 1]) /\ T[i] = Feed(T[i - 1], x[i])
      /\ Complete(T[u]) \/ u = Len(x)
  BY <1>2 DEF Feeds
<1>5. u \in Nat /\ u <= Len(x) /\ Len(x) \in Nat /\ Len(s) \in Nat
  BY <1>4
<1> DEFINE Open(i) == Knows(T[i], s, n + i) /\ Requests(s, n + i) = Requests(s, n)
           G == {i \in Nat : i <= u /\ ~Complete(T[i]) => Open(i)}
<1>6. 0 \in G
  <2>1. n + 0 = n
    OBVIOUS
  <2> QED
    BY <1>4, <2>1
<1> HIDE DEF Open
<1>7. ASSUME NEW i \in Nat, i + 1 <= u, Open(i)
      PROVE  LET q == T[i + 1]
             IN  IF Complete(q)
                 THEN /\ Knows(Reset(q), s, n + (i + 1))
                      /\ Requests(s, n + (i + 1)) = Append(Requests(s, n), Request(q))
                 ELSE Open(i + 1)
  <2>1. i + 1 \in 1..u /\ (i + 1) - 1 = i /\ i + 1 \in 1..Len(x)
    BY <1>5, <1>7
  <2>2. T[i + 1] = Feed(T[i], x[i + 1])
    BY <1>4, <2>1
  <2> DEFINE k == n + i
  <2>3. k \in Nat /\ k + 1 <= Len(s) /\ n + (i + 1) = k + 1
    BY <1>5, <2>1
  <2>4. x[i + 1] = s[k + 1]
    BY <2>1, <2>3
  <2>5. Knows(T[i], s, k) /\ Requests(s, k) = Requests(s, n)
    BY <1>7 DEF Open
  <2> HIDE DEF k
  <2> DEFINE q == Feed(T[i], s[k + 1])
  <2>6. IF Complete(q)
        THEN /\ Knows(Reset(q), s, k + 1)
             /\ Requests(s, k + 1) = Append(Requests(s, k), Request(q))
        ELSE Knows(q, s, k + 1) /\ Requests(s, k + 1) = Requests(s, k)
    BY <2>3, <2>5, KnowsStep
  <2>7. T[i + 1] = q
    BY <2>2, <2>4
  <2> HIDE DEF q
  <2> QED
    BY <2>3, <2>5, <2>6, <2>7 DEF Open
<1>8. ASSUME NEW i \in Nat, i \in G PROVE i + 1 \in G
  <2> SUFFICES ASSUME i + 1 <= u, ~Complete(T[i + 1]) PROVE Open(i + 1)
    OBVIOUS
  <2>1. i + 1 \in 1..u /\ (i + 1) - 1 = i /\ i <= u
    BY <1>5
  <2>2. ~Complete(T[i])
    BY <1>4, <2>1
  <2>3. Open(i)
    BY <1>8, <2>1, <2>2
  <2> QED
    BY <1>7, <2>3
<1>9. \A i \in Nat : i \in G
  <2> HIDE DEF G
  <2> QED
    BY <1>6, <1>8, Induction
<1>10. CASE Complete(T[u])
  <2>1. u # 0
    BY <1>1, <1>4, <1>10
  <2> DEFINE i == u - 1
  <2>2. i \in Nat /\ i + 1 <= u /\ i + 1 = u /\ i <= u /\ u \in 1..u /\ u - 1 = i
    BY <1>5, <2>1
  <2>3. ~Complete(T[i])
    BY <1>4, <2>2
  <2> HIDE DEF i
  <2>4. Open(i)
    BY <1>9, <2>2, <2>3
  <2>5. /\ Knows(Reset(T[u]), s, n + u)
        /\ Requests(s, n + u) = Append(Requests(s, n), Request(T[u]))
    BY <1>7, <1>10, <2>2, <2>4
  <2> QED
    BY <1>3, <1>4, <1>10, <2>5
<1>11. CASE ~Complete(T[u])
  <2>1. Open(u)
    BY <1>5, <1>9, <1>11
  <2> QED
    BY <1>3, <1>4, <1>11, <2>1 DEF Open
<1> QED
  BY <1>10, <1>11

\* Streams are sequences of bytes.
LEMMA StreamType ==
  ASSUME stream \in Streams
  PROVE  stream \in Seq(Byte) /\ Len(stream) \in Nat /\ ReadLimit \in Nat
  BY StreamsAssumption

\* Both handlers: the loop over the bytes of the buffer, and what is done then.
LEMMA TakeStep ==
  ASSUME stream \in Streams, NEW n, NEW b, NEW x, Holds(b, x, ReadLimit),
         Cuts(stream, n, x, pop3_parser, taken), TakeRequest(b, x)
  PROVE  /\ Holds(info_read_buff', pending', ReadLimit)
         /\ Cuts(stream, n, pending', pop3_parser', taken')
         /\ st' \in {"READING_REQUEST", "WRITING_RESPONSE"}
         /\ st' # "WRITING_RESPONSE" => pending' = <<>>
<1> DEFINE s == stream
           k == n - Len(x)
           run == FeedAll(pop3_parser, x)
           q == run.parser
           u == run.used
           y == SubSeq(x, u + 1, Len(x))
<1>1. s \in Seq(Byte) /\ Len(s) \in Nat /\ ReadLimit \in Nat
  BY StreamType
<1>2. /\ x \in Seq(Byte) /\ n \in 0..Len(s) /\ Len(x) <= n
      /\ \A i \in 1..Len(x) : x[i] = s[k + i]
      /\ Knows(pop3_parser, s, k) /\ taken = Requests(s, k)
  BY DEF Cuts
<1>3. Len(x) \in Nat /\ k \in Nat /\ k + Len(x) = n /\ k + Len(x) <= Len(s) /\ n \in Nat
  BY <1>1, <1>2
<1>4. /\ info_read_buff' = ReadAdv(b, u)
      /\ pending' = y
      /\ IF Complete(q)
         THEN /\ pop3_parser' = Reset(q)
              /\ taken' = Append(taken, Request(q))
              /\ st' = "WRITING_RESPONSE"
         ELSE pop3_parser' = q /\ taken' = taken /\ st' = "READING_REQUEST"
  BY DEF TakeRequest
<1> HIDE DEF s, k
<1>5. /\ u \in 0..Len(x)
      /\ IF Complete(q)
         THEN /\ Knows(Reset(q), s, k + u)
              /\ Requests(s, k + u) = Append(Requests(s, k), Request(q))
         ELSE /\ u = Len(x)
              /\ Knows(q, s, k + u) /\ Requests(s, k + u) = Requests(s, k)
  BY <1>1, <1>2, <1>3, LoopTakes
<1> HIDE DEF run, q, u
<1>6. /\ y \in Seq(Byte) /\ Len(y) = Len(x) - u
      /\ \A i \in 1..Len(x) - u : y[i] = x[u + i]
  BY <1>2, <1>5, Cut
<1>7. Holds(ReadAdv(b, u), y, ReadLimit)
  BY <1>1, <1>5, Consumed
<1> HIDE DEF y
<1>8. /\ Len(y) \in Nat /\ Len(y) <= n /\ n - Len(y) = k + u /\ u \in Nat
  <2>1. u \in Nat /\ u <= Len(x)
    BY <1>3, <1>5
  <2>2. Len(y) = Len(x) - u
    BY <1>6
  <2> QED
    BY <1>3, <2>1, <2>2
<1>9. \A i \in 1..Len(y) : y[i] = s[(n - Len(y)) + i]
  <2> SUFFICES ASSUME NEW i \in 1..Len(y) PROVE y[i] = s[(n - Len(y)) + i]
    OBVIOUS
  <2>1. i \in 1..Len(x) - u /\ u + i \in 1..Len(x) /\ k + (u + i) = (n - Len(y)) + i
    <3>1. Len(y) = Len(x) - u /\ i \in Nat /\ i >= 1 /\ i <= Len(x) - u
      BY <1>6, <1>8
    <3>2. i \in 1..Len(x) - u /\ u + i \in 1..Len(x)
      BY <1>3, <1>8, <3>1
    <3>3. k + (u + i) = (k + u) + i
      BY <1>3, <1>8, <3>1
    <3> QED
      BY <1>8, <3>2, <3>3
  <2>2. y[i] = x[u + i] /\ x[u + i] = s[k + (u + i)]
    BY <1>2, <1>6, <2>1
  <2> QED
    BY <2>1, <2>2
<1>10. Knows(pop3_parser', s, k + u) /\ taken' = Requests(s, k + u)
  BY <1>2, <1>4, <1>5
<1>11. Cuts(s, n, y, pop3_parser', taken')
  BY <1>2, <1>6, <1>8, <1>9, <1>10 DEF Cuts
<1>12. st' \in {"READING_REQUEST", "WRITING_RESPONSE"}
  BY <1>4
<1>13. ASSUME st' # "WRITING_RESPONSE" PROVE y = <<>>
  <2>1. u = Len(x)
    BY <1>4, <1>5, <1>13
  <2>2. Len(y) = 0
    BY <1>3, <1>6, <2>1
  <2> QED
    BY <1>6, <2>2, EmptySeq
<1> QED
  BY <1>4, <1>7, <1>11, <1>12, <1>13 DEF s

\* A session starts with no bytes and an empty buffer.
LEMMA InvInit == Init => RequestInv
<1> SUFFICES ASSUME Init PROVE RequestInv
  OBVIOUS
<1> DEFINE e == <<>>
<1>1. /\ stream \in Streams /\ received = 0 /\ info_read_buff = Fresh /\ pending = e
      /\ pop3_parser = Start /\ st = "READING_REQUEST" /\ taken = e
  BY DEF Init
<1>2. stream \in Seq(Byte) /\ Len(stream) \in Nat /\ ReadLimit \in Nat
  BY <1>1, StreamType
<1>3. e \in Seq(Byte) /\ Len(e) = 0
  OBVIOUS
<1>4. Holds(info_read_buff, pending, ReadLimit)
  <2>1. Fresh \in Buffers(ReadLimit) /\ ReadSpace(Fresh) = 0
    BY <1>2 DEF Fresh, Buffers, ReadSpace
  <2> HIDE DEF e
  <2> QED
    BY <1>1, <1>3, <2>1 DEF Holds
<1>5. OpenAt(stream, 0, 0)
  BY DEF OpenAt, EndsIn
<1>6. Knows(Start, stream, 0)
  <2>1. SubSeq(stream, 0 + 1, 0) = <<>>
    OBVIOUS
  <2>2. Parsed(Start, SubSeq(stream, 0 + 1, 0))
    BY <2>1, StartParsed
  <2>3. 0 \in 0..0
    OBVIOUS
  <2> QED
    BY <1>5, <2>2, <2>3 DEF Knows
<1>7. Requests(stream, 0) = e
  <2>1. 0 \in 0..Len(stream)
    BY <1>2
  <2>2. EndsIn(stream, 0) = {}
    BY DEF EndsIn
  <2>3. Requests(stream, 0) \in Seq(Meanings) /\ Len(Requests(stream, 0)) = 0
    BY <1>2, <2>1, <2>2, RequestsAre, FS_EmptySet
  <2> QED
    BY <2>3, EmptySeq
<1> HIDE DEF e
<1>8. Cuts(stream, received, pending, pop3_parser, taken)
  <2>1. 0 - Len(e) = 0 /\ Len(e) <= 0 /\ 0 \in 0..Len(stream)
    BY <1>2, <1>3
  <2>2. \A i \in 1..Len(e) : e[i] = stream[(0 - Len(e)) + i]
    BY <1>3
  <2> QED
    BY <1>1, <1>3, <1>6, <1>7, <2>1, <2>2 DEF Cuts
<1> QED
  BY <1>1, <1>4, <1>8 DEF RequestInv, e

\* read_request: what arrives is put into the buffer, and taken from there.
LEMMA ReadRequestStep == ASSUME RequestInv, ReadRequest PROVE RequestInv'
<1>1. /\ stream \in Streams /\ Holds(info_read_buff, pending, ReadLimit)
      /\ Cuts(stream, received, pending, pop3_parser, taken)
      /\ st = "READING_REQUEST" /\ pending = <<>>
  BY DEF RequestInv, ReadRequest
<1> DEFINE space == WriteSpace(info_read_buff, ReadLimit)
<1>2. PICK n \in Arriving(space) :
        /\ received' = received + n
        /\ TakeRequest(WriteAdv(info_read_buff, n),
                       pending \o SubSeq(stream, received + 1, received + n))
  BY DEF ReadRequest
<1>3. stream \in Seq(Byte) /\ Len(stream) \in Nat /\ ReadLimit \in Nat
  BY <1>1, StreamType
<1>4. space \in Nat
  BY <1>1, <1>3, HoldsFacts
<1> DEFINE e == <<>>
<1>5. /\ received \in 0..Len(stream) /\ Knows(pop3_parser, stream, received)
      /\ taken = Requests(stream, received)
  <2>1. Len(e) = 0
    OBVIOUS
  <2>2. /\ received \in 0..Len(stream) /\ Knows(pop3_parser, stream, received - Len(e))
        /\ taken = Requests(stream, received - Len(e))
    BY <1>1 DEF Cuts
  <2> HIDE DEF e
  <2>3. received - Len(e) = received
    BY <1>3, <2>1, <2>2
  <2> QED
    BY <2>2, <2>3
<1> HIDE DEF space
<1>6. n \in Nat /\ n <= space /\ received + n <= Len(stream) /\ received \in Nat
  BY <1>3, <1>4, <1>5 DEF Arriving
<1> DEFINE y == SubSeq(stream, received + 1, received + n)
<1>7. y \in Seq(Byte) /\ Len(y) = n /\ \A i \in 1..n : y[i] = stream[received + i]
  <2> DEFINE a == received + 1
             z == received + n
  <2>1. a \in Int /\ z \in Int /\ a >= 1 /\ z <= Len(stream)
    BY <1>6
  <2>2. z - a + 1 = n /\ (a <= z <=> n >= 1) /\ \A i \in 1..n : a + i - 1 = received + i
    BY <1>6
  <2> HIDE DEF a, z
  <2>3. \A i \in a..z : stream[i] \in Byte
    BY <1>3, <2>1
  <2>4. /\ SubSeq(stream, a, z) \in Seq(Byte)
        /\ Len(SubSeq(stream, a, z)) = IF a <= z THEN z - a + 1 ELSE 0
        /\ \A i \in 1..z - a + 1 : SubSeq(stream, a, z)[i] = stream[a + i - 1]
    BY <2>1, <2>3, SubSeqProperties
  <2>5. Len(SubSeq(stream, a, z)) = n
    BY <1>6, <2>2, <2>4
  <2>6. \A i \in 1..n : SubSeq(stream, a, z)[i] = stream[received + i]
    BY <2>2, <2>4
  <2> QED
    BY <2>4, <2>5, <2>6 DEF a, z
<1> HIDE DEF y
<1>8. pending \o y = y
  BY <1>1, <1>7, ConcatEmptySeq
<1> DEFINE b == WriteAdv(info_read_buff, n)
<1>9. Holds(b, y, ReadLimit)
  <2>1. Holds(WriteAdv(info_read_buff, Len(y)), pending \o y, ReadLimit)
    BY <1>1, <1>3, <1>6, <1>7, Advanced DEF space
  <2> QED
    BY <1>7, <1>8, <2>1
<1> DEFINE m == received + n
<1>10. TakeRequest(b, y)
  BY <1>2, <1>8 DEF y
<1>11. Cuts(stream, m, y, pop3_parser, taken)
  <2>1. m - Len(y) = received /\ m \in 0..Len(stream) /\ Len(y) <= m
    BY <1>3, <1>6, <1>7
  <2> HIDE DEF m
  <2> QED
    BY <1>5, <1>7, <2>1 DEF Cuts
<1>12. stream' = stream /\ received' = m
  BY <1>2 DEF ReadRequest
<1> HIDE DEF b, m
<1>13. /\ Holds(info_read_buff', pending', ReadLimit)
       /\ Cuts(stream, m, pending', pop3_parser', taken')
       /\ st' \in {"READING_REQUEST", "WRITING_RESPONSE"}
       /\ st' # "WRITING_RESPONSE" => pending' = <<>>
  BY <1>1, <1>9, <1>10, <1>11, TakeStep
<1> QED
  BY <1>1, <1>12, <1>13 DEF RequestInv

\* write_response: the rest of the buffer is looked at.
LEMMA NextRequestStep == ASSUME RequestInv, NextRequest PROVE RequestInv'
<1>1. /\ stream \in Streams /\ Holds(info_read_buff, pending, ReadLimit)
      /\ Cuts(stream, received, pending, pop3_parser, taken)
  BY DEF RequestInv
<1>2. TakeRequest(info_read_buff, pending) /\ stream' = stream /\ received' = received
  BY DEF NextRequest
<1>3. /\ Holds(info_read_buff', pending', ReadLimit)
      /\ Cuts(stream, received, pending', pop3_parser', taken')
      /\ st' \in {"READING_REQUEST", "WRITING_RESPONSE"}
      /\ st' # "WRITING_RESPONSE" => pending' = <<>>
  BY <1>1, <1>2, TakeStep
<1> QED
  BY <1>1, <1>2, <1>3 DEF RequestInv

\* recv() returns 0 with room in the buffer, so the client closed its side.
LEMMA ReadEndStep == ASSUME RequestInv, ReadEnd PROVE RequestInv'
<1>1. /\ stream \in Streams /\ Holds(info_read_buff, pending, ReadLimit)
      /\ Cuts(stream, received, pending, pop3_parser, taken)
      /\ st = "READING_REQUEST" /\ pending = <<>>
  BY DEF RequestInv, ReadEnd
<1>2. stream \in Seq(Byte) /\ Len(stream) \in Nat /\ ReadLimit \in Nat \ {0}
  BY <1>1, StreamType, StreamsAssumption
<1> DEFINE space == WriteSpace(info_read_buff, ReadLimit)
<1>3. space = ReadLimit
  BY <1>1, <1>2, HoldsFacts
<1>4. received \in 0..Len(stream)
  BY <1>1 DEF Cuts
<1>5. Arriving(space) = {}
  BY DEF ReadEnd
<1> HIDE DEF space
<1>6. received = Len(stream)
  <2> SUFFICES ASSUME received < Len(stream) PROVE FALSE
    BY <1>2, <1>4
  <2>1. 1 \in Arriving(space)
    BY <1>2, <1>3, <1>4 DEF Arriving
  <2> QED
    BY <1>5, <2>1
<1>7. /\ st' = "FINISHED"
      /\ stream' = stream /\ received' = received /\ info_read_buff' = info_read_buff
      /\ pending' = pending /\ pop3_parser' = pop3_parser /\ taken' = taken
  BY DEF ReadEnd
<1> QED
  BY <1>1, <1>6, <1>7 DEF RequestInv

\* Whatever the stream and the pieces in which it arrives, the parser and the
\* requests so far are those of the bytes taken from the buffer, and the buffer
\* has the rest (read_request and write_response, pop3.c:486-599).
THEOREM RequestInvariant == Spec => []RequestInv
<1>1. RequestInv /\ [Next]_vars => RequestInv'
  <2> SUFFICES ASSUME RequestInv, [Next]_vars PROVE RequestInv'
    OBVIOUS
  <2>1. CASE ReadRequest
    BY <2>1, ReadRequestStep
  <2>2. CASE NextRequest
    BY <2>2, NextRequestStep
  <2>3. CASE ReadEnd
    BY <2>3, ReadEndStep
  <2>4. CASE UNCHANGED vars
    BY <2>4 DEF vars, RequestInv
  <2> QED
    BY <2>1, <2>2, <2>3, <2>4 DEF Next
<1> QED
  BY <1>1, InvInit, PTL DEF Spec

-----------------------------------------------------------------------------
(* What it shows.                                                          *)

\* The positions of the read buffer agree with its bytes, and no request is too
\* long for the arrays of the parser (pop3_parser_definition.h:13-15).
THEOREM TypeCorrect == Spec => []RequestTypeOK
<1>1. RequestInv => RequestTypeOK
  <2> SUFFICES ASSUME RequestInv PROVE RequestTypeOK
    OBVIOUS
  <2>1. info_read_buff \in Buffers(ReadLimit) /\ Len(pending) = ReadSpace(info_read_buff)
    BY DEF RequestInv, Holds
  <2>2. received \in 0..Len(stream) /\ Knows(pop3_parser, stream, received - Len(pending))
    BY DEF RequestInv, Cuts
  <2>3. Sound(pop3_parser)
    BY <2>2, KnowsOpen
  <2> QED
    BY <2>1, <2>2, <2>3 DEF RequestInv, RequestTypeOK, Sound
<1> QED
  BY <1>1, RequestInvariant, PTL

\* A stream arrives as its beginning.
LEMMA ArrivedRequests ==
  RequestsIn(Arrived) = Requests(stream, received)
  BY DEF Arrived, Requests, Upto

\* The requests executed are the first of those that arrived: in order, none
\* twice, none a mixture of two (pop3.c:486-599).
THEOREM OrderCorrect == Spec => []TakenInOrder
<1>1. RequestInv => TakenInOrder
  <2> SUFFICES ASSUME RequestInv PROVE TakenInOrder
    OBVIOUS
  <2> DEFINE k == received - Len(pending)
  <2>1. stream \in Seq(Byte) /\ Len(stream) \in Nat
    BY StreamType DEF RequestInv
  <2>2. /\ received \in 0..Len(stream) /\ pending \in Seq(Byte) /\ Len(pending) <= received
        /\ taken = Requests(stream, k)
    BY DEF RequestInv, Cuts
  <2>3. k \in Nat /\ received \in Nat /\ k <= received /\ received <= Len(stream)
    BY <2>1, <2>2
  <2> HIDE DEF k
  <2>4. IsPrefix(Requests(stream, k), Requests(stream, received))
    BY <2>1, <2>3, RequestsGrow
  <2> QED
    BY <2>2, <2>4, ArrivedRequests DEF TakenInOrder
<1> QED
  BY <1>1, RequestInvariant, PTL

\* With nothing in the buffer, everything that arrived was taken.
LEMMA AllTaken ==
  ASSUME RequestInv, pending = <<>>
  PROVE  taken = Requests(stream, received)
<1>1. received \in 0..Len(stream) /\ taken = Requests(stream, received - Len(pending))
  BY DEF RequestInv, Cuts
<1>2. Len(pending) = 0
  OBVIOUS
<1>3. received - Len(pending) = received
  BY <1>1, <1>2
<1> QED
  BY <1>1, <1>3

\* A session that waits for its client executed every request that arrived
\* whole (write_response, pop3.c:569-599).
THEOREM StallCorrect == Spec => []NothingStalls
<1>1. RequestInv => NothingStalls
  <2> SUFFICES ASSUME RequestInv, st = "READING_REQUEST"
               PROVE  pending = <<>> /\ taken = RequestsIn(Arrived)
    BY DEF NothingStalls
  <2>1. pending = <<>>
    BY DEF RequestInv
  <2> QED
    BY <2>1, AllTaken, ArrivedRequests
<1> QED
  BY <1>1, RequestInvariant, PTL

\* A session ends when every request of its client is executed: recv() is not
\* called with a full buffer, whose 0 would read as the end (pop3.c:490-496).
THEOREM EndingCorrect == Spec => []EndIsTheClients
<1>1. RequestInv => EndIsTheClients
  <2> SUFFICES ASSUME RequestInv, st = "FINISHED"
               PROVE  taken = RequestsIn(stream)
    BY DEF EndIsTheClients
  <2>1. pending = <<>> /\ received = Len(stream)
    BY DEF RequestInv
  <2>2. stream \in Seq(Byte)
    BY StreamType DEF RequestInv
  <2>3. Arrived = stream
    BY <2>1, <2>2, SubSeqFull DEF Arrived
  <2> QED
    BY <2>1, <2>3, AllTaken, ArrivedRequests
<1> QED
  BY <1>1, RequestInvariant, PTL
=============================================================================
