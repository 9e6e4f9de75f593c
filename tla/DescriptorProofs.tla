-------------------------- MODULE DescriptorProofs --------------------------
(***************************************************************************)
(* Proofs that the sessions, the selector and the kernel agree about the   *)
(* descriptors, in any order in which sessions open files, end, break and  *)
(* are closed.                                                             *)
(*                                                                         *)
(* In the first part they agree about interests, buffers and locks while   *)
(* the server is spared three accidents, and then nothing but its shutdown *)
(* ends it as long as descriptors suffice and the byte stuffing has room;  *)
(* clients that take what they are sent spare it the full buffers.  In the *)
(* second part the references, the metric and the descriptors are right    *)
(* whatever happens, as long as the selector can index them.  The last     *)
(* part is about the loop of main: whatever the selector reports and in    *)
(* whatever order it visits the descriptors, a run of the loop is a run of *)
(* Pop3Server, and what it reports is not stale when a handler is called   *)
(* for it.                                                                 *)
(***************************************************************************)
EXTENDS EventLoop, Pop3ServerProofs

\* The file of a session is registered.
HasFile(p) == p.file_opened /\ ~p.file_ended

Descriptors(p) ==
  {p.connection_fd} \cup (IF HasFile(p) THEN {p.file_fd} ELSE {})

\* A session is in the middle of an answer of several lines only as LIST, which
\* has no file, or as RETR, which has the file it opened until it ends.
MidAnswer(p) ==
  \/ /\ p.st = "WRITING_RESPONSE" /\ p.command = "LIST" /\ p.arg = NoArg
     /\ ~p.file_opened /\ ~p.file_ended /\ p.info_file_buff = Fresh
  \/ /\ p.st = "WRITING_RESPONSE" /\ p.command = "RETR"
     /\ p.multiline_state = "MULTILINE" /\ p.file_opened
     /\ p.pop3_protocol_state = "TRANSACTION" /\ p.arg # Huge
     /\ p.info_file_buff = Fresh \/ (CanRead(p.info_file_buff) /\ ~p.file_ended)
  \/ /\ p.st = "PROCESSING_RESPONSE" /\ p.command = "RETR"
     /\ p.multiline_state = "MULTILINE"
     /\ p.pop3_protocol_state = "TRANSACTION" /\ p.arg # Huge
     /\ p.info_file_buff = Fresh /\ ~p.file_ended

\* Between two answers nothing of a file is left.
NoAnswer(p) ==
  /\ ~p.file_opened /\ ~p.file_ended /\ p.info_file_buff = Fresh
  /\ p.st # "PROCESSING_RESPONSE"

\* What a session object keeps to itself.
Orderly(p) ==
  p # Blank =>
    /\ p.st \notin {"UNUSED", "FINISHED"}
    /\ p.pop3_protocol_state = "AUTHORIZATION" /\ p.st = "WRITING_RESPONSE"
         => p.command \in {"QUIT", "USER", "PASS", "CAPA", "ERROR_COMMAND"}
    /\ p.finished => p.st = "WRITING_RESPONSE" /\ p.multiline_state = "FIRST_LINE"
    /\ p.st = "READING_REQUEST" => p.info_write_buff = Fresh
    /\ p.st = "WRITING_RESPONSE" /\ ~p.finished /\ p.multiline_state = "FIRST_LINE"
         => p.info_write_buff = Fresh
    /\ IF p.multiline_state = "FIRST_LINE" THEN NoAnswer(p) ELSE MidAnswer(p)

\* A descriptor the selector does not have is closed.
Tracked(f) ==
  IF items[f].conn = NoConn THEN items[f] = Unused /\ kernel[f] = Closed
                            ELSE kernel[f].kind # "closed"

\* The descriptors of a session are registered for it, and no others.
Whole(c) ==
  LET p == conn[c]
  IN  IF p.st = "UNUSED" THEN \A f \in Fd : items[f].conn # c
      ELSE /\ p.connection_fd \in Fd
           /\ kernel[p.connection_fd].kind = "socket"
           /\ HasFile(p) => /\ p.file_fd \in Fd /\ p.file_fd # p.connection_fd
                            /\ kernel[p.file_fd].kind = "file"
           /\ \A f \in Fd : items[f].conn = c <=> f \in Descriptors(p)
           /\ p.references = IF HasFile(p) THEN 1 ELSE 0

\* While selector_destroy closes them, some of them are.
Partly(c) ==
  LET p    == conn[c]
      Mine == \A f \in Descriptors(p) : f \in Fd /\ items[f].conn = c
  IN  IF p.st = "UNUSED" THEN \A f \in Fd : items[f].conn # c
      ELSE /\ \A f \in Fd : items[f].conn = c => f \in Descriptors(p)
           /\ \E f \in Fd : items[f].conn = c
           /\ HasFile(p) => p.file_fd # p.connection_fd
           /\ p.references = IF HasFile(p) /\ Mine THEN 1 ELSE 0

\* The interests that the state of a session asks for.
SocketInterest(p) ==
  IF p.st = "READING_REQUEST" THEN "READ"
  ELSE IF p.st = "PROCESSING_RESPONSE" THEN "NOOP" ELSE "WRITE"
FileInterest(p) == IF p.st = "PROCESSING_RESPONSE" THEN "READ" ELSE "NOOP"

\* Each descriptor of a session has that interest.
Control(c) ==
  LET p == conn[c]
  IN  p.st # "UNUSED" =>
        /\ items[p.connection_fd].interest = SocketInterest(p)
        /\ HasFile(p) => items[p.file_fd].interest = FileInterest(p)
        /\ p.st = "PROCESSING_RESPONSE" => p.file_opened

\* An accident: an answer that ends finds no room for its last line, errno speaks
\* of a bad number while a file is sent, or there are more descriptors than the
\* selector can index.
EndFits == \A c \in Conn : conn[c].file_ended => Fits(conn[c], TermLen)
NumbersParse == errno \in BadNumber => \A c \in Conn : ~conn[c].file_opened
AllIndexed == FdLimit <= ItemsMax
Sheltered == EndFits /\ NumbersParse /\ AllIndexed

Closing == server \in {"closing", "stopped"}

LocksHeld == \A u \in User : logged[u] => \E c \in Conn : Holds(c, u)

\* The inductive invariant.
CleanInv ==
  /\ \A c \in Conn : Orderly(conn[c])
  /\ \A f \in Fd : Tracked(f)
  /\ server \in {"running", "closing", "stopped", "exit", "assert"}
  /\ Closing => \A c \in Conn : Partly(c)
  /\ ~Closing => \A c \in Conn : Whole(c)
  /\ Running => (\A c \in Conn : Control(c)) /\ LocksHeld

\* A session of c is at work.
Working(c) ==
  /\ CleanInv /\ IInv /\ IInv'
  /\ Running
  /\ c \in Conn /\ conn[c].st # "UNUSED"

-----------------------------------------------------------------------------
(* One session changes.                                                    *)

\* The others have their descriptors as before.
SameElsewhere(c) ==
  /\ \A d \in Conn \ {c} : conn'[d] = conn[d]
  /\ \A f \in Fd : items[f].conn \notin {c, NoConn}
       => items'[f] = items[f] /\ kernel'[f] = kernel[f]
  /\ \A f \in Fd : items[f].conn \in {c, NoConn} => items'[f].conn \in {c, NoConn}

\* Whoever is marked as logged in holds the maildrop, once p is what c is.
Covered(c, p, lg) ==
  \A u \in User :
    lg[u] => \/ \E d \in Conn \ {c} : Holds(d, u)
             \/ Locks(p) /\ p.user_s = u

\* A session keeps its descriptors.
SameFiles(p, q) ==
  /\ q.connection_fd = p.connection_fd
  /\ q.references = p.references
  /\ HasFile(q) <=> HasFile(p)
  /\ HasFile(q) => q.file_fd = p.file_fd

\* While a session has a file, nothing waits in its output buffer but the first
\* line of the answer, what waited there already, or what a send() left.
Waits(x, y) ==
  y.file_opened =>
    \/ y.info_write_buff.w <= ReplyLen
    \/ y.info_write_buff.r # 0
    \/ x.file_opened /\ y.info_write_buff = x.info_write_buff

\* What a step of c keeps.
KeptBy(c) ==
  CleanInv' /\ SameElsewhere(c) /\ Waits(conn[c], conn'[c])

\* What is not allocated is Blank.
LEMMA OrderlyExists ==
  ASSUME NEW p, Orderly(p)
  PROVE  p.st = "UNUSED" <=> p = Blank
  BY DEF Orderly, Blank

\* A session that is not c has the descriptors it had.
LEMMA ElsewhereWhole ==
  ASSUME IInv, NEW c \in Conn, SameElsewhere(c), NEW d \in Conn \ {c}, Whole(d)
  PROVE  Whole(d)'
<1>1. conn'[d] = conn[d] /\ conn[d] \in Session
  BY DEF SameElsewhere, IInv, TypeOK
<1>2. \A f \in Fd : items'[f].conn = d <=> items[f].conn = d
  BY ConstantsAssumption DEF SameElsewhere, ConstantsAssumption
<1>3. \A f \in Fd : items[f].conn = d => items'[f] = items[f] /\ kernel'[f] = kernel[f]
  BY ConstantsAssumption DEF SameElsewhere, ConstantsAssumption
<1>4. CASE conn[d].st = "UNUSED"
  BY <1>1, <1>2, <1>4 DEF Whole
<1>5. CASE conn[d].st # "UNUSED"
  <2> DEFINE p == conn[d]
  <2>1. /\ p.connection_fd \in Fd
        /\ items[p.connection_fd].conn = d
        /\ HasFile(p) => p.file_fd \in Fd /\ items[p.file_fd].conn = d
    BY <1>5 DEF Whole, Descriptors
  <2>2. /\ kernel'[p.connection_fd] = kernel[p.connection_fd]
        /\ HasFile(p) => kernel'[p.file_fd] = kernel[p.file_fd]
    BY <1>3, <2>1
  <2> QED
    BY <1>1, <1>2, <1>5, <2>2 DEF Whole
<1> QED
  BY <1>4, <1>5

\* Nor do their interests change.
LEMMA ElsewhereControl ==
  ASSUME IInv, NEW c \in Conn, SameElsewhere(c), NEW d \in Conn \ {c}, Whole(d), Control(d)
  PROVE  Control(d)'
<1>1. conn'[d] = conn[d]
  BY DEF SameElsewhere
<1>2. \A f \in Fd : items[f].conn = d => items'[f] = items[f]
  BY ConstantsAssumption DEF SameElsewhere, ConstantsAssumption
<1>3. CASE conn[d].st = "UNUSED"
  BY <1>1, <1>3 DEF Control
<1>4. CASE conn[d].st # "UNUSED"
  <2> DEFINE p == conn[d]
  <2>1. /\ p.connection_fd \in Fd
        /\ items[p.connection_fd].conn = d
        /\ HasFile(p) => p.file_fd \in Fd /\ items[p.file_fd].conn = d
    BY <1>4 DEF Whole, Descriptors
  <2> QED
    BY <1>1, <1>2, <1>4, <2>1 DEF Control, SocketInterest, FileInterest
<1> QED
  BY <1>3, <1>4

\* The maildrops that were held by others still are.
LEMMA ElsewhereHeld ==
  ASSUME NEW c \in Conn, SameElsewhere(c), NEW lg, Covered(c, conn'[c], lg), logged' = lg
  PROVE  LocksHeld'
<1> SUFFICES ASSUME NEW u \in User, lg[u] PROVE \E d \in Conn : Holds(d, u)'
  BY DEF LocksHeld
<1>1. CASE \E d \in Conn \ {c} : Holds(d, u)
  <2>1. PICK d \in Conn \ {c} : Holds(d, u)
    BY <1>1
  <2>2. Holds(d, u)'
    BY <2>1 DEF SameElsewhere, Holds, Alive
  <2> QED
    BY <2>2
<1>2. CASE Locks(conn'[c]) /\ conn'[c].user_s = u
  <2>1. Holds(c, u)'
    BY <1>2 DEF Holds, Alive, Locks
  <2> QED
    BY <2>1
<1> QED
  BY <1>1, <1>2 DEF Covered

\* A step of c that leaves the others alone keeps the invariant if it keeps
\* what the invariant says of c.
LEMMA LocalClean ==
  ASSUME NEW c, Working(c), SameElsewhere(c),
         Orderly(conn'[c]), conn'[c].st # "UNUSED",
         \A f \in Fd : Tracked(f)',
         Whole(c)',
         server' \in {"running", "exit", "assert"},
         Running' => Control(c)' /\ Covered(c, conn'[c], logged'),
         current' = current, Waits(conn[c], conn'[c])
  PROVE  KeptBy(c)
<1>1. \A d \in Conn : Orderly(conn[d])'
  BY DEF SameElsewhere, Working, CleanInv
<1>2. \A d \in Conn : Whole(d)'
  BY ElsewhereWhole DEF Working, CleanInv, Running, Closing
<1>3. Running' => \A d \in Conn : Control(d)'
  BY ElsewhereControl DEF Working, CleanInv, Running, Closing
<1>4. Running' => LocksHeld'
  BY ElsewhereHeld DEF Working
<1> QED
  BY <1>1, <1>2, <1>3, <1>4 DEF CleanInv, Closing, KeptBy

\* The session of c becomes q.
Becomes(c, q) == conn'[c] = q /\ \A d \in Conn \ {c} : conn'[d] = conn[d]

\* No descriptor is opened or closed, and those of others stay as they are.
SameOwners(c) ==
  \A f \in Fd :
    /\ items'[f].conn = items[f].conn /\ kernel'[f].kind = kernel[f].kind
    /\ items[f].conn # c => items'[f] = items[f] /\ kernel'[f] = kernel[f]

\* The same for such a step.
LEMMA UpdateClean ==
  ASSUME NEW c, Working(c), NEW q, Becomes(c, q), SameOwners(c),
         Orderly(q), q.st # "UNUSED", SameFiles(conn[c], q),
         server' \in {"running", "exit", "assert"},
         Running' => Control(c)' /\ Covered(c, q, logged'),
         current' = current, Waits(conn[c], q)
  PROVE  KeptBy(c)
<1>1. /\ conn'[c] = q
      /\ \A d \in Conn \ {c} : conn'[d] = conn[d]
  BY DEF Becomes
<1>2. SameElsewhere(c)
  BY <1>1 DEF SameElsewhere, SameOwners
<1>3. Whole(c)
  BY DEF Working, CleanInv, Running, Closing
<1>4. Whole(c)'
  <2> DEFINE p == conn[c]
  <2>1. Descriptors(q) = Descriptors(p)
    BY DEF SameFiles, Descriptors
  <2>2. /\ p.connection_fd \in Fd
        /\ kernel[p.connection_fd].kind = "socket"
        /\ HasFile(p) => /\ p.file_fd \in Fd /\ p.file_fd # p.connection_fd
                         /\ kernel[p.file_fd].kind = "file"
        /\ \A f \in Fd : items[f].conn = c <=> f \in Descriptors(p)
        /\ p.references = IF HasFile(p) THEN 1 ELSE 0
    BY <1>3 DEF Whole, Working
  <2>3. /\ q.connection_fd \in Fd
        /\ kernel'[q.connection_fd].kind = "socket"
        /\ HasFile(q) => /\ q.file_fd \in Fd /\ q.file_fd # q.connection_fd
                         /\ kernel'[q.file_fd].kind = "file"
        /\ \A f \in Fd : items'[f].conn = c <=> f \in Descriptors(q)
        /\ q.references = IF HasFile(q) THEN 1 ELSE 0
    BY <2>1, <2>2 DEF SameFiles, SameOwners
  <2> QED
    BY <1>1, <2>3 DEF Whole
<1>5. \A f \in Fd : Tracked(f)'
  <2> SUFFICES ASSUME NEW f \in Fd PROVE Tracked(f)'
    OBVIOUS
  <2>1. Tracked(f)
    BY DEF Working, CleanInv
  <2>2. c # NoConn
    BY ConstantsAssumption DEF Working, ConstantsAssumption
  <2> QED
    BY <2>1, <2>2 DEF Tracked, SameOwners
<1>6. /\ Orderly(conn'[c]) /\ conn'[c].st # "UNUSED"
      /\ Waits(conn[c], conn'[c])
  BY <1>1
<1>7. Running' => Control(c)' /\ Covered(c, conn'[c], logged')
  BY <1>1
<1> QED
  BY <1>2, <1>4, <1>5, <1>6, <1>7, LocalClean

-----------------------------------------------------------------------------
(* A session ends.                                                         *)

\* A number has one remainder.
LEMMA OneRemainder ==
  ASSUME NEW w \in Nat \ {0}, NEW q \in Int, NEW k \in Int,
         NEW r \in 0..(w - 1), NEW s \in 0..(w - 1), w * q + r = w * k + s
  PROVE  r = s
<1>1. ASSUME NEW a \in Int, NEW b \in Int, a < b PROVE w * a + w <= w * b
  <2>1. PICK d \in Nat : b = a + 1 + d
    <3>1. b - a - 1 \in Nat /\ b = a + 1 + (b - a - 1)
      BY <1>1
    <3> QED
      BY <3>1
  <2>2. w * b = w * a + w + w * d
    BY <2>1
  <2>3. w * d >= 0
    OBVIOUS
  <2>4. w * d \in Int /\ w * a \in Int
    OBVIOUS
  <2> QED
    BY <2>2, <2>3, <2>4
<1>2. w * q \in Int /\ w * k \in Int
  OBVIOUS
<1>3. CASE q < k
  BY <1>1, <1>2, <1>3
<1>4. CASE k < q
  BY <1>1, <1>2, <1>4
<1>5. CASE q = k
  BY <1>2, <1>5
<1> QED
  BY <1>3, <1>4, <1>5

\* The metric counts modulo Word, up and down.
LEMMA CountMod ==
  ASSUME NEW n \in Nat
  PROVE  /\ Increased(n % Word) = (n + 1) % Word
         /\ Decreased((n + 1) % Word) = n % Word
<1> DEFINE w == Word
           r == n % w
           s == (n + 1) % w
           q == n \div w
           k == (n + 1) \div w
<1>1. w \in Nat \ {0}
  BY ConstantsAssumption DEF ConstantsAssumption
<1>2. /\ r \in 0..(w - 1) /\ s \in 0..(w - 1) /\ q \in Int /\ k \in Int
      /\ n = w * q + r /\ n + 1 = w * k + s
  BY <1>1
<1>3. s = IF r + 1 = w THEN 0 ELSE r + 1
  <2> HIDE DEF w, r, s, q, k
  <2>1. w * q \in Int /\ w * k \in Int
    BY <1>1, <1>2
  <2>2. CASE r + 1 = w
    <3>1. w * (q + 1) = w * q + w
      BY <1>1, <1>2
    <3>2. w * (q + 1) + 0 = w * k + s
      BY <1>1, <1>2, <2>1, <2>2, <3>1
    <3> QED
      BY <1>1, <1>2, <2>2, <3>2, OneRemainder
  <2>3. CASE r + 1 # w
    <3>1. w * q + (r + 1) = w * k + s /\ r + 1 \in 0..(w - 1)
      BY <1>1, <1>2, <2>1, <2>3
    <3> QED
      BY <1>1, <1>2, <2>3, <3>1, OneRemainder
  <2> QED
    BY <2>2, <2>3
<1>4. Increased(r) = s /\ Decreased(s) = r
  BY <1>1, <1>2, <1>3 DEF Increased, Decreased
<1> QED
  BY <1>4

\* U is S without the descriptor f, which was one of c.
Without(S, U, f, c) ==
  LET n == S.conn[c].references
  IN  /\ U \in States
      /\ U.items = [S.items EXCEPT ![f] = Unused]
      /\ U.kernel = [S.kernel EXCEPT ![f] = Closed]
      /\ n = 0 => U.conn = [S.conn EXCEPT ![c] = Blank] /\ U.current = Decreased(S.current)
      /\ n # 0 => /\ U.conn = [S.conn EXCEPT ![c] =
                                 [S.conn[c] EXCEPT !.references = n - 1]]
                  /\ U.current = S.current

\* selector_unregister_fd takes f from the session it serves.
LEMMA UnregisterIs ==
  ASSUME NEW S \in States, NEW f \in Fd, NEW c \in Conn, S.items[f].conn = c
  PROVE  Without(S, Unregister(S, f), f, c)
<1> DEFINE C == CloseSession(S, c)
<1>1. C \in States /\ C.items = S.items /\ C.kernel = S.kernel
  BY CloseSessionType
<1>2. Registered(S, f)
  BY ConstantsAssumption DEF Registered, ConstantsAssumption
<1>3. Unregister(S, f) = [C EXCEPT !.items[f] = Unused, !.kernel[f] = Closed]
  BY DEF Unregister
<1>4. /\ Unregister(S, f).items = [S.items EXCEPT ![f] = Unused]
      /\ Unregister(S, f).kernel = [S.kernel EXCEPT ![f] = Closed]
      /\ Unregister(S, f).conn = C.conn
      /\ Unregister(S, f).current = C.current
  BY <1>1, <1>3 DEF States
<1>5. Unregister(S, f) \in States
  BY <1>2, UnregisterType
<1>6. CASE S.conn[c].references = 0
  BY <1>4, <1>5, <1>6 DEF CloseSession, States, Without
<1>7. CASE S.conn[c].references # 0
  BY <1>4, <1>5, <1>7 DEF CloseSession, States, Without
<1> QED
  BY <1>6, <1>7

\* A session whose descriptors are closed is gone, and nobody else is touched.
Gone(c) ==
  /\ items' = [f \in Fd |-> IF items[f].conn = c THEN Unused ELSE items[f]]
  /\ kernel' = [f \in Fd |-> IF items[f].conn = c THEN Closed ELSE kernel[f]]
  /\ conn' = [conn EXCEPT ![c] = Blank]
  /\ current' = Decreased(current)
  /\ UNCHANGED server

\* What a handler may have done to the state before its session ends.
Handled(c, q, S) ==
  /\ S \in States
  /\ S.conn = [conn EXCEPT ![c] = q]
  /\ S.current = current
  /\ \A f \in Fd : /\ S.items[f].conn = items[f].conn
                   /\ items[f].conn # c => S.items[f] = items[f] /\ S.kernel[f] = kernel[f]
  /\ q \in Sound /\ q.st \notin {"UNUSED", "FINISHED"}
  /\ SameFiles(conn[c], q)
  /\ q.file_opened => ~q.file_ended /\ q.pop3_protocol_state = "TRANSACTION"

\* finish_connection closes what a whole session has, and nothing else.
LEMMA FinishIs ==
  ASSUME NEW c, Working(c), NEW q, NEW S, Handled(c, q, S), NEW lg, Finish(c, S, lg)
  PROVE  Gone(c) /\ logged' = Released(q, lg)
<1> DEFINE r == [q EXCEPT !.st = "FINISHED"]
           F == With(S, c, r)
           file == q.pop3_protocol_state = "TRANSACTION" /\ q.file_opened
           G == IF file THEN Unregister(F, q.file_fd) ELSE F
           H == Unregister(G, q.connection_fd)
<1>1. S.conn[c] = q /\ \A d \in Conn \ {c} : S.conn[d] = conn[d]
  BY DEF Handled, Working, IInv, TypeOK
<1>2. /\ r \in Sound /\ r.st = "FINISHED" /\ r.references = q.references
      /\ \A x \in 0..0 : [r EXCEPT !.references = x].st = "FINISHED"
      /\ \A x \in 0..0 : [r EXCEPT !.references = x].references = x
  <2>1. r \in Sound
    BY StateType DEF Handled, State
  <2> QED
    BY <2>1 DEF Handled, Sound, Session
<1>3. /\ file <=> HasFile(q)
      /\ q.connection_fd \in Fd /\ items[q.connection_fd].conn = c
      /\ HasFile(q) => /\ q.file_fd \in Fd /\ items[q.file_fd].conn = c
                       /\ q.file_fd # q.connection_fd
      /\ \A f \in Fd : items[f].conn = c <=> f \in Descriptors(q)
      /\ q.references = IF HasFile(q) THEN 1 ELSE 0
  <2>1. Whole(c)
    BY DEF Working, CleanInv, Running, Closing
  <2>2. Descriptors(q) = Descriptors(conn[c])
    BY DEF Handled, SameFiles, Descriptors
  <2> QED
    BY <2>1, <2>2 DEF Whole, Handled, SameFiles, HasFile, Descriptors, Working
<1>4. F \in States /\ F.conn = [S.conn EXCEPT ![c] = r] /\ F.items = S.items
      /\ F.kernel = S.kernel /\ F.current = current
  <2> HIDE DEF r
  <2> QED
    BY <1>2, WithType DEF Handled, States, With, Working
<1>5. logged' = Released(q, lg)
  BY <1>1 DEF Finish
<1>6. c \in Conn /\ c # NoConn /\ r # Blank
  BY <1>2, ConstantsAssumption DEF Working, ConstantsAssumption, Blank
<1>7. /\ G \in States
      /\ G.items = [f \in Fd |-> IF file /\ f = q.file_fd THEN Unused ELSE S.items[f]]
      /\ G.kernel = [f \in Fd |-> IF file /\ f = q.file_fd THEN Closed ELSE S.kernel[f]]
      /\ G.conn[c].references = 0 /\ G.conn[c].st = "FINISHED"
      /\ \A d \in Conn \ {c} : G.conn[d] = conn[d]
      /\ G.current = current
      /\ file => Registered(F, q.file_fd)
  <2>1. F.conn[c] = r /\ \A d \in Conn \ {c} : F.conn[d] = conn[d]
    BY <1>1, <1>4, <1>6 DEF Handled, States
  <2>2. CASE file
    <3>1. q.file_fd \in Fd /\ F.items[q.file_fd].conn = c
      BY <1>3, <1>4, <2>2 DEF Handled
    <3>2. F.conn[c].references = 1
      BY <1>2, <1>3, <2>1, <2>2
    <3>3. G = Unregister(F, q.file_fd)
      BY <2>2
    <3>4. F \in States
      BY <1>4
    <3> HIDE DEF F, G, r
    <3>5. 1 - 1 = 0
      OBVIOUS
    <3>6. /\ G \in States
          /\ G.items = [F.items EXCEPT ![q.file_fd] = Unused]
          /\ G.kernel = [F.kernel EXCEPT ![q.file_fd] = Closed]
          /\ G.conn = [F.conn EXCEPT ![c] = [r EXCEPT !.references = 0]]
          /\ G.current = F.current
      <4>1. Without(F, G, q.file_fd, c)
        BY <1>6, <3>1, <3>3, <3>4, UnregisterIs
      <4> QED
        BY <2>1, <3>2, <3>5, <4>1 DEF Without
    <3>7. G.conn[c] = [r EXCEPT !.references = 0] /\ \A d \in Conn \ {c} : G.conn[d] = conn[d]
      BY <1>4, <1>6, <2>1, <3>6 DEF States
    <3>8. Registered(F, q.file_fd)
      BY <1>6, <3>1 DEF Registered
    <3>9. F.items \in [Fd -> [conn : Conn \cup {NoConn}, interest : Interest]]
          /\ F.kernel \in [Fd -> [kind : {"closed", "socket", "file"}, left : Nat]]
      BY <3>4 DEF States
    <3>10. /\ G.items = [f \in Fd |-> IF f = q.file_fd THEN Unused ELSE S.items[f]]
           /\ G.kernel = [f \in Fd |-> IF f = q.file_fd THEN Closed ELSE S.kernel[f]]
      BY <1>4, <3>1, <3>6, <3>9
    <3>11. G.conn[c].references = 0 /\ G.conn[c].st = "FINISHED"
      BY <1>2, <3>7
    <3> HIDE DEF file
    <3> QED
      BY <1>4, <2>2, <3>6, <3>7, <3>8, <3>10, <3>11
  <2>3. CASE ~file
    <3>1. G = F
      BY <2>3
    <3>2. F.conn[c].references = 0 /\ F.conn[c].st = "FINISHED"
      BY <1>2, <1>3, <2>1, <2>3
    <3> HIDE DEF F, G
    <3> QED
      BY <1>4, <2>1, <2>3, <3>1, <3>2 DEF States, Handled
  <2> QED
    BY <2>2, <2>3
<1>8. /\ H \in States
      /\ H.items = [G.items EXCEPT ![q.connection_fd] = Unused]
      /\ H.kernel = [G.kernel EXCEPT ![q.connection_fd] = Closed]
      /\ H.conn = [G.conn EXCEPT ![c] = Blank]
      /\ H.current = Decreased(current)
      /\ Registered(G, q.connection_fd)
  <2>1. G.items[q.connection_fd].conn = c
    BY <1>3, <1>7 DEF Handled
  <2>2. G \in States /\ G.conn[c].references = 0 /\ G.current = current
    BY <1>7
  <2>3. H = Unregister(G, q.connection_fd)
    OBVIOUS
  <2> HIDE DEF G, H
  <2>4. Registered(G, q.connection_fd)
    BY <1>3, <1>6, <2>1 DEF Registered
  <2> QED
    <3>1. Without(G, H, q.connection_fd, c)
      BY <1>3, <1>6, <2>1, <2>2, <2>3, UnregisterIs
    <3> QED
      BY <2>4, <2>2, <3>1 DEF Without
<1>9. Become(H) /\ UNCHANGED server
  <2>1. G.conn[c] # Blank
    BY <1>7 DEF Blank
  <2> QED
    BY <1>1, <1>7, <1>8, <2>1 DEF Finish
<1>10. Gone(c)
  <2> HIDE DEF G, H, file
  <2>1. items' = [f \in Fd |-> IF items[f].conn = c THEN Unused ELSE items[f]]
    BY <1>3, <1>7, <1>8, <1>9 DEF Become, Handled, Descriptors
  <2>2. kernel' = [f \in Fd |-> IF items[f].conn = c THEN Closed ELSE kernel[f]]
    BY <1>3, <1>7, <1>8, <1>9 DEF Become, Handled, Descriptors
  <2>3. conn' = [conn EXCEPT ![c] = Blank]
    BY <1>7, <1>8, <1>9 DEF Become, Working, IInv, TypeOK, States
  <2> QED
    BY <1>8, <1>9, <2>1, <2>2, <2>3 DEF Become, Gone
<1> QED
  BY <1>5, <1>10

\* The end of a session keeps the invariant.
LEMMA GoneClean ==
  ASSUME NEW c, Working(c), Gone(c), NEW q, q.st \notin {"UNUSED", "FINISHED"},
         NEW lg, LoggedOK(lg), Covered(c, q, lg), logged' = Released(q, lg)
  PROVE  KeptBy(c)
<1>1. c \in Conn /\ c # NoConn
  BY ConstantsAssumption DEF Working, ConstantsAssumption
<1>2. conn'[c] = Blank /\ \A d \in Conn \ {c} : conn'[d] = conn[d]
  BY DEF Gone, Working, IInv, TypeOK
<1>3. SameElsewhere(c)
  BY <1>1, <1>2 DEF SameElsewhere, Gone, Unused
<1>4. \A d \in Conn : Orderly(conn[d])'
  BY <1>2 DEF Orderly, Working, CleanInv
<1>5. \A f \in Fd : Tracked(f)'
  BY <1>1 DEF Working, CleanInv, Tracked, Gone, Unused
<1>6. \A d \in Conn : Whole(d)'
  <2>1. \A d \in Conn \ {c} : Whole(d)'
    BY <1>3, ElsewhereWhole DEF Working, CleanInv, Running, Closing
  <2>2. Whole(c)'
    BY <1>1, <1>2 DEF Whole, Blank, Gone, Unused
  <2> QED
    BY <2>1, <2>2
<1>7. \A d \in Conn : Control(d)'
  <2>1. \A d \in Conn \ {c} : Control(d)'
    BY <1>3, ElsewhereControl DEF Working, CleanInv, Running, Closing
  <2>2. Control(c)'
    BY <1>2 DEF Control, Blank
  <2> QED
    BY <2>1, <2>2
<1>8. LocksHeld'
  <2>1. \A u \in User : logged'[u] => lg[u] /\ ~(Locks(q) /\ q.user_s = u)
    BY DEF Released, LoggedOK, Locks
  <2>2. Covered(c, conn'[c], logged')
    BY <2>1 DEF Covered
  <2> QED
    BY <1>1, <1>3, <2>2, ElsewhereHeld
<1>9. server' = "running"
  BY DEF Gone, Working, Running
<1>10. Waits(conn[c], conn'[c])
  BY <1>2 DEF Waits, Blank
<1> QED
  BY <1>3, <1>4, <1>5, <1>6, <1>7, <1>8, <1>9, <1>10
  DEF CleanInv, Closing, KeptBy

\* finish_connection keeps the invariant.
LEMMA FinishClean ==
  ASSUME NEW c, Working(c), NEW q, NEW S, Handled(c, q, S),
         NEW lg, LoggedOK(lg), Covered(c, q, lg), Finish(c, S, lg)
  PROVE  KeptBy(c)
<1>1. Gone(c) /\ logged' = Released(q, lg)
  BY FinishIs
<1>2. q.st \notin {"UNUSED", "FINISHED"}
  BY DEF Handled
<1> QED
  BY <1>1, <1>2, GoneClean

-----------------------------------------------------------------------------
(* Steps of a session that goes on.                                        *)

\* What is known of the session at work and its descriptors.
LEMMA WorkingFacts ==
  ASSUME NEW c, Working(c), NEW p, p = conn[c]
  PROVE  /\ c \in Conn /\ c # NoConn
         /\ p \in Sound /\ Orderly(p) /\ p # Blank /\ p.st \notin {"UNUSED", "FINISHED"}
         /\ p.connection_fd \in Fd
         /\ items[p.connection_fd].conn = c
         /\ items[p.connection_fd].interest = SocketInterest(p)
         /\ kernel[p.connection_fd].kind = "socket"
         /\ HasFile(p) => /\ p.file_fd \in Fd /\ p.file_fd # p.connection_fd
                          /\ items[p.file_fd].conn = c
                          /\ items[p.file_fd].interest = FileInterest(p)
                          /\ kernel[p.file_fd].kind = "file"
         /\ \A f \in Fd : items[f].conn = c <=> f \in Descriptors(p)
         /\ p.references = IF HasFile(p) THEN 1 ELSE 0
         /\ p.st = "PROCESSING_RESPONSE" => p.file_opened
<1>1. Whole(c) /\ Control(c) /\ Orderly(p)
  BY DEF Working, CleanInv, Running, Closing
<1>2. c \in Conn /\ c # NoConn /\ p \in Sound /\ p.st # "UNUSED" /\ p # Blank
  BY ConstantsAssumption DEF Working, ConstantsAssumption, IInv, States, Here, Blank
<1>3. p.st # "FINISHED"
  BY <1>1, <1>2 DEF Orderly
<1> QED
  BY <1>1, <1>2, <1>3 DEF Whole, Control, Descriptors

\* The selector calls a handler for the file only in PROCESSING_RESPONSE.
LEMMA ReadyWhere ==
  ASSUME NEW c, Working(c), NEW f \in Fd, Owner(f) = c, items[f].interest # "NOOP"
  PROVE  f = IF conn[c].st = "PROCESSING_RESPONSE" THEN conn[c].file_fd
                                                   ELSE conn[c].connection_fd
<1>1. f \in Descriptors(conn[c])
  BY WorkingFacts DEF Owner
<1>2. CASE f = conn[c].connection_fd
  BY <1>2, WorkingFacts DEF SocketInterest
<1>3. CASE f # conn[c].connection_fd
  BY <1>1, <1>3, WorkingFacts DEF Descriptors, FileInterest
<1> QED
  BY <1>2, <1>3

\* What the rest of a handler may make of the session of c.
Goes(c, q) ==
  /\ Orderly(q) /\ q.st # "UNUSED"
  /\ SameFiles(conn[c], q)
  /\ FileInterest(q) = FileInterest(conn[c])
  /\ q.st = "PROCESSING_RESPONSE" => q.file_opened
  /\ server' \in {"running", "exit", "assert"}
  /\ Covered(c, q, logged')
  /\ Waits(conn[c], q)

\* The interests stay.
LEMMA StayClean ==
  ASSUME NEW c, Working(c), NEW q, Goes(c, q), Become(With(Here, c, q)),
         SocketInterest(q) = SocketInterest(conn[c])
  PROVE  KeptBy(c)
<1>1. /\ conn' = [conn EXCEPT ![c] = q]
      /\ items' = items /\ kernel' = kernel /\ current' = current
  BY DEF Become, With, Here
<1>2. Becomes(c, q) /\ SameOwners(c)
  BY <1>1 DEF Working, IInv, TypeOK, Becomes, SameOwners
<1>3. Control(c)'
  BY <1>1, <1>2, WorkingFacts DEF Control, Goes, SameFiles, Becomes
<1> QED
  BY <1>1, <1>2, <1>3, UpdateClean DEF Goes

\* The interest of the socket changes with the state.
LEMMA SocketClean ==
  ASSUME NEW c, Working(c), NEW q, Goes(c, q), NEW f, f = conn[c].connection_fd,
         Become(SetInterest(With(Here, c, q), f, SocketInterest(q)))
  PROVE  KeptBy(c)
<1>1. f \in Fd /\ items[f].conn = c /\ c # NoConn
  BY WorkingFacts
<1>2. /\ conn' = [conn EXCEPT ![c] = q]
      /\ items' = [items EXCEPT ![f] = [items[f] EXCEPT !.interest = SocketInterest(q)]]
      /\ kernel' = kernel /\ current' = current
  BY <1>1 DEF Become, With, Here, SetInterest, Registered, IInv, TypeOK, Working
<1>3. Becomes(c, q)
  BY <1>2 DEF Working, IInv, TypeOK, Becomes
<1>4. /\ \A g \in Fd : items'[g].conn = items[g].conn
      /\ \A g \in Fd \ {f} : items'[g] = items[g]
      /\ items'[f].interest = SocketInterest(q)
  BY <1>1, <1>2 DEF Working, IInv, TypeOK
<1>5. Control(c)'
  BY <1>1, <1>3, <1>4, WorkingFacts DEF Control, Goes, SameFiles, Becomes
<1>6. SameOwners(c)
  BY <1>1, <1>2, <1>4 DEF SameOwners
<1> QED
  BY <1>2, <1>3, <1>5, <1>6, UpdateClean DEF Goes

\* A handler that only changed the session may end it.
LEMMA HandledHere ==
  ASSUME NEW c, Working(c), NEW q \in Sound, q.st \notin {"UNUSED", "FINISHED"},
         SameFiles(conn[c], q), Orderly(q), ~(q.file_opened /\ q.file_ended)
  PROVE  Handled(c, q, With(Here, c, q))
<1>1. With(Here, c, q) \in States
  BY WithType DEF Working, IInv
<1>2. q.file_opened => q.pop3_protocol_state = "TRANSACTION"
  BY DEF Orderly, NoAnswer, MidAnswer, Blank
<1> QED
  BY <1>1, <1>2 DEF Handled, With, Here

\* What has been sent entirely leaves an empty buffer.
LEMMA Drained ==
  ASSUME NEW limit \in Nat, NEW b \in Buffers(limit), NEW n \in Nat, n <= ReadSpace(b),
         ~CanRead(ReadAdv(b, n))
  PROVE  ReadAdv(b, n) = Fresh
  BY DEF Buffers, ReadSpace, ReadAdv, CanRead, Compact, Fresh

\* A send() leaves nothing, or has taken something.
LEMMA SentSome ==
  ASSUME NEW limit \in Nat, NEW b \in Buffers(limit), NEW n \in Nat, n <= ReadSpace(b),
         CanRead(b) => n # 0
  PROVE  ReadAdv(b, n).w = 0 \/ ReadAdv(b, n).r # 0
  BY DEF Buffers, ReadSpace, ReadAdv, CanRead, Compact

\* A session whose command has written its answer, or a part of it.
Answering(c, f, p) ==
  /\ f = conn[c].connection_fd /\ conn[c].st = "WRITING_RESPONSE"
  /\ p \in Sound /\ p.st = "WRITING_RESPONSE" /\ Orderly(p)
  /\ p.finished \/ p.multiline_state # "FIRST_LINE"
  /\ SameFiles(conn[c], p) /\ ~(p.file_opened /\ p.file_ended)

\* They agree in all but their state, their output and what they answer to.
SameAnswer(p, q) ==
  /\ q.multiline_state = p.multiline_state
  /\ q.file_opened = p.file_opened /\ q.file_ended = p.file_ended
  /\ q.file_fd = p.file_fd /\ q.info_file_buff = p.info_file_buff
  /\ q.connection_fd = p.connection_fd /\ q.references = p.references
  /\ q.pop3_protocol_state = p.pop3_protocol_state /\ q.user_s = p.user_s

\* They have the same files.
LEMMA SameAnswerFiles ==
  ASSUME NEW p, NEW q, NEW x, SameAnswer(p, q), SameFiles(x, p)
  PROVE  SameFiles(x, q)
  BY DEF SameAnswer, SameFiles, HasFile

\* They have the same maildrop.
LEMMA SameAnswerCovered ==
  ASSUME NEW p, NEW q, SameAnswer(p, q), NEW c, NEW lg, Covered(c, p, lg),
         Locks(p) => Locks(q)
  PROVE  Covered(c, q, lg)
  BY DEF SameAnswer, Covered

\* The send() of write_response.
LEMMA SendClean ==
  ASSUME NEW c, Working(c), NEW f, f \in Fd, Owner(f) = c, NEW p, Answering(c, f, p),
         NEW lg, LoggedOK(lg), Covered(c, p, lg), NEW e, Send(f, p, lg, e)
  PROVE  KeptBy(c)
<1>1. CASE Finish(c, With(Here, c, p), lg)
  <2>1. Handled(c, p, With(Here, c, p))
    BY HandledHere DEF Answering
  <2> QED
    BY <1>1, <2>1, FinishClean
<1>2. ASSUME NEW n \in Sent(f, p.info_write_buff),
             LET b       == ReadAdv(p.info_write_buff, n)
                 drained == ~CanRead(b) /\ p.finished
                 q       == [p EXCEPT !.info_write_buff = b,
                                      !.finished = p.finished /\ ~drained]
             IN  /\ \/ /\ ~drained
                       /\ Become(With(Here, c, q))
                    \/ /\ drained
                       /\ \E r \in Requests : Become(With(Here, c, Parsed(q, r)))
                    \/ /\ drained
                       /\ Become(SetInterest(With(Here, c,
                                   [q EXCEPT !.st = "READING_REQUEST"]), f, "READ"))
                 /\ errno' = e
                 /\ logged' = lg
                 /\ UNCHANGED server
      PROVE  KeptBy(c)
  <2> DEFINE b       == ReadAdv(p.info_write_buff, n)
             drained == ~CanRead(b) /\ p.finished
             q       == [p EXCEPT !.info_write_buff = b,
                                  !.finished = p.finished /\ ~drained]
             t       == [q EXCEPT !.st = "READING_REQUEST"]
  <2>1. server' = "running" /\ logged' = lg
    BY <1>2 DEF Working, Running
  <2>2. p \in Session
    BY DEF Answering, Sound
  <2>3. /\ q.st = "WRITING_RESPONSE" /\ q.info_write_buff = b
        /\ q.finished = (p.finished /\ ~drained)
        /\ q.command = p.command /\ q.arg = p.arg /\ SameAnswer(p, q)
        /\ q.st \in State
    BY <2>2 DEF Session, Answering, SameAnswer, State
  <2>4. /\ t.st = "READING_REQUEST" /\ t.info_write_buff = b /\ t.finished = q.finished
        /\ t.command = p.command /\ t.arg = p.arg /\ SameAnswer(p, t)
    BY <2>2, <2>3 DEF Session, SameAnswer
  <2>5. b.w <= ReplyLen \/ b.r # 0
    <3>1. /\ WriteLimit \in Nat /\ p.info_write_buff \in Buffers(WriteLimit)
          /\ n \in Nat /\ n <= ReadSpace(p.info_write_buff)
          /\ CanRead(p.info_write_buff) => n # 0
      BY <2>2, ConstantsAssumption
      DEF ConstantsAssumption, Session, Sent, ReadSpace, CanRead, Buffers
    <3>2. b.w = 0 \/ b.r # 0
      BY <3>1, SentSome
    <3>3. 0 <= ReplyLen
      BY ConstantsAssumption DEF ConstantsAssumption
    <3> QED
      BY <3>2, <3>3
  <2>6. ASSUME NEW r \in Requests
        PROVE  LET u == Parsed(q, r)
               IN  /\ u.st = "WRITING_RESPONSE" /\ u.info_write_buff = b
                   /\ u.finished = q.finished /\ SameAnswer(p, u)
                   /\ u.pop3_protocol_state = "AUTHORIZATION"
                        => u.command \in {"QUIT", "USER", "PASS", "CAPA", "ERROR_COMMAND"}
    BY <2>2, <2>3 DEF Session, SameAnswer, Parsed, Accepted
  <2>7. drained => b = Fresh
    <3>1. /\ WriteLimit \in Nat /\ p.info_write_buff \in Buffers(WriteLimit)
          /\ n \in Nat /\ n <= ReadSpace(p.info_write_buff)
      BY <2>2, ConstantsAssumption
      DEF ConstantsAssumption, Session, Sent, ReadSpace, CanRead, Buffers
    <3> QED
      BY <3>1, Drained
  <2>8. \/ ~drained /\ Become(With(Here, c, q))
        \/ drained /\ \E r \in Requests : Become(With(Here, c, Parsed(q, r)))
        \/ drained /\ Become(SetInterest(With(Here, c, t), f, "READ"))
    BY <1>2
  <2>9. drained => p.multiline_state = "FIRST_LINE" /\ NoAnswer(p)
    BY DEF Answering, Orderly, Blank
  <2>10. p # Blank /\ p.finished \in BOOLEAN
    BY <2>2 DEF Answering, Blank, Session
  <2> HIDE DEF b, q, t
  <2>11. ASSUME NEW u, SameAnswer(p, u), u.st \in {"WRITING_RESPONSE", "READING_REQUEST"},
               Orderly(u), u.info_write_buff = b
        PROVE  Goes(c, u)
    <3>1. SameFiles(conn[c], u)
      BY <2>11, SameAnswerFiles DEF Answering
    <3>2. Covered(c, u, lg)
      BY <2>11, SameAnswerCovered DEF Locks, SameAnswer
    <3>3. Waits(conn[c], u)
      BY <2>5, <2>11 DEF Waits
    <3> QED
      BY <2>1, <2>11, <3>1, <3>2, <3>3 DEF Goes, FileInterest, Answering
  <2>12. ASSUME NEW u, SameAnswer(p, u), u.st \in {"WRITING_RESPONSE", "READING_REQUEST"},
               drained, u.info_write_buff = b, ~u.finished,
               u.st = "WRITING_RESPONSE" /\ u.pop3_protocol_state = "AUTHORIZATION"
                 => u.command \in {"QUIT", "USER", "PASS", "CAPA", "ERROR_COMMAND"}
        PROVE  Orderly(u)
    BY <2>7, <2>12, <2>9 DEF Orderly, NoAnswer, SameAnswer
  <2>13. CASE ~drained /\ Become(With(Here, c, q))
    <3>1. q.finished = p.finished
      BY <2>3, <2>10, <2>13
    <3>2. Orderly(q)
      BY <2>3, <2>10, <3>1 DEF Answering, Orderly, SameAnswer, NoAnswer, MidAnswer
    <3> QED
      BY <2>3, <2>11, <2>13, <3>2, StayClean DEF SocketInterest, Answering
  <2>14. ASSUME drained, NEW r \in Requests, Become(With(Here, c, Parsed(q, r)))
         PROVE  KeptBy(c)
    <3> DEFINE u == Parsed(q, r)
    <3>1. /\ u.st = "WRITING_RESPONSE" /\ u.info_write_buff = b
          /\ u.finished = q.finished /\ SameAnswer(p, u)
          /\ u.pop3_protocol_state = "AUTHORIZATION"
               => u.command \in {"QUIT", "USER", "PASS", "CAPA", "ERROR_COMMAND"}
      BY <2>6
    <3> HIDE DEF u
    <3>2. Goes(c, u)
      BY <2>3, <2>11, <2>12, <2>14, <3>1
    <3>3. Become(With(Here, c, u))
      BY <2>14 DEF u
    <3> QED
      BY <3>1, <3>2, <3>3, StayClean DEF SocketInterest, Answering
  <2>15. CASE drained /\ Become(SetInterest(With(Here, c, t), f, "READ"))
    <3>1. Goes(c, t)
      BY <2>3, <2>4, <2>11, <2>12, <2>15
    <3> QED
      BY <2>4, <2>15, <3>1, SocketClean DEF SocketInterest, Answering
  <2> QED
    BY <2>8, <2>13, <2>14, <2>15
<1> QED
  BY <1>1, <1>2 DEF Send

\* The session that a handler ends after it suspended its socket.
LEMMA LeaveClean ==
  ASSUME NEW c, Working(c), NEW f, f \in Fd, Owner(f) = c,
         NEW p \in Sound, p.st \notin {"UNUSED", "FINISHED"}, Orderly(p),
         SameFiles(conn[c], p), ~(p.file_opened /\ p.file_ended),
         NEW lg, LoggedOK(lg), Covered(c, p, lg), NEW e, Leave(f, p, lg, e)
  PROVE  KeptBy(c)
<1> DEFINE S == With(Here, c, p)
           T == Suspend(S, f)
<1>1. Handled(c, p, S)
  BY HandledHere
<1>2. /\ S.items[f].conn = c /\ c # NoConn
      /\ S.items = items /\ S.kernel = kernel
  BY WorkingFacts DEF Owner, With, Here
<1>3. T = [S EXCEPT !.items[f].interest = "NOOP"] /\ S \in States
  BY <1>1, <1>2 DEF Suspend, SetInterest, Registered, Handled
<1> HIDE DEF S
<1>4. T \in States
  BY <1>3, SetInterestType DEF Suspend, Interest
<1>5. /\ T.conn = S.conn /\ T.kernel = S.kernel /\ T.current = S.current
      /\ \A g \in Fd : T.items[g].conn = S.items[g].conn
      /\ \A g \in Fd \ {f} : T.items[g] = S.items[g]
  BY <1>3 DEF States
<1> HIDE DEF T
<1>6. Handled(c, p, T)
  BY <1>1, <1>2, <1>4, <1>5 DEF Handled, Owner
<1>7. Finish(c, T, lg)
  BY DEF Leave, T, S
<1> QED
  BY <1>6, <1>7, FinishClean

-----------------------------------------------------------------------------
(* Commands that answer with one line.                                     *)

\* Whoever is marked as logged in has a session.
LEMMA CoveredHere ==
  ASSUME NEW c, Working(c), NEW q,
         Locks(conn[c]) => Locks(q) /\ q.user_s = conn[c].user_s
  PROVE  Covered(c, q, logged)
<1> SUFFICES ASSUME NEW u \in User, logged[u]
             PROVE  \/ \E d \in Conn \ {c} : Holds(d, u)
                    \/ Locks(q) /\ q.user_s = u
  BY DEF Covered
<1>1. PICK d \in Conn : Holds(d, u)
  BY DEF Working, CleanInv, LocksHeld
<1>2. CASE d = c
  BY <1>1, <1>2 DEF Holds, Alive, Locks
<1>3. CASE d # c
  BY <1>1, <1>3
<1> QED
  BY <1>2, <1>3

\* A command is executed for the socket of its session.
LEMMA ExecutingFacts ==
  ASSUME NEW c, Working(c), NEW f \in Fd, Owner(f) = c, NEW k, Executing(f, k)
  PROVE  /\ f = conn[c].connection_fd
         /\ conn[c].st = "WRITING_RESPONSE" /\ ~conn[c].finished /\ conn[c].command = k
         /\ k \notin {"LIST", "RETR"} => conn[c].multiline_state = "FIRST_LINE"
<1>1. /\ conn[c].st = "WRITING_RESPONSE" /\ ~conn[c].finished /\ conn[c].command = k
      /\ items[f].interest = "WRITE"
  BY DEF Executing, Ready
<1>2. f = conn[c].connection_fd
  BY <1>1, ReadyWhere
<1>3. k \notin {"LIST", "RETR"} => conn[c].multiline_state = "FIRST_LINE"
  BY <1>1, WorkingFacts DEF Orderly, MidAnswer
<1> QED
  BY <1>1, <1>2, <1>3

\* What a session x may have become whose answer has not started.
Begins(x, q) ==
  /\ q \in Session /\ q.st = x.st /\ q.command = x.command /\ q.arg = x.arg
  /\ q.finished = x.finished
  /\ q.multiline_state = "FIRST_LINE" /\ ~q.file_opened /\ ~q.file_ended
  /\ q.info_file_buff = x.info_file_buff /\ q.info_write_buff = x.info_write_buff
  /\ q.connection_fd = x.connection_fd /\ q.references = x.references

\* The same for a session that does not leave TRANSACTION.
Starts(x, q) ==
  /\ q \in Sound /\ Begins(x, q)
  /\ q.pop3_protocol_state \in {x.pop3_protocol_state, "TRANSACTION"}

\* What finds no file, and no file it forgot.
LEMMA StartsFirst ==
  ASSUME NEW c, Working(c), NEW x, x = conn[c], x.st = "WRITING_RESPONSE", ~x.finished,
         x.multiline_state = "FIRST_LINE"
  PROVE  /\ x.info_write_buff = Fresh /\ NoAnswer(x)
         /\ Starts(x, x) /\ Starts(x, ResetStructures(x))
<1>1. Orderly(x) /\ x # Blank /\ x \in Sound
  BY WorkingFacts
<1>2. x.info_write_buff = Fresh /\ NoAnswer(x)
  BY <1>1 DEF Orderly
<1>3. ResetStructures(x) \in Sound
  BY <1>1, ResetType
<1>4. Starts(x, ResetStructures(x))
  BY <1>1, <1>2, <1>3 DEF ResetStructures, Starts, Begins, Sound, Session
<1> QED
  BY <1>1, <1>2, <1>4 DEF Starts, Begins, NoAnswer, Sound

\* The reply fits, and its session is in order.
LEMMA ReplyClean ==
  ASSUME NEW c, Working(c), NEW f, f \in Fd, Owner(f) = c, f = conn[c].connection_fd,
         NEW x, x = conn[c], x.st = "WRITING_RESPONSE", ~x.finished,
         x.multiline_state = "FIRST_LINE",
         NEW p, Starts(x, p), NEW q, Starts(x, q),
         NEW lg, LoggedOK(lg), Covered(c, q, lg), NEW e, Reply(f, p, q, lg, e)
  PROVE  KeptBy(c)
<1> DEFINE w == Wrote(q, ReplyLen)
           t == [w EXCEPT !.finished = TRUE]
<1>1. x.info_write_buff = Fresh /\ NoAnswer(x) /\ Orderly(x)
  BY StartsFirst, WorkingFacts
<1>2. Fits(p, ReplyLen) /\ Fits(q, ReplyLen) /\ ReplyLen \in Nat
  BY <1>1, ConstantsAssumption DEF ConstantsAssumption, Fits, Starts, Begins, WriteSpace, Fresh
<1>3. Send(f, t, lg, e)
  BY <1>2 DEF Reply
<1>4. w \in Sound /\ w.command = q.command /\ w.arg = q.arg /\ SameAnswer(q, w) /\ w.st = q.st
  <2>1. w \in Sound /\ q \in Sound
    BY <1>2, WroteType DEF Starts, Begins
  <2> QED
    BY <2>1 DEF Wrote, Sound, Session, SameAnswer
<1> HIDE DEF w
<1>5. /\ t \in Sound /\ t.command = q.command /\ t.arg = q.arg /\ SameAnswer(q, t)
      /\ t.st = q.st /\ t.finished
  <2>1. t \in Sound
    BY <1>4, FinishedReply
  <2> QED
    BY <1>4, <2>1 DEF Sound, Session, SameAnswer
<1> HIDE DEF t
<1>6. Orderly(t)
  <2>1. x # Blank
    BY DEF Blank
  <2> QED
    BY <1>1, <1>5, <2>1 DEF Orderly, NoAnswer, SameAnswer, Starts, Begins
<1>7. SameFiles(x, t)
  BY <1>1, <1>5 DEF SameFiles, Starts, Begins, NoAnswer, SameAnswer, HasFile
<1>8. Answering(c, f, t)
  BY <1>5, <1>6, <1>7 DEF Answering, Starts, Begins, SameAnswer
<1>9. Covered(c, t, lg)
  BY <1>5, SameAnswerCovered DEF Locks, SameAnswer
<1> QED
  BY <1>3, <1>8, <1>9, SendClean

\* The commands that only answer, PASS with a wrong word among them.
LEMMA StatClean ==
  ASSUME NEW c, Working(c), NEW f \in Fd, Owner(f) = c,
         NEW k \in {"STAT", "NOOP", "CAPA", "ERROR_COMMAND", "PASS"},
         Executing(f, k), ReplyOnly(f)
  PROVE  KeptBy(c)
<1> DEFINE x == conn[c]
<1>1. /\ f = conn[c].connection_fd
      /\ x.st = "WRITING_RESPONSE" /\ ~x.finished /\ x.multiline_state = "FIRST_LINE"
  BY ExecutingFacts
<1>2. Reply(f, x, x, logged, errno)
  BY DEF ReplyOnly
<1>3. LoggedOK(logged) /\ Covered(c, x, logged)
  BY CoveredHere DEF Working, IInv, TypeOK, LoggedOK
<1>4. Starts(x, x)
  BY <1>1, StartsFirst
<1> HIDE DEF x
<1> QED
  BY <1>1, <1>2, <1>3, <1>4, ReplyClean DEF x

\* USER names the user of a session that has no maildrop.
LEMMA UserClean ==
  ASSUME NEW c, Working(c), NEW f \in Fd, Owner(f) = c, UserAction(f)
  PROVE  KeptBy(c)
<1> DEFINE x == conn[c]
           q == IF x.arg \in User THEN [x EXCEPT !.user_s = x.arg] ELSE x
<1>1. /\ f = conn[c].connection_fd /\ x.command = "USER"
      /\ x.st = "WRITING_RESPONSE" /\ ~x.finished /\ x.multiline_state = "FIRST_LINE"
  BY ExecutingFacts DEF UserAction
<1>2. Reply(f, q, q, logged, errno)
  BY DEF UserAction
<1>3. x \in Sound /\ Starts(x, x)
  BY <1>1, StartsFirst DEF Starts, Begins
<1>4. Starts(x, q) /\ q \in Sound
  <2>1. q \in Sound
    BY <1>3 DEF Sound, Session
  <2> QED
    BY <1>3, <2>1 DEF Starts, Begins, Sound, Session
<1>5. ~Locks(x)
  BY <1>1, <1>3 DEF Sound, Locks
<1>6. LoggedOK(logged) /\ Covered(c, q, logged)
  BY <1>5, CoveredHere DEF Working, IInv, TypeOK, LoggedOK
<1> HIDE DEF x, q
<1> QED
  BY <1>1, <1>2, <1>4, <1>6, ReplyClean DEF x

\* DELE marks a mail, which no other session and no descriptor knows.
LEMMA DeleClean ==
  ASSUME NEW c, Working(c), NEW f \in Fd, Owner(f) = c, DeleAction(f)
  PROVE  KeptBy(c)
<1> DEFINE x == conn[c]
           q == IF Parse(x.arg) \notin BadNumber /\ x.arg \in Present(x)
                THEN [x EXCEPT !.deleted = @ \cup {x.arg}] ELSE x
<1>1. /\ f = conn[c].connection_fd /\ x.command = "DELE"
      /\ x.st = "WRITING_RESPONSE" /\ ~x.finished /\ x.multiline_state = "FIRST_LINE"
  BY ExecutingFacts DEF DeleAction
<1>2. Reply(f, q, q, logged, Parse(x.arg))
  BY DEF DeleAction
<1>3. x \in Sound /\ Starts(x, x) /\ x # Blank /\ Orderly(x)
  BY <1>1, StartsFirst, WorkingFacts DEF Starts, Begins
<1>4. Starts(x, q) /\ Locks(q) = Locks(x) /\ q.user_s = x.user_s
  <2>1. x.pop3_protocol_state # "AUTHORIZATION"
    BY <1>1, <1>3 DEF Orderly
  <2>2. q \in Sound
    BY <1>3, <2>1 DEF Sound, Session, Present
  <2> QED
    BY <1>3, <2>2 DEF Starts, Begins, Sound, Session, Locks
<1>5. LoggedOK(logged) /\ Covered(c, q, logged)
  BY <1>4, CoveredHere DEF Working, IInv, TypeOK, LoggedOK
<1> HIDE DEF x, q
<1> QED
  BY <1>1, <1>2, <1>4, <1>5, ReplyClean DEF x

\* RSET takes the marks away.
LEMMA RsetClean ==
  ASSUME NEW c, Working(c), NEW f \in Fd, Owner(f) = c, RsetAction(f)
  PROVE  KeptBy(c)
<1> DEFINE x == conn[c]
           q == [x EXCEPT !.deleted = {}]
<1>1. /\ f = conn[c].connection_fd
      /\ x.st = "WRITING_RESPONSE" /\ ~x.finished /\ x.multiline_state = "FIRST_LINE"
  BY ExecutingFacts DEF RsetAction
<1>2. Reply(f, q, q, logged, errno)
  BY DEF RsetAction
<1>3. x \in Sound /\ Starts(x, x)
  BY <1>1, StartsFirst DEF Starts, Begins
<1>4. Starts(x, q) /\ Locks(q) = Locks(x) /\ q.user_s = x.user_s
  <2>1. q \in Sound
    BY <1>3 DEF Sound, Session
  <2> QED
    BY <1>3, <2>1 DEF Starts, Begins, Sound, Session, Locks
<1>5. LoggedOK(logged) /\ Covered(c, q, logged)
  BY <1>4, CoveredHere DEF Working, IInv, TypeOK, LoggedOK
<1> HIDE DEF x, q
<1> QED
  BY <1>1, <1>2, <1>4, <1>5, ReplyClean DEF x

\* LIST n answers with one line and resets the answer.
LEMMA ListOneClean ==
  ASSUME NEW c, Working(c), NEW f \in Fd, Owner(f) = c, ListOne(f)
  PROVE  KeptBy(c)
<1> DEFINE x == conn[c]
           q == ResetStructures(x)
<1>1. /\ f = conn[c].connection_fd /\ x.command = "LIST"
      /\ x.st = "WRITING_RESPONSE" /\ ~x.finished
  BY ExecutingFacts DEF ListOne
<1>2. Reply(f, x, q, logged, Parse(x.arg)) /\ x.arg # NoArg
  BY DEF ListOne
<1>3. x.multiline_state = "FIRST_LINE"
  BY <1>1, <1>2, WorkingFacts DEF Orderly, MidAnswer
<1>4. Starts(x, x) /\ Starts(x, q)
  BY <1>1, <1>3, StartsFirst
<1>5. Locks(q) = Locks(x) /\ q.user_s = x.user_s
  BY <1>4 DEF ResetStructures, Starts, Begins, Sound, Session, Locks
<1>6. LoggedOK(logged) /\ Covered(c, q, logged)
  BY <1>5, CoveredHere DEF Working, IInv, TypeOK, LoggedOK
<1> HIDE DEF x, q
<1> QED
  BY <1>1, <1>2, <1>3, <1>4, <1>6, ReplyClean DEF x

\* The number of a message is only judged before the file is opened.
LEMMA RetrErrorClean ==
  ASSUME NEW c, Working(c), NumbersParse, NEW f \in Fd, Owner(f) = c, RetrError(f)
  PROVE  KeptBy(c)
<1> DEFINE x == conn[c]
           q == ResetStructures(x)
<1>1. /\ f = conn[c].connection_fd /\ x.command = "RETR"
      /\ x.st = "WRITING_RESPONSE" /\ ~x.finished
  BY ExecutingFacts DEF RetrError
<1>2. /\ Reply(f, x, q, logged, Parse(x.arg))
      /\ Parse(x.arg) \in BadNumber \/ x.multiline_state = "FIRST_LINE"
  BY DEF RetrError
<1>3. x.multiline_state = "FIRST_LINE"
  <2> SUFFICES ASSUME x.multiline_state # "FIRST_LINE" PROVE FALSE
    OBVIOUS
  <2>1. x.file_opened /\ x.arg # Huge
    BY <1>1, WorkingFacts DEF Orderly, MidAnswer
  <2> QED
    BY <1>2, <2>1 DEF Parse, NumbersParse, Working
<1>4. Starts(x, x) /\ Starts(x, q)
  BY <1>1, <1>3, StartsFirst
<1>5. Locks(q) = Locks(x) /\ q.user_s = x.user_s
  BY <1>4 DEF ResetStructures, Starts, Begins, Sound, Session, Locks
<1>6. LoggedOK(logged) /\ Covered(c, q, logged)
  BY <1>5, CoveredHere DEF Working, IInv, TypeOK, LoggedOK
<1> HIDE DEF x, q
<1> QED
  BY <1>1, <1>2, <1>3, <1>4, <1>6, ReplyClean DEF x

\* A session that is to be closed after its last line, with nothing of a file.
LEMMA ErrorClean ==
  ASSUME NEW c, Working(c), NEW x, x = conn[c], x.st = "WRITING_RESPONSE", ~x.finished,
         x.multiline_state = "FIRST_LINE",
         NEW q, Begins(x, q), Become(ToError(With(Here, c, q), c)),
         Covered(c, [q EXCEPT !.st = "ERROR"], logged'), UNCHANGED server
  PROVE  KeptBy(c)
<1> DEFINE t == [q EXCEPT !.st = "ERROR"]
<1>1. NoAnswer(x) /\ Orderly(x) /\ x # Blank /\ c \in Conn
  BY StartsFirst, WorkingFacts
<1>2. /\ t.st = "ERROR" /\ t.finished = x.finished /\ t.multiline_state = "FIRST_LINE"
      /\ t.arg = x.arg
      /\ ~t.file_opened /\ ~t.file_ended /\ t.info_file_buff = x.info_file_buff
      /\ t.connection_fd = x.connection_fd /\ t.references = x.references
  BY DEF Begins, Session
<1>3. ToError(With(Here, c, q), c) = With(Here, c, t)
  BY <1>1 DEF ToError, With, Here, Working, IInv, TypeOK
<1> HIDE DEF t
<1>4. Orderly(t)
  BY <1>1, <1>2 DEF Orderly, NoAnswer
<1>5. SameFiles(x, t)
  BY <1>1, <1>2 DEF SameFiles, NoAnswer, HasFile
<1>6. Goes(c, t)
  BY <1>2, <1>4, <1>5 DEF Goes, FileInterest, Working, Running, Waits, t
<1> QED
  BY <1>2, <1>3, <1>6, StayClean DEF SocketInterest

\* PASS gives the maildrop to the session, or makes it end with an error.
LEMMA PassClean ==
  ASSUME NEW c, Working(c), NEW f \in Fd, Owner(f) = c, PassAction(f)
  PROVE  KeptBy(c)
<1> DEFINE x  == conn[c]
           u  == x.user_s
           lg == [logged EXCEPT ![u] = TRUE]
           q  == [x EXCEPT !.pop3_protocol_state = "TRANSACTION"]
<1>1. Executing(f, "PASS")
  BY DEF PassAction
<1>2. /\ f = conn[c].connection_fd /\ x.command = "PASS" /\ c \in Conn
      /\ x.st = "WRITING_RESPONSE" /\ ~x.finished /\ x.multiline_state = "FIRST_LINE"
  BY <1>1, ExecutingFacts DEF Working
<1>3. x \in Sound /\ Starts(x, x)
  BY <1>2, StartsFirst DEF Starts, Begins
<1>4. CASE ReplyOnly(f)
  BY <1>1, <1>4, StatClean
<1>5. Starts(x, q) /\ q \in Sound /\ q.user_s = u /\ q.pop3_protocol_state = "TRANSACTION"
      /\ q.st = "WRITING_RESPONSE" /\ q.finished = x.finished
  <2>1. q \in Sound
    BY <1>2, <1>3 DEF Sound, Session
  <2> QED
    BY <1>2, <1>3, <2>1 DEF Starts, Begins, Sound, Session
<1>6. ASSUME Granted(x), NEW t, Locks(t), t.user_s = u
      PROVE  LoggedOK(lg) /\ Covered(c, t, lg)
  <2>1. u \in User /\ ~logged[u]
    BY <1>3, <1>6 DEF Granted, Sound, Session
  <2>2. ~Locks(x)
    BY <2>1, <1>2 DEF Working, IInv, LockOK
  <2>3. LoggedOK(lg) /\ \A v \in User : lg[v] => v = u \/ logged[v]
    BY <2>1 DEF Working, IInv, TypeOK, LoggedOK
  <2>4. Covered(c, t, logged)
    BY <2>2, CoveredHere
  <2> QED
    BY <1>6, <2>3, <2>4 DEF Covered
<1>7. CASE /\ Granted(x)
           /\ Become(ToError(With(Here, c, q), c))
           /\ logged' = lg
           /\ UNCHANGED server
  <2> DEFINE t == [q EXCEPT !.st = "ERROR"]
  <2>1. Locks(t) /\ t.user_s = u
    BY <1>5 DEF Locks, Sound, Session
  <2> HIDE DEF t
  <2>2. Covered(c, t, logged')
    BY <1>6, <1>7, <2>1
  <2> HIDE DEF x, q, lg, u
  <2> QED
    BY <1>2, <1>5, <1>7, <2>2, ErrorClean DEF x, t, Starts
<1>8. ASSUME Granted(x), NEW listing \in Listings(maildrop[u]),
             LET r == [q EXCEPT !.emails = listing]
             IN  Reply(f, r, ResetStructures(r), lg, errno)
      PROVE  KeptBy(c)
  <2> DEFINE r == [q EXCEPT !.emails = listing]
             z == ResetStructures(r)
  <2>1. listing \subseteq Mail
    <3>1. u \in User
      BY <1>3, <1>8 DEF Granted, Sound, Session
    <3>2. maildrop[u] \subseteq Mail
      BY <3>1 DEF Working, IInv, TypeOK
    <3> QED
      BY <3>2, <1>8 DEF Listings, kSubset
  <2>2. /\ r \in Sound /\ r.user_s = u /\ r.st = "WRITING_RESPONSE"
        /\ r.pop3_protocol_state = "TRANSACTION" /\ Starts(x, r)
    <3>1. r \in Sound
      BY <1>5, <2>1 DEF Sound, Session
    <3> QED
      BY <1>5, <3>1 DEF Starts, Begins, Sound, Session
  <2> HIDE DEF r, q
  <2>3. z \in Sound
    BY <2>2, ResetType
  <2>4. Starts(x, z) /\ Locks(z) /\ z.user_s = u
    BY <2>2, <2>3 DEF ResetStructures, Starts, Begins, Sound, Session, Locks
  <2>5. Reply(f, r, z, lg, errno)
    BY <1>8 DEF r, q
  <2> HIDE DEF z
  <2>6. LoggedOK(lg) /\ Covered(c, z, lg)
    BY <1>6, <1>8, <2>4
  <2> HIDE DEF x, lg, u
  <2> QED
    BY <1>2, <2>2, <2>4, <2>5, <2>6, ReplyClean DEF x
<1> QED
  BY <1>4, <1>7, <1>8 DEF PassAction

-----------------------------------------------------------------------------
(* Answers of several lines.                                               *)

\* They also agree in what they answer to.
SameShape(x, p) ==
  /\ SameAnswer(x, p)
  /\ p.st = x.st /\ p.command = x.command /\ p.arg = x.arg /\ p.finished = x.finished

\* What is written to the output buffer changes the buffer alone.
LEMMA WroteShape ==
  ASSUME NEW x, NEW p \in Sound, SameShape(x, p), NEW n \in Nat, Fits(p, n)
  PROVE  Wrote(p, n) \in Sound /\ SameShape(x, Wrote(p, n))
<1>1. Wrote(p, n) \in Sound
  BY WroteType
<1> QED
  BY <1>1 DEF Wrote, Sound, Session, SameShape, SameAnswer

\* The last part of an answer.
LEMMA EndClean ==
  ASSUME NEW c, Working(c), NEW f, f \in Fd, Owner(f) = c, f = conn[c].connection_fd,
         NEW x, x = conn[c], x.st = "WRITING_RESPONSE", ~HasFile(x),
         NEW p \in Sound, SameShape(x, p), p.info_file_buff = Fresh,
         NEW n \in Nat, Fits(p, n), NEW e,
         Send(f, [ResetStructures(Wrote(p, n)) EXCEPT !.finished = TRUE], logged, e)
  PROVE  KeptBy(c)
<1> DEFINE w == Wrote(p, n)
           r == ResetStructures(w)
           t == [r EXCEPT !.finished = TRUE]
<1>1. w \in Sound /\ SameShape(x, w)
  BY WroteShape
<1>2. w.info_file_buff = Fresh
  BY <1>1 DEF SameShape, SameAnswer
<1> HIDE DEF w
<1>3. t \in Sound
  BY <1>1, ResetType, FinishedReply
<1>4. /\ t.st = x.st /\ t.command = x.command /\ t.arg = x.arg /\ t.finished
      /\ t.multiline_state = "FIRST_LINE" /\ ~t.file_opened /\ ~t.file_ended
      /\ t.info_file_buff = Fresh
      /\ t.connection_fd = x.connection_fd /\ t.references = x.references
      /\ t.pop3_protocol_state = x.pop3_protocol_state /\ t.user_s = x.user_s
  BY <1>1, <1>2 DEF ResetStructures, Sound, Session, SameShape, SameAnswer
<1> HIDE DEF t
<1>5. Orderly(t)
  <2>1. Orderly(x) /\ x # Blank
    BY WorkingFacts
  <2> QED
    BY <1>4, <2>1 DEF Orderly, NoAnswer
<1>6. Answering(c, f, t)
  BY <1>3, <1>4, <1>5 DEF Answering, SameFiles, HasFile
<1>7. LoggedOK(logged) /\ Covered(c, t, logged)
  BY <1>4, CoveredHere DEF Working, IInv, TypeOK, LoggedOK, Locks
<1> QED
  BY <1>6, <1>7, SendClean DEF t, w

\* A part of an answer that goes on.
LEMMA PartClean ==
  ASSUME NEW c, Working(c), NEW f, f \in Fd, Owner(f) = c, f = conn[c].connection_fd,
         NEW x, x = conn[c], x.st = "WRITING_RESPONSE", ~x.finished,
         NEW q \in Sound, q.st = x.st, q.finished = x.finished, q.command = x.command,
         q.pop3_protocol_state = x.pop3_protocol_state, q.user_s = x.user_s,
         MidAnswer(q), q.multiline_state # "FIRST_LINE", SameFiles(x, q), ~q.file_ended,
         NEW e, Send(f, q, logged, e)
  PROVE  KeptBy(c)
<1>1. Orderly(x) /\ x # Blank
  BY WorkingFacts
<1>2. Orderly(q)
  BY <1>1 DEF Orderly
<1>3. Answering(c, f, q)
  BY <1>2 DEF Answering
<1>4. LoggedOK(logged) /\ Covered(c, q, logged)
  BY CoveredHere DEF Working, IInv, TypeOK, LoggedOK, Locks
<1> QED
  BY <1>3, <1>4, SendClean

\* LIST goes through its three states without a file.
LEMMA ListAllClean ==
  ASSUME NEW c, Working(c), NEW f \in Fd, Owner(f) = c, ListAll(f)
  PROVE  KeptBy(c)
<1> DEFINE x     == conn[c]
           first == x.multiline_state = "FIRST_LINE"
           p1    == IF first THEN Wrote(x, ReplyLen) ELSE x
           todo  == Cardinality(Present(x)) - x.mail_index
<1>1. /\ f = conn[c].connection_fd /\ x.command = "LIST" /\ x.arg = NoArg
      /\ x.st = "WRITING_RESPONSE" /\ ~x.finished
  BY ExecutingFacts DEF ListAll
<1>2. /\ x \in Sound /\ Orderly(x) /\ x # Blank
      /\ ~x.file_opened /\ ~x.file_ended /\ x.info_file_buff = Fresh
  BY <1>1, WorkingFacts DEF Orderly, MidAnswer, NoAnswer
<1>3. first => Fits(x, ReplyLen)
  BY <1>1, <1>2, ConstantsAssumption
  DEF ConstantsAssumption, Orderly, Fits, WriteSpace, Fresh
<1>4. ASSUME NEW n \in 0..todo, Fits(p1, n * LineLen),
             LET p2 == Wrote(p1, n * LineLen)
             IN  Send(f, IF n < todo THEN [p2 EXCEPT !.multiline_state = "MULTILINE",
                                                     !.mail_index = @ + n]
                         ELSE IF Fits(p2, EndLen)
                         THEN [ResetStructures(Wrote(p2, EndLen)) EXCEPT !.finished = TRUE]
                         ELSE [p2 EXCEPT !.multiline_state = "END_LINE",
                                         !.mail_index = @ + n],
                      logged, errno)
      PROVE  KeptBy(c)
  <2>1. n \in Nat /\ {ReplyLen, LineLen, EndLen} \subseteq Nat
    <3>1. IsFiniteSet(Present(x))
      BY <1>2, ConstantsAssumption, FS_Subset
      DEF ConstantsAssumption, Present, Sound, Session
    <3>2. todo \in Int
      BY <1>2, <3>1, FS_CardinalityType DEF Sound, Session
    <3> QED
      BY <3>2, ConstantsAssumption DEF ConstantsAssumption
  <2>2. n * LineLen \in Nat
    BY <2>1
  <2>3. p1 \in Sound /\ SameShape(x, p1)
    <3>1. SameShape(x, x)
      BY DEF SameShape, SameAnswer
    <3> QED
      BY <1>2, <1>3, <2>1, <3>1, WroteShape
  <2> DEFINE p2 == Wrote(p1, n * LineLen)
             p3 == [p2 EXCEPT !.multiline_state = "MULTILINE", !.mail_index = @ + n]
             p4 == [ResetStructures(Wrote(p2, EndLen)) EXCEPT !.finished = TRUE]
             p5 == [p2 EXCEPT !.multiline_state = "END_LINE", !.mail_index = @ + n]
  <2> HIDE DEF p1
  <2>4. p2 \in Sound /\ SameShape(x, p2)
    BY <1>4, <2>2, <2>3, WroteShape
  <2>5. \/ Send(f, p3, logged, errno)
        \/ Fits(p2, EndLen) /\ Send(f, p4, logged, errno)
        \/ Send(f, p5, logged, errno)
    BY <1>4, Zenon
  <2> HIDE DEF p2
  <2>6. CASE Fits(p2, EndLen) /\ Send(f, p4, logged, errno)
    <3>1. ~HasFile(x) /\ p2.info_file_buff = Fresh /\ EndLen \in Nat
      BY <1>2, <2>1, <2>4 DEF HasFile, SameShape, SameAnswer
    <3> HIDE DEF x
    <3> QED
      BY <1>1, <2>4, <2>6, <3>1, EndClean DEF x
  <2>7. ASSUME NEW s \in {"MULTILINE", "END_LINE"},
               Send(f, [p2 EXCEPT !.multiline_state = s, !.mail_index = @ + n], logged, errno)
        PROVE  KeptBy(c)
    <3> DEFINE q == [p2 EXCEPT !.multiline_state = s, !.mail_index = @ + n]
    <3>1. q \in Sound
      BY <2>1, <2>4, ContinuedType
    <3>2. /\ q.st = x.st /\ q.finished = x.finished /\ q.command = "LIST" /\ q.arg = NoArg
          /\ q.pop3_protocol_state = x.pop3_protocol_state /\ q.user_s = x.user_s
          /\ ~q.file_opened /\ ~q.file_ended /\ q.info_file_buff = Fresh
          /\ q.connection_fd = x.connection_fd /\ q.references = x.references
          /\ q.multiline_state = s
      BY <1>1, <1>2, <2>4 DEF Sound, Session, SameShape, SameAnswer
    <3> HIDE DEF q, x
    <3>3. SameFiles(x, q) /\ MidAnswer(q)
      BY <1>1, <1>2, <3>2 DEF SameFiles, HasFile, MidAnswer
    <3> QED
      BY <1>1, <2>7, <3>1, <3>2, <3>3, PartClean DEF x, q
  <2> QED
    BY <2>5, <2>6, <2>7
<1> QED
  BY <1>3, <1>4 DEF ListAll

\* The rest of a reply that send() did not take at once.
LEMMA SendRestClean ==
  ASSUME NEW c, Working(c), NEW f \in Fd, Owner(f) = c, SendRest(f)
  PROVE  KeptBy(c)
<1> DEFINE x == conn[c]
<1>1. /\ x.st = "WRITING_RESPONSE" /\ items[f].interest = "WRITE" /\ x.finished
      /\ Send(f, x, logged, errno)
  BY DEF SendRest, Ready
<1>2. f = conn[c].connection_fd /\ x \in Sound /\ Orderly(x) /\ x # Blank
  BY <1>1, ReadyWhere, WorkingFacts
<1>3. ~(x.file_opened /\ x.file_ended)
  BY <1>1, <1>2 DEF Orderly, NoAnswer
<1>4. Answering(c, f, x)
  BY <1>1, <1>2, <1>3 DEF Answering, SameFiles
<1>5. LoggedOK(logged) /\ Covered(c, x, logged)
  BY CoveredHere DEF Working, IInv, TypeOK, LoggedOK
<1> QED
  BY <1>1, <1>4, <1>5, SendClean

-----------------------------------------------------------------------------
(* RETR.                                                                   *)

\* The socket of the session leaves the selection.
LEMMA SuspendIs ==
  ASSUME NEW c, Working(c), NEW f, f = conn[c].connection_fd, NEW q \in Sound,
         NEW S, S = Suspend(With(Here, c, q), f)
  PROVE  /\ S \in States
         /\ S.conn = [conn EXCEPT ![c] = q]
         /\ S.items = [items EXCEPT ![f] = [items[f] EXCEPT !.interest = "NOOP"]]
         /\ S.kernel = kernel /\ S.current = current
<1>1. f \in Fd /\ items[f].conn = c /\ c # NoConn /\ c \in Conn
  BY WorkingFacts
<1> DEFINE W == With(Here, c, q)
<1>2. /\ W \in States /\ W.conn = [conn EXCEPT ![c] = q] /\ W.items = items
      /\ W.kernel = kernel /\ W.current = current
  BY <1>1, WithType DEF With, Here, Working, IInv
<1> HIDE DEF W
<1>3. S \in States
  BY <1>1, <1>2, SetInterestType DEF Suspend, Interest, W
<1>4. S = [W EXCEPT !.items = [W.items EXCEPT ![f] = [W.items[f] EXCEPT !.interest = "NOOP"]]]
  BY <1>1, <1>2 DEF Suspend, SetInterest, Registered, W, States
<1> QED
  BY <1>2, <1>3, <1>4 DEF States

\* The process ends when the mail cannot be opened.
LEMMA ExitClean ==
  ASSUME NEW c, Working(c), NEW f, f = conn[c].connection_fd, NEW q \in Sound,
         Orderly(q), q.st # "UNUSED", SameFiles(conn[c], q),
         Waits(conn[c], q), Halt("exit", Suspend(With(Here, c, q), f))
  PROVE  KeptBy(c)
<1>1. /\ conn' = [conn EXCEPT ![c] = q] /\ kernel' = kernel /\ current' = current
      /\ items' = [items EXCEPT ![f] = [items[f] EXCEPT !.interest = "NOOP"]]
      /\ server' = "exit"
  BY SuspendIs DEF Halt, Become
<1>2. f \in Fd /\ items[f].conn = c
  BY WorkingFacts
<1>3. /\ \A h \in Fd : items'[h].conn = items[h].conn
      /\ \A h \in Fd \ {f} : items'[h] = items[h]
  BY <1>1, <1>2 DEF Working, IInv, TypeOK
<1>4. ~Running'
  BY <1>1 DEF Running
<1>5. Becomes(c, q) /\ SameOwners(c)
  BY <1>1, <1>2, <1>3 DEF Working, IInv, TypeOK, Becomes, SameOwners
<1> QED
  BY <1>1, <1>4, <1>5, UpdateClean

\* What process_open_file does to a session that had no file.
LEMMA OpenClean ==
  ASSUME NEW c, Working(c), AllIndexed, NEW f \in Fd, Owner(f) = c,
         f = conn[c].connection_fd, conn[c].st = "WRITING_RESPONSE",
         NEW p \in Sound, p.st = "WRITING_RESPONSE", p.command = "RETR",
         p.multiline_state = "MULTILINE", p.pop3_protocol_state = "TRANSACTION",
         p.arg # Huge, p.info_file_buff = Fresh, ~p.file_opened, ~p.file_ended,
         ~p.finished, ~HasFile(conn[c]), p.connection_fd = f,
         p.references = conn[c].references, p.info_write_buff.w = ReplyLen,
         Covered(c, p, logged), NEW e, OpenFile(f, p, e)
  PROVE  KeptBy(c)
<1> DEFINE q == [p EXCEPT !.st = "PROCESSING_RESPONSE"]
           S == Suspend(With(Here, c, q), f)
<1>1. /\ q \in Sound /\ q.st = "PROCESSING_RESPONSE" /\ q.command = "RETR"
      /\ q.multiline_state = "MULTILINE" /\ q.pop3_protocol_state = "TRANSACTION"
      /\ q.arg # Huge /\ q.info_file_buff = Fresh /\ ~q.file_opened /\ ~q.file_ended
      /\ ~q.finished /\ q.connection_fd = f /\ q.references = p.references
      /\ q.user_s = p.user_s /\ q.info_write_buff.w = ReplyLen
  <2>1. q \in Sound
    BY StateType DEF State
  <2> QED
    BY <2>1 DEF Sound, Session
<1> HIDE DEF q
<1>2. /\ S \in States
      /\ S.conn = [conn EXCEPT ![c] = q]
      /\ S.items = [items EXCEPT ![f] = [items[f] EXCEPT !.interest = "NOOP"]]
      /\ S.kernel = kernel /\ S.current = current
  BY <1>1, SuspendIs
<1> HIDE DEF S
<1>3. Covered(c, q, logged) /\ logged' = logged
  BY <1>1 DEF Covered, OpenFile, Locks
<1>4. /\ c \in Conn /\ c # NoConn /\ items[f].conn = c /\ f \in Fd /\ p.references = 0
      /\ items \in [Fd -> [conn : Conn \cup {NoConn}, interest : Interest]]
      /\ kernel[f].kind = "socket"
  <2>1. /\ c \in Conn /\ c # NoConn /\ items[f].conn = c
        /\ kernel[f].kind = "socket" /\ conn[c].references = 0
    BY WorkingFacts
  <2> QED
    BY <2>1 DEF Working, IInv, TypeOK
<1>5. CASE Halt("exit", S)
  <2>1. Orderly(q) /\ SameFiles(conn[c], q) /\ Waits(conn[c], q)
    BY <1>1 DEF Orderly, MidAnswer, SameFiles, HasFile, Waits
  <2> QED
    BY <1>1, <1>5, <2>1, ExitClean DEF S
<1>6. ASSUME NEW g \in Free, UNCHANGED server,
             LET F == [Register(S, g, c, "READ") EXCEPT
                         !.kernel[g] = [kind |-> "file", left |-> Size[p.arg]]]
             IN  Become(With(F, c, [q EXCEPT !.file_fd = g, !.file_opened = TRUE,
                                             !.references = @ + 1]))
      PROVE  KeptBy(c)
  <2> DEFINE t == [q EXCEPT !.file_fd = g, !.file_opened = TRUE, !.references = @ + 1]
  <2>1. /\ t.st = "PROCESSING_RESPONSE" /\ t.command = "RETR"
        /\ t.multiline_state = "MULTILINE" /\ t.pop3_protocol_state = "TRANSACTION"
        /\ t.arg # Huge /\ t.info_file_buff = Fresh /\ t.file_opened /\ ~t.file_ended
        /\ ~t.finished /\ t.connection_fd = f /\ t.references = 1 /\ t.file_fd = g
        /\ t.user_s = q.user_s /\ t.info_write_buff.w = ReplyLen
    BY <1>1, <1>4 DEF Sound, Session
  <2>2. g \in Fd /\ items[g].conn = NoConn /\ kernel[g].kind = "closed" /\ g # f
        /\ ~Refuses(S, g)
    <3>1. g \in Fd /\ kernel[g].kind = "closed"
      BY DEF Free
    <3>2. ~(g > ItemsMax)
      BY <3>1, ConstantsAssumption DEF Fd, AllIndexed, ConstantsAssumption
    <3>3. items[g].conn = NoConn /\ g # f
      BY <1>4, <3>1 DEF Working, CleanInv, Tracked
    <3>4. S.items[g].conn = NoConn
      BY <1>2, <1>4, <3>1, <3>3
    <3> QED
      BY <3>1, <3>2, <3>3, <3>4 DEF Refuses, Registered
  <2>3. /\ conn' = [conn EXCEPT ![c] = t] /\ current' = current
        /\ items' = [items EXCEPT ![f] = [items[f] EXCEPT !.interest = "NOOP"],
                                  ![g] = [conn |-> c, interest |-> "READ"]]
        /\ kernel' = [kernel EXCEPT ![g] = [kind |-> "file", left |-> Size[p.arg]]]
    <3>1. Register(S, g, c, "READ") =
            [S EXCEPT !.items = [S.items EXCEPT ![g] = [conn |-> c, interest |-> "READ"]]]
      BY <2>2 DEF Register, States
    <3> DEFINE R == Register(S, g, c, "READ")
               F == [R EXCEPT !.kernel[g] = [kind |-> "file", left |-> Size[p.arg]]]
    <3>2. R.kernel = S.kernel /\ R.conn = S.conn /\ R.current = S.current
          /\ R.items = [S.items EXCEPT ![g] = [conn |-> c, interest |-> "READ"]]
          /\ R \in States
      BY <1>2, <1>4, <2>2, <3>1, RegisterType DEF States, Interest
    <3> HIDE DEF R
    <3>3. /\ F.kernel = [R.kernel EXCEPT ![g] = [kind |-> "file", left |-> Size[p.arg]]]
          /\ F.items = R.items /\ F.conn = R.conn /\ F.current = R.current
      BY <3>2 DEF States
    <3>4. Become(With(F, c, t)) /\ F = [F EXCEPT !.items = F.items]
      BY <1>6, <3>2 DEF R, States
    <3> HIDE DEF t
    <3>5. conn' = [F.conn EXCEPT ![c] = t] /\ items' = F.items /\ kernel' = F.kernel
          /\ current' = F.current
      BY <3>2, <3>4 DEF Become, With, States
    <3> HIDE DEF F
    <3>6. conn' = [[conn EXCEPT ![c] = q] EXCEPT ![c] = t]
      BY <1>2, <3>2, <3>3, <3>5
    <3>7. conn' = [conn EXCEPT ![c] = t]
      BY <1>4, <3>6
    <3>8. items' = [[items EXCEPT ![f] = [items[f] EXCEPT !.interest = "NOOP"]]
                      EXCEPT ![g] = [conn |-> c, interest |-> "READ"]]
      BY <1>2, <3>2, <3>3, <3>5
    <3> QED
      BY <1>2, <3>2, <3>3, <3>5, <3>7, <3>8
  <2> HIDE DEF t
  <2>4. /\ conn'[c] = t /\ \A d \in Conn \ {c} : conn'[d] = conn[d]
        /\ items'[f] = [items[f] EXCEPT !.interest = "NOOP"]
        /\ items'[f].conn = c /\ items'[f].interest = "NOOP"
        /\ items'[g].conn = c /\ items'[g].interest = "READ"
        /\ \A h \in Fd \ {f, g} : items'[h] = items[h]
        /\ kernel'[g].kind = "file"
        /\ \A h \in Fd \ {g} : kernel'[h] = kernel[h]
    BY <1>4, <2>2, <2>3 DEF Working, IInv, TypeOK
  <2>5. SameElsewhere(c)
    BY <1>4, <2>2, <2>4 DEF SameElsewhere
  <2>6. Orderly(t)
    BY <2>1 DEF Orderly, MidAnswer
  <2>7. Whole(c)'
    <3>1. Descriptors(t) = {f, g}
      BY <2>1 DEF Descriptors, HasFile
    <3>2. \A h \in Fd : items[h].conn = c <=> h = f
      BY <1>4, WorkingFacts DEF Descriptors
    <3>3. ASSUME NEW h \in Fd PROVE items'[h].conn = c <=> h \in {f, g}
      <4>1. CASE h \in {f, g}
        BY <2>4, <4>1
      <4>2. CASE h \notin {f, g}
        BY <2>4, <3>2, <4>2
      <4> QED
        BY <4>1, <4>2
    <3> QED
      BY <1>4, <2>1, <2>2, <2>4, <3>1, <3>3 DEF Whole, HasFile
  <2>8. \A h \in Fd : Tracked(h)'
    <3>1. \A h \in Fd : Tracked(h)
      BY DEF Working, CleanInv
    <3> QED
      BY <1>4, <2>2, <2>4, <3>1 DEF Tracked
  <2>9. Control(c)'
    <3>1. /\ conn'[c] = t /\ t.connection_fd = f /\ t.file_fd = g
          /\ items'[f].interest = SocketInterest(t)
          /\ items'[g].interest = FileInterest(t)
          /\ t.file_opened
      BY <2>1, <2>4 DEF SocketInterest, FileInterest
    <3> QED
      BY <3>1 DEF Control
  <2>10. Covered(c, t, logged')
    BY <1>1, <1>3, <2>1 DEF Covered, Locks
  <2>11. Waits(conn[c], t)
    BY <2>1, ConstantsAssumption DEF ConstantsAssumption, Waits
  <2>12. /\ Orderly(conn'[c]) /\ conn'[c].st # "UNUSED"
         /\ Waits(conn[c], conn'[c])
         /\ Covered(c, conn'[c], logged')
    BY <2>1, <2>4, <2>6, <2>10, <2>11
  <2>13. current' = current /\ server' \in {"running", "exit", "assert"}
    BY <1>6, <2>3 DEF Working, Running
  <2> QED
    BY <2>5, <2>7, <2>8, <2>9, <2>12, <2>13, LocalClean
<1> QED
  BY <1>5, <1>6 DEF OpenFile, q, S

\* RETR goes to the file with its first line written, or ends.
LEMMA RetrFirstClean ==
  ASSUME NEW c, Working(c), AllIndexed, NEW f \in Fd, Owner(f) = c, RetrFirst(f)
  PROVE  KeptBy(c)
<1> DEFINE x == conn[c]
           w == Wrote(x, ReplyLen)
           q == [w EXCEPT !.multiline_state = "MULTILINE"]
<1>1. /\ f = conn[c].connection_fd /\ x.command = "RETR"
      /\ x.st = "WRITING_RESPONSE" /\ ~x.finished
  BY ExecutingFacts DEF RetrFirst
<1>2. x.multiline_state = "FIRST_LINE" /\ x.arg # Huge
  BY DEF RetrFirst, Parse, BadNumber
<1>3. /\ x \in Sound /\ Orderly(x) /\ x # Blank
      /\ NoAnswer(x) /\ x.info_write_buff = Fresh
  BY <1>1, <1>2, StartsFirst, WorkingFacts
<1>4. ReplyLen \in Nat /\ Fits(x, ReplyLen)
  BY <1>3, ConstantsAssumption DEF ConstantsAssumption, Fits, WriteSpace, Fresh
<1>5. OpenFile(f, q, errno)
  BY <1>4 DEF RetrFirst
<1>6. x.pop3_protocol_state = "TRANSACTION"
  BY <1>1, <1>3 DEF Orderly, Sound, Session
<1>7. w \in Sound /\ SameShape(x, w)
  <2>1. SameShape(x, x)
    BY DEF SameShape, SameAnswer
  <2> QED
    BY <1>3, <1>4, <2>1, WroteShape
<1> HIDE DEF w
<1>8. q \in Sound
  BY <1>7, MultilineType
<1>9. /\ q.st = "WRITING_RESPONSE" /\ q.command = "RETR" /\ q.multiline_state = "MULTILINE"
      /\ q.pop3_protocol_state = "TRANSACTION" /\ q.arg # Huge /\ q.info_file_buff = Fresh
      /\ ~q.file_opened /\ ~q.file_ended /\ ~q.finished /\ q.arg = x.arg
      /\ q.connection_fd = f /\ q.references = x.references /\ q.user_s = x.user_s
      /\ q.info_write_buff = w.info_write_buff
  BY <1>1, <1>2, <1>3, <1>6, <1>7 DEF Sound, Session, SameShape, SameAnswer, NoAnswer
<1>10. w.info_write_buff.w = ReplyLen
  BY <1>3, <1>4 DEF w, Wrote, WriteAdv, Fresh, Sound, Session
<1>11. ~HasFile(x)
  BY <1>3 DEF NoAnswer, HasFile
<1> HIDE DEF q
<1>12. Covered(c, q, logged)
  BY <1>9, CoveredHere DEF Locks
<1> QED
  BY <1>1, <1>5, <1>8, <1>9, <1>10, <1>11, <1>12, OpenClean

\* RETR goes back to a file that is still open.
LEMMA RetrMoreClean ==
  ASSUME NEW c, Working(c), NEW f \in Fd, Owner(f) = c, RetrMore(f)
  PROVE  KeptBy(c)
<1> DEFINE x == conn[c]
           q == [x EXCEPT !.st = "PROCESSING_RESPONSE"]
           S == Suspend(With(Here, c, q), f)
           g == x.file_fd
<1>1. /\ f = conn[c].connection_fd /\ x.command = "RETR"
      /\ x.st = "WRITING_RESPONSE" /\ ~x.finished
  BY ExecutingFacts DEF RetrMore
<1>2. /\ x.multiline_state = "MULTILINE" /\ NeedsFile(x)
      /\ Become(SetInterest(S, g, "READ")) /\ UNCHANGED <<logged, errno, server>>
  BY DEF RetrMore
<1>3. x \in Sound /\ Orderly(x) /\ x # Blank /\ MidAnswer(x)
  BY <1>2, WorkingFacts DEF Orderly
<1>4. q \in Sound
  BY <1>1, <1>3, StateType DEF State
<1>5. /\ q.st = "PROCESSING_RESPONSE" /\ q.command = "RETR" /\ q.finished = x.finished
      /\ q.arg = x.arg /\ SameAnswer(x, q)
  BY <1>1, <1>3 DEF Sound, Session, SameAnswer
<1>6. HasFile(x) /\ x.pop3_protocol_state = "TRANSACTION" /\ x.file_opened
      /\ x.info_file_buff = Fresh /\ x.arg # Huge
  BY <1>1, <1>2, <1>3 DEF MidAnswer, HasFile, NeedsFile
<1>7. /\ c \in Conn /\ c # NoConn /\ items[f].conn = c
      /\ g \in Fd /\ g # f /\ items[g].conn = c
      /\ items \in [Fd -> [conn : Conn \cup {NoConn}, interest : Interest]]
      /\ conn \in [Conn -> Session]
  <2>1. /\ c \in Conn /\ c # NoConn /\ items[f].conn = c
        /\ g \in Fd /\ g # f /\ items[g].conn = c
    BY <1>1, <1>6, WorkingFacts
  <2> QED
    BY <2>1 DEF Working, IInv, TypeOK
<1> HIDE DEF q
<1>8. /\ S \in States
      /\ S.conn = [conn EXCEPT ![c] = q]
      /\ S.items = [items EXCEPT ![f] = [items[f] EXCEPT !.interest = "NOOP"]]
      /\ S.kernel = kernel /\ S.current = current
  BY <1>1, <1>4, SuspendIs
<1> HIDE DEF S
<1>9. /\ conn' = S.conn /\ kernel' = S.kernel /\ current' = S.current
      /\ items' = [S.items EXCEPT ![g] = [S.items[g] EXCEPT !.interest = "READ"]]
  <2>1. Registered(S, g)
    BY <1>7, <1>8 DEF Registered
  <2> QED
    BY <1>2, <1>8, <2>1 DEF Become, SetInterest, States
<1>10. /\ conn'[c] = q
       /\ items'[f].interest = "NOOP" /\ items'[g].interest = "READ"
       /\ \A h \in Fd : items'[h].conn = items[h].conn
       /\ \A h \in Fd \ {f, g} : items'[h] = items[h]
  BY <1>7, <1>8, <1>9
<1>11. Orderly(q) /\ SameFiles(x, q)
  BY <1>2, <1>3, <1>5, <1>6
  DEF Orderly, MidAnswer, SameAnswer, SameFiles, HasFile
<1>12. Control(c)'
  <2>1. /\ items'[q.connection_fd].interest = SocketInterest(q)
        /\ items'[q.file_fd].interest = FileInterest(q)
        /\ q.file_opened
    BY <1>1, <1>5, <1>6, <1>10 DEF SocketInterest, FileInterest, SameAnswer
  <2> QED
    BY <1>10, <2>1 DEF Control
<1>13. Covered(c, q, logged') /\ server' = "running" /\ q.st # "UNUSED"
  BY <1>1, <1>2, <1>5, CoveredHere DEF Locks, SameAnswer, Working, Running
<1>14. Waits(x, q)
  BY <1>3, <1>6 DEF q, Sound, Session, Waits
<1> HIDE DEF x, g
<1>15. Becomes(c, q) /\ current' = current /\ SameOwners(c)
  BY <1>7, <1>8, <1>9, <1>10 DEF Becomes, SameOwners
<1> QED
  BY <1>11, <1>12, <1>13, <1>15, <1>14, UpdateClean DEF x

\* A step in which the process ends and nothing else changes.
LEMMA HaltClean ==
  ASSUME NEW c, Working(c), Halt("assert", Here)
  PROVE  KeptBy(c)
<1>1. /\ conn' = conn /\ items' = items /\ kernel' = kernel /\ current' = current
      /\ server' = "assert"
  BY DEF Halt, Become, Here
<1>2. /\ \A d \in Conn : Orderly(conn[d])'
      /\ \A f \in Fd : Tracked(f)'
      /\ \A d \in Conn : Whole(d)'
  BY <1>1 DEF Working, CleanInv, Running, Closing, Tracked, Whole
<1> QED
  BY <1>1, <1>2 DEF CleanInv, Closing, Running, KeptBy, SameElsewhere, Waits

\* RETR copies what fits while there is a file, and ends when there is none.
LEMMA RetrCopyClean ==
  ASSUME NEW c, Working(c), EndFits, NEW f \in Fd, Owner(f) = c, RetrCopy(f)
  PROVE  KeptBy(c)
<1> DEFINE x     == conn[c]
           avail == ReadSpace(x.info_file_buff)
           space == WriteSpace(x.info_write_buff, WriteLimit)
<1>1. /\ f = conn[c].connection_fd /\ x.command = "RETR" /\ c \in Conn
      /\ x.st = "WRITING_RESPONSE" /\ ~x.finished
  BY ExecutingFacts DEF RetrCopy, Working
<1>2. /\ x.multiline_state \in {"MULTILINE", "END_LINE"}
      /\ x.multiline_state = "MULTILINE" => ~NeedsFile(x)
  BY DEF RetrCopy
<1>3. x \in Sound /\ Orderly(x) /\ x # Blank /\ MidAnswer(x)
  BY <1>2, WorkingFacts DEF Orderly
<1>4. /\ x.multiline_state = "MULTILINE" /\ x.file_opened
      /\ x.pop3_protocol_state = "TRANSACTION" /\ x.arg # Huge
      /\ x.info_file_buff \in Buffers(FileLimit) /\ FileLimit \in Nat
      /\ x.info_write_buff \in Buffers(WriteLimit) /\ WriteLimit \in Nat
      /\ \/ x.file_ended /\ x.info_file_buff = Fresh
         \/ ~x.file_ended /\ CanRead(x.info_file_buff)
  <2>1. /\ x.multiline_state = "MULTILINE" /\ x.file_opened
        /\ x.pop3_protocol_state = "TRANSACTION" /\ x.arg # Huge
        /\ \/ x.file_ended /\ x.info_file_buff = Fresh
           \/ ~x.file_ended /\ CanRead(x.info_file_buff)
    BY <1>1, <1>2, <1>3 DEF MidAnswer, NeedsFile, CanRead, Fresh, ReadSpace
  <2> QED
    BY <1>3, <2>1, ConstantsAssumption DEF ConstantsAssumption, Sound, Session
<1>5. CASE Halt("assert", Here)
  BY <1>5, HaltClean
<1>6. ASSUME NEW m \in Moves(avail, space),
             LET p1   == [Wrote(x, m[1] + m[2]) EXCEPT !.info_file_buff = ReadAdv(@, m[1])]
                 done == x.multiline_state = "END_LINE" \/ Exhausted(p1)
                 p2   == IF done /\ Fits(p1, TermLen)
                         THEN [ResetStructures(Wrote(p1, TermLen)) EXCEPT !.finished = TRUE]
                         ELSE IF done THEN [p1 EXCEPT !.multiline_state = "END_LINE"]
                         ELSE p1
             IN  Send(f, p2, logged, errno)
      PROVE  KeptBy(c)
  <2> DEFINE p1 == [Wrote(x, m[1] + m[2]) EXCEPT !.info_file_buff = ReadAdv(@, m[1])]
             p3 == [ResetStructures(Wrote(p1, TermLen)) EXCEPT !.finished = TRUE]
  <2>1. /\ m[1] \in Nat /\ m[2] \in Nat /\ m[1] <= avail /\ m[2] <= avail
        /\ m[1] + m[2] <= space
    BY <1>4 DEF Moves, ReadSpace, WriteSpace, Buffers
  <2>2. p1 \in Sound
    BY <1>3, <2>1, MovedType DEF Fits
  <2>3. /\ p1.info_file_buff = ReadAdv(x.info_file_buff, m[1])
        /\ p1.info_write_buff = WriteAdv(x.info_write_buff, m[1] + m[2])
        /\ p1.st = x.st /\ p1.finished = x.finished /\ p1.command = x.command
        /\ p1.arg = x.arg
        /\ p1.multiline_state = x.multiline_state
        /\ p1.file_opened = x.file_opened /\ p1.file_ended = x.file_ended
        /\ p1.file_fd = x.file_fd
        /\ p1.connection_fd = x.connection_fd /\ p1.references = x.references
        /\ p1.pop3_protocol_state = x.pop3_protocol_state /\ p1.user_s = x.user_s
    BY <1>3 DEF Wrote, Sound, Session
  <2>4. /\ Exhausted(p1) /\ Fits(p1, TermLen) => Send(f, p3, logged, errno)
        /\ ~Exhausted(p1) => Send(f, p1, logged, errno)
    BY <1>4, <1>6, Zenon
  <2> HIDE DEF p1
  <2>5. CASE x.file_ended
    <3>1. /\ m[1] = 0 /\ m[2] = 0 /\ ReadAdv(x.info_file_buff, m[1]) = Fresh
          /\ WriteAdv(x.info_write_buff, m[1] + m[2]) = x.info_write_buff
      <4>1. avail = 0 /\ x.info_file_buff = Fresh
        BY <1>4, <2>5 DEF Fresh, ReadSpace
      <4>2. m[1] = 0 /\ m[2] = 0 /\ m[1] + m[2] = 0
        BY <2>1, <4>1
      <4>3. ReadAdv(Fresh, 0) = Fresh
        BY DEF Fresh, ReadSpace, ReadAdv, CanRead, Compact
      <4>4. \A b \in Buffers(WriteLimit) : WriteAdv(b, 0) = b
        BY <1>4 DEF WriteAdv, Buffers
      <4> QED
        BY <1>4, <4>1, <4>2, <4>3, <4>4
    <3>2. Exhausted(p1) /\ SameShape(x, p1) /\ p1.info_file_buff = Fresh
      BY <1>4, <2>3, <2>5, <3>1
      DEF Exhausted, SameShape, SameAnswer, CanRead, ReadSpace, Fresh
    <3>3. Fits(p1, TermLen) /\ TermLen \in Nat
      BY <1>1, <2>3, <2>5, <3>1, ConstantsAssumption
      DEF EndFits, Fits, ConstantsAssumption
    <3>4. ~HasFile(x)
      BY <2>5 DEF HasFile
    <3> HIDE DEF x
    <3> QED
      BY <1>1, <2>2, <2>4, <3>2, <3>3, <3>4, EndClean DEF x
  <2>6. CASE ~x.file_ended
    <3>1. ~Exhausted(p1)
      BY <2>3, <2>6 DEF Exhausted
    <3>2. p1.info_file_buff = Fresh \/ CanRead(p1.info_file_buff)
      BY <1>4, <2>1, <2>3, Drained
    <3>3. MidAnswer(p1) /\ SameFiles(x, p1)
      BY <1>1, <1>4, <2>3, <2>6, <3>2 DEF MidAnswer, SameFiles, HasFile
    <3> HIDE DEF x
    <3> QED
      BY <1>1, <1>4, <2>2, <2>3, <2>4, <2>6, <3>1, <3>3, PartClean DEF x
  <2> QED
    BY <2>5, <2>6
<1> QED
  BY <1>4, <1>5, <1>6 DEF RetrCopy

-----------------------------------------------------------------------------
(* The other handlers.                                                     *)

\* QUIT gives the maildrop back and leaves the last line to be sent.
LEMMA QuitClean ==
  ASSUME NEW c, Working(c), NEW f \in Fd, Owner(f) = c, QuitAction(f)
  PROVE  KeptBy(c)
<1> DEFINE x  == conn[c]
           u  == x.user_s
           lg == [logged EXCEPT ![u] = FALSE]
           q  == [x EXCEPT !.pop3_protocol_state = "AUTHORIZATION"]
<1>1. /\ f = conn[c].connection_fd /\ c \in Conn
      /\ x.st = "WRITING_RESPONSE" /\ ~x.finished /\ x.multiline_state = "FIRST_LINE"
  BY ExecutingFacts DEF QuitAction, Working
<1>2. /\ x \in Sound /\ x \in Session /\ Starts(x, x) /\ Begins(x, x) /\ NoAnswer(x)
      /\ Orderly(x)
  BY <1>1, StartsFirst, WorkingFacts DEF Starts, Sound
<1>3. LoggedOK(lg) /\ \A v \in User : lg[v] => logged[v] /\ v # u
  BY DEF Working, IInv, TypeOK, LoggedOK
<1>4. CASE /\ x.pop3_protocol_state = "AUTHORIZATION"
           /\ Become(ToError(Here, c))
           /\ UNCHANGED <<logged, errno, server, maildrop>>
  <2>1. With(Here, c, x) = Here
    BY <1>1 DEF With, Here, Working, IInv, TypeOK
  <2>2. Become(ToError(With(Here, c, x), c))
    BY <1>4, <2>1
  <2>3. ~Locks(x)
    BY <1>4 DEF Locks
  <2>4. Covered(c, [x EXCEPT !.st = "ERROR"], logged)
    BY <2>3, CoveredHere
  <2>5. logged' = logged /\ UNCHANGED server
    BY <1>4
  <2>6. Covered(c, [x EXCEPT !.st = "ERROR"], logged')
    BY <2>4, <2>5
  <2> HIDE DEF x
  <2> QED
    BY <1>1, <1>2, <2>2, <2>5, <2>6, ErrorClean DEF x
<1>5. ASSUME NEW e \in Failed, Leave(f, x, lg, e)
      PROVE  KeptBy(c)
  <2>1. Covered(c, x, logged)
    BY CoveredHere
  <2>2. Covered(c, x, lg)
    BY <1>3, <2>1 DEF Covered
  <2>3. SameFiles(x, x) /\ ~(x.file_opened /\ x.file_ended)
    BY <1>2 DEF SameFiles, NoAnswer
  <2> HIDE DEF lg
  <2> QED
    BY <1>1, <1>2, <1>3, <1>5, <2>2, <2>3, LeaveClean
<1>6. CASE /\ Become(ToError(With(Here, c, q), c))
           /\ logged' = lg
           /\ UNCHANGED <<errno, server>>
  <2>1. Begins(x, q)
    BY <1>2 DEF Begins, Session
  <2>2. Covered(c, [q EXCEPT !.st = "ERROR"], lg)
    <3> SUFFICES ASSUME NEW v \in User, lg[v]
                 PROVE  \E d \in Conn \ {c} : Holds(d, v)
      BY DEF Covered
    <3>1. PICK d \in Conn : Holds(d, v)
      BY <1>3 DEF Working, CleanInv, LocksHeld
    <3>2. d # c
      BY <1>3, <3>1 DEF Holds
    <3> QED
      BY <3>1, <3>2
  <2>3. Covered(c, [q EXCEPT !.st = "ERROR"], logged') /\ UNCHANGED server
    BY <1>6, <2>2
  <2> HIDE DEF x, q
  <2> QED
    BY <1>1, <1>6, <2>1, <2>3, ErrorClean DEF x
<1> QED
  BY <1>4, <1>5, <1>6 DEF QuitAction

\* The greeting, or a part of it.
LEMMA HelloClean ==
  ASSUME NEW c, Working(c), NEW f \in Fd, Owner(f) = c, HelloWrite(f)
  PROVE  KeptBy(c)
<1> DEFINE x == conn[c]
<1>1. x.st = "HELLO" /\ items[f].interest = "WRITE" /\ c \in Conn
  BY DEF HelloWrite, Ready, Working
<1>2. /\ f = conn[c].connection_fd /\ x \in Sound /\ x \in Session /\ Orderly(x)
      /\ x # Blank
  BY <1>1, ReadyWhere, WorkingFacts DEF Sound
<1>3. NoAnswer(x) /\ ~x.finished /\ x.multiline_state = "FIRST_LINE"
  BY <1>1, <1>2 DEF Orderly, MidAnswer
<1>4. LoggedOK(logged) /\ Covered(c, x, logged)
  BY CoveredHere DEF Working, IInv, TypeOK, LoggedOK
<1>5. CASE Finish(c, Here, logged)
  <2>1. With(Here, c, x) = Here
    BY <1>1 DEF With, Here, Working, IInv, TypeOK
  <2>2. Handled(c, x, Here)
    BY <1>1, <1>2, <1>3, <2>1, HandledHere DEF SameFiles, NoAnswer
  <2> QED
    BY <1>4, <1>5, <2>2, FinishClean
<1>6. ASSUME NEW n \in Sent(f, x.info_write_buff),
             LET b == ReadAdv(x.info_write_buff, n)
                 q == [x EXCEPT !.info_write_buff = b]
             IN  /\ IF CanRead(b) THEN Become(With(Here, c, q))
                    ELSE Become(SetInterest(With(Here, c,
                                  [q EXCEPT !.st = "READING_REQUEST"]), f, "READ"))
                 /\ UNCHANGED <<logged, errno, server>>
      PROVE  KeptBy(c)
  <2> DEFINE b == ReadAdv(x.info_write_buff, n)
             q == [x EXCEPT !.info_write_buff = b]
             t == [q EXCEPT !.st = "READING_REQUEST"]
  <2>1. /\ q.st = "HELLO" /\ q.info_write_buff = b /\ q.finished = x.finished
        /\ SameAnswer(x, q)
        /\ t.st = "READING_REQUEST" /\ t.info_write_buff = b /\ t.finished = x.finished
        /\ SameAnswer(x, t)
    BY <1>1, <1>2 DEF Session, SameAnswer
  <2>2. ~CanRead(b) => b = Fresh
    <3>1. /\ WriteLimit \in Nat /\ x.info_write_buff \in Buffers(WriteLimit)
          /\ n \in Nat /\ n <= ReadSpace(x.info_write_buff)
      BY <1>2, ConstantsAssumption
      DEF ConstantsAssumption, Session, Sent, ReadSpace, CanRead, Buffers
    <3> QED
      BY <3>1, Drained
  <2>3. \/ CanRead(b) /\ Become(With(Here, c, q))
        \/ ~CanRead(b) /\ Become(SetInterest(With(Here, c, t), f, "READ"))
    BY <1>6
  <2>4. logged' = logged /\ server' = "running"
    BY <1>6 DEF Working, Running
  <2> HIDE DEF b, q, t
  <2>5. ASSUME NEW z, SameAnswer(x, z), z.finished = x.finished, z.info_write_buff = b,
               z.st = "HELLO" \/ (z.st = "READING_REQUEST" /\ b = Fresh)
        PROVE  Goes(c, z)
    <3>1. Orderly(z)
      BY <1>3, <2>5 DEF Orderly, NoAnswer, SameAnswer
    <3>2. SameFiles(x, z)
      BY <2>5 DEF SameAnswer, SameFiles, HasFile
    <3>3. Covered(c, z, logged')
      BY <1>1, <1>4, <2>4, <2>5, SameAnswerCovered DEF Locks, SameAnswer
    <3>4. Waits(x, z)
      BY <1>3, <2>5 DEF Waits, SameAnswer, NoAnswer
    <3> QED
      BY <1>1, <2>4, <2>5, <3>1, <3>2, <3>3, <3>4 DEF Goes, FileInterest
  <2>6. CASE CanRead(b) /\ Become(With(Here, c, q))
    <3>1. Goes(c, q)
      <4>1. /\ SameAnswer(x, q) /\ q.finished = x.finished /\ q.info_write_buff = b
            /\ q.st = "HELLO"
        BY <2>1
      <4> QED
        BY <2>5, <4>1
    <3>2. SocketInterest(q) = SocketInterest(x)
      BY <1>1, <2>1 DEF SocketInterest
    <3> QED
      BY <2>6, <3>1, <3>2, StayClean
  <2>7. CASE ~CanRead(b) /\ Become(SetInterest(With(Here, c, t), f, "READ"))
    BY <1>2, <2>1, <2>2, <2>5, <2>7, SocketClean DEF SocketInterest
  <2> QED
    BY <2>3, <2>6, <2>7
<1> QED
  BY <1>5, <1>6 DEF HelloWrite

\* The next request.
LEMMA ReadRequestClean ==
  ASSUME NEW c, Working(c), NEW f \in Fd, Owner(f) = c, ReadRequest(f)
  PROVE  KeptBy(c)
<1> DEFINE x == conn[c]
<1>1. x.st = "READING_REQUEST" /\ items[f].interest = "READ" /\ c \in Conn
  BY DEF ReadRequest, Ready, Working
<1>2. /\ f = conn[c].connection_fd /\ x \in Sound /\ x \in Session /\ Orderly(x)
      /\ x # Blank
  BY <1>1, ReadyWhere, WorkingFacts DEF Sound
<1>3. /\ NoAnswer(x) /\ ~x.finished /\ x.multiline_state = "FIRST_LINE"
      /\ x.info_write_buff = Fresh
  BY <1>1, <1>2 DEF Orderly, MidAnswer
<1>4. LoggedOK(logged) /\ Covered(c, x, logged)
  BY CoveredHere DEF Working, IInv, TypeOK, LoggedOK
<1>5. CASE Finish(c, Here, logged)
  <2>1. With(Here, c, x) = Here
    BY <1>1 DEF With, Here, Working, IInv, TypeOK
  <2>2. Handled(c, x, Here)
    BY <1>1, <1>2, <1>3, <2>1, HandledHere DEF SameFiles, NoAnswer
  <2> QED
    BY <1>4, <1>5, <2>2, FinishClean
<1>6. ASSUME NEW r \in Requests, UNCHANGED <<logged, errno, server>>,
             Become(SetInterest(With(Here, c, Parsed(x, r)), f, "WRITE"))
      PROVE  KeptBy(c)
  <2> DEFINE t == Parsed(x, r)
  <2>1. /\ t.st = "WRITING_RESPONSE" /\ t.info_write_buff = x.info_write_buff
        /\ t.finished = x.finished /\ SameAnswer(x, t)
        /\ t.pop3_protocol_state = "AUTHORIZATION"
             => t.command \in {"QUIT", "USER", "PASS", "CAPA", "ERROR_COMMAND"}
    BY <1>2 DEF Session, SameAnswer, Parsed, Accepted
  <2> HIDE DEF t
  <2>2. Orderly(t)
    BY <1>3, <2>1 DEF Orderly, NoAnswer, SameAnswer
  <2>3. SameFiles(x, t)
    BY <2>1 DEF SameAnswer, SameFiles, HasFile
  <2>4. Covered(c, t, logged') /\ server' = "running"
    BY <1>1, <1>4, <1>6, <2>1, SameAnswerCovered DEF Locks, SameAnswer, Working, Running
  <2>5. Waits(x, t)
    BY <1>3, <2>1 DEF Waits, SameAnswer, NoAnswer
  <2>6. Goes(c, t) /\ SocketInterest(t) = "WRITE"
    BY <1>1, <2>1, <2>2, <2>3, <2>4, <2>5 DEF Goes, FileInterest, SocketInterest
  <2> QED
    BY <1>2, <1>6, <2>6, SocketClean DEF t
<1> QED
  BY <1>5, <1>6 DEF ReadRequest

\* The last line of a session.
LEMMA FinishErrorClean ==
  ASSUME NEW c, Working(c), NEW f \in Fd, Owner(f) = c, FinishError(f)
  PROVE  KeptBy(c)
<1> DEFINE x == conn[c]
           q == IF ~x.error_written /\ Fits(x, ReplyLen)
                THEN [Wrote(x, ReplyLen) EXCEPT !.error_written = TRUE] ELSE x
<1>1. x.st = "ERROR" /\ items[f].interest = "WRITE" /\ c \in Conn
  BY DEF FinishError, Ready, Working
<1>2. x \in Sound /\ x \in Session /\ Orderly(x) /\ x # Blank
  BY <1>1, WorkingFacts DEF Sound
<1>3. NoAnswer(x) /\ ~x.finished /\ x.multiline_state = "FIRST_LINE"
  BY <1>1, <1>2 DEF Orderly, MidAnswer
<1>4. LoggedOK(logged) /\ Covered(c, x, logged)
  BY CoveredHere DEF Working, IInv, TypeOK, LoggedOK
<1>5. q \in Sound /\ q.st = "ERROR" /\ q.finished = x.finished /\ SameAnswer(x, q)
  <2> DEFINE w == Wrote(x, ReplyLen)
  <2>1. CASE ~x.error_written /\ Fits(x, ReplyLen)
    <3>1. ReplyLen \in Nat
      BY ConstantsAssumption DEF ConstantsAssumption
    <3>2. w \in Sound /\ SameShape(x, w)
      BY <1>2, <2>1, <3>1, WroteShape DEF SameShape, SameAnswer
    <3> HIDE DEF w
    <3>3. [w EXCEPT !.error_written = TRUE] \in Sound
      BY <3>2 DEF Sound, Session
    <3>4. /\ [w EXCEPT !.error_written = TRUE].st = "ERROR"
          /\ [w EXCEPT !.error_written = TRUE].finished = x.finished
          /\ SameAnswer(x, [w EXCEPT !.error_written = TRUE])
      BY <1>1, <3>2 DEF Sound, Session, SameShape, SameAnswer
    <3> QED
      BY <2>1, <3>3, <3>4 DEF w
  <2>2. CASE ~(~x.error_written /\ Fits(x, ReplyLen))
    BY <1>1, <1>2, <2>2 DEF SameAnswer
  <2> QED
    BY <2>1, <2>2
<1> HIDE DEF q
\* A session that only differs in its output goes on, or ends.
<1>6. ASSUME NEW z \in Sound, z.st = "ERROR", z.finished = x.finished, SameAnswer(x, z)
      PROVE  /\ Orderly(z) /\ Covered(c, z, logged)
             /\ Finish(c, With(Here, c, z), logged) => KeptBy(c)
             /\ Become(With(Here, c, z)) /\ UNCHANGED <<logged, server>> => KeptBy(c)
  <2>1. Orderly(z) /\ ~(z.file_opened /\ z.file_ended)
    BY <1>3, <1>6 DEF Orderly, NoAnswer, SameAnswer
  <2>2. SameFiles(x, z)
    BY <1>6 DEF SameAnswer, SameFiles, HasFile
  <2>3. Covered(c, z, logged)
    BY <1>1, <1>4, <1>6, SameAnswerCovered DEF Locks, SameAnswer
  <2>4. ASSUME Finish(c, With(Here, c, z), logged) PROVE KeptBy(c)
    <3>1. Handled(c, z, With(Here, c, z))
      BY <1>6, <2>1, <2>2, HandledHere
    <3> QED
      BY <1>4, <2>3, <2>4, <3>1, FinishClean
  <2>5. ASSUME Become(With(Here, c, z)), UNCHANGED <<logged, server>> PROVE KeptBy(c)
    <3>1. Goes(c, z) /\ SocketInterest(z) = SocketInterest(x)
      <4>1. Waits(x, z)
        BY <1>3, <1>6 DEF Waits, SameAnswer, NoAnswer
      <4> QED
        BY <1>1, <1>6, <2>1, <2>2, <2>3, <2>5, <4>1
        DEF Goes, FileInterest, SocketInterest, Working, Running
    <3> QED
      BY <2>5, <3>1, StayClean
  <2> QED
    BY <2>1, <2>3, <2>4, <2>5
<1>7. CASE Finish(c, With(Here, c, q), logged)
  BY <1>5, <1>6, <1>7
<1>8. ASSUME NEW n \in Sent(f, q.info_write_buff),
             LET b == ReadAdv(q.info_write_buff, n)
                 S == With(Here, c, [q EXCEPT !.info_write_buff = b])
             IN  /\ UNCHANGED errno
                 /\ IF CanRead(b) THEN Become(S) /\ UNCHANGED <<logged, server>>
                                  ELSE Finish(c, S, logged)
      PROVE  KeptBy(c)
  <2> DEFINE b == ReadAdv(q.info_write_buff, n)
             z == [q EXCEPT !.info_write_buff = b]
  <2>1. b \in Buffers(WriteLimit)
    BY <1>5, ConstantsAssumption, SentType DEF ConstantsAssumption, Sound, Session
  <2>2. \/ Become(With(Here, c, z)) /\ UNCHANGED <<logged, server>>
        \/ Finish(c, With(Here, c, z), logged)
    BY <1>8
  <2> HIDE DEF b
  <2>3. z \in Sound /\ z.st = "ERROR" /\ z.finished = x.finished /\ SameAnswer(x, z)
    BY <1>5, <2>1 DEF Sound, Session, SameAnswer
  <2> HIDE DEF z
  <2> QED
    BY <1>6, <2>2, <2>3
<1> QED
  BY <1>7, <1>8 DEF FinishError, q

\* The state machine has a handler for every descriptor that is dispatched.
LEMMA NoStmAbort ==
  ASSUME NEW c, Working(c), NEW f \in Fd, Owner(f) = c, StmAbort(f)
  PROVE  FALSE
<1> DEFINE x == conn[c]
<1>1. \/ /\ items[f].interest = "READ"
         /\ x.st \notin {"READING_REQUEST", "PROCESSING_RESPONSE"}
      \/ /\ items[f].interest = "WRITE"
         /\ x.st \notin {"HELLO", "WRITING_RESPONSE", "ERROR"}
  BY DEF StmAbort
<1>2. f = IF x.st = "PROCESSING_RESPONSE" THEN x.file_fd ELSE x.connection_fd
  BY <1>1, ReadyWhere
<1>3. x.st = "PROCESSING_RESPONSE" => HasFile(x)
  BY WorkingFacts DEF Orderly, NoAnswer, MidAnswer, HasFile
<1>4. items[f].interest = IF x.st = "PROCESSING_RESPONSE" THEN "READ"
                          ELSE IF x.st = "READING_REQUEST" THEN "READ" ELSE "WRITE"
  BY <1>2, <1>3, WorkingFacts DEF SocketInterest, FileInterest
<1>5. x.st \in State \ {"UNUSED", "FINISHED"}
  BY WorkingFacts DEF Sound, Session
<1> QED
  BY <1>1, <1>4, <1>5 DEF State

\* process_response: the file has bytes for the buffer, or it is over and its
\* descriptor is closed.
LEMMA AfterFileClean ==
  ASSUME NEW c, Working(c), NEW f \in Fd, f = conn[c].file_fd,
         NEW x, x = conn[c], x.st = "PROCESSING_RESPONSE", HasFile(x),
         NEW n \in Nat, n <= WriteSpace(x.info_file_buff, FileLimit),
         CanReadOf(f, WriteSpace(x.info_file_buff, FileLimit), n),
         AfterFile(c, Consumed(With(Here, c, Filled(x, n)), f, n))
  PROVE  KeptBy(c)
<1> DEFINE p == Filled(x, n)
           S == Consumed(With(Here, c, p), f, n)
           s == x.connection_fd
           V == BackToSocket(S, p)
<1>1. /\ c \in Conn /\ c # NoConn /\ x \in Sound /\ Orderly(x) /\ x # Blank
      /\ s \in Fd /\ items[s].conn = c /\ kernel[s].kind = "socket"
      /\ f # s /\ items[f].conn = c /\ kernel[f].kind = "file"
      /\ x.references = 1
  BY WorkingFacts
<1>2. /\ x.command = "RETR" /\ x.multiline_state = "MULTILINE" /\ x.arg # Huge
      /\ x.pop3_protocol_state = "TRANSACTION" /\ x.info_file_buff = Fresh
      /\ x.file_opened /\ ~x.finished
  BY <1>1 DEF Orderly, NoAnswer, MidAnswer, HasFile
<1>3. /\ items \in [Fd -> [conn : Conn \cup {NoConn}, interest : Interest]]
      /\ kernel \in [Fd -> [kind : {"closed", "socket", "file"}, left : Nat]]
      /\ conn \in [Conn -> Session]
  BY DEF Working, IInv, TypeOK
<1>4. /\ p \in Sound /\ p.st = x.st /\ p.command = "RETR" /\ p.arg = x.arg
      /\ p.multiline_state = "MULTILINE" /\ p.finished = x.finished
      /\ p.pop3_protocol_state = "TRANSACTION" /\ p.user_s = x.user_s
      /\ p.info_file_buff = WriteAdv(Fresh, n) /\ p.file_opened
      /\ (p.file_ended <=> n = 0) /\ p.file_fd = f /\ p.connection_fd = s
      /\ p.references = 1 /\ p.info_write_buff = x.info_write_buff
  <2>1. p \in Sound
    BY <1>1, FilledType
  <2> QED
    BY <1>1, <1>2, <2>1 DEF Filled, Sound, Session, HasFile
<1> HIDE DEF p
<1>5. /\ S \in States /\ S.conn = [conn EXCEPT ![c] = p] /\ S.items = items
      /\ \A h \in Fd \ {f} : S.kernel[h] = kernel[h]
      /\ S.kernel[f].kind = "file" /\ S.current = current
  <2> DEFINE W == With(Here, c, p)
  <2>1. /\ W \in States /\ W.conn = [conn EXCEPT ![c] = p] /\ W.items = items
        /\ W.kernel = kernel /\ W.current = current
    BY <1>1, <1>4, WithType DEF With, Here, Working, IInv
  <2> HIDE DEF W
  <2>2. kernel[f].kind = "file" => n <= kernel[f].left
    BY DEF CanReadOf
  <2>3. S \in States /\ S.conn = W.conn
    BY <2>1, <2>2, ConsumedType DEF W
  <2>4. S = [W EXCEPT !.kernel = [W.kernel EXCEPT ![f] =
                                    [W.kernel[f] EXCEPT !.left = W.kernel[f].left - n]]]
    BY <1>1, <2>1 DEF Consumed, W, States
  <2>5. /\ S.items = W.items /\ S.current = W.current
        /\ S.kernel = [W.kernel EXCEPT ![f] =
                         [W.kernel[f] EXCEPT !.left = W.kernel[f].left - n]]
    BY <2>1, <2>4 DEF States
  <2> HIDE DEF S
  <2> QED
    BY <1>1, <1>3, <2>1, <2>2, <2>3, <2>5
<1> HIDE DEF S
<1>6. /\ V \in States /\ V.conn = S.conn /\ V.kernel = S.kernel /\ V.current = current
      /\ \A h \in Fd : V.items[h].conn = items[h].conn
      /\ \A h \in Fd \ {f, s} : V.items[h] = items[h]
      /\ V.items[s].interest = "WRITE" /\ V.items[f].interest = "NOOP"
  <2> DEFINE A == SetInterest(S, s, "WRITE")
             B == SetInterest(A, f, "NOOP")
  <2>1. A \in States /\ A.conn = S.conn
    BY <1>1, <1>5, SetInterestType DEF Interest
  <2>2. A = [S EXCEPT !.items =
                [S.items EXCEPT ![s] = [S.items[s] EXCEPT !.interest = "WRITE"]]]
    BY <1>1, <1>5 DEF SetInterest, Registered, States
  <2> HIDE DEF A
  <2>3. /\ A.items = [S.items EXCEPT ![s] = [S.items[s] EXCEPT !.interest = "WRITE"]]
        /\ A.kernel = S.kernel /\ A.current = S.current
    BY <2>2, <1>5 DEF States
  <2>4. A.items[f].conn = c /\ A.items[s].conn = c
    BY <1>1, <1>3, <1>5, <2>3
  <2>5. B \in States /\ B.conn = A.conn
    BY <2>1, SetInterestType DEF Interest
  <2>6. B = [A EXCEPT !.items =
                [A.items EXCEPT ![f] = [A.items[f] EXCEPT !.interest = "NOOP"]]]
    BY <1>1, <2>1, <2>4 DEF SetInterest, Registered, States
  <2>7. V = B
    BY <1>4 DEF BackToSocket, A
  <2> HIDE DEF B, V
  <2>8. /\ B.items = [A.items EXCEPT ![f] = [A.items[f] EXCEPT !.interest = "NOOP"]]
        /\ B.kernel = A.kernel /\ B.current = A.current
    BY <2>1, <2>6 DEF States
  <2> QED
    BY <1>1, <1>3, <1>5, <2>1, <2>3, <2>5, <2>7, <2>8
<1> HIDE DEF V
<1>7. Registered(S, s) /\ Registered(S, f) /\ S.conn[c] = p
  BY <1>1, <1>3, <1>5 DEF Registered
<1> DEFINE W == IF p.file_ended THEN Unregister(V, f) ELSE V
<1>8. /\ UNCHANGED logged
      /\ IF W.conn[c] = Blank THEN Halt("undefined", W)
         ELSE /\ Become(With(W, c, [W.conn[c] EXCEPT !.st = "WRITING_RESPONSE"]))
              /\ UNCHANGED server
  <2>1. AfterFile(c, S)
    BY DEF S, p
  <2>2. V = BackToSocket(S, p)
    BY DEF V
  <2> QED
    BY <1>4, <1>7, <2>1, <2>2 DEF AfterFile
\* What becomes of the session, as y before the state changes.
<1> DEFINE IsAnswered(y) ==
             /\ W.conn[c] = y /\ W \in States /\ y \in Session /\ y.st = x.st
             /\ y.command = "RETR" /\ y.arg = x.arg /\ y.multiline_state = "MULTILINE"
             /\ y.finished = x.finished /\ y.pop3_protocol_state = "TRANSACTION"
             /\ y.user_s = x.user_s /\ y.info_file_buff = p.info_file_buff
             /\ y.file_opened /\ y.file_ended = p.file_ended
             /\ y.file_fd = f /\ y.connection_fd = s
             /\ y.info_write_buff = x.info_write_buff
             /\ W.conn = [conn EXCEPT ![c] = y]
           GoesOn(y, z) ==
             /\ conn' = [conn EXCEPT ![c] = z] /\ items' = W.items
             /\ kernel' = W.kernel /\ current' = W.current /\ server' = "running"
             /\ z.st = "WRITING_RESPONSE" /\ Orderly(z)
             /\ z.file_fd = f /\ z.connection_fd = s /\ z.references = y.references
             /\ z.file_opened /\ z.file_ended = p.file_ended
             /\ Covered(c, z, logged') /\ Waits(x, z)
<1>9. ASSUME NEW y, IsAnswered(y)
      PROVE  GoesOn(y, [y EXCEPT !.st = "WRITING_RESPONSE"])
  <2> DEFINE z == [y EXCEPT !.st = "WRITING_RESPONSE"]
  <2>1. y # Blank
    BY <1>9 DEF Blank
  <2>2. Become(With(W, c, z)) /\ server' = "running" /\ logged' = logged
    BY <1>8, <1>9, <2>1 DEF Working, Running
  <2>3. /\ z.st = "WRITING_RESPONSE" /\ z.command = "RETR" /\ z.arg = x.arg
        /\ z.multiline_state = "MULTILINE" /\ z.finished = x.finished
        /\ z.pop3_protocol_state = "TRANSACTION" /\ z.user_s = x.user_s
        /\ z.info_file_buff = p.info_file_buff /\ z.file_opened
        /\ z.file_ended = p.file_ended /\ z.file_fd = f /\ z.connection_fd = s
        /\ z.references = y.references /\ z.info_write_buff = x.info_write_buff
    BY <1>9 DEF Session
  <2> HIDE DEF z, W
  <2>4. /\ conn' = [W.conn EXCEPT ![c] = z] /\ items' = W.items
        /\ kernel' = W.kernel /\ current' = W.current
    BY <1>9, <2>2 DEF Become, With, States
  <2>5. conn' = [conn EXCEPT ![c] = z]
    BY <1>1, <1>9, <2>4
  <2>6. Covered(c, z, logged')
    BY <2>2, <2>3, CoveredHere DEF Locks
  <2>7. p.info_file_buff = Fresh \/ (CanRead(p.info_file_buff) /\ ~p.file_ended)
    BY <1>4 DEF WriteAdv, Fresh, CanRead, ReadSpace
  <2>8. Orderly(z)
    BY <1>2, <2>3, <2>7 DEF Orderly, MidAnswer
  <2>9. Waits(x, z)
    BY <1>2, <2>3 DEF Waits
  <2> QED
    BY <2>2, <2>3, <2>4, <2>5, <2>6, <2>8, <2>9 DEF z
<1> HIDE DEF IsAnswered, GoesOn
<1>10. CASE ~p.file_ended
  <2> DEFINE z == [p EXCEPT !.st = "WRITING_RESPONSE"]
  <2>1. W = V /\ p \in Session
    BY <1>4, <1>10 DEF Sound
  <2> HIDE DEF W
  <2>2. W.conn = [conn EXCEPT ![c] = p] /\ W.conn[c] = p /\ W \in States
    BY <1>5, <1>6, <1>7, <2>1
  <2>3. /\ conn' = [conn EXCEPT ![c] = z] /\ items' = V.items
        /\ kernel' = S.kernel /\ current' = current /\ server' = "running"
        /\ z.st = "WRITING_RESPONSE" /\ Orderly(z)
        /\ z.file_fd = f /\ z.connection_fd = s /\ z.references = 1
        /\ z.file_opened /\ ~z.file_ended
        /\ Covered(c, z, logged') /\ Waits(x, z)
    <3>1. IsAnswered(p)
      BY <1>4, <1>10, <2>1, <2>2 DEF IsAnswered
    <3>2. GoesOn(p, z)
      BY <1>9, <3>1
    <3> HIDE DEF z
    <3> QED
      BY <1>4, <1>6, <1>10, <2>1, <3>2 DEF GoesOn
  <2> HIDE DEF z
  <2>4. SameFiles(x, z)
    BY <1>1, <2>3 DEF SameFiles, HasFile
  <2>5. conn'[c] = z /\ Becomes(c, z)
    BY <1>1, <1>3, <2>3 DEF Becomes
  <2>6. Control(c)'
    <3>1. /\ items'[z.connection_fd].interest = SocketInterest(z)
          /\ items'[z.file_fd].interest = FileInterest(z)
          /\ z.file_opened
      BY <1>6, <2>3 DEF SocketInterest, FileInterest
    <3> QED
      BY <2>5, <3>1 DEF Control
  <2>7. SameOwners(c)
    BY <1>1, <1>5, <1>6, <2>3 DEF SameOwners
  <2>8. z.st # "UNUSED"
    BY <2>3
  <2> QED
    BY <2>3, <2>4, <2>5, <2>6, <2>7, <2>8, UpdateClean
<1>11. CASE p.file_ended
  <2> DEFINE y == [p EXCEPT !.references = 0]
             z == [y EXCEPT !.st = "WRITING_RESPONSE"]
  <2>1. W = Unregister(V, f) /\ p \in Session
    BY <1>4, <1>11 DEF Sound
  <2>2. /\ y \in Session /\ y.st = x.st
        /\ y.command = "RETR" /\ y.arg = x.arg /\ y.multiline_state = "MULTILINE"
        /\ y.finished = x.finished /\ y.pop3_protocol_state = "TRANSACTION"
        /\ y.user_s = x.user_s /\ y.info_file_buff = p.info_file_buff /\ y.file_opened
        /\ y.file_ended = p.file_ended /\ y.file_fd = f /\ y.connection_fd = s
        /\ y.references = 0 /\ y.info_write_buff = x.info_write_buff
    BY <1>4, <2>1 DEF Session
  <2> HIDE DEF W
  <2>3. /\ W \in States
        /\ W.items = [V.items EXCEPT ![f] = Unused]
        /\ W.kernel = [V.kernel EXCEPT ![f] = Closed]
        /\ W.conn = [V.conn EXCEPT ![c] = y]
        /\ W.current = current
    <3>1. Without(V, W, f, c)
      BY <1>1, <1>6, <2>1, UnregisterIs
    <3>2. V.conn[c] = p /\ p.references = 1 /\ 1 - 1 = 0
      BY <1>4, <1>6, <1>7
    <3> QED
      BY <1>6, <3>1, <3>2 DEF Without
  <2> HIDE DEF y
  <2>4. W.conn = [conn EXCEPT ![c] = y] /\ W.conn[c] = y
    <3>1. W.conn = [[conn EXCEPT ![c] = p] EXCEPT ![c] = y]
      BY <1>5, <1>6, <2>3
    <3> QED
      BY <1>1, <1>3, <3>1
  <2>5. /\ conn' = [conn EXCEPT ![c] = z] /\ items' = W.items
        /\ kernel' = W.kernel /\ current' = current /\ server' = "running"
        /\ z.st = "WRITING_RESPONSE" /\ Orderly(z)
        /\ z.file_fd = f /\ z.connection_fd = s /\ z.references = 0
        /\ z.file_opened /\ z.file_ended
        /\ Covered(c, z, logged') /\ Waits(x, z)
    <3>1. IsAnswered(y)
      BY <1>11, <2>2, <2>3, <2>4 DEF IsAnswered
    <3>2. GoesOn(y, z)
      BY <1>9, <3>1
    <3> HIDE DEF z
    <3> QED
      BY <1>11, <2>2, <2>3, <3>2 DEF GoesOn
  <2> HIDE DEF z
  <2>6. conn'[c] = z /\ \A d \in Conn \ {c} : conn'[d] = conn[d]
    BY <1>1, <1>3, <2>5
  <2>7. /\ items'[f] = Unused /\ kernel'[f] = Closed
        /\ \A h \in Fd : items'[h].conn = IF h = f THEN NoConn ELSE items[h].conn
        /\ \A h \in Fd \ {f, s} : items'[h] = items[h] /\ kernel'[h] = kernel[h]
        /\ items'[s].interest = "WRITE" /\ kernel'[s] = kernel[s]
    BY <1>1, <1>5, <1>6, <2>3, <2>5 DEF States, Unused
  <2>8. SameElsewhere(c)
    BY <1>1, <2>6, <2>7 DEF SameElsewhere
  <2>9. \A h \in Fd : Tracked(h)'
    <3>1. \A h \in Fd : Tracked(h)
      BY DEF Working, CleanInv
    <3> QED
      BY <1>1, <2>7, <3>1 DEF Tracked, Unused
  <2>10. Whole(c)'
    <3>1. Descriptors(z) = {s} /\ ~HasFile(z)
      BY <2>5 DEF Descriptors, HasFile
    <3>2. Descriptors(x) = {s, f}
      BY DEF Descriptors
    <3>3. \A h \in Fd : items'[h].conn = c <=> h \in Descriptors(z)
      BY <1>1, <2>7, <3>1, <3>2, WorkingFacts
    <3> QED
      BY <1>1, <2>5, <2>6, <2>7, <3>1, <3>3 DEF Whole
  <2>11. Control(c)'
    <3>1. /\ items'[z.connection_fd].interest = SocketInterest(z) /\ ~HasFile(z)
          /\ z.st # "PROCESSING_RESPONSE"
      BY <2>5, <2>7 DEF SocketInterest, HasFile
    <3> QED
      BY <2>6, <3>1 DEF Control
  <2>12. /\ Orderly(conn'[c]) /\ conn'[c].st # "UNUSED"
         /\ Waits(conn[c], conn'[c])
         /\ Covered(c, conn'[c], logged')
         /\ current' = current /\ server' = "running"
    BY <2>5, <2>6
  <2> QED
    BY <2>8, <2>9, <2>10, <2>11, <2>12, LocalClean
<1> QED
  BY <1>10, <1>11

\* process_response, the read() that fails included.
LEMMA ProcessResponseClean ==
  ASSUME NEW c, Working(c), NEW f \in Fd, Owner(f) = c, ProcessResponse(f)
  PROVE  KeptBy(c)
<1> DEFINE x == conn[c]
<1>1. x.st = "PROCESSING_RESPONSE" /\ items[f].interest = "READ" /\ c \in Conn
  BY DEF ProcessResponse, Ready, Working
<1>2. f = x.file_fd /\ x \in Sound /\ Orderly(x) /\ x # Blank
  BY <1>1, ReadyWhere, WorkingFacts
<1>3. HasFile(x) /\ x.file_opened /\ ~x.file_ended
  BY <1>1, WorkingFacts DEF Orderly, NoAnswer, MidAnswer, HasFile
<1>4. CASE Finish(c, Here, logged)
  <2>1. With(Here, c, x) = Here
    BY <1>1 DEF With, Here, Working, IInv, TypeOK
  <2>2. Handled(c, x, Here)
    BY <1>1, <1>2, <1>3, <2>1, HandledHere DEF SameFiles
  <2>3. LoggedOK(logged) /\ Covered(c, x, logged)
    BY CoveredHere DEF Working, IInv, TypeOK, LoggedOK
  <2> QED
    BY <1>4, <2>2, <2>3, FinishClean
<1>5. ASSUME NEW n \in 0..WriteSpace(x.info_file_buff, FileLimit),
             CanReadOf(f, WriteSpace(x.info_file_buff, FileLimit), n),
             AfterFile(c, Consumed(With(Here, c, Filled(x, n)), f, n))
      PROVE  KeptBy(c)
  <2>1. WriteSpace(x.info_file_buff, FileLimit) \in Int
    BY <1>2, ConstantsAssumption
    DEF ConstantsAssumption, Sound, Session, Buffers, WriteSpace
  <2>2. n \in Nat /\ n <= WriteSpace(x.info_file_buff, FileLimit)
    BY <2>1
  <2> QED
    BY <1>1, <1>2, <1>3, <1>5, <2>2, AfterFileClean
<1> QED
  BY <1>3, <1>4, <1>5 DEF ProcessResponse

-----------------------------------------------------------------------------
(* The invariant.                                                          *)

\* Between two commands, while a mail is sent and at its end.
LEMMA WriteResponseClean ==
  ASSUME NEW c, Working(c), Sheltered, NEW f \in Fd, Owner(f) = c, WriteResponse(f)
  PROVE  KeptBy(c)
<1>1. CASE StatAction(f) \/ NoopAction(f) \/ CapaAction(f) \/ DefaultAction(f)
  BY <1>1, StatClean DEF StatAction, NoopAction, CapaAction, DefaultAction
<1>2. CASE UserAction(f) \/ PassAction(f) \/ DeleAction(f) \/ RsetAction(f)
  BY <1>2, UserClean, PassClean, DeleClean, RsetClean
<1>3. CASE ListOne(f) \/ ListAll(f)
  BY <1>3, ListOneClean, ListAllClean
<1>4. CASE RetrError(f) \/ RetrFirst(f) \/ RetrMore(f) \/ RetrCopy(f)
  BY <1>4, RetrErrorClean, RetrFirstClean, RetrMoreClean, RetrCopyClean DEF Sheltered
<1>5. CASE SendRest(f)
  BY <1>5, SendRestClean
<1> QED
  BY <1>1, <1>2, <1>3, <1>4, <1>5 DEF WriteResponse

\* A handler runs only while the server does, for a session that exists.
LEMMA HandlerRuns ==
  ASSUME CleanInv, IInv, NEW f \in Fd, Handler(f)
  PROVE  Running /\ Owner(f) \in Conn /\ conn[Owner(f)].st # "UNUSED"
<1>1. Running /\ Owner(f) # NoConn
  BY DEF Handler, HelloWrite, ReadRequest, WriteResponse, ProcessResponse, FinishError,
     StmAbort, QuitAction, StatAction, NoopAction, CapaAction, DefaultAction, UserAction,
     PassAction, DeleAction, RsetAction, ListOne, ListAll, RetrError, RetrFirst, RetrMore,
     RetrCopy, SendRest, Executing, Ready
<1>2. Owner(f) \in Conn
  BY <1>1 DEF IInv, TypeOK, Owner
<1>3. Whole(Owner(f))
  BY <1>1, <1>2 DEF CleanInv, Running, Closing
<1> QED
  BY <1>1, <1>2, <1>3 DEF Whole, Owner

\* Every handler keeps the invariant, and none finds the state machine without
\* a function for its state.
LEMMA HandlerClean ==
  ASSUME CleanInv, Sheltered, IInv, IInv', NEW f \in Fd, Handler(f)
  PROVE  Working(Owner(f)) /\ KeptBy(Owner(f))
<1>1. PICK c : c = Owner(f)
  OBVIOUS
<1>2. Working(c) /\ Owner(f) = c
  BY <1>1, HandlerRuns DEF Working
<1>3. CASE WriteResponse(f)
  BY <1>2, <1>3, WriteResponseClean
<1>4. CASE HelloWrite(f) \/ ReadRequest(f) \/ ProcessResponse(f)
  BY <1>2, <1>4, HelloClean, ReadRequestClean, ProcessResponseClean
<1>5. CASE FinishError(f) \/ QuitAction(f)
  BY <1>2, <1>5, FinishErrorClean, QuitClean
<1>6. CASE StmAbort(f)
  BY <1>2, <1>6, NoStmAbort
<1> QED
  BY <1>1, <1>2, <1>3, <1>4, <1>5, <1>6 DEF Handler

\* A connection begins on a free descriptor; the selector closes one.
Opens ==
  \E c \in Conn, f \in Fd :
    /\ kernel[f].kind = "closed"
    /\ conn' = [conn EXCEPT ![c] = NewSession(f)]
    /\ kernel' = [kernel EXCEPT ![f] = [kernel[f] EXCEPT !.kind = "socket"]]
Closes ==
  \E c \in Conn, n \in Nat :
    \/ conn' = [conn EXCEPT ![c] = Blank]
    \/ conn' = [conn EXCEPT ![c] = [conn[c] EXCEPT !.references = n]]

\* A new connection takes the lowest free descriptor.
LEMMA AcceptClean ==
  ASSUME CleanInv, Sheltered, IInv, IInv', Accept
  PROVE  CleanInv' /\ Opens
<1>1. PICK c \in Conn, f \in Free :
        /\ conn[c] = Blank
        /\ Become(IF Refuses(Here, f) THEN [Here EXCEPT !.current = Decreased(@)]
                  ELSE [Register(With(Here, c, NewSession(f)), f, c, "WRITE") EXCEPT
                          !.kernel[f].kind = "socket", !.current = Increased(@)])
        /\ UNCHANGED <<logged, server>>
  BY DEF Accept
<1> DEFINE p == NewSession(f)
<1>2. /\ f \in Fd /\ kernel[f].kind = "closed" /\ items[f].conn = NoConn /\ Running
      /\ ~Refuses(Here, f) /\ c # NoConn
  <2>1. f \in Fd /\ kernel[f].kind = "closed"
    BY DEF Free
  <2>2. ~(f > ItemsMax)
    BY <2>1, ConstantsAssumption DEF ConstantsAssumption, Fd, Sheltered, AllIndexed
  <2>3. items[f].conn = NoConn
    BY <2>1 DEF CleanInv, Tracked
  <2> QED
    BY <2>1, <2>2, <2>3, ConstantsAssumption
    DEF Accept, ConstantsAssumption, Refuses, Registered, Here
<1>3. /\ items \in [Fd -> [conn : Conn \cup {NoConn}, interest : Interest]]
      /\ kernel \in [Fd -> [kind : {"closed", "socket", "file"}, left : Nat]]
      /\ conn \in [Conn -> Session] /\ current \in 0..(Word - 1)
  BY DEF IInv, TypeOK
<1>4. items[f].conn = NoConn
  BY <1>2
<1>5. /\ conn' = [conn EXCEPT ![c] = p]
      /\ items' = [items EXCEPT ![f] = [conn |-> c, interest |-> "WRITE"]]
      /\ kernel' = [kernel EXCEPT ![f] = [kernel[f] EXCEPT !.kind = "socket"]]
      /\ current' = Increased(current)
  <2> HIDE DEF p
  <2> DEFINE R == Register(With(Here, c, p), f, c, "WRITE")
  <2>1. R = [items |-> [items EXCEPT ![f] = [conn |-> c, interest |-> "WRITE"]],
             kernel |-> kernel, conn |-> [conn EXCEPT ![c] = p], current |-> current]
    BY <1>2 DEF Register, With, Here, Refuses, Registered
  <2>2. Become([R EXCEPT !.kernel[f].kind = "socket", !.current = Increased(@)])
    BY <1>1, <1>2 DEF p
  <2> HIDE DEF R
  <2> QED
    BY <1>2, <1>3, <2>1, <2>2 DEF Become
<1>6. /\ conn'[c] = p /\ \A d \in Conn \ {c} : conn'[d] = conn[d]
      /\ items'[f] = [conn |-> c, interest |-> "WRITE"]
      /\ \A g \in Fd \ {f} : items'[g] = items[g] /\ kernel'[g] = kernel[g]
      /\ kernel'[f].kind = "socket"
  BY <1>2, <1>3, <1>5
<1>7. /\ p.st = "HELLO" /\ p.connection_fd = f /\ ~p.finished
      /\ p.multiline_state = "FIRST_LINE" /\ NoAnswer(p) /\ p.references = 0
  BY DEF NewSession, Blank, NoAnswer
<1> HIDE DEF p
<1>8. SameElsewhere(c)
  BY <1>2, <1>4, <1>6 DEF SameElsewhere
<1>9. \A d \in Conn : Orderly(conn[d])'
  <2>1. Orderly(p)
    BY <1>7 DEF Orderly
  <2> QED
    BY <1>6, <2>1 DEF CleanInv
<1>10. \A g \in Fd : Tracked(g)'
  BY <1>2, <1>6 DEF CleanInv, Tracked
<1>11. \A d \in Conn : Whole(d) /\ Control(d)
  BY <1>2 DEF CleanInv, Running, Closing
<1>12. Whole(c)'
  <2>1. \A g \in Fd : items[g].conn # c
    BY <1>1, <1>11 DEF Whole, Blank
  <2> QED
    BY <1>2, <1>6, <1>7, <2>1 DEF Whole, Descriptors, HasFile, NoAnswer
<1>13. Control(c)'
  BY <1>6, <1>7 DEF Control, SocketInterest, HasFile, NoAnswer
<1>14. \A d \in Conn : Whole(d)' /\ Control(d)'
  BY <1>8, <1>11, <1>12, <1>13, ElsewhereWhole, ElsewhereControl
<1>15. LocksHeld'
  <2>1. Covered(c, conn'[c], logged)
    <3> SUFFICES ASSUME NEW u \in User, logged[u]
                 PROVE  \E d \in Conn \ {c} : Holds(d, u)
      BY DEF Covered
    <3>1. PICK d \in Conn : Holds(d, u)
      BY <1>2 DEF CleanInv, LocksHeld
    <3>2. d # c
      BY <1>1, <3>1 DEF Holds, Alive, Blank
    <3> QED
      BY <3>1, <3>2
  <2> QED
    BY <1>1, <1>8, <2>1, ElsewhereHeld
<1>16. server' = "running"
  BY <1>1, <1>2 DEF Running
<1>17. Opens
  <2>1. /\ kernel[f].kind = "closed" /\ f \in Fd
        /\ conn' = [conn EXCEPT ![c] = NewSession(f)]
        /\ kernel' = [kernel EXCEPT ![f] = [kernel[f] EXCEPT !.kind = "socket"]]
    BY <1>2, <1>5 DEF p
  <2> QED
    BY <2>1, Zenon DEF Opens
<1> QED
  BY <1>9, <1>10, <1>14, <1>15, <1>16, <1>17 DEF CleanInv, Closing

\* Closing the descriptors of one session leaves what the others have.
LEMMA ElsewherePartly ==
  ASSUME NEW d \in Conn, Partly(d), conn'[d] = conn[d],
         \A g \in Fd : items'[g].conn = d <=> items[g].conn = d
  PROVE  Partly(d)'
<1> DEFINE p == conn[d]
           Mine == \A g \in Descriptors(p) : g \in Fd /\ items[g].conn = d
           MineNow == \A g \in Descriptors(p) : g \in Fd /\ items'[g].conn = d
<1>1. MineNow <=> Mine
  OBVIOUS
<1>2. CASE p.st = "UNUSED"
  BY <1>2 DEF Partly
<1>3. CASE p.st # "UNUSED"
  <2>1. /\ \A g \in Fd : items'[g].conn = d => g \in Descriptors(p)
        /\ \E g \in Fd : items'[g].conn = d
        /\ HasFile(p) => p.file_fd # p.connection_fd
        /\ p.references = IF HasFile(p) /\ Mine THEN 1 ELSE 0
    BY <1>3 DEF Partly
  <2> HIDE DEF Mine, p
  <2>2. p.references = IF HasFile(p) /\ MineNow THEN 1 ELSE 0
    BY <1>1, <2>1
  <2> QED
    BY <1>3, <2>1, <2>2 DEF Partly, p
<1> QED
  BY <1>2, <1>3

\* selector_destroy closes one descriptor: the last one of a session frees it.
LEMMA CloseItemClean ==
  ASSUME CleanInv, IInv, CloseItem
  PROVE  CleanInv' /\ Closes
<1>1. PICK f \in Fd : /\ Registered(Here, f) /\ Become(Unregister(Here, f))
                      /\ UNCHANGED server /\ server = "closing"
  BY DEF CloseItem
<1>2. PICK c : c = items[f].conn
  OBVIOUS
<1>3. /\ items \in [Fd -> [conn : Conn \cup {NoConn}, interest : Interest]]
      /\ kernel \in [Fd -> [kind : {"closed", "socket", "file"}, left : Nat]]
      /\ conn \in [Conn -> Session] /\ current \in 0..(Word - 1)
  BY DEF IInv, TypeOK
<1>4. c \in Conn /\ c # NoConn /\ conn[c] \in Session
  BY <1>1, <1>2, <1>3 DEF Registered, Here
<1> DEFINE p == conn[c]
           n == p.references
           q == [p EXCEPT !.references = n - 1]
           Mine == \A g \in Descriptors(p) : g \in Fd /\ items[g].conn = c
<1>5. /\ items' = [items EXCEPT ![f] = Unused]
      /\ kernel' = [kernel EXCEPT ![f] = Closed]
      /\ n = 0 => conn' = [conn EXCEPT ![c] = Blank] /\ current' = Decreased(current)
      /\ n # 0 => conn' = [conn EXCEPT ![c] = q] /\ current' = current
  <2> DEFINE U == Unregister(Here, f)
  <2>1. Without(Here, U, f, c)
    BY <1>2, <1>4, UnregisterIs DEF IInv, Here
  <2>2. Become(U)
    BY <1>1
  <2> HIDE DEF U
  <2> QED
    BY <2>1, <2>2 DEF Without, Become, Here
<1>6. Partly(c) /\ Orderly(p)
  BY <1>1, <1>4 DEF CleanInv, Closing
<1>7. p.st # "UNUSED"
  BY <1>2, <1>6 DEF Partly
<1>8. /\ \A g \in Fd : items[g].conn = c => g \in Descriptors(p)
      /\ HasFile(p) => p.file_fd # p.connection_fd
      /\ n = IF HasFile(p) /\ Mine THEN 1 ELSE 0
  BY <1>6, <1>7 DEF Partly
<1>9. \A d \in Conn \ {c} : conn'[d] = conn[d]
  BY <1>3, <1>5
<1>10. /\ \A g \in Fd : items'[g].conn = IF g = f THEN NoConn ELSE items[g].conn
       /\ items'[f] = Unused /\ kernel'[f] = Closed
       /\ \A g \in Fd \ {f} : items'[g] = items[g] /\ kernel'[g] = kernel[g]
  BY <1>3, <1>5 DEF Unused
<1>11. \A g \in Fd : Tracked(g)'
  BY <1>10 DEF CleanInv, Tracked, Unused
<1>12. \A d \in Conn \ {c} : Partly(d)'
  <2> SUFFICES ASSUME NEW d \in Conn \ {c} PROVE Partly(d)'
    OBVIOUS
  <2>1. Partly(d) /\ d # NoConn
    BY <1>1, ConstantsAssumption DEF CleanInv, Closing, ConstantsAssumption
  <2>2. \A g \in Fd : items'[g].conn = d <=> items[g].conn = d
    BY <1>2, <1>10, <2>1
  <2> QED
    BY <1>9, <2>1, <2>2, ElsewherePartly
<1>13. Orderly(conn'[c]) /\ Partly(c)'
  <2>1. CASE n = 0
    <3>1. conn'[c] = Blank
      BY <1>3, <1>4, <1>5, <2>1
    <3>2. \A g \in Fd \ {f} : items[g].conn # c
      <4>1. CASE ~HasFile(p)
        BY <1>2, <1>8, <4>1 DEF Descriptors
      <4>2. CASE HasFile(p)
        <5>1. PICK h \in {p.connection_fd, p.file_fd} : ~(h \in Fd /\ items[h].conn = c)
          BY <1>8, <2>1, <4>2 DEF Descriptors
        <5>2. \A g \in Fd : items[g].conn = c => g \in {p.connection_fd, p.file_fd}
          BY <1>8, <4>2 DEF Descriptors
        <5> QED
          BY <1>2, <5>1, <5>2
      <4> QED
        BY <4>1, <4>2
    <3>3. Partly(c)'
      BY <1>4, <1>10, <3>1, <3>2 DEF Partly, Blank
    <3> QED
      BY <3>1, <3>3 DEF Orderly
  <2>2. CASE n # 0
    <3>1. HasFile(p) /\ Mine /\ n = 1
      BY <1>8, <2>2
    <3>2. conn'[c] = q
      BY <1>3, <1>4, <1>5, <2>2
    <3>3. q.references = 0
      BY <1>4, <3>1 DEF Session
    <3>4. /\ q.st = p.st /\ HasFile(q) /\ q.file_fd = p.file_fd
          /\ q.connection_fd = p.connection_fd
      BY <1>4, <3>1 DEF Session, HasFile
    <3>5. Orderly(q)
      <4>1. q # Blank /\ p # Blank
        BY <1>7, <3>4 DEF Blank
      <4> QED
        BY <1>4, <1>6, <4>1 DEF Orderly, NoAnswer, MidAnswer, Session
    <3> DEFINE MineNow == \A g \in Descriptors(q) : g \in Fd /\ items'[g].conn = c
    <3>6. Descriptors(q) = Descriptors(p) /\ f \in Descriptors(p)
      BY <1>2, <1>8, <3>1, <3>4 DEF Descriptors
    <3>7. ~MineNow
      BY <1>4, <1>10, <3>6
    <3>8. \E g \in Fd : items'[g].conn = c
      <4>1. PICK g \in Descriptors(p) : g # f
        BY <1>8, <3>1 DEF Descriptors
      <4> QED
        BY <1>10, <3>1, <4>1
    <3>9. \A g \in Fd : items'[g].conn = c => g \in Descriptors(q)
      BY <1>4, <1>8, <1>10, <3>6
    <3> HIDE DEF q
    <3>10. q.references = IF HasFile(q) /\ MineNow THEN 1 ELSE 0
      BY <3>3, <3>7
    <3>11. Partly(c)'
      <4> HIDE DEF MineNow
      <4>1. q.st # "UNUSED" /\ q.file_fd # q.connection_fd
        BY <1>7, <1>8, <3>1, <3>4
      <4> QED
        BY <3>2, <3>8, <3>9, <3>10, <4>1 DEF Partly, MineNow
    <3> QED
      BY <3>2, <3>5, <3>11
  <2> QED
    BY <2>1, <2>2
<1>14. /\ \A d \in Conn : Orderly(conn[d])'
       /\ \A d \in Conn : Partly(d)'
  BY <1>9, <1>12, <1>13 DEF CleanInv
<1>15. server' = "closing"
  BY <1>1
<1>16. Closes
  <2>1. n # 0 => n - 1 \in Nat
    BY <1>4 DEF Session
  <2> QED
    BY <1>4, <1>5, <2>1 DEF Closes
<1> QED
  BY <1>11, <1>13, <1>14, <1>15, <1>16 DEF CleanInv, Closing, Running

\* The signal: every session has its descriptors when the loop of main ends.
LEMMA ShutdownClean ==
  ASSUME CleanInv, Shutdown
  PROVE  CleanInv'
<1>1. /\ server = "running" /\ server' = "closing"
      /\ UNCHANGED <<items, kernel, conn, current, logged>>
  BY DEF Shutdown, Running
<1>2. ASSUME NEW c \in Conn PROVE Partly(c)'
  <2>1. Whole(c)
    BY <1>1 DEF CleanInv, Closing
  <2>2. Partly(c)
    BY <2>1 DEF Whole, Partly, Descriptors
  <2> QED
    BY <1>1, <2>2 DEF Partly
<1>3. \A f \in Fd : Tracked(f)'
  BY <1>1 DEF CleanInv, Tracked
<1>4. \A c \in Conn : Orderly(conn[c])'
  BY <1>1 DEF CleanInv
<1> QED
  BY <1>1, <1>2, <1>3, <1>4 DEF CleanInv, Closing, Running

\* The process ends when the selector is empty.
LEMMA StoppedClean ==
  ASSUME CleanInv, IInv, Stopped
  PROVE  CleanInv'
<1>1. /\ server = "closing" /\ server' = "stopped"
      /\ UNCHANGED <<items, kernel, conn, current, logged>>
      /\ \A f \in Fd : items[f].conn = NoConn
  BY DEF Stopped, Registered, Here
<1>2. \A c \in Conn : Partly(c)'
  BY <1>1 DEF CleanInv, Closing, Partly
<1>3. \A f \in Fd : Tracked(f)'
  BY <1>1 DEF CleanInv, Tracked
<1>4. \A c \in Conn : Orderly(conn[c])'
  BY <1>1 DEF CleanInv
<1> QED
  BY <1>1, <1>2, <1>3, <1>4 DEF CleanInv, Closing, Running

\* Neither a failed accept, nor the administration, nor the mail that arrives
\* touches a descriptor.
LEMMA QuietClean ==
  ASSUME CleanInv, UNCHANGED <<items, kernel, conn, current, logged, server>>
  PROVE  CleanInv'
<1>1. /\ \A c \in Conn : Orderly(conn[c])'
      /\ \A f \in Fd : Tracked(f)'
  BY DEF CleanInv, Tracked
<1>2. /\ Closing' <=> Closing
      /\ Running' <=> Running
      /\ \A c \in Conn : Whole(c) => Whole(c)'
      /\ \A c \in Conn : Partly(c) => Partly(c)'
      /\ \A c \in Conn : Control(c) => Control(c)'
      /\ LocksHeld => LocksHeld'
  BY DEF Closing, Running, Whole, Partly, Control, LocksHeld, Holds, Alive
<1> QED
  BY <1>1, <1>2 DEF CleanInv

\* Before the first connection there is nothing to agree about.
LEMMA InitClean == Init => CleanInv
<1> SUFFICES ASSUME Init PROVE CleanInv
  OBVIOUS
<1>1. /\ \A c \in Conn : conn[c] = Blank
      /\ \A f \in Fd : items[f] = Unused /\ kernel[f] = Closed
      /\ \A u \in User : ~logged[u]
      /\ current = 0 /\ server = "running"
  BY DEF Init
<1>2. /\ \A c \in Conn : Orderly(conn[c])
      /\ \A f \in Fd : Tracked(f)
  BY <1>1 DEF Orderly, Tracked, Unused
<1>3. \A c \in Conn : Whole(c) /\ Control(c)
  BY <1>1, ConstantsAssumption DEF Whole, Control, Blank, Unused, ConstantsAssumption
<1> QED
  BY <1>1, <1>2, <1>3 DEF CleanInv, Closing, LocksHeld

\* Every step of a sheltered server keeps the invariant.
LEMMA NextClean == CleanInv /\ Sheltered /\ IInv /\ [Next]_vars => CleanInv'
<1> SUFFICES ASSUME CleanInv, Sheltered, IInv, [Next]_vars PROVE CleanInv'
  OBVIOUS
<1>1. IInv'
  BY NextIInv
<1>2. CASE \E f \in Fd : Handler(f)
  BY <1>1, <1>2, HandlerClean DEF KeptBy
<1>3. CASE Process
  BY <1>1, <1>3, AcceptClean, ShutdownClean, CloseItemClean, StoppedClean, QuietClean
  DEF Process, AcceptFails, AdminRead
<1>4. CASE Deliver
  BY <1>4, QuietClean DEF Deliver
<1>5. CASE UNCHANGED vars
  BY <1>5, QuietClean DEF vars
<1> QED
  BY <1>2, <1>3, <1>4, <1>5 DEF Next

-----------------------------------------------------------------------------
(* What follows for the properties.                                        *)

\* The invariant holds in every state a sheltered server reaches.
THEOREM CleanInvariant == Spec /\ []Sheltered => []CleanInv
  BY InitClean, NextClean, Invariant, PTL DEF Spec

\* The selector dispatches a session through one of its descriptors, the one
\* that its state has a handler for (stm.c:70, 88).
THEOREM OneDispatched == Spec /\ []Sheltered => []OneInterest
<1>1. CleanInv /\ IInv => OneInterest
  <2> SUFFICES ASSUME CleanInv, IInv, NEW c \in Conn, Running, Alive(c)
               PROVE  /\ {f \in Items(c) : items[f].interest # "NOOP"} =
                           {IF conn[c].st = "PROCESSING_RESPONSE"
                            THEN conn[c].file_fd ELSE conn[c].connection_fd}
                      /\ \A f \in Items(c) :
                           /\ items[f].interest = "READ" =>
                                conn[c].st \in {"READING_REQUEST", "PROCESSING_RESPONSE"}
                           /\ items[f].interest = "WRITE" =>
                                conn[c].st \in {"HELLO", "WRITING_RESPONSE", "ERROR"}
    BY DEF OneInterest
  <2> DEFINE p == conn[c]
  <2>1. /\ p.st # "UNUSED" /\ p.st # "FINISHED" /\ p.st \in State
    BY DEF Alive, IInv, TypeOK, Session
  <2>2. /\ p.connection_fd \in Fd
        /\ HasFile(p) => p.file_fd \in Fd /\ p.file_fd # p.connection_fd
        /\ \A f \in Fd : items[f].conn = c <=> f \in Descriptors(p)
    BY <2>1 DEF CleanInv, Running, Closing, Whole
  <2>3. /\ items[p.connection_fd].interest = SocketInterest(p)
        /\ HasFile(p) => items[p.file_fd].interest = FileInterest(p)
    BY <2>1 DEF CleanInv, Control
  <2>4. p.st = "PROCESSING_RESPONSE" => HasFile(p)
    <3>1. p # Blank /\ Orderly(p)
      BY <2>1 DEF CleanInv, Blank
    <3>2. p.st = "PROCESSING_RESPONSE" => ~p.file_ended
      BY <3>1 DEF Orderly, NoAnswer, MidAnswer
    <3>3. p.st = "PROCESSING_RESPONSE" => p.file_opened
      BY <2>1 DEF CleanInv, Control
    <3> QED
      BY <3>2, <3>3 DEF HasFile
  <2>5. Items(c) = Descriptors(p)
    BY <2>2 DEF Items, Owner, Descriptors
  <2>6. \A f \in Descriptors(p) :
          \/ f = p.connection_fd /\ items[f].interest = SocketInterest(p)
          \/ HasFile(p) /\ f = p.file_fd /\ items[f].interest = FileInterest(p)
    BY <2>3 DEF Descriptors
  <2>7. p.connection_fd \in Descriptors(p) /\ (HasFile(p) => p.file_fd \in Descriptors(p))
    BY DEF Descriptors
  <2>8. \A f \in Items(c) :
          /\ items[f].interest = "READ" =>
               p.st \in {"READING_REQUEST", "PROCESSING_RESPONSE"}
          /\ items[f].interest = "WRITE" => p.st \in {"HELLO", "WRITING_RESPONSE", "ERROR"}
    BY <2>1, <2>5, <2>6 DEF SocketInterest, FileInterest, State
  <2>9. CASE p.st = "PROCESSING_RESPONSE"
    <3>1. {f \in Items(c) : items[f].interest # "NOOP"} = {p.file_fd}
      BY <2>2, <2>3, <2>4, <2>5, <2>6, <2>7, <2>9 DEF SocketInterest, FileInterest
    <3> QED
      BY <2>8, <2>9, <3>1
  <2>10. CASE p.st # "PROCESSING_RESPONSE"
    <3>1. {f \in Items(c) : items[f].interest # "NOOP"} = {p.connection_fd}
      BY <2>2, <2>3, <2>5, <2>6, <2>7, <2>10 DEF SocketInterest, FileInterest
    <3> QED
      BY <2>8, <2>10, <3>1
  <2> QED
    BY <2>9, <2>10
<1> QED
  BY <1>1, CleanInvariant, Invariant, PTL

\* Between two answers the buffers of a session are empty.
LEMMA CleanBuffers == CleanInv => FreshOutput /\ NoStaleFile
<1> SUFFICES ASSUME CleanInv, NEW c \in Conn
             PROVE  /\ /\ conn[c].st = "WRITING_RESPONSE" /\ ~conn[c].finished
                       /\ conn[c].multiline_state = "FIRST_LINE"
                       => conn[c].info_write_buff = Fresh
                    /\ conn[c].multiline_state = "FIRST_LINE"
                         => conn[c].info_file_buff = Fresh
  BY DEF FreshOutput, NoStaleFile
<1>1. Orderly(conn[c])
  BY DEF CleanInv
<1>2. CASE conn[c] = Blank
  BY <1>2 DEF Blank
<1>3. CASE conn[c] # Blank
  BY <1>1, <1>3 DEF Orderly, NoAnswer
<1> QED
  BY <1>2, <1>3

\* A command starts with an empty output buffer (pop3.c:736), whatever came
\* before it on the connection.
THEOREM OutputFresh == Spec /\ []Sheltered => []FreshOutput
  BY CleanBuffers, CleanInvariant, PTL

\* A RETR starts with an empty file buffer, whatever mails came before it.
THEOREM FileFresh == Spec /\ []Sheltered => []NoStaleFile
  BY CleanBuffers, CleanInvariant, PTL

\* While the server runs a session whose connection was closed is freed
\* (pop3.c:445-446).
THEOREM ClosedIsFreed == Spec /\ []Sheltered => []SessionFreed
<1>1. CleanInv => SessionFreed
  BY DEF CleanInv, SessionFreed, Orderly, Blank
<1> QED
  BY <1>1, CleanInvariant, PTL

\* A maildrop is marked as taken exactly while a session has it.
THEOREM LocksRight == Spec /\ []Sheltered => []LockMatchesHolder
<1>1. CleanInv /\ IInv => LockMatchesHolder
  BY DEF CleanInv, IInv, LockOK, Locks, LocksHeld, LockMatchesHolder, Holds, Alive
<1> QED
  BY <1>1, CleanInvariant, Invariant, PTL

\* finish_connection never aborts on a file that is not registered, and no
\* session is used after it was freed (pop3.c:613, 1070).
THEOREM FindsItsFile == Spec /\ []Sheltered => []FinishFindsItsFile
<1>1. CleanInv => FinishFindsItsFile
  BY DEF CleanInv, FinishFindsItsFile
<1> QED
  BY <1>1, CleanInvariant, PTL

-----------------------------------------------------------------------------
(* The three accidents, and the mails that are sent.                       *)

\* RETR finds no descriptor for the mail, or no mail; RETR finds no room for
\* what is in the file buffer.
NoFile(f) ==
  LET p == conn[Owner(f)]
  IN  /\ Executing(f, "RETR")
      /\ p.multiline_state = "FIRST_LINE" /\ p.arg \in Present(p)
      /\ Cardinality(Free) < 2 \/ p.arg \notin maildrop[p.user_s]
NoRoom(f) ==
  LET p == conn[Owner(f)]
  IN  /\ Executing(f, "RETR")
      /\ p.multiline_state = "MULTILINE"
      /\ CanRead(p.info_file_buff) /\ WriteSpace(p.info_write_buff, WriteLimit) = 0

\* How a handler leaves the process: the ends of the process are one of these.
Survives == server' \in {server, "abort", "undefined"}
Leaves(f) ==
  \/ Survives
  \/ server' = "exit" /\ NoFile(f)
  \/ server' = "assert" /\ NoRoom(f)

\* finish_connection and the tail of write_response by themselves.
LEMMA FinishLeaves ==
  ASSUME NEW c, NEW S, NEW lg, Finish(c, S, lg)
  PROVE  Survives
  BY DEF Finish, Halt, Survives

\* The same for a send(), which may fail.
LEMMA SendLeaves ==
  ASSUME NEW f, NEW p, NEW lg, NEW e, Send(f, p, lg, e)
  PROVE  Survives
  BY FinishLeaves DEF Send, Survives

\* An action that returned FINISHED.
LEMMA LeaveLeaves ==
  ASSUME NEW f, NEW p, NEW lg, NEW e, Leave(f, p, lg, e)
  PROVE  Survives
  BY FinishLeaves DEF Leave

\* A reply of one line.
LEMMA ReplyLeaves ==
  ASSUME NEW f, NEW p, NEW q, NEW lg, NEW e, Reply(f, p, q, lg, e)
  PROVE  Survives
  BY SendLeaves, LeaveLeaves DEF Reply

\* The commands other than RETR, and the rest of an answer.
LEMMA CommandLeaves ==
  ASSUME NEW f,
         \/ StatAction(f) \/ NoopAction(f) \/ CapaAction(f) \/ DefaultAction(f)
         \/ UserAction(f) \/ DeleAction(f) \/ RsetAction(f)
         \/ ListOne(f) \/ RetrError(f)
         \/ PassAction(f) \/ ListAll(f) \/ SendRest(f)
  PROVE  Survives
<1>1. CASE StatAction(f) \/ NoopAction(f) \/ CapaAction(f) \/ DefaultAction(f)
  BY <1>1, ReplyLeaves DEF StatAction, NoopAction, CapaAction, DefaultAction, ReplyOnly
<1>2. CASE \/ UserAction(f) \/ RsetAction(f) \/ DeleAction(f) \/ ListOne(f)
           \/ RetrError(f)
  BY <1>2, ReplyLeaves DEF UserAction, RsetAction, DeleAction, ListOne, RetrError
<1>3. CASE PassAction(f)
  BY <1>3, ReplyLeaves DEF PassAction, ReplyOnly, Survives
<1>4. CASE ListAll(f)
  BY <1>4, SendLeaves, LeaveLeaves DEF ListAll
<1>5. CASE SendRest(f)
  BY <1>5, SendLeaves DEF SendRest
<1> QED
  BY <1>1, <1>2, <1>3, <1>4, <1>5

\* RETR ends the process only without a file or without room.
LEMMA RetrLeaves ==
  ASSUME NEW f \in Fd, IInv, RetrFirst(f) \/ RetrMore(f) \/ RetrCopy(f)
  PROVE  Leaves(f)
<1> DEFINE p == conn[Owner(f)]
<1>1. CASE RetrFirst(f)
  <2> DEFINE q == [Wrote(p, ReplyLen) EXCEPT !.multiline_state = "MULTILINE"]
  <2>1. /\ Executing(f, "RETR") /\ p.multiline_state = "FIRST_LINE" /\ p.arg \in Present(p)
        /\ OpenFile(f, q, errno) \/ Leave(f, p, logged, errno)
    BY <1>1 DEF RetrFirst
  <2>2. Owner(f) \in Conn /\ p \in Session
    BY <2>1 DEF IInv, TypeOK, Executing, Ready, Owner
  <2>3. q.arg = p.arg /\ q.user_s = p.user_s
    BY <2>2 DEF Wrote, Session
  <2> HIDE DEF q
  <2>4. CASE OpenFile(f, q, errno)
    BY <2>1, <2>3, <2>4 DEF OpenFile, Halt, Leaves, Survives, NoFile
  <2> QED
    BY <2>1, <2>4, LeaveLeaves DEF Leaves
<1>2. CASE RetrMore(f)
  BY <1>2 DEF RetrMore, Leaves, Survives
<1>3. CASE RetrCopy(f)
  <2>1. CASE server' = server
    BY <2>1 DEF Leaves, Survives
  <2>2. CASE server' # server
    BY <1>3, <2>2, SendLeaves DEF RetrCopy, Leaves, Survives, Halt, NoRoom, CanRead
  <2> QED
    BY <2>1, <2>2
<1> QED
  BY <1>1, <1>2, <1>3

\* The other handlers, and all of them.
LEMMA HandlerLeaves ==
  ASSUME NEW f \in Fd, IInv, Handler(f)
  PROVE  Leaves(f)
<1>1. CASE HelloWrite(f)
  BY <1>1, FinishLeaves DEF HelloWrite, Leaves, Survives
<1>2. CASE ReadRequest(f)
  BY <1>2, FinishLeaves DEF ReadRequest, Leaves, Survives
<1>3. CASE ProcessResponse(f)
  <2>1. ASSUME NEW c, NEW S, AfterFile(c, S) PROVE Survives
    BY <2>1, FinishLeaves DEF AfterFile, Survives, Halt
  <2> QED
    BY <1>3, <2>1, FinishLeaves DEF ProcessResponse, Leaves
<1>4. CASE FinishError(f)
  BY <1>4, FinishLeaves DEF FinishError, Leaves, Survives
<1>5. CASE StmAbort(f)
  BY <1>5 DEF StmAbort, Halt, Leaves, Survives
<1>6. CASE QuitAction(f)
  BY <1>6, LeaveLeaves DEF QuitAction, Leaves, Survives
<1>7. CASE WriteResponse(f)
  BY <1>7, CommandLeaves, RetrLeaves DEF WriteResponse, Leaves
<1> QED
  BY <1>1, <1>2, <1>3, <1>4, <1>5, <1>6, <1>7 DEF Handler

\* While a mail is sent, no more than the first line waits with it.
Timely == \A c \in Conn : conn[c].file_opened => conn[c].info_write_buff.w <= ReplyLen

\* There is room then for the last line of an answer, and for the byte stuffing.
LEMMA TimelyShelters ==
  ASSUME CleanInv, IInv, Timely, NumbersParse, AllIndexed,
         ReplyLen + TermLen <= WriteLimit
  PROVE  Sheltered /\ RoomToStuff
<1>1. ASSUME NEW c \in Conn, conn[c].file_opened
      PROVE  /\ Fits(conn[c], TermLen)
             /\ WriteSpace(conn[c].info_write_buff, WriteLimit) > 0
  <2> DEFINE w == conn[c].info_write_buff.w
  <2>1. w \in Nat
    BY DEF IInv, TypeOK, Session, Buffers
  <2>2. w <= ReplyLen
    BY <1>1 DEF Timely
  <2>3. TermLen \in Nat \ {0} /\ ReplyLen \in Nat /\ WriteLimit \in Nat
    BY ConstantsAssumption DEF ConstantsAssumption
  <2> HIDE DEF w
  <2>4. TermLen <= WriteLimit - w /\ WriteLimit - w > 0
    BY <2>1, <2>2, <2>3
  <2> QED
    BY <2>4 DEF w, Fits, WriteSpace
<1>2. ASSUME NEW c \in Conn, conn[c] # Blank,
             \/ conn[c].file_ended
             \/ /\ conn[c].multiline_state = "MULTILINE" /\ conn[c].command = "RETR"
                /\ conn[c].st = "WRITING_RESPONSE"
      PROVE  conn[c].file_opened
  BY <1>2 DEF CleanInv, Orderly, NoAnswer, MidAnswer
<1>3. EndFits
  BY <1>1, <1>2 DEF EndFits, Blank
<1>4. RoomToStuff
  BY <1>1, <1>2 DEF RoomToStuff, Blank
<1> QED
  BY <1>3, <1>4 DEF Sheltered

\* A step after which every send() was whole leaves no more to wait.
LEMMA NextTimely ==
  ASSUME CleanInv, Sheltered, IInv, Timely, [Next]_vars, WholeSends'
  PROVE  Timely'
<1>1. IInv'
  BY NextIInv
<1>2. ASSUME NEW f \in Fd, Handler(f) PROVE Timely'
  <2>1. PICK c : c = Owner(f)
    OBVIOUS
  <2>2. Working(c) /\ KeptBy(c)
    BY <1>1, <1>2, <2>1, HandlerClean
  <2>3. c \in Conn /\ Waits(conn[c], conn'[c]) /\ \A d \in Conn \ {c} : conn'[d] = conn[d]
    BY <2>2 DEF Working, KeptBy, SameElsewhere
  <2>4. conn'[c].info_write_buff.r = 0
    BY <2>3 DEF WholeSends
  <2> QED
    BY <2>3, <2>4 DEF Timely, Waits
<1>3. CASE Process
  <2>1. CASE Accept
    <3>1. PICK c \in Conn, f \in Fd : conn' = [conn EXCEPT ![c] = NewSession(f)]
      BY <1>1, <2>1, AcceptClean DEF Opens
    <3>2. \A d \in Conn : conn'[d] = conn[d] \/ conn'[d] = NewSession(f)
      BY <3>1 DEF IInv, TypeOK
    <3>3. ~NewSession(f).file_opened
      BY DEF NewSession, Blank
    <3> QED
      BY <3>2, <3>3 DEF Timely
  <2>2. CASE CloseItem
    <3>1. PICK c \in Conn, n \in Nat :
            \/ conn' = [conn EXCEPT ![c] = Blank]
            \/ conn' = [conn EXCEPT ![c] = [conn[c] EXCEPT !.references = n]]
      BY <2>2, CloseItemClean DEF Closes
    <3>2. ASSUME NEW d \in Conn
          PROVE  \/ conn'[d] = Blank
                 \/ /\ conn'[d].file_opened = conn[d].file_opened
                    /\ conn'[d].info_write_buff = conn[d].info_write_buff
      BY <3>1 DEF IInv, TypeOK, Session
    <3> QED
      BY <3>2 DEF Timely, Blank
  <2>3. CASE AcceptFails \/ AdminRead \/ Shutdown \/ Stopped
    BY <2>3 DEF AcceptFails, AdminRead, Shutdown, Stopped, Timely
  <2> QED
    BY <1>3, <2>1, <2>2, <2>3 DEF Process
<1>4. CASE Deliver \/ UNCHANGED vars
  BY <1>4 DEF Deliver, vars, Timely
<1> QED
  BY <1>2, <1>3, <1>4 DEF Next

\* While clients take in one send() whatever they are sent, the server is spared
\* the last line that does not fit (pop3.c:999) and the overrun of the byte
\* stuffing (pop3.c:973), however long the mails are and however they are cut by
\* the file buffer: both accidents need bytes that an earlier send() left.
THEOREM TakenMailsShelter ==
  ASSUME AllIndexed, ReplyLen + TermLen <= WriteLimit
  PROVE  Spec /\ []NumbersParse /\ []WholeSends => []Sheltered /\ []RoomToStuff
<1>1. Init => Timely
  BY DEF Init, Timely, Blank
<1>2. CleanInv /\ IInv /\ Timely /\ NumbersParse => Sheltered /\ RoomToStuff
  BY TimelyShelters
<1>3. CleanInv /\ Sheltered /\ IInv /\ Timely /\ [Next]_vars /\ WholeSends' => Timely'
  BY NextTimely
<1> QED
  BY <1>1, <1>2, <1>3, InitClean, NextClean, Invariant, PTL DEF Spec

\* A session has at most two descriptors, so one that begins to send a mail
\* finds two more.
LEMMA FreeForRetr ==
  ASSUME DescriptorsSuffice, CleanInv, IInv, Running,
         NEW c \in Conn, ~HasFile(conn[c])
  PROVE  Cardinality(Free) >= 2
<1> DEFINE Taken == {f \in Fd : items[f].conn # NoConn}
           Slots == (Conn \X {0, 1}) \ {<<c, 1>>}
           slot == [f \in Taken |->
                      <<items[f].conn,
                        IF f = conn[items[f].conn].connection_fd THEN 0 ELSE 1>>]
<1>1. \A f \in Taken : /\ items[f].conn \in Conn
                       /\ f \in Descriptors(conn[items[f].conn])
  <2>1. \A f \in Taken : items[f].conn \in Conn
    BY DEF IInv, TypeOK
  <2>2. \A d \in Conn : Whole(d) /\ (conn[d].st = "UNUSED" => conn[d] = Blank)
    BY OrderlyExists DEF CleanInv, Running, Closing
  <2> QED
    BY <2>1, <2>2 DEF Whole
<1>2. slot \in Injection(Taken, Slots)
  <2>1. ASSUME NEW f \in Taken PROVE slot[f] \in Slots
    BY <1>1, <2>1 DEF Descriptors
  <2>2. ASSUME NEW f \in Taken, NEW g \in Taken, slot[f] = slot[g]
        PROVE  f = g
    BY <1>1, <2>2 DEF Descriptors
  <2> HIDE DEF Taken, Slots
  <2> QED
    BY <2>1, <2>2 DEF Injection, IsInjective
<1>3. IsFiniteSet(Slots) /\ Cardinality(Slots) = 2 * Cardinality(Conn) - 1
  <2>1. IsFiniteSet(Conn) /\ Cardinality(Conn) \in Nat
    BY FS_CardinalityType DEF DescriptorsSuffice
  <2>2. IsFiniteSet({0, 1}) /\ Cardinality({0, 1}) = 2
    <3>1. IsFiniteSet({0}) /\ Cardinality({0}) = 1
      BY FS_Singleton
    <3>2. {0, 1} = {0} \cup {1} /\ 1 \notin {0}
      OBVIOUS
    <3> QED
      BY <3>1, <3>2, FS_AddElement
  <2>3. /\ IsFiniteSet(Conn \X {0, 1})
        /\ Cardinality(Conn \X {0, 1}) = Cardinality(Conn) * Cardinality({0, 1})
    BY <2>1, <2>2, FS_Product
  <2>4. <<c, 1>> \in Conn \X {0, 1}
    OBVIOUS
  <2>5. /\ IsFiniteSet(Slots)
        /\ Cardinality(Slots) = Cardinality(Conn \X {0, 1}) - 1
    BY <2>3, <2>4, FS_RemoveElement
  <2> HIDE DEF Slots
  <2> QED
    BY <2>1, <2>2, <2>3, <2>5
<1> HIDE DEF Slots, slot
<1>4. IsFiniteSet(Taken) /\ Cardinality(Taken) <= 2 * Cardinality(Conn) - 1
  BY <1>2, <1>3, FS_Injection
<1>5. Free = Fd \ Taken
  BY DEF Free, CleanInv, Tracked, Closed
<1>6. IsFiniteSet(Fd) /\ Cardinality(Fd) = FdLimit
  <2>1. FdLimit \in Nat
    BY ConstantsAssumption DEF ConstantsAssumption
  <2>2. IsFiniteSet(1..FdLimit)
        /\ Cardinality(1..FdLimit) = IF 1 > FdLimit THEN 0 ELSE FdLimit - 1 + 1
    BY <2>1, FS_Interval
  <2> QED
    BY <2>1, <2>2 DEF Fd
<1>7. /\ IsFiniteSet(Free)
      /\ Cardinality(Free) = Cardinality(Fd) - Cardinality(Fd \cap Taken)
  BY <1>5, <1>6, FS_Difference
<1>8. Fd \cap Taken = Taken
  OBVIOUS
<1>9. /\ Cardinality(Taken) \in Nat /\ Cardinality(Conn) \in Nat
      /\ 2 * Cardinality(Conn) < FdLimit /\ FdLimit \in Nat
  BY <1>4, FS_CardinalityType, ConstantsAssumption
  DEF DescriptorsSuffice, ConstantsAssumption
<1> HIDE DEF Taken
<1>10. Cardinality(Free) = FdLimit - Cardinality(Taken)
  BY <1>6, <1>7, <1>8
<1> QED
  BY <1>4, <1>9, <1>10

\* RETR opens the mail of a session, which is there.
LEMMA FileFound ==
  ASSUME DescriptorsSuffice, CleanInv, IInv, ListedStays, NEW f \in Fd
  PROVE  ~NoFile(f)
<1> SUFFICES ASSUME NoFile(f) PROVE FALSE
  OBVIOUS
<1>1. PICK c : c = Owner(f)
  OBVIOUS
<1> DEFINE p == conn[c]
<1>2. /\ Running /\ c \in Conn /\ p \in Session
      /\ p.st = "WRITING_RESPONSE" /\ p.command = "RETR"
      /\ p.multiline_state = "FIRST_LINE" /\ p.arg \in p.emails
      /\ Cardinality(Free) < 2 \/ p.arg \notin maildrop[p.user_s]
  BY <1>1 DEF NoFile, Executing, Ready, Owner, IInv, TypeOK, Present
<1>3. p # Blank /\ Orderly(p)
  BY <1>2 DEF CleanInv, Blank
<1>4. ~HasFile(p)
  BY <1>2, <1>3 DEF Orderly, NoAnswer, HasFile
<1>5. Cardinality(Free) >= 2
  BY <1>2, <1>4, FreeForRetr
<1>6. Holds(c, p.user_s) /\ p.user_s \in User
  <2>1. p.pop3_protocol_state = "TRANSACTION"
    BY <1>2, <1>3 DEF Orderly, Session
  <2> QED
    BY <1>2, <2>1 DEF IInv, LockOK, Locks, Holds, Alive
<1>7. p.arg \in maildrop[p.user_s]
  BY <1>2, <1>6 DEF ListedStays
<1>8. Cardinality(Free) \in Nat
  <2>1. IsFiniteSet(Fd)
    BY FS_Interval, ConstantsAssumption DEF Fd, ConstantsAssumption
  <2> QED
    BY <2>1, FS_Subset, FS_CardinalityType DEF Free
<1> QED
  BY <1>2, <1>5, <1>7, <1>8

\* Neither exit nor the assertion of buffer.c ends the process.
StillUp == server \notin {"exit", "assert"}

\* A step keeps it so, when RETR has room and a session finds its descriptors.
LEMMA NextSurvives ==
  ASSUME DescriptorsSuffice, CleanInv, IInv, ListedStays, RoomToStuff, StillUp,
         [Next]_vars
  PROVE  StillUp'
<1>1. ASSUME NEW f \in Fd, Handler(f) PROVE StillUp'
  <2>1. ~NoFile(f)
    BY FileFound
  <2>2. ~NoRoom(f)
    <3> SUFFICES ASSUME NoRoom(f) PROVE FALSE
      OBVIOUS
    <3>1. /\ Owner(f) \in Conn
          /\ conn[Owner(f)].st = "WRITING_RESPONSE" /\ ~conn[Owner(f)].finished
          /\ conn[Owner(f)].command = "RETR"
          /\ conn[Owner(f)].multiline_state = "MULTILINE"
          /\ CanRead(conn[Owner(f)].info_file_buff)
          /\ WriteSpace(conn[Owner(f)].info_write_buff, WriteLimit) = 0
      BY DEF NoRoom, Executing, Ready, Owner, IInv, TypeOK
    <3> QED
      BY <3>1 DEF RoomToStuff
  <2> QED
    BY <1>1, <2>1, <2>2, HandlerLeaves DEF Leaves, Survives, StillUp
<1>2. CASE Process \/ Deliver \/ UNCHANGED vars
  BY <1>2
  DEF Process, Accept, AcceptFails, AdminRead, Shutdown, CloseItem, Stopped, Deliver, vars,
      StillUp
<1> QED
  BY <1>1, <1>2 DEF Next

\* Nothing but its shutdown ends a sheltered server whose byte stuffing has room
\* and whose sessions find the descriptors they need, however connections break
\* and files fail: the accidents named here are all that can.
THEOREM NeverEnds ==
  ASSUME DescriptorsSuffice
  PROVE  Spec /\ []Sheltered /\ []RoomToStuff => []NeverHalts
<1>1. Init => StillUp
  BY DEF Init, StillUp
<1>2. CleanInv /\ IInv /\ ListedStays /\ RoomToStuff /\ StillUp /\ [Next]_vars => StillUp'
  BY NextSurvives
<1>3. CleanInv /\ StillUp => NeverHalts
  BY DEF CleanInv, NeverHalts, StillUp
<1> QED
  BY <1>1, <1>2, <1>3, CleanInvariant, Invariant, MailsStay, PTL DEF Spec

-----------------------------------------------------------------------------
(* The references and the metric, whatever accident happens.               *)

Served(S, c) == {f \in Fd : S.items[f].conn = c}
Living(S) == {c \in Conn : S.conn[c] # Blank}

\* In a state S of a handler an item is for an open descriptor, and an open
\* descriptor has an item unless the selector cannot index it.
ItemsLinked(S) ==
  /\ DOMAIN S.items = Fd /\ DOMAIN S.kernel = Fd
  /\ \A f \in Fd :
       /\ {"conn", "interest"} \subseteq DOMAIN S.items[f]
       /\ S.items[f].conn \in Conn \cup {NoConn}
       /\ "kind" \in DOMAIN S.kernel[f]
       /\ S.kernel[f] = Closed \/ S.kernel[f].kind # "closed"
       /\ S.items[f].conn # NoConn => S.kernel[f].kind # "closed"
       /\ AllIndexed /\ S.kernel[f].kind # "closed" => S.items[f].conn # NoConn

\* A session that exists has a reference for each item but one.
Linked(S, c) ==
  LET p == S.conn[c]
  IN  /\ {"st", "references"} \subseteq DOMAIN p /\ p.references \in Nat
      /\ p = Blank \/ p.st # "UNUSED"
      /\ IF p = Blank THEN Served(S, c) = {}
         ELSE /\ Cardinality(Served(S, c)) <= p.references + 1
              /\ AllIndexed => Cardinality(Served(S, c)) = p.references + 1

\* The metric is ahead of the sessions by k.
Agrees(S, k) ==
  /\ DOMAIN S = {"items", "kernel", "conn", "current"}
  /\ ItemsLinked(S)
  /\ DOMAIN S.conn = Conn
  /\ \A c \in Conn : Linked(S, c)
  /\ IsFiniteSet(Living(S))
  /\ S.current = (Cardinality(Living(S)) + k) % Word

\* The session x, but for what a handler writes into it.
Version(x, p) ==
  /\ {"st", "references"} \subseteq DOMAIN p
  /\ p.references = x.references
  /\ p.st # "UNUSED"

\* A step that keeps the items and the references of the sessions.
LEMMA SameAgrees ==
  ASSUME NEW k \in Nat, NEW S, Agrees(S, k), NEW T,
         DOMAIN T = DOMAIN S, T.items = S.items, T.kernel = S.kernel,
         T.current = S.current, DOMAIN T.conn = Conn,
         \A d \in Conn : \/ T.conn[d] = S.conn[d]
                         \/ S.conn[d] # Blank /\ Version(S.conn[d], T.conn[d])
  PROVE  Agrees(T, k)
<1>1. \A d \in Conn : Served(T, d) = Served(S, d)
  BY DEF Served
<1>2. \A d \in Conn : T.conn[d] = Blank <=> S.conn[d] = Blank
  <2>1. Blank.st = "UNUSED"
    BY DEF Blank
  <2> QED
    BY <2>1 DEF Version
<1>3. Living(T) = Living(S)
  BY <1>2 DEF Living
<1>4. ItemsLinked(T)
  BY DEF Agrees, ItemsLinked
<1>5. ASSUME NEW d \in Conn PROVE Linked(T, d)
  <2>1. Linked(S, d) /\ Served(T, d) = Served(S, d)
    BY <1>1 DEF Agrees
  <2>2. CASE T.conn[d] = S.conn[d]
    BY <2>1, <2>2 DEF Linked
  <2>3. CASE S.conn[d] # Blank /\ Version(S.conn[d], T.conn[d])
    BY <1>2, <2>1, <2>3 DEF Linked, Version
  <2> QED
    BY <2>2, <2>3
<1> QED
  BY <1>3, <1>4, <1>5 DEF Agrees

\* A handler writes into its session.
LEMMA WithAgrees ==
  ASSUME NEW k \in Nat, NEW S, Agrees(S, k), NEW c \in Conn, S.conn[c] # Blank,
         NEW p, Version(S.conn[c], p)
  PROVE  /\ Agrees(With(S, c, p), k)
         /\ With(S, c, p).conn[c] = p /\ p # Blank
         /\ With(S, c, p).items = S.items /\ With(S, c, p).kernel = S.kernel
<1> DEFINE T == With(S, c, p)
<1>1. /\ DOMAIN T = DOMAIN S /\ T.items = S.items /\ T.kernel = S.kernel
      /\ T.current = S.current /\ DOMAIN T.conn = Conn
      /\ T.conn[c] = p /\ \A d \in Conn \ {c} : T.conn[d] = S.conn[d]
  BY DEF With, Agrees
<1>2. p # Blank
  BY DEF Version, Blank
<1> HIDE DEF T
<1>3. Agrees(T, k)
  BY <1>1, SameAgrees
<1> QED
  BY <1>1, <1>2, <1>3 DEF T

\* selector_set_interest.
LEMMA SetInterestAgrees ==
  ASSUME NEW k \in Nat, NEW S, Agrees(S, k), NEW f, NEW i
  PROVE  /\ Agrees(SetInterest(S, f, i), k)
         /\ SetInterest(S, f, i).conn = S.conn
<1>1. CASE ~Registered(S, f)
  BY <1>1 DEF SetInterest
<1>2. CASE Registered(S, f)
  <2> DEFINE T == SetInterest(S, f, i)
  <2>1. /\ DOMAIN T = DOMAIN S /\ T.kernel = S.kernel /\ T.conn = S.conn
        /\ T.current = S.current /\ DOMAIN T.items = Fd
        /\ \A g \in Fd : /\ T.items[g].conn = S.items[g].conn
                         /\ DOMAIN T.items[g] = DOMAIN S.items[g]
    BY <1>2 DEF SetInterest, Registered, Agrees, ItemsLinked
  <2> HIDE DEF T
  <2>2. Living(T) = Living(S) /\ \A d \in Conn : Served(T, d) = Served(S, d)
    BY <2>1 DEF Living, Served
  <2>3. ItemsLinked(T)
    BY <2>1 DEF Agrees, ItemsLinked
  <2>4. \A d \in Conn : Linked(T, d)
    BY <2>1, <2>2 DEF Agrees, Linked
  <2>5. Agrees(T, k)
    BY <2>1, <2>2, <2>3, <2>4 DEF Agrees
  <2> QED
    BY <2>1, <2>5 DEF T
<1> QED
  BY <1>1, <1>2

\* The state a handler leaves.
LEMMA BecomeAgrees ==
  ASSUME NEW k \in Nat, NEW S, Agrees(S, k), Become(S)
  PROVE  Agrees(Here', k)
<1> DEFINE T == Here'
<1>1. /\ DOMAIN T = {"items", "kernel", "conn", "current"}
      /\ T.items = S.items /\ T.kernel = S.kernel /\ T.conn = S.conn
      /\ T.current = S.current
  BY DEF Here, Become
<1> HIDE DEF T
<1>2. DOMAIN S = {"items", "kernel", "conn", "current"} /\ DOMAIN S.conn = Conn
  BY DEF Agrees
<1>3. Agrees(T, k)
  BY <1>1, <1>2, SameAgrees
<1> QED
  BY <1>3 DEF T

\* What selector_unregister_fd changes.
LEMMA UnregisterParts ==
  ASSUME NEW k \in Nat, NEW S, Agrees(S, k), NEW f \in Fd, NEW c \in Conn,
         S.items[f].conn = c
  PROVE  LET U == Unregister(S, f)
             p == S.conn[c]
         IN  /\ DOMAIN U = DOMAIN S /\ DOMAIN U.items = Fd /\ DOMAIN U.kernel = Fd
             /\ DOMAIN U.conn = Conn
             /\ U.items[f] = Unused /\ U.kernel[f] = Closed
             /\ \A g \in Fd \ {f} : U.items[g] = S.items[g] /\ U.kernel[g] = S.kernel[g]
             /\ \A d \in Conn \ {c} : U.conn[d] = S.conn[d]
             /\ p.references = 0 => U.conn[c] = Blank /\ U.current = Decreased(S.current)
             /\ p.references # 0 =>
                  /\ U.conn[c] = [p EXCEPT !.references = p.references - 1]
                  /\ U.current = S.current
<1> DEFINE C == CloseSession(S, c)
           U == Unregister(S, f)
           p == S.conn[c]
<1>1. /\ DOMAIN S = {"items", "kernel", "conn", "current"}
      /\ DOMAIN S.items = Fd /\ DOMAIN S.kernel = Fd /\ DOMAIN S.conn = Conn
  BY DEF Agrees, ItemsLinked
<1>2. CASE p.references = 0
  <2>1. /\ DOMAIN C = DOMAIN S /\ C.items = S.items /\ C.kernel = S.kernel
        /\ DOMAIN C.conn = Conn /\ C.conn[c] = Blank
        /\ \A d \in Conn \ {c} : C.conn[d] = S.conn[d]
        /\ C.current = Decreased(S.current)
    BY <1>1, <1>2 DEF CloseSession
  <2> HIDE DEF C
  <2>2. U = [C EXCEPT !.items[f] = Unused, !.kernel[f] = Closed]
    BY DEF C, Unregister
  <2> QED
    BY <1>1, <1>2, <2>1, <2>2
<1>3. CASE p.references # 0
  <2>1. /\ DOMAIN C = DOMAIN S /\ C.items = S.items /\ C.kernel = S.kernel
        /\ DOMAIN C.conn = Conn /\ C.conn[c] = [p EXCEPT !.references = p.references - 1]
        /\ \A d \in Conn \ {c} : C.conn[d] = S.conn[d]
        /\ C.current = S.current
    BY <1>1, <1>3 DEF CloseSession
  <2> HIDE DEF C
  <2>2. U = [C EXCEPT !.items[f] = Unused, !.kernel[f] = Closed]
    BY DEF C, Unregister
  <2> QED
    BY <1>1, <1>3, <2>1, <2>2
<1> QED
  BY <1>2, <1>3

\* selector_unregister_fd frees a session with its last item.
LEMMA UnregisterAgrees ==
  ASSUME NEW k \in Nat, NEW S, Agrees(S, k), NEW f \in Fd, Registered(S, f)
  PROVE  Agrees(Unregister(S, f), k)
<1>1. PICK c \in Conn : c = S.items[f].conn
  BY DEF Registered, Agrees, ItemsLinked
<1> DEFINE U == Unregister(S, f)
           p == S.conn[c]
           n == p.references
<1>2. /\ DOMAIN U = DOMAIN S /\ DOMAIN U.items = Fd /\ DOMAIN U.kernel = Fd
      /\ DOMAIN U.conn = Conn
      /\ U.items[f] = Unused /\ U.kernel[f] = Closed
      /\ \A g \in Fd \ {f} : U.items[g] = S.items[g] /\ U.kernel[g] = S.kernel[g]
      /\ \A d \in Conn \ {c} : U.conn[d] = S.conn[d]
      /\ n = 0 => U.conn[c] = Blank /\ U.current = Decreased(S.current)
      /\ n # 0 => U.conn[c] = [p EXCEPT !.references = n - 1] /\ U.current = S.current
  BY <1>1, UnregisterParts
<1>3. /\ Linked(S, c) /\ f \in Served(S, c)
      /\ \A d \in Conn : Linked(S, d)
      /\ DOMAIN S = {"items", "kernel", "conn", "current"}
  BY <1>1 DEF Agrees, Served
<1>4. /\ p # Blank /\ p.st # "UNUSED" /\ n \in Nat
      /\ {"st", "references"} \subseteq DOMAIN p
      /\ Cardinality(Served(S, c)) <= n + 1
      /\ AllIndexed => Cardinality(Served(S, c)) = n + 1
  BY <1>3 DEF Linked
<1>5. NoConn \notin Conn /\ IsFiniteSet(Fd)
  BY FS_Interval, ConstantsAssumption DEF ConstantsAssumption, Fd
<1> HIDE DEF U, p, n
<1>6. /\ Served(U, c) = Served(S, c) \ {f}
      /\ \A d \in Conn \ {c} : Served(U, d) = Served(S, d)
  BY <1>1, <1>2, <1>5 DEF Served, Unused
<1>7. /\ IsFiniteSet(Served(S, c)) /\ Cardinality(Served(S, c)) \in Nat
      /\ IsFiniteSet(Served(U, c)) /\ Cardinality(Served(U, c)) \in Nat
      /\ Cardinality(Served(U, c)) = Cardinality(Served(S, c)) - 1
  <2>1. IsFiniteSet(Served(S, c))
    BY <1>5, FS_Subset DEF Served
  <2> QED
    BY <1>3, <1>6, <2>1, FS_RemoveElement, FS_CardinalityType
<1>8. ItemsLinked(U)
  <2>1. ItemsLinked(S)
    BY DEF Agrees
  <2> QED
    BY <1>2, <2>1 DEF ItemsLinked, Unused, Closed
<1>9. Linked(U, c)
  <2>1. CASE n = 0
    <3>1. U.conn[c] = Blank
      BY <1>2, <2>1
    <3>2. Cardinality(Served(U, c)) = 0
      BY <1>4, <1>7, <2>1
    <3>3. Served(U, c) = {}
      BY <1>7, <3>2, FS_EmptySet
    <3> QED
      BY <3>1, <3>3 DEF Linked, Blank
  <2>2. CASE n # 0
    <3>1. U.conn[c] = [p EXCEPT !.references = n - 1]
      BY <1>2, <2>2
    <3>2. /\ U.conn[c].references = n - 1 /\ U.conn[c].st = p.st
          /\ DOMAIN U.conn[c] = DOMAIN p
      BY <1>4, <3>1
    <3>3. U.conn[c] # Blank
      BY <1>4, <3>2 DEF Blank
    <3>4. n - 1 \in Nat /\ n - 1 + 1 = n
      BY <1>4, <2>2
    <3>5. /\ Cardinality(Served(U, c)) <= n
          /\ AllIndexed => Cardinality(Served(U, c)) = n
      BY <1>4, <1>7
    <3> QED
      BY <1>4, <3>2, <3>3, <3>4, <3>5 DEF Linked
  <2> QED
    BY <2>1, <2>2
<1>10. \A d \in Conn : Linked(U, d)
  <2> SUFFICES ASSUME NEW d \in Conn \ {c} PROVE Linked(U, d)
    BY <1>9
  <2>1. U.conn[d] = S.conn[d] /\ Served(U, d) = Served(S, d) /\ Linked(S, d)
    BY <1>2, <1>3, <1>6
  <2> QED
    BY <2>1 DEF Linked
<1>11. /\ IsFiniteSet(Living(U))
       /\ U.current = (Cardinality(Living(U)) + k) % Word
  <2>1. /\ IsFiniteSet(Living(S)) /\ c \in Living(S)
        /\ S.current = (Cardinality(Living(S)) + k) % Word
    BY <1>4 DEF Agrees, Living, p
  <2>2. CASE n = 0
    <3>1. Living(U) = Living(S) \ {c}
      BY <1>2, <2>2 DEF Living
    <3>2. /\ IsFiniteSet(Living(U)) /\ Cardinality(Living(U)) \in Nat
          /\ Cardinality(Living(S)) \in Nat
          /\ Cardinality(Living(U)) = Cardinality(Living(S)) - 1
      BY <2>1, <3>1, FS_RemoveElement, FS_CardinalityType
    <3>3. Cardinality(Living(S)) + k = Cardinality(Living(U)) + k + 1
      BY <3>2
    <3>4. Cardinality(Living(U)) + k \in Nat
      BY <3>2
    <3> QED
      BY <1>2, <2>1, <2>2, <3>2, <3>3, <3>4, CountMod
  <2>3. CASE n # 0
    <3>1. U.conn[c] # Blank
      <4>1. U.conn[c] = [p EXCEPT !.references = n - 1]
        BY <1>2, <2>3
      <4>2. U.conn[c].st = p.st
        BY <1>4, <4>1
      <4> QED
        BY <1>4, <4>2 DEF Blank
    <3>2. Living(U) = Living(S)
      BY <1>2, <1>4, <3>1 DEF Living, p
    <3> QED
      BY <1>2, <2>1, <2>3, <3>2
  <2> QED
    BY <2>2, <2>3
<1>12. Agrees(U, k)
  BY <1>2, <1>3, <1>8, <1>10, <1>11 DEF Agrees
<1> QED
  BY <1>12 DEF U

\* finish_connection closes what it finds, which may be somebody else's.
LEMMA FinishAgrees ==
  ASSUME NEW k \in Nat, NEW S, Agrees(S, k), NEW c \in Conn, S.conn[c] # Blank,
         NEW lg, Finish(c, S, lg)
  PROVE  Agrees(Here', k)
<1> DEFINE p    == S.conn[c]
           q    == [p EXCEPT !.st = "FINISHED"]
           F    == With(S, c, q)
           file == p.pop3_protocol_state = "TRANSACTION" /\ p.file_opened
           G    == IF file THEN Unregister(F, p.file_fd) ELSE F
           H    == Unregister(G, p.connection_fd)
<1>1. Agrees(F, k)
  <2>1. Version(p, q)
    BY DEF Agrees, Linked, Version
  <2> HIDE DEF q
  <2> QED
    BY <2>1, WithAgrees
<1>2. \/ Become(F)
      \/ /\ file => Registered(F, p.file_fd)
         /\ \/ Become(G)
            \/ Registered(G, p.connection_fd) /\ Become(H)
  BY DEF Finish, Halt
<1>3. ASSUME file => Registered(F, p.file_fd) PROVE Agrees(G, k)
  <2> HIDE DEF F
  <2>1. Registered(F, p.file_fd) => p.file_fd \in Fd
    BY DEF Registered
  <2> QED
    BY <1>1, <1>3, <2>1, UnregisterAgrees
<1>4. ASSUME Agrees(G, k), Registered(G, p.connection_fd) PROVE Agrees(H, k)
  <2> HIDE DEF G
  <2>1. p.connection_fd \in Fd
    BY <1>4 DEF Registered
  <2> QED
    BY <1>4, <2>1, UnregisterAgrees
<1> HIDE DEF F, G, H, file, p
<1> QED
  BY <1>1, <1>2, <1>3, <1>4, BecomeAgrees

\* The tail of write_response.
LEMMA SendAgrees ==
  ASSUME NEW k \in Nat, Agrees(Here, k), NEW f, Owner(f) \in Conn, conn[Owner(f)] # Blank,
         NEW p, Version(conn[Owner(f)], p), NEW lg, NEW e, Send(f, p, lg, e)
  PROVE  Agrees(Here', k)
<1>1. PICK c \in Conn : c = Owner(f)
  OBVIOUS
<1>2. Here.conn = conn /\ Here.conn[c] # Blank /\ Version(Here.conn[c], p)
  BY <1>1 DEF Here
<1>3. ASSUME NEW q, Version(conn[c], q), NEW S, S = With(Here, c, q), NEW i
      PROVE  Agrees(S, k) /\ Agrees(SetInterest(S, f, i), k)
  <2>1. Agrees(S, k)
    BY <1>2, <1>3, WithAgrees
  <2> QED
    BY <2>1, SetInterestAgrees
<1>4. CASE Finish(c, With(Here, c, p), lg)
  <2> DEFINE S == With(Here, c, p)
  <2>1. Agrees(S, k) /\ S.conn[c] # Blank
    BY <1>2, WithAgrees
  <2> HIDE DEF S
  <2> QED
    BY <1>4, <2>1, FinishAgrees DEF S
<1>5. ASSUME NEW b, NEW g,
             LET q == [p EXCEPT !.info_write_buff = b, !.finished = g]
             IN  \/ Become(With(Here, c, q))
                 \/ \E r \in Requests : Become(With(Here, c, Parsed(q, r)))
                 \/ Become(SetInterest(With(Here, c, [q EXCEPT !.st = "READING_REQUEST"]),
                                       f, "READ"))
      PROVE  Agrees(Here', k)
  <2> DEFINE q == [p EXCEPT !.info_write_buff = b, !.finished = g]
             t == [q EXCEPT !.st = "READING_REQUEST"]
  <2>1. Version(conn[c], q) /\ Version(conn[c], t)
    BY <1>1 DEF Version
  <2> HIDE DEF q
  <2>2. \A r \in Requests : Version(conn[c], Parsed(q, r))
    BY <2>1 DEF Version, Parsed
  <2> HIDE DEF t
  <2>3. CASE Become(With(Here, c, q))
    BY <1>3, <2>1, <2>3, BecomeAgrees
  <2>4. CASE \E r \in Requests : Become(With(Here, c, Parsed(q, r)))
    BY <1>3, <2>2, <2>4, BecomeAgrees
  <2>5. CASE Become(SetInterest(With(Here, c, t), f, "READ"))
    BY <1>3, <2>1, <2>5, BecomeAgrees
  <2> QED
    BY <1>5, <2>3, <2>4, <2>5 DEF q, t
<1> QED
  BY <1>1, <1>4, <1>5 DEF Send

\* An action that returned FINISHED.
LEMMA LeaveAgrees ==
  ASSUME NEW k \in Nat, Agrees(Here, k), NEW f, Owner(f) \in Conn, conn[Owner(f)] # Blank,
         NEW p, Version(conn[Owner(f)], p), NEW lg, NEW e, Leave(f, p, lg, e)
  PROVE  Agrees(Here', k)
<1>1. PICK c \in Conn : c = Owner(f)
  OBVIOUS
<1> DEFINE S == With(Here, c, p)
           T == Suspend(S, f)
<1>2. Here.conn = conn
  BY DEF Here
<1>3. Agrees(S, k) /\ S.conn[c] # Blank
  BY <1>1, <1>2, WithAgrees
<1> HIDE DEF S
<1>4. Agrees(T, k) /\ T.conn[c] # Blank
  BY <1>3, SetInterestAgrees DEF Suspend
<1>5. Finish(c, T, lg)
  BY <1>1 DEF Leave, S
<1> HIDE DEF T
<1> QED
  BY <1>4, <1>5, FinishAgrees

\* A reply of one line.
LEMMA ReplyAgrees ==
  ASSUME NEW k \in Nat, Agrees(Here, k), NEW f, Owner(f) \in Conn, conn[Owner(f)] # Blank,
         NEW p, Version(conn[Owner(f)], p), NEW q, Version(conn[Owner(f)], q),
         NEW lg, NEW e, Reply(f, p, q, lg, e)
  PROVE  Agrees(Here', k)
<1> DEFINE t == [Wrote(q, ReplyLen) EXCEPT !.finished = TRUE]
<1>1. Version(conn[Owner(f)], t)
  BY DEF Version, Wrote
<1>2. Send(f, t, lg, e) \/ Leave(f, p, lg, e)
  BY DEF Reply
<1> HIDE DEF t
<1> QED
  BY <1>1, <1>2, SendAgrees, LeaveAgrees

\* A handler that runs, and the session it runs for.
AtWork(f, k) ==
  /\ Agrees(Here, k)
  /\ f \in Fd /\ Owner(f) \in Conn
  /\ conn[Owner(f)] # Blank
  /\ Version(conn[Owner(f)], conn[Owner(f)])

\* A session that is dispatched exists.
LEMMA ReadyAgrees ==
  ASSUME NEW k \in Nat, Agrees(Here, k), NEW f \in Fd, Owner(f) # NoConn
  PROVE  AtWork(f, k)
<1>1. PICK c \in Conn : c = items[f].conn
  BY DEF Agrees, ItemsLinked, Here, Owner
<1>2. Linked(Here, c) /\ f \in Served(Here, c)
  BY <1>1 DEF Agrees, Served, Here
<1>3. conn[c] # Blank /\ conn[c].st # "UNUSED" /\ {"st", "references"} \subseteq DOMAIN conn[c]
  BY <1>2 DEF Linked, Here
<1> QED
  BY <1>1, <1>3 DEF AtWork, Version, Owner

\* The commands that answer with one line, and the rest of an answer.
LEMMA OneLineAgrees ==
  ASSUME NEW k \in Nat, NEW f, AtWork(f, k),
         \/ StatAction(f) \/ NoopAction(f) \/ CapaAction(f) \/ DefaultAction(f)
         \/ UserAction(f) \/ DeleAction(f) \/ RsetAction(f)
         \/ ListOne(f) \/ RetrError(f) \/ SendRest(f)
  PROVE  Agrees(Here', k)
<1> DEFINE x == conn[Owner(f)]
<1>1. /\ Agrees(Here, k) /\ Owner(f) \in Conn /\ x # Blank /\ Version(x, x)
  BY DEF AtWork
<1>2. CASE StatAction(f) \/ NoopAction(f) \/ CapaAction(f) \/ DefaultAction(f)
  BY <1>1, <1>2, ReplyAgrees
  DEF StatAction, NoopAction, CapaAction, DefaultAction, ReplyOnly
<1>3. CASE UserAction(f)
  <2> DEFINE q == IF x.arg \in User THEN [x EXCEPT !.user_s = x.arg] ELSE x
  <2>1. Version(x, q) /\ Reply(f, q, q, logged, errno)
    BY <1>1, <1>3 DEF UserAction, Version
  <2> HIDE DEF q, x
  <2> QED
    BY <1>1, <2>1, ReplyAgrees DEF x
<1>4. CASE DeleAction(f)
  <2> DEFINE q == IF Parse(x.arg) \notin BadNumber /\ x.arg \in Present(x)
                  THEN [x EXCEPT !.deleted = x.deleted \cup {x.arg}] ELSE x
  <2>1. Version(x, q) /\ Reply(f, q, q, logged, Parse(x.arg))
    BY <1>1, <1>4 DEF DeleAction, Version
  <2> HIDE DEF q, x
  <2> QED
    BY <1>1, <2>1, ReplyAgrees DEF x
<1>5. CASE RsetAction(f)
  <2> DEFINE q == [x EXCEPT !.deleted = {}]
  <2>1. Version(x, q) /\ Reply(f, q, q, logged, errno)
    BY <1>1, <1>5 DEF RsetAction, Version
  <2> HIDE DEF q, x
  <2> QED
    BY <1>1, <2>1, ReplyAgrees DEF x
<1>6. CASE ListOne(f) \/ RetrError(f)
  <2> DEFINE q == ResetStructures(x)
  <2>1. Version(x, q) /\ Reply(f, x, q, logged, Parse(x.arg))
    BY <1>1, <1>6 DEF ListOne, RetrError, Version, ResetStructures
  <2> HIDE DEF q, x
  <2> QED
    BY <1>1, <2>1, ReplyAgrees DEF x
<1>7. CASE SendRest(f)
  BY <1>1, <1>7, SendAgrees DEF SendRest
<1> QED
  BY <1>2, <1>3, <1>4, <1>5, <1>6, <1>7

\* A session that is to be closed after its last line.
LEMMA ErrorAgrees ==
  ASSUME NEW k \in Nat, NEW S, Agrees(S, k), NEW c \in Conn, S.conn[c] # Blank,
         Become(ToError(S, c))
  PROVE  Agrees(Here', k)
<1> DEFINE q == [S.conn[c] EXCEPT !.st = "ERROR"]
           T == ToError(S, c)
<1>1. Version(S.conn[c], q)
  BY DEF Agrees, Linked, Version
<1>2. /\ DOMAIN T = DOMAIN S /\ T.items = S.items /\ T.kernel = S.kernel
      /\ T.current = S.current /\ DOMAIN T.conn = Conn
      /\ T.conn[c] = q /\ \A d \in Conn \ {c} : T.conn[d] = S.conn[d]
  BY DEF ToError, Agrees
<1> HIDE DEF T, q
<1>3. Agrees(T, k)
  BY <1>1, <1>2, SameAgrees
<1> QED
  BY <1>3, BecomeAgrees DEF T

\* PASS, LIST and QUIT.
LEMMA OtherAgrees ==
  ASSUME NEW k \in Nat, NEW f, AtWork(f, k), PassAction(f) \/ ListAll(f) \/ QuitAction(f)
  PROVE  Agrees(Here', k)
<1> DEFINE c == Owner(f)
           x == conn[c]
<1>1. /\ Agrees(Here, k) /\ c \in Conn /\ x # Blank /\ Version(x, x) /\ Here.conn = conn
  BY DEF AtWork, Here
<1>2. ASSUME NEW q, Version(x, q), Become(ToError(With(Here, c, q), c))
      PROVE  Agrees(Here', k)
  <2> DEFINE S == With(Here, c, q)
  <2>1. Agrees(S, k) /\ S.conn[c] # Blank
    BY <1>1, <1>2, WithAgrees
  <2> HIDE DEF S
  <2> QED
    BY <1>1, <1>2, <2>1, ErrorAgrees DEF S
<1>3. CASE PassAction(f)
  <2> DEFINE q == [x EXCEPT !.pop3_protocol_state = "TRANSACTION"]
             lg == [logged EXCEPT ![x.user_s] = TRUE]
  <2>1. Version(x, q)
    BY <1>1 DEF Version
  <2>2. \/ ReplyOnly(f)
        \/ Become(ToError(With(Here, c, q), c))
        \/ \E listing \in Listings(maildrop[x.user_s]) :
             LET r == [q EXCEPT !.emails = listing]
             IN  Reply(f, r, ResetStructures(r), lg, errno)
    BY <1>3 DEF PassAction
  <2> HIDE DEF q, lg
  <2>3. CASE ReplyOnly(f)
    BY <1>1, <2>3, ReplyAgrees DEF ReplyOnly
  <2>4. CASE Become(ToError(With(Here, c, q), c))
    BY <1>2, <2>1, <2>4
  <2>5. ASSUME NEW listing,
               LET r == [q EXCEPT !.emails = listing]
               IN  Reply(f, r, ResetStructures(r), lg, errno)
        PROVE  Agrees(Here', k)
    <3> DEFINE r == [q EXCEPT !.emails = listing]
    <3>1. Version(x, r)
      BY <2>1 DEF Version
    <3> HIDE DEF r
    <3>2. Version(x, ResetStructures(r))
      BY <3>1 DEF Version, ResetStructures
    <3>3. Reply(f, r, ResetStructures(r), lg, errno)
      BY <2>5 DEF r
    <3> HIDE DEF x
    <3> QED
      BY <1>1, <3>1, <3>2, <3>3, ReplyAgrees DEF x
  <2> QED
    BY <2>2, <2>3, <2>4, <2>5
<1>4. CASE ListAll(f)
  <2>1. ASSUME NEW y, Version(x, y), NEW n
        PROVE  /\ Version(x, Wrote(y, n)) /\ Version(x, ResetStructures(y))
               /\ Version(x, [y EXCEPT !.finished = TRUE])
               /\ \A m, i : Version(x, [y EXCEPT !.multiline_state = m, !.mail_index = i])
    BY <2>1 DEF Version, Wrote, ResetStructures
  <2>2. PICK p1 : p1 \in {x, Wrote(x, ReplyLen)} /\
          \/ Leave(f, x, logged, errno)
          \/ \E n : LET p2 == Wrote(p1, n * LineLen)
                    IN  \/ \E m, i : Send(f, [p2 EXCEPT !.multiline_state = m,
                                                        !.mail_index = i], logged, errno)
                        \/ Send(f, [ResetStructures(Wrote(p2, EndLen)) EXCEPT
                                      !.finished = TRUE], logged, errno)
    <3> DEFINE first == x.multiline_state = "FIRST_LINE"
               p1 == IF first THEN Wrote(x, ReplyLen) ELSE x
    <3>1. \/ Leave(f, x, logged, errno)
          \/ \E n : LET p2 == Wrote(p1, n * LineLen)
                    IN  \/ \E m, i : Send(f, [p2 EXCEPT !.multiline_state = m,
                                                        !.mail_index = i], logged, errno)
                        \/ Send(f, [ResetStructures(Wrote(p2, EndLen)) EXCEPT
                                      !.finished = TRUE], logged, errno)
      BY <1>4 DEF ListAll
    <3>2. p1 \in {x, Wrote(x, ReplyLen)}
      OBVIOUS
    <3> HIDE DEF p1
    <3> QED
      BY <3>1, <3>2
  <2>3. Version(x, p1)
    BY <1>1, <2>1, <2>2
  <2>4. CASE Leave(f, x, logged, errno)
    BY <1>1, <2>4, LeaveAgrees
  <2>5. ASSUME NEW n, NEW p2, p2 = Wrote(p1, n * LineLen),
               \/ \E m, i : Send(f, [p2 EXCEPT !.multiline_state = m,
                                               !.mail_index = i], logged, errno)
               \/ Send(f, [ResetStructures(Wrote(p2, EndLen)) EXCEPT !.finished = TRUE],
                       logged, errno)
        PROVE  Agrees(Here', k)
    <3>1. Version(x, p2)
      BY <2>1, <2>3, <2>5
    <3>2. Version(x, [ResetStructures(Wrote(p2, EndLen)) EXCEPT !.finished = TRUE])
      BY <2>1, <3>1
    <3>3. \A m, i : Version(x, [p2 EXCEPT !.multiline_state = m, !.mail_index = i])
      BY <2>1, <3>1
    <3> HIDE DEF x
    <3> QED
      BY <1>1, <2>5, <3>2, <3>3, SendAgrees DEF x
  <2> QED
    BY <2>2, <2>4, <2>5
<1>5. CASE QuitAction(f)
  <2> DEFINE q == [x EXCEPT !.pop3_protocol_state = "AUTHORIZATION"]
  <2>1. Version(x, q)
    BY <1>1 DEF Version
  <2>2. \/ Become(ToError(Here, c))
        \/ \E lg, e : Leave(f, x, lg, e)
        \/ Become(ToError(With(Here, c, q), c))
    BY <1>5 DEF QuitAction
  <2> HIDE DEF q
  <2> QED
    BY <1>1, <1>2, <2>1, <2>2, LeaveAgrees, ErrorAgrees
<1> QED
  BY <1>3, <1>4, <1>5

\* A descriptor that begins, for a session that counts one reference more: the
\* selector may have no item for it.
LEMMA OpenAgrees ==
  ASSUME NEW k \in Nat, NEW S, Agrees(S, k), NEW g \in Fd, NEW c \in Conn, NEW T, NEW n \in Nat,
         S.kernel[g].kind = "closed",
         DOMAIN T = DOMAIN S, DOMAIN T.items = Fd, DOMAIN T.kernel = Fd, DOMAIN T.conn = Conn,
         {"conn", "interest"} \subseteq DOMAIN T.items[g],
         T.items[g].conn = IF g > ItemsMax THEN NoConn ELSE c,
         {"kind"} \subseteq DOMAIN T.kernel[g] /\ T.kernel[g].kind # "closed",
         \A h \in Fd \ {g} : T.items[h] = S.items[h] /\ T.kernel[h] = S.kernel[h],
         \A d \in Conn \ {c} : T.conn[d] = S.conn[d],
         {"st", "references"} \subseteq DOMAIN T.conn[c] /\ T.conn[c].st # "UNUSED",
         T.conn[c].references = n,
         IF S.conn[c] = Blank THEN n = 0 /\ T.current = Increased(S.current)
         ELSE n = S.conn[c].references + 1 /\ T.current = S.current
  PROVE  Agrees(T, k)
<1>1. S.items[g].conn = NoConn /\ NoConn \notin Conn /\ (AllIndexed => ~(g > ItemsMax))
  BY ConstantsAssumption DEF Agrees, ItemsLinked, ConstantsAssumption, AllIndexed, Fd
<1>2. ItemsLinked(T)
  <2>1. ItemsLinked(S)
    BY DEF Agrees
  <2>2. /\ {"conn", "interest"} \subseteq DOMAIN T.items[g]
        /\ T.items[g].conn \in Conn \cup {NoConn}
        /\ "kind" \in DOMAIN T.kernel[g]
        /\ T.kernel[g].kind # "closed"
        /\ AllIndexed => T.items[g].conn # NoConn
    BY <1>1
  <2> QED
    BY <2>1, <2>2 DEF ItemsLinked
<1>3. \A d \in Conn \ {c} : Served(T, d) = Served(S, d)
  BY <1>1 DEF Served
<1>4. /\ IsFiniteSet(Served(S, c)) /\ Cardinality(Served(S, c)) \in Nat
      /\ Cardinality(Served(T, c)) \in Nat
      /\ Cardinality(Served(T, c)) <= Cardinality(Served(S, c)) + 1
      /\ AllIndexed => Cardinality(Served(T, c)) = Cardinality(Served(S, c)) + 1
  <2>1. IsFiniteSet(Fd)
    BY FS_Interval, ConstantsAssumption DEF ConstantsAssumption, Fd
  <2>2. IsFiniteSet(Served(S, c)) /\ g \notin Served(S, c)
    BY <1>1, <2>1, FS_Subset DEF Served
  <2>3. Served(T, c) = IF g > ItemsMax THEN Served(S, c) ELSE Served(S, c) \cup {g}
    BY <1>1 DEF Served
  <2>4. CASE g > ItemsMax
    BY <1>1, <2>2, <2>3, <2>4, FS_CardinalityType
  <2>5. CASE ~(g > ItemsMax)
    <3>1. Served(T, c) = Served(S, c) \cup {g}
      BY <2>3, <2>5
    <3>2. Cardinality(Served(S, c) \cup {g}) = Cardinality(Served(S, c)) + 1
      BY <2>2, FS_AddElement
    <3>3. Cardinality(Served(S, c)) \in Nat
      BY <2>2, FS_CardinalityType
    <3> QED
      BY <2>2, <3>1, <3>2, <3>3
  <2> QED
    BY <2>4, <2>5
<1>5. T.conn[c] # Blank
  BY DEF Blank
<1>6. Linked(T, c)
  <2>1. Linked(S, c)
    BY DEF Agrees
  <2>2. Cardinality({}) = 0
    BY FS_EmptySet
  <2>3. S.conn[c] = Blank => Cardinality(Served(S, c)) = 0
    BY <2>1, <2>2 DEF Linked
  <2>4. S.conn[c] # Blank =>
          /\ S.conn[c].references \in Nat
          /\ Cardinality(Served(S, c)) <= S.conn[c].references + 1
          /\ AllIndexed => Cardinality(Served(S, c)) = S.conn[c].references + 1
    BY <2>1 DEF Linked
  <2>5. /\ Cardinality(Served(T, c)) <= n + 1
        /\ AllIndexed => Cardinality(Served(T, c)) = n + 1
    BY <1>4, <2>3, <2>4
  <2> QED
    BY <1>5, <2>5 DEF Linked
<1>7. \A d \in Conn : Linked(T, d)
  <2> SUFFICES ASSUME NEW d \in Conn \ {c} PROVE Linked(T, d)
    BY <1>6
  <2>1. Linked(S, d) /\ T.conn[d] = S.conn[d] /\ Served(T, d) = Served(S, d)
    BY <1>3 DEF Agrees
  <2> QED
    BY <2>1 DEF Linked
<1>8. IsFiniteSet(Living(T)) /\ T.current = (Cardinality(Living(T)) + k) % Word
  <2>1. IsFiniteSet(Living(S)) /\ S.current = (Cardinality(Living(S)) + k) % Word
    BY DEF Agrees
  <2>2. Living(T) = Living(S) \cup {c}
    BY <1>5 DEF Living
  <2>3. CASE S.conn[c] # Blank
    <3>1. Living(T) = Living(S)
      BY <2>2, <2>3 DEF Living
    <3> QED
      BY <2>1, <2>3, <3>1
  <2>4. CASE S.conn[c] = Blank
    <3>1. c \notin Living(S)
      BY <2>4 DEF Living
    <3>2. /\ IsFiniteSet(Living(T)) /\ Cardinality(Living(S)) \in Nat
          /\ Cardinality(Living(T)) = Cardinality(Living(S)) + 1
      BY <2>1, <2>2, <3>1, FS_AddElement, FS_CardinalityType
    <3>3. Cardinality(Living(T)) + k = Cardinality(Living(S)) + k + 1
      BY <3>2
    <3>4. Cardinality(Living(S)) + k \in Nat
      BY <3>2
    <3> QED
      BY <2>1, <2>4, <3>2, <3>3, <3>4, CountMod
  <2> QED
    BY <2>3, <2>4
<1> QED
  BY <1>2, <1>7, <1>8 DEF Agrees

\* RETR opens a mail: it takes a free descriptor and a reference.
LEMMA OpenFileAgrees ==
  ASSUME NEW k \in Nat, NEW f, AtWork(f, k), NEW p, Version(conn[Owner(f)], p), NEW e,
         OpenFile(f, p, e)
  PROVE  Agrees(Here', k)
<1> DEFINE c == Owner(f)
           q == [p EXCEPT !.st = "PROCESSING_RESPONSE"]
           S == Suspend(With(Here, c, q), f)
<1>1. /\ Agrees(Here, k) /\ c \in Conn /\ conn[c] # Blank /\ Here.conn = conn
      /\ Here.kernel = kernel
  BY DEF AtWork, Here
<1>2. Version(conn[c], q)
  BY DEF Version
<1>3. /\ Agrees(S, k) /\ S.conn[c] = q /\ q # Blank /\ S.kernel = kernel
      /\ {"st", "references"} \subseteq DOMAIN q /\ q.st # "UNUSED"
  <2> HIDE DEF q
  <2> DEFINE W == With(Here, c, q)
  <2>1. Agrees(W, k) /\ W.conn[c] = q /\ q # Blank /\ W.kernel = kernel
    BY <1>1, <1>2, WithAgrees
  <2> HIDE DEF W
  <2>2. SetInterest(W, f, "NOOP").kernel = W.kernel
    BY <2>1 DEF SetInterest, Agrees
  <2>3. Agrees(SetInterest(W, f, "NOOP"), k) /\ SetInterest(W, f, "NOOP").conn = W.conn
    BY <2>1, SetInterestAgrees
  <2> QED
    BY <1>2, <2>1, <2>2, <2>3 DEF Suspend, W, Version
<1>4. CASE Halt("exit", S)
  BY <1>3, <1>4, BecomeAgrees DEF Halt
<1>5. ASSUME NEW g \in Free,
             LET F == [Register(S, g, c, "READ") EXCEPT
                         !.kernel[g] = [kind |-> "file", left |-> Size[p.arg]]]
             IN  Become(With(F, c, [q EXCEPT !.file_fd = g, !.file_opened = TRUE,
                                             !.references = q.references + 1]))
      PROVE  Agrees(Here', k)
  <2> DEFINE R == Register(S, g, c, "READ")
             F == [R EXCEPT !.kernel[g] = [kind |-> "file", left |-> Size[p.arg]]]
             r == [q EXCEPT !.file_fd = g, !.file_opened = TRUE,
                            !.references = q.references + 1]
             T == With(F, c, r)
  <2> HIDE DEF S, q
  <2>1. g \in Fd /\ S.kernel[g].kind = "closed"
    BY <1>3 DEF Free
  <2>2. S.items[g].conn = NoConn /\ NoConn \notin Conn
    BY <1>3, <2>1, ConstantsAssumption DEF Agrees, ItemsLinked, ConstantsAssumption
  <2>3. /\ DOMAIN S = {"items", "kernel", "conn", "current"}
        /\ DOMAIN S.items = Fd /\ DOMAIN S.kernel = Fd /\ DOMAIN S.conn = Conn
        /\ {"conn", "interest"} \subseteq DOMAIN S.items[g]
    BY <1>3, <2>1 DEF Agrees, ItemsLinked
  <2>4. /\ DOMAIN R = DOMAIN S /\ R.kernel = S.kernel /\ R.conn = S.conn
        /\ R.current = S.current /\ DOMAIN R.items = Fd
        /\ \A h \in Fd \ {g} : R.items[h] = S.items[h]
        /\ IF g > ItemsMax THEN R.items[g] = S.items[g]
           ELSE R.items[g] = [conn |-> c, interest |-> "READ"]
    BY <2>1, <2>2, <2>3 DEF Register, Refuses, Registered
  <2> HIDE DEF R
  <2>5. /\ DOMAIN F = DOMAIN S /\ F.items = R.items /\ F.conn = S.conn
        /\ F.current = S.current /\ DOMAIN F.kernel = Fd
        /\ F.kernel[g] = [kind |-> "file", left |-> Size[p.arg]]
        /\ \A h \in Fd \ {g} : F.kernel[h] = S.kernel[h]
    BY <2>1, <2>3, <2>4
  <2> HIDE DEF F
  <2>6. /\ DOMAIN T = DOMAIN S /\ T.items = R.items /\ T.kernel = F.kernel
        /\ T.current = S.current /\ DOMAIN T.conn = Conn
        /\ T.conn[c] = r /\ \A d \in Conn \ {c} : T.conn[d] = S.conn[d]
    BY <1>1, <2>3, <2>5 DEF With
  <2>7. /\ r.st = q.st /\ {"st", "references"} \subseteq DOMAIN r
        /\ r.references = q.references + 1
    BY <1>3
  <2>8. q.references \in Nat
    BY <1>1, <1>3 DEF Agrees, Linked
  <2> HIDE DEF T, r
  <2>9. /\ {"conn", "interest"} \subseteq DOMAIN T.items[g]
        /\ T.items[g].conn = IF g > ItemsMax THEN NoConn ELSE c
        /\ {"kind"} \subseteq DOMAIN T.kernel[g] /\ T.kernel[g].kind # "closed"
        /\ DOMAIN T.items = Fd /\ DOMAIN T.kernel = Fd
        /\ \A h \in Fd \ {g} : T.items[h] = S.items[h] /\ T.kernel[h] = S.kernel[h]
    BY <2>2, <2>3, <2>4, <2>5, <2>6
  <2>10. /\ T.conn[c].st # "UNUSED" /\ {"st", "references"} \subseteq DOMAIN T.conn[c]
         /\ T.conn[c].references = S.conn[c].references + 1
         /\ S.conn[c] # Blank /\ S.conn[c].references + 1 \in Nat
    BY <1>3, <2>6, <2>7, <2>8
  <2>11. Agrees(T, k)
    <3>1. PICK d \in Conn : d = c
      BY <1>1
    <3> HIDE DEF c
    <3> QED
      BY <1>3, <2>1, <2>6, <2>9, <2>10, <3>1, OpenAgrees
  <2>12. Become(T)
    BY <1>5 DEF T, F, R, r
  <2> QED
    BY <2>11, <2>12, BecomeAgrees
<1> QED
  BY <1>4, <1>5 DEF OpenFile

\* RETR, its four ways.
LEMMA RetrAgrees ==
  ASSUME NEW k \in Nat, NEW f, AtWork(f, k), RetrFirst(f) \/ RetrMore(f) \/ RetrCopy(f)
  PROVE  Agrees(Here', k)
<1> DEFINE c == Owner(f)
           x == conn[c]
<1>1. /\ Agrees(Here, k) /\ c \in Conn /\ x # Blank /\ Version(x, x) /\ Here.conn = conn
  BY DEF AtWork, Here
<1>2. CASE RetrFirst(f)
  <2> DEFINE q == [Wrote(x, ReplyLen) EXCEPT !.multiline_state = "MULTILINE"]
  <2>1. Version(x, q)
    BY <1>1 DEF Version, Wrote
  <2>2. OpenFile(f, q, errno) \/ Leave(f, x, logged, errno)
    BY <1>2 DEF RetrFirst
  <2> HIDE DEF q
  <2> QED
    BY <1>1, <2>1, <2>2, OpenFileAgrees, LeaveAgrees
<1>3. CASE RetrMore(f)
  <2> DEFINE q == [x EXCEPT !.st = "PROCESSING_RESPONSE"]
             W == With(Here, c, q)
             S == Suspend(W, f)
  <2>1. Version(x, q)
    BY <1>1 DEF Version
  <2>2. Become(SetInterest(S, x.file_fd, "READ"))
    BY <1>3 DEF RetrMore
  <2> HIDE DEF q
  <2>3. Agrees(W, k)
    BY <1>1, <2>1, WithAgrees
  <2> HIDE DEF W
  <2>4. Agrees(S, k)
    BY <2>3, SetInterestAgrees DEF Suspend
  <2> HIDE DEF S
  <2>5. Agrees(SetInterest(S, x.file_fd, "READ"), k)
    BY <2>4, SetInterestAgrees
  <2> QED
    BY <2>2, <2>5, BecomeAgrees
<1>4. CASE RetrCopy(f)
  <2>1. \/ Become(Here)
        \/ \E n, b : LET p1 == [Wrote(x, n) EXCEPT !.info_file_buff = b]
                     IN  \/ Send(f, [ResetStructures(Wrote(p1, TermLen)) EXCEPT
                                       !.finished = TRUE], logged, errno)
                         \/ Send(f, [p1 EXCEPT !.multiline_state = "END_LINE"],
                                 logged, errno)
                         \/ Send(f, p1, logged, errno)
    <3>1. ASSUME NEW m, NEW b,
                 b = ReadAdv(Wrote(x, m[1] + m[2]).info_file_buff, m[1]),
                 LET p1   == [Wrote(x, m[1] + m[2]) EXCEPT !.info_file_buff = b]
                     done == x.multiline_state = "END_LINE" \/ Exhausted(p1)
                     p2   == IF done /\ Fits(p1, TermLen)
                             THEN [ResetStructures(Wrote(p1, TermLen)) EXCEPT
                                     !.finished = TRUE]
                             ELSE IF done THEN [p1 EXCEPT !.multiline_state = "END_LINE"]
                             ELSE p1
                 IN  Send(f, p2, logged, errno)
          PROVE  \E n, a : LET p1 == [Wrote(x, n) EXCEPT !.info_file_buff = a]
                     IN  \/ Send(f, [ResetStructures(Wrote(p1, TermLen)) EXCEPT
                                       !.finished = TRUE], logged, errno)
                         \/ Send(f, [p1 EXCEPT !.multiline_state = "END_LINE"],
                                 logged, errno)
                         \/ Send(f, p1, logged, errno)
      <4> DEFINE p1 == [Wrote(x, m[1] + m[2]) EXCEPT !.info_file_buff = b]
      <4>1. \/ Send(f, [ResetStructures(Wrote(p1, TermLen)) EXCEPT !.finished = TRUE],
                    logged, errno)
            \/ Send(f, [p1 EXCEPT !.multiline_state = "END_LINE"], logged, errno)
            \/ Send(f, p1, logged, errno)
        BY <3>1
      <4> HIDE DEF x
      <4> QED
        BY <4>1, Zenon
    <3> QED
      BY <1>4, <3>1 DEF RetrCopy, Halt
  <2>2. ASSUME NEW n, NEW b, NEW p1, p1 = [Wrote(x, n) EXCEPT !.info_file_buff = b],
               \/ Send(f, [ResetStructures(Wrote(p1, TermLen)) EXCEPT !.finished = TRUE],
                       logged, errno)
               \/ Send(f, [p1 EXCEPT !.multiline_state = "END_LINE"], logged, errno)
               \/ Send(f, p1, logged, errno)
        PROVE  Agrees(Here', k)
    <3>1. Version(x, p1)
      BY <1>1, <2>2 DEF Version, Wrote
    <3>2. /\ Version(x, [ResetStructures(Wrote(p1, TermLen)) EXCEPT !.finished = TRUE])
          /\ Version(x, [p1 EXCEPT !.multiline_state = "END_LINE"])
      BY <3>1 DEF Version, Wrote, ResetStructures
    <3> HIDE DEF x
    <3> QED
      BY <1>1, <2>2, <3>1, <3>2, SendAgrees DEF x
  <2> QED
    BY <1>1, <2>1, <2>2, BecomeAgrees
<1> QED
  BY <1>2, <1>3, <1>4

\* The rest of process_response.
LEMMA AfterFileAgrees ==
  ASSUME NEW k \in Nat, NEW S, Agrees(S, k), NEW c \in Conn, S.conn[c] # Blank,
         AfterFile(c, S)
  PROVE  Agrees(Here', k)
<1> DEFINE p == S.conn[c]
           B == SetInterest(S, p.connection_fd, "WRITE")
           V == BackToSocket(S, p)
           W == IF p.file_ended THEN Unregister(V, p.file_fd) ELSE V
           q == [W.conn[c] EXCEPT !.st = "WRITING_RESPONSE"]
<1>1. Agrees(V, k) /\ V.conn = S.conn
  <2>1. Agrees(B, k) /\ B.conn = S.conn
    BY SetInterestAgrees
  <2> HIDE DEF B
  <2>2. /\ Agrees(SetInterest(B, p.file_fd, "NOOP"), k)
        /\ SetInterest(B, p.file_fd, "NOOP").conn = S.conn
    BY <2>1, SetInterestAgrees
  <2> QED
    BY <2>2 DEF BackToSocket, B
<1>2. \/ Finish(c, S, logged)
      \/ Finish(c, V, logged)
      \/ /\ Registered(S, p.file_fd)
         /\ \/ Become(W)
            \/ W.conn[c] # Blank /\ Become(With(W, c, q))
  BY DEF AfterFile, Halt
<1>3. Registered(S, p.file_fd) => p.file_fd \in Fd /\ Registered(V, p.file_fd)
  BY DEF BackToSocket, SetInterest, Registered, Agrees, ItemsLinked
<1> HIDE DEF V, p
<1>4. Registered(S, p.file_fd) => Agrees(W, k)
  BY <1>1, <1>3, UnregisterAgrees
<1> HIDE DEF W
<1>5. ASSUME Agrees(W, k), W.conn[c] # Blank PROVE Agrees(With(W, c, q), k)
  <2>1. Version(W.conn[c], q)
    BY <1>5 DEF Agrees, Linked, Version
  <2> HIDE DEF q
  <2> QED
    BY <1>5, <2>1, WithAgrees
<1> HIDE DEF q
<1> QED
  BY <1>1, <1>2, <1>4, <1>5, FinishAgrees, BecomeAgrees

\* process_response.
LEMMA ProcessResponseAgrees ==
  ASSUME NEW k \in Nat, NEW f, AtWork(f, k), ProcessResponse(f)
  PROVE  Agrees(Here', k)
<1> DEFINE c == Owner(f)
           x == conn[c]
<1>1. /\ Agrees(Here, k) /\ f \in Fd /\ c \in Conn /\ x # Blank /\ Version(x, x)
      /\ Here.conn = conn
  BY DEF AtWork, Here
<1>2. \/ Finish(c, Here, logged)
      \/ \E n : AfterFile(c, Consumed(With(Here, c, Filled(x, n)), f, n))
  BY DEF ProcessResponse
<1>3. ASSUME NEW n, AfterFile(c, Consumed(With(Here, c, Filled(x, n)), f, n))
      PROVE  Agrees(Here', k)
  <2> DEFINE q == Filled(x, n)
             S == With(Here, c, q)
             T == Consumed(S, f, n)
  <2>1. Version(x, q)
    BY <1>1 DEF Version, Filled
  <2>2. Agrees(S, k) /\ S.conn[c] # Blank
    <3> HIDE DEF q
    <3> QED
      BY <1>1, <2>1, WithAgrees
  <2>3. Agrees(T, k) /\ T.conn = S.conn
    <3> HIDE DEF S
    <3>1. CASE S.kernel[f].kind # "file"
      BY <2>2, <3>1 DEF Consumed
    <3>2. CASE S.kernel[f].kind = "file"
      <4>1. /\ DOMAIN T = DOMAIN S /\ T.items = S.items /\ T.conn = S.conn
            /\ T.current = S.current /\ DOMAIN T.kernel = Fd
            /\ \A g \in Fd \ {f} : T.kernel[g] = S.kernel[g]
            /\ T.kernel[f] = [S.kernel[f] EXCEPT !.left = S.kernel[f].left - n]
        BY <1>1, <2>2, <3>2 DEF Consumed, Agrees, ItemsLinked
      <4>2. "kind" \in DOMAIN S.kernel[f]
        BY <1>1, <2>2 DEF Agrees, ItemsLinked
      <4>3. T.kernel[f].kind = S.kernel[f].kind /\ "kind" \in DOMAIN T.kernel[f]
        BY <4>1, <4>2
      <4> HIDE DEF T
      <4>4. ItemsLinked(T)
        <5>1. ItemsLinked(S)
          BY <2>2 DEF Agrees
        <5> QED
          BY <1>1, <3>2, <4>1, <4>3, <5>1 DEF ItemsLinked
      <4>5. Living(T) = Living(S) /\ \A d \in Conn : Served(T, d) = Served(S, d)
        BY <4>1 DEF Living, Served
      <4>6. \A d \in Conn : Linked(T, d)
        BY <2>2, <4>1, <4>5 DEF Agrees, Linked
      <4>7. Agrees(T, k)
        BY <2>2, <4>1, <4>4, <4>5, <4>6 DEF Agrees
      <4> QED
        BY <4>1, <4>7
    <3> QED
      BY <3>1, <3>2
  <2>4. AfterFile(c, T)
    BY <1>3
  <2> HIDE DEF T, S
  <2> QED
    BY <1>1, <2>2, <2>3, <2>4, AfterFileAgrees
<1> QED
  BY <1>1, <1>2, <1>3, FinishAgrees

\* The greeting, a request, and the last line of a session.
LEMMA EdgesAgree ==
  ASSUME NEW k \in Nat, NEW f, AtWork(f, k), HelloWrite(f) \/ ReadRequest(f) \/ FinishError(f)
  PROVE  Agrees(Here', k)
<1> DEFINE c == Owner(f)
           x == conn[c]
<1>1. /\ Agrees(Here, k) /\ f \in Fd /\ c \in Conn /\ x # Blank /\ Version(x, x)
      /\ Here.conn = conn
  BY DEF AtWork, Here
<1>2. ASSUME NEW q, Version(x, q), NEW S, S = With(Here, c, q)
      PROVE  /\ Agrees(S, k) /\ S.conn[c] # Blank
             /\ \A i : Agrees(SetInterest(S, f, i), k)
  <2>1. Agrees(S, k) /\ S.conn[c] # Blank
    BY <1>1, <1>2, WithAgrees
  <2> QED
    BY <2>1, SetInterestAgrees
<1>3. CASE HelloWrite(f)
  <2>1. ASSUME NEW b, NEW q, q = [x EXCEPT !.info_write_buff = b],
               \/ Become(With(Here, c, q))
               \/ Become(SetInterest(With(Here, c, [q EXCEPT !.st = "READING_REQUEST"]),
                                     f, "READ"))
        PROVE  Agrees(Here', k)
    <3> DEFINE t == [q EXCEPT !.st = "READING_REQUEST"]
    <3>1. Version(x, q) /\ Version(x, t)
      BY <1>1, <2>1 DEF Version
    <3> HIDE DEF t
    <3>2. CASE Become(With(Here, c, q))
      BY <1>2, <3>1, <3>2, BecomeAgrees
    <3>3. CASE Become(SetInterest(With(Here, c, t), f, "READ"))
      BY <1>2, <3>1, <3>3, BecomeAgrees
    <3> QED
      BY <2>1, <3>2, <3>3 DEF t
  <2>2. \/ Finish(c, Here, logged)
        \/ \E b : LET q == [x EXCEPT !.info_write_buff = b]
                  IN  \/ Become(With(Here, c, q))
                      \/ Become(SetInterest(With(Here, c,
                                  [q EXCEPT !.st = "READING_REQUEST"]), f, "READ"))
    BY <1>3 DEF HelloWrite
  <2> QED
    BY <1>1, <2>1, <2>2, FinishAgrees
<1>4. CASE ReadRequest(f)
  <2>1. ASSUME NEW r, Become(SetInterest(With(Here, c, Parsed(x, r)), f, "WRITE"))
        PROVE  Agrees(Here', k)
    <3>1. Version(x, Parsed(x, r))
      BY <1>1 DEF Version, Parsed
    <3> QED
      BY <1>2, <2>1, <3>1, BecomeAgrees
  <2> QED
    BY <1>1, <1>4, <2>1, FinishAgrees DEF ReadRequest
<1>5. CASE FinishError(f)
  <2> DEFINE q == IF ~x.error_written /\ Fits(x, ReplyLen)
                  THEN [Wrote(x, ReplyLen) EXCEPT !.error_written = TRUE] ELSE x
  <2>1. Version(x, q)
    BY <1>1 DEF Version, Wrote
  <2>2. \/ Finish(c, With(Here, c, q), logged)
        \/ \E b : LET S == With(Here, c, [q EXCEPT !.info_write_buff = b])
                  IN  Become(S) \/ Finish(c, S, logged)
    BY <1>5 DEF FinishError
  <2> HIDE DEF q
  <2>3. CASE Finish(c, With(Here, c, q), logged)
    <3> DEFINE S == With(Here, c, q)
    <3>1. Agrees(S, k) /\ S.conn[c] # Blank
      BY <1>2, <2>1
    <3> HIDE DEF S
    <3> QED
      BY <1>1, <2>3, <3>1, FinishAgrees DEF S
  <2>4. ASSUME NEW b, NEW S, S = With(Here, c, [q EXCEPT !.info_write_buff = b]),
               Become(S) \/ Finish(c, S, logged)
        PROVE  Agrees(Here', k)
    <3>1. Version(x, [q EXCEPT !.info_write_buff = b])
      BY <2>1 DEF Version
    <3>2. Agrees(S, k) /\ S.conn[c] # Blank
      BY <1>2, <2>4, <3>1
    <3> QED
      BY <1>1, <2>4, <3>2, FinishAgrees, BecomeAgrees
  <2> QED
    BY <2>2, <2>3, <2>4
<1> QED
  BY <1>3, <1>4, <1>5

\* A handler, whatever it finds.
LEMMA HandlerAgrees ==
  ASSUME NEW k \in Nat, Agrees(Here, k), NEW f \in Fd, Handler(f)
  PROVE  Agrees(Here', k)
<1>1. Owner(f) # NoConn
  BY DEF Handler, HelloWrite, ReadRequest, WriteResponse, ProcessResponse, FinishError,
     StmAbort, QuitAction, StatAction, NoopAction, CapaAction, DefaultAction, UserAction,
     PassAction, DeleAction, RsetAction, ListOne, ListAll, RetrError, RetrFirst, RetrMore,
     RetrCopy, SendRest, Executing, Ready
<1>2. AtWork(f, k)
  BY <1>1, ReadyAgrees
<1>3. CASE StmAbort(f)
  BY <1>3, BecomeAgrees DEF StmAbort, Halt
<1>4. CASE WriteResponse(f)
  BY <1>2, <1>4, OneLineAgrees, OtherAgrees, RetrAgrees DEF WriteResponse
<1> QED
  BY <1>2, <1>3, <1>4, EdgesAgree, ProcessResponseAgrees, OtherAgrees DEF Handler

\* A connection that is accepted, and one that the selector refuses: that one
\* counts out without having counted in.
LEMMA AcceptAgrees ==
  ASSUME NEW k \in Nat, Agrees(Here, k), Accept
  PROVE  \/ Agrees(Here', k)
         \/ /\ UNCHANGED <<items, kernel, conn>>
            /\ current' = Decreased(current) /\ ~AllIndexed
<1>1. PICK c \in Conn, f \in Free :
        /\ conn[c] = Blank
        /\ Become(IF Refuses(Here, f) THEN [Here EXCEPT !.current = Decreased(@)]
                  ELSE [Register(With(Here, c, NewSession(f)), f, c, "WRITE") EXCEPT
                          !.kernel[f].kind = "socket", !.current = Increased(@)])
  BY DEF Accept
<1>2. /\ f \in Fd /\ kernel[f].kind = "closed" /\ items[f].conn = NoConn
      /\ NoConn \notin Conn
  BY ConstantsAssumption DEF Free, Agrees, ItemsLinked, Here, ConstantsAssumption
<1>3. /\ DOMAIN items = Fd /\ DOMAIN kernel = Fd /\ DOMAIN conn = Conn
      /\ "kind" \in DOMAIN kernel[f]
  BY <1>2 DEF Agrees, ItemsLinked, Here
<1>4. CASE Refuses(Here, f)
  <2>1. ~AllIndexed
    BY <1>2, <1>4, ConstantsAssumption
    DEF Refuses, Registered, Here, AllIndexed, Fd, ConstantsAssumption
  <2> QED
    BY <1>1, <1>4, <2>1 DEF Become, Here
<1>5. CASE ~Refuses(Here, f)
  <2> DEFINE p == NewSession(f)
             R == Register(With(Here, c, p), f, c, "WRITE")
             T == [R EXCEPT !.kernel[f].kind = "socket", !.current = Increased(R.current)]
  <2>1. /\ p.st = "HELLO" /\ {"st", "references"} \subseteq DOMAIN p /\ p.references = 0
    BY DEF NewSession, Blank
  <2> HIDE DEF p
  <2>2. R = [items |-> [items EXCEPT ![f] = [conn |-> c, interest |-> "WRITE"]],
             kernel |-> kernel, conn |-> [conn EXCEPT ![c] = p], current |-> current]
    BY <1>5 DEF Register, With, Here, Refuses, Registered
  <2>3. Become(T)
    BY <1>1, <1>5 DEF p
  <2> HIDE DEF R
  <2>4. /\ DOMAIN T = DOMAIN Here /\ DOMAIN T.items = Fd /\ DOMAIN T.kernel = Fd
        /\ DOMAIN T.conn = Conn
        /\ T.items[f] = [conn |-> c, interest |-> "WRITE"]
        /\ T.kernel[f].kind = "socket" /\ "kind" \in DOMAIN T.kernel[f]
        /\ \A g \in Fd \ {f} : T.items[g] = items[g] /\ T.kernel[g] = kernel[g]
        /\ \A d \in Conn \ {c} : T.conn[d] = conn[d]
        /\ T.conn[c] = p /\ T.current = Increased(current)
    BY <1>2, <1>3, <2>2 DEF Here
  <2>5. ~(f > ItemsMax)
    BY <1>5 DEF Refuses
  <2> HIDE DEF T
  <2>6. /\ Here.items = items /\ Here.kernel = kernel /\ Here.conn = conn
        /\ Here.current = current
    BY DEF Here
  <2>7. /\ {"conn", "interest"} \subseteq DOMAIN T.items[f]
        /\ T.items[f].conn = IF f > ItemsMax THEN NoConn ELSE c
        /\ {"kind"} \subseteq DOMAIN T.kernel[f] /\ T.kernel[f].kind # "closed"
        /\ {"st", "references"} \subseteq DOMAIN T.conn[c] /\ T.conn[c].st # "UNUSED"
        /\ T.conn[c].references = 0
    BY <2>1, <2>4, <2>5
  <2>8. Agrees(T, k)
    BY <1>1, <1>2, <2>4, <2>6, <2>7, OpenAgrees
  <2> QED
    BY <2>3, <2>8, BecomeAgrees
<1> QED
  BY <1>4, <1>5

\* Every step, but for the metric after an accept that is refused.
LEMMA NextAgrees ==
  ASSUME NEW k \in Nat, Agrees(Here, k), [Next]_vars
  PROVE  \/ Agrees(Here', k)
         \/ /\ Accept /\ UNCHANGED <<items, kernel, conn>>
            /\ current' = Decreased(current) /\ ~AllIndexed
<1>1. ASSUME UNCHANGED <<items, kernel, conn, current>> PROVE Agrees(Here', k)
  <2>1. Here' = Here
    BY <1>1 DEF Here
  <2> QED
    BY <2>1
<1>2. CASE \E f \in Fd : Handler(f)
  BY <1>2, HandlerAgrees
<1>3. CASE CloseItem
  <2>1. PICK f \in Fd : Registered(Here, f) /\ Become(Unregister(Here, f))
    BY <1>3 DEF CloseItem
  <2>2. Agrees(Unregister(Here, f), k)
    BY <2>1, UnregisterAgrees
  <2> QED
    BY <2>1, <2>2, BecomeAgrees
<1>4. CASE Process
  BY <1>1, <1>3, <1>4, AcceptAgrees DEF Process, AcceptFails, AdminRead, Shutdown, Stopped
<1>5. CASE Deliver \/ UNCHANGED vars
  BY <1>1, <1>5 DEF Deliver, vars
<1> QED
  BY <1>2, <1>4, <1>5 DEF Next

\* A multiple of the width of a counter does not show in it.
LEMMA ShiftedMod ==
  ASSUME NEW a \in Int, NEW q \in Int
  PROVE  (a - Word * q) % Word = a % Word
<1> DEFINE w == Word
           b == a - w * q
           r == a % w
           s == b % w
           i == a \div w
           j == b \div w
<1>1. w \in Nat \ {0}
  BY ConstantsAssumption DEF ConstantsAssumption
<1>2. w * q \in Int /\ b \in Int /\ a = b + w * q
  BY <1>1
<1>3. r \in 0..(w - 1) /\ i \in Int /\ a = w * i + r
  BY <1>1
<1> HIDE DEF b
<1>4. s \in 0..(w - 1) /\ j \in Int /\ b = w * j + s
  BY <1>1, <1>2
<1> HIDE DEF w, r, s, i, j
<1>5. w * (j + q) = w * j + w * q /\ j + q \in Int /\ w * j \in Int /\ w * i \in Int
  <2>1. \A u, x, y \in Int : u * x \in Int /\ u * (x + y) = u * x + u * y
    OBVIOUS
  <2> QED
    BY <1>1, <1>3, <1>4, <2>1
<1>6. w * i + r = w * (j + q) + s
  BY <1>2, <1>3, <1>4, <1>5
<1>7. r = s
  BY <1>1, <1>3, <1>4, <1>5, <1>6, OneRemainder
<1> QED
  BY <1>7 DEF b, r, s, w

\* The server starts with nothing to count.
LEMMA InitAgrees == Init => Agrees(Here, 0)
<1> SUFFICES ASSUME Init PROVE Agrees(Here, 0)
  OBVIOUS
<1>1. /\ items = [f \in Fd |-> Unused] /\ kernel = [f \in Fd |-> Closed]
      /\ conn = [c \in Conn |-> Blank] /\ current = 0
  BY DEF Init
<1>2. {"st", "references"} \subseteq DOMAIN Blank /\ Blank.references \in Nat
  BY DEF Blank
<1>3. NoConn \notin Conn
  BY ConstantsAssumption DEF ConstantsAssumption
<1>4. ItemsLinked(Here)
  BY <1>1 DEF ItemsLinked, Here, Unused, Closed
<1>5. \A c \in Conn : Linked(Here, c)
  BY <1>1, <1>2, <1>3 DEF Linked, Here, Served, Unused
<1>6. Living(Here) = {}
  BY <1>1 DEF Living, Here
<1>7. 0 = (0 + 0) % Word
  BY ConstantsAssumption DEF ConstantsAssumption
<1> QED
  BY <1>1, <1>4, <1>5, <1>6, <1>7, FS_EmptySet DEF Agrees, Here

\* The metric is ahead of the sessions by some number, which an accept that is
\* refused makes one less.
Ahead == \E k \in Nat : Agrees(Here, k)

\* The number of sessions.
LEMMA LivingSessions ==
  ASSUME NEW k \in Nat, Agrees(Here, k)
  PROVE  /\ Cardinality(Sessions) \in Nat
         /\ current = (Cardinality(Sessions) + k) % Word
<1>1. Living(Here) = Sessions
  BY DEF Living, Sessions, Here
<1> QED
  BY <1>1, FS_CardinalityType DEF Agrees, Here

\* Every step, the refused accept included.
LEMMA NextAhead == Ahead /\ [Next]_vars => Ahead'
<1> SUFFICES ASSUME NEW k \in Nat, Agrees(Here, k), [Next]_vars PROVE Ahead'
  BY DEF Ahead
<1>1. CASE Agrees(Here', k)
  BY <1>1 DEF Ahead
<1>2. CASE UNCHANGED <<items, kernel, conn>> /\ current' = Decreased(current)
  <2> DEFINE n == Cardinality(Living(Here))
             x == n + k + (Word - 1)
  <2>1. Word \in Nat \ {0}
    BY ConstantsAssumption DEF ConstantsAssumption
  <2>2. n \in Nat /\ current = (n + k) % Word
    BY FS_CardinalityType DEF Agrees, Here
  <2> HIDE DEF n
  <2>3. x \in Nat /\ x + 1 \in Int /\ x + 1 - Word * 1 = n + k
    BY <2>1, <2>2
  <2>4. (x + 1) % Word = (n + k) % Word
    <3> DEFINE y == x + 1
               q == 1
    <3>1. y \in Int /\ y - Word * q = n + k /\ q \in Int
      BY <2>1, <2>2
    <3> HIDE DEF x, y, q
    <3>2. (y - Word * q) % Word = y % Word
      BY <3>1, ShiftedMod
    <3> QED
      BY <3>1, <3>2 DEF y
  <2>5. Decreased((x + 1) % Word) = x % Word
    BY <2>3, CountMod
  <2>6. current' = (n + (k + (Word - 1))) % Word /\ k + (Word - 1) \in Nat
    BY <1>2, <2>1, <2>2, <2>4, <2>5
  <2>7. /\ Here'.items = Here.items /\ Here'.kernel = Here.kernel
        /\ Here'.conn = Here.conn /\ DOMAIN Here' = DOMAIN Here
        /\ Here'.current = current'
    BY <1>2 DEF Here
  <2>8. Living(Here') = Living(Here) /\ \A c \in Conn : Served(Here', c) = Served(Here, c)
    BY <2>7 DEF Living, Served
  <2>9. ItemsLinked(Here') /\ \A c \in Conn : Linked(Here', c)
    BY <2>7, <2>8 DEF Agrees, ItemsLinked, Linked
  <2>10. Agrees(Here', k + (Word - 1))
    BY <2>6, <2>7, <2>8, <2>9 DEF Agrees, n
  <2> QED
    BY <2>6, <2>10 DEF Ahead
<1> QED
  BY <1>1, <1>2, NextAgrees

\* One step of the metric.
LEMMA MetricFollows ==
  ASSUME NEW k \in Nat, Agrees(Here, k), Agrees(Here', k)
  PROVE  current' = (current + Cardinality(Sessions') - Cardinality(Sessions)) % Word
<1> DEFINE n == Cardinality(Sessions)
           m == Cardinality(Sessions')
           q == (n + k) \div Word
<1>1. n \in Nat /\ current = (n + k) % Word
  BY LivingSessions
<1>2. m \in Nat /\ current' = (m + k) % Word
  <2>1. Living(Here') = Sessions'
    BY DEF Living, Sessions, Here
  <2> QED
    BY <2>1, FS_CardinalityType DEF Agrees, Here
<1>3. Word \in Nat \ {0}
  BY ConstantsAssumption DEF ConstantsAssumption
<1> HIDE DEF n, m
<1>4. q \in Int /\ n + k = Word * q + ((n + k) % Word) /\ Word * q \in Int
  BY <1>1, <1>3
<1> HIDE DEF q
<1>5. current = n + k - Word * q /\ current + m - n = (m + k) - Word * q
  BY <1>1, <1>2, <1>4
<1>6. ((m + k) - Word * q) % Word = (m + k) % Word
  BY <1>1, <1>2, <1>4, ShiftedMod
<1> QED
  BY <1>2, <1>5, <1>6 DEF n, m

\* current_connections (pop3.c:346, 414) follows the sessions that begin and end,
\* whatever the limits are and whatever happens to the clients, the files, errno
\* and the process.  Only an accept that is refused disturbs it, by one.
THEOREM MetricRight == Spec => CountFollows
<1>1. ASSUME Ahead, [Next]_vars
      PROVE  [\/ Accept /\ UNCHANGED conn /\ current' = Decreased(current)
              \/ current' = (current + Cardinality(Sessions') - Cardinality(Sessions))
                              % Word]_vars
  <2>1. PICK k \in Nat : Agrees(Here, k)
    BY <1>1 DEF Ahead
  <2>2. \/ Agrees(Here', k)
        \/ Accept /\ UNCHANGED conn /\ current' = Decreased(current)
    BY <1>1, <2>1, NextAgrees
  <2> QED
    BY <2>1, <2>2, MetricFollows
<1>2. Init => Ahead
  BY InitAgrees DEF Ahead
<1> QED
  BY <1>1, <1>2, NextAhead, PTL DEF Spec, CountFollows

\* While the selector can index all there is, no accept is refused.
LEMMA IndexedAgrees ==
  ASSUME AllIndexed
  PROVE  Spec => []Agrees(Here, 0)
<1>1. Agrees(Here, 0) /\ [Next]_vars => Agrees(Here, 0)'
  <2> SUFFICES ASSUME Agrees(Here, 0), [Next]_vars PROVE Agrees(Here', 0)
    OBVIOUS
  <2> QED
    BY NextAgrees
<1> QED
  BY <1>1, InitAgrees, PTL DEF Spec

\* pop3_close (pop3.c:447) frees a session with its last descriptor, never
\* before and never later, whatever a bad number, a full buffer or a mail that is
\* not found does to the session.
THEOREM ReferencesRight ==
  ASSUME AllIndexed
  PROVE  Spec => []References
<1>1. Agrees(Here, 0) => References
  <2> SUFFICES ASSUME Agrees(Here, 0), NEW c \in Conn
               PROVE  IF conn[c] = Blank THEN Items(c) = {}
                      ELSE conn[c].references + 1 = Cardinality(Items(c))
    BY DEF References
  <2>1. Served(Here, c) = Items(c) /\ Linked(Here, c) /\ Here.conn = conn
    BY DEF Served, Items, Owner, Here, Agrees
  <2> QED
    BY <2>1 DEF Linked
<1> QED
  BY <1>1, IndexedAgrees, PTL

\* current_connections is the number of sessions modulo its width.
THEOREM CountRight ==
  ASSUME AllIndexed
  PROVE  Spec => []CountMatches
<1>1. Agrees(Here, 0) => CountMatches
  BY LivingSessions DEF CountMatches
<1> QED
  BY <1>1, IndexedAgrees, PTL

\* No descriptor leaks and none is watched after it was closed, in any order in
\* which sessions open files, end, break, and the server shuts down.
THEOREM DescriptorsRight ==
  ASSUME AllIndexed
  PROVE  Spec => []DescriptorsTracked
<1>1. Agrees(Here, 0) => DescriptorsTracked
  BY DEF Agrees, ItemsLinked, DescriptorsTracked, Registered, Here
<1> QED
  BY <1>1, IndexedAgrees, PTL

\* selector_destroy ends when no item is left, and no handler ends the process so.
LEMMA StoppedEmpty == Spec => [](server = "stopped" => \A f \in Fd : items[f].conn = NoConn)
<1> DEFINE Empty == server = "stopped" => \A f \in Fd : items[f].conn = NoConn
<1>1. Init => Empty
  BY DEF Init
<1>2. ASSUME Empty, IInv, [Next]_vars PROVE Empty'
  <2>1. CASE \E f \in Fd : Handler(f)
    <3>1. PICK f \in Fd : Handler(f)
      BY <2>1
    <3>2. Running
      BY <3>1 DEF Handler, HelloWrite, ReadRequest, WriteResponse, ProcessResponse,
         FinishError, StmAbort, QuitAction, StatAction, NoopAction, CapaAction,
         DefaultAction, UserAction, PassAction, DeleAction, RsetAction, ListOne, ListAll,
         RetrError, RetrFirst, RetrMore, RetrCopy, SendRest, Executing, Ready
    <3>3. Leaves(f)
      BY <1>2, <3>1, HandlerLeaves
    <3> QED
      BY <3>2, <3>3 DEF Leaves, Survives, Running
  <2>2. CASE Process
    BY <1>2, <2>2
    DEF Process, Accept, AcceptFails, AdminRead, Shutdown, CloseItem, Stopped, Running,
        Registered, Here
  <2>3. CASE Deliver \/ UNCHANGED vars
    BY <1>2, <2>3 DEF Deliver, vars
  <2> QED
    BY <1>2, <2>1, <2>2, <2>3 DEF Next
<1> QED
  BY <1>1, <1>2, Invariant, PTL DEF Spec

\* Shutdown releases every session and every descriptor (pop3.c:310).
THEOREM ShutdownReleasesAll ==
  ASSUME AllIndexed
  PROVE  Spec => []ShutdownReleases
<1>1. ASSUME Agrees(Here, 0), server = "stopped", \A f \in Fd : items[f].conn = NoConn
      PROVE  /\ \A c \in Conn : conn[c] = Blank
             /\ \A f \in Fd : kernel[f] = Closed
             /\ current = 0
  <2>1. ASSUME NEW c \in Conn PROVE conn[c] = Blank
    <3>1. Served(Here, c) = {}
      BY <1>1, ConstantsAssumption DEF Served, Here, ConstantsAssumption
    <3>2. Linked(Here, c) /\ Here.conn = conn
      BY <1>1 DEF Agrees, Here
    <3>3. Cardinality({}) = 0
      BY FS_EmptySet
    <3> QED
      BY <3>1, <3>2, <3>3 DEF Linked
  <2>2. \A f \in Fd : kernel[f] = Closed
    BY <1>1 DEF Agrees, ItemsLinked, Here
  <2>3. Sessions = {}
    BY <2>1 DEF Sessions
  <2>4. current = (0 + 0) % Word
    BY <1>1, <2>3, LivingSessions, FS_EmptySet
  <2>5. current = 0
    BY <2>4, ConstantsAssumption DEF ConstantsAssumption
  <2> QED
    BY <2>1, <2>2, <2>5
<1>2. Agrees(Here, 0) /\ (server = "stopped" => \A f \in Fd : items[f].conn = NoConn)
        => ShutdownReleases
  BY <1>1 DEF ShutdownReleases
<1> QED
  BY <1>2, IndexedAgrees, StoppedEmpty, PTL

-----------------------------------------------------------------------------
(* The loop of main.                                                       *)

\* An iteration, and what main does after its loop, is a step of Pop3Server or
\* none: one case for each action of the loop.
LEMMA LoopStep ==
  ASSUME [LoopNext]_loopVars
  PROVE  [Next]_vars
<1>1. CASE UNCHANGED loopVars
  BY <1>1 DEF loopVars
<1>2. CASE Select
  BY <1>2 DEF Select
<1>3. CASE Listen
  <2>1. CASE (Accept \/ AcceptFails \/ AdminRead) /\ UNCHANGED maildrop
    BY <2>1 DEF Next, Process
  <2>2. CASE UNCHANGED vars
    BY <2>2
  <2> QED
    BY <1>3, <2>1, <2>2 DEF Listen
<1>4. CASE \E f \in Fd : Visit(f)
  <2>1. PICK f \in Fd : Visit(f)
    BY <1>4
  <2>2. CASE Handler(f)
    BY <2>2 DEF Next
  <2>3. CASE PartialRequest(f)
    BY <2>3 DEF PartialRequest
  <2> QED
    BY <2>1, <2>2, <2>3 DEF Visit
<1>5. CASE EndIteration
  BY <1>5 DEF EndIteration
<1>6. CASE Ending
  BY <1>6 DEF Ending, Next, Process
<1>7. CASE Deliver
  BY <1>7 DEF Next
<1> QED
  BY <1>1, <1>2, <1>3, <1>4, <1>5, <1>6, <1>7 DEF LoopNext

\* The loop implements the server whose handlers happen in any order.
THEOREM LoopIsServer == LoopSpec => Spec
<1>1. LoopInit => Init
  BY DEF LoopInit
<1>2. [LoopNext]_loopVars => [Next]_vars
  BY LoopStep
<1> QED
  BY <1>1, <1>2, PTL DEF LoopSpec, Spec

\* Two sessions never work on the maildrop of one user, in the order in which
\* the selector calls the handlers.
THEOREM LoopExclusive == LoopSpec => []ExclusiveMaildrop
  BY LoopIsServer, Exclusive, PTL

-----------------------------------------------------------------------------
(* What the selector reported stays true until its handler is called.      *)

\* A descriptor that was reported and is still to be visited is the one its
\* session waits on, and was not opened meanwhile.
Awaited(f) ==
  /\ f \notin since
  /\ items[f].conn # NoConn
  /\ f \in slave_r => items[f].interest = "READ"
  /\ f \in slave_w => items[f].interest = "WRITE"
Current ==
  /\ pos \in Int
  /\ slave_r \subseteq Fd /\ slave_w \subseteq Fd
  /\ Running /\ pos # Idle => \A f \in slave_r \cup slave_w : f > pos => Awaited(f)

\* Before the first iteration nothing was reported.
LEMMA InitCurrent == LoopInit => Current
  BY DEF LoopInit, Current, Idle

\* A session with a descriptor is alive.
LEMMA OwnerAlive ==
  ASSUME CleanInv, IInv, NEW f \in Fd, items[f].conn # NoConn
  PROVE  items[f].conn \in Conn /\ Alive(items[f].conn)
<1>1. PICK c \in Conn : c = items[f].conn
  BY DEF IInv, TypeOK
<1>2. conn[c] # Blank
  BY <1>1 DEF CleanInv, Whole, Partly, Blank
<1> QED
  BY <1>1, <1>2 DEF CleanInv, Orderly, Alive

\* A new connection takes a descriptor that the selector does not have.
LEMMA AcceptKeeps ==
  ASSUME CleanInv, IInv, Accept, NEW g \in Fd, items[g].conn # NoConn
  PROVE  items'[g] = items[g]
<1>1. PICK c \in Conn, f \in Free :
        Become(IF Refuses(Here, f) THEN [Here EXCEPT !.current = Decreased(@)]
               ELSE [Register(With(Here, c, NewSession(f)), f, c, "WRITE") EXCEPT
                       !.kernel[f].kind = "socket", !.current = Increased(@)])
  BY DEF Accept
<1>2. f # g
  BY DEF Free, CleanInv, Tracked
<1>3. CASE ~Refuses(Here, f)
  <2> DEFINE R == Register(With(Here, c, NewSession(f)), f, c, "WRITE")
  <2>1. R = [items |-> [items EXCEPT ![f] = [conn |-> c, interest |-> "WRITE"]],
             kernel |-> kernel, conn |-> [conn EXCEPT ![c] = NewSession(f)],
             current |-> current]
    BY <1>3 DEF Register, With, Here, Refuses, Registered
  <2>2. Become([R EXCEPT !.kernel[f].kind = "socket", !.current = Increased(@)])
    BY <1>1, <1>3
  <2> HIDE DEF R
  <2>3. items' = [items EXCEPT ![f] = [conn |-> c, interest |-> "WRITE"]]
    BY <2>1, <2>2 DEF Become
  <2> QED
    BY <1>2, <2>3 DEF IInv, TypeOK
<1>4. CASE Refuses(Here, f)
  BY <1>1, <1>4 DEF Become, Here
<1> QED
  BY <1>3, <1>4

\* A handler changes nothing of what is still to be visited: it belongs to
\* other sessions, for a session waits on one descriptor at a time.
LEMMA VisitCurrent ==
  ASSUME CleanInv, Sheltered, IInv, IInv', OneInterest, Current,
         NEW f \in Fd, Visit(f)
  PROVE  Current'
<1>1. /\ f > pos /\ f \in slave_r \cup slave_w /\ pos # Idle /\ Running
      /\ pos' = f /\ slave_r' = slave_r /\ slave_w' = slave_w
      /\ since' = since \cup Opened
      /\ \/ f \in slave_r /\ items[f].interest = "READ"
         \/ f \in slave_w /\ items[f].interest = "WRITE"
  BY DEF Visit, Due, Idle, Current
<1>2. f \in Int /\ Fd \subseteq Int
  BY DEF Fd
<1>3. ASSUME NEW g \in slave_r \cup slave_w, g > f
      PROVE  /\ Awaited(g) /\ g \in Fd
             /\ items[g].conn # items[f].conn /\ items[g].interest # "NOOP"
  <2>1. g \in Fd /\ g > pos /\ Awaited(g)
    BY <1>1, <1>2, <1>3 DEF Current
  <2>2. items[g].interest # "NOOP" /\ items[f].interest # "NOOP" /\ g # f
    BY <1>1, <1>2, <1>3, <2>1 DEF Awaited
  <2>3. ASSUME items[g].conn = items[f].conn PROVE FALSE
    <3>1. PICK c \in Conn : c = items[f].conn
      BY <2>1, <2>3 DEF Awaited, IInv, TypeOK
    <3>2. Alive(c)
      BY <2>1, <2>3, <3>1, OwnerAlive DEF Awaited
    <3>3. {f, g} \subseteq {h \in Items(c) : items[h].interest # "NOOP"}
      BY <2>1, <2>2, <2>3, <3>1 DEF Items, Owner
    <3>4. PICK h : {k \in Items(c) : items[k].interest # "NOOP"} = {h}
      BY <1>1, <3>1, <3>2 DEF OneInterest
    <3> QED
      BY <2>2, <3>3, <3>4
  <2> QED
    BY <2>1, <2>2, <2>3
<1>4. CASE Handler(f)
  <2>1. SameElsewhere(items[f].conn)
    BY <1>4, HandlerClean DEF KeptBy, Owner
  <2>2. ASSUME NEW g \in slave_r \cup slave_w, g > f PROVE Awaited(g)'
    <3>1. items'[g] = items[g]
      BY <1>3, <2>1, <2>2 DEF SameElsewhere, Awaited
    <3>2. g \notin Opened
      BY <3>1 DEF Opened
    <3> QED
      BY <1>1, <1>3, <2>2, <3>1, <3>2 DEF Awaited
  <2> QED
    BY <1>1, <1>2, <2>2 DEF Current
<1>5. CASE PartialRequest(f)
  <2>1. Opened = {}
    BY <1>5 DEF Opened, PartialRequest, vars
  <2>2. \A g \in slave_r \cup slave_w : g > f => Awaited(g)'
    BY <1>1, <1>3, <1>5, <2>1 DEF Awaited, PartialRequest, vars
  <2> QED
    BY <1>1, <1>2, <2>2 DEF Current
<1> QED
  BY <1>4, <1>5 DEF Visit

\* The rest of an iteration: an accept takes a descriptor that is free, and
\* what pselect reports it reports of descriptors with an interest.
LEMMA LoopCurrent ==
  ASSUME CleanInv, Sheltered, IInv, IInv', OneInterest, Current, [LoopNext]_loopVars
  PROVE  Current'
<1>1. CASE \E f \in Fd : Visit(f)
  BY <1>1, VisitCurrent
<1>2. CASE Select
  <2>1. /\ slave_r' \subseteq Master("READ") /\ slave_w' \subseteq Master("WRITE")
        /\ since' = {} /\ pos' = -3 /\ items' = items
    BY <1>2 DEF Select, Reported, vars
  <2>2. /\ slave_r' \subseteq Fd /\ slave_w' \subseteq Fd
        /\ \A f \in slave_r' \cup slave_w' : Awaited(f)'
    BY <2>1 DEF Master, Registered, Here, Awaited
  <2> QED
    BY <2>1, <2>2 DEF Current
<1>3. CASE Listen
  <2>1. /\ pos # Idle /\ Running /\ pos' = pos + 1 /\ pos \in Int
        /\ slave_r' = slave_r /\ slave_w' = slave_w /\ since' = since \cup Opened
    BY <1>3 DEF Listen, Listeners, Passive, Administration, Idle, Current
  <2>2. \A f \in Fd : items[f].conn # NoConn => items'[f] = items[f]
    <3>1. CASE Accept
      BY <3>1, AcceptKeeps
    <3>2. CASE AcceptFails \/ AdminRead \/ UNCHANGED vars
      BY <3>2 DEF AcceptFails, AdminRead, vars
    <3> QED
      BY <1>3, <3>1, <3>2 DEF Listen
  <2>3. ASSUME NEW f \in slave_r \cup slave_w, f > pos + 1 PROVE Awaited(f)'
    <3>1. f \in Fd /\ f \in Int /\ f > pos
      BY <2>1, <2>3 DEF Current, Fd
    <3>2. Awaited(f) /\ items'[f] = items[f]
      BY <2>1, <2>2, <3>1 DEF Current, Awaited
    <3> QED
      BY <2>1, <3>2 DEF Awaited, Opened
  <2> QED
    BY <2>1, <2>3 DEF Current
<1>4. CASE EndIteration \/ Ending
  BY <1>4 DEF EndIteration, Ending, Current, loop, Idle
<1>5. CASE (Deliver /\ UNCHANGED loop) \/ UNCHANGED loopVars
  BY <1>5 DEF Deliver, loop, loopVars, vars, Current, Awaited, Running
<1> QED
  BY <1>1, <1>2, <1>3, <1>4, <1>5 DEF LoopNext

\* A handler is called only for a descriptor that pselect reported, and not for
\* one that was closed and opened again before its number came up
\* (selector.c:468), for any number of sessions and whatever pselect reports.
THEOREM ReadinessIsFresh == LoopSpec /\ []Sheltered => []NoStaleReadiness
<1>1. Current => NoStaleReadiness
  BY DEF Current, Awaited, NoStaleReadiness, Due
<1>2. CleanInv /\ Sheltered /\ IInv /\ IInv' /\ OneInterest /\ Current /\ [LoopNext]_loopVars
        => Current'
  BY LoopCurrent
<1> QED
  BY <1>1, <1>2, InitCurrent, LoopIsServer, CleanInvariant, Invariant, OneDispatched, PTL
  DEF LoopSpec
=============================================================================
