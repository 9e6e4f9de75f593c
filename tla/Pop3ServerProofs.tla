-------------------------- MODULE Pop3ServerProofs --------------------------
(***************************************************************************)
(* Proofs that Pop3Server keeps its types, that no two sessions ever have  *)
(* the same maildrop, and that it implements Maildrop, for every value of  *)
(* the constants.                                                          *)
(***************************************************************************)
EXTENDS Pop3Properties, FiniteSetTheorems, TLAPS

\* The session objects the program can have: USER is only executed before the
\* maildrop is taken, and until then a session that is not about to end has seen
\* and marked nothing.
Sound ==
  {p \in Session :
     /\ p.command = "USER" => p.pop3_protocol_state = "AUTHORIZATION"
     /\ p.pop3_protocol_state = "AUTHORIZATION" /\ p.st \notin {"ERROR", "FINISHED"}
          => p.emails = {} /\ p.deleted = {}}

\* They agree in all that a maildrop is about.
SameHold(x, y) ==
  /\ y.pop3_protocol_state = x.pop3_protocol_state
  /\ y.user_s = x.user_s
  /\ y.emails = x.emails
  /\ y.deleted = x.deleted

\* The states of the selector, the kernel and the sessions.
States ==
  [items : [Fd -> [conn : Conn \cup {NoConn}, interest : Interest]],
   kernel : [Fd -> [kind : {"closed", "socket", "file"}, left : Nat]],
   conn : [Conn -> Sound],
   current : 0..(Word - 1)]

LoggedOK(lg) == lg \in [User -> BOOLEAN]

-----------------------------------------------------------------------------
(* Buffers.                                                                *)

\* buffer_write_adv keeps the positions in order when the bytes fit.
LEMMA WriteAdvType ==
  ASSUME NEW limit \in Nat, NEW b \in Buffers(limit), NEW n \in Nat,
         n <= WriteSpace(b, limit)
  PROVE  WriteAdv(b, n) \in Buffers(limit)
  BY DEF Buffers, WriteSpace, WriteAdv

\* buffer_read_adv keeps them in order when there is that much to read.
LEMMA ReadAdvType ==
  ASSUME NEW limit \in Nat, NEW b \in Buffers(limit), NEW n \in Nat,
         n <= ReadSpace(b)
  PROVE  ReadAdv(b, n) \in Buffers(limit)
  BY DEF Buffers, ReadSpace, ReadAdv, CanRead, Compact

\* An empty buffer, buffer_reset.
LEMMA FreshType == ASSUME NEW limit \in Nat PROVE Fresh \in Buffers(limit)
  BY DEF Fresh, Buffers

\* A session object that is not allocated, or was freed.
LEMMA BlankType == Blank \in Sound
  <1>1. Fresh \in Buffers(WriteLimit) /\ Fresh \in Buffers(FileLimit)
    BY ConstantsAssumption, FreshType DEF ConstantsAssumption
  <1> QED
    BY <1>1 DEF Blank, Sound, Session, State, Command, Arg

\* What errno is after a call that fails, and after strtol.
LEMMA ErrnoType ==
  /\ Failed \subseteq Errors
  /\ errno \in Errors => \A a \in Arg : Parse(a) \in Errors
  BY ConstantsAssumption DEF ConstantsAssumption, Failed, Errors, BadNumber, Parse

-----------------------------------------------------------------------------
(* The functions of the selector map states to states.                     *)

\* An update of one session object leaves the rest of the state alone.
LEMMA WithType ==
  ASSUME NEW S \in States, NEW c \in Conn, NEW p \in Sound
  PROVE  /\ With(S, c, p) \in States
         /\ With(S, c, p).conn[c] = p
         /\ \A d \in Conn \ {c} : With(S, c, p).conn[d] = S.conn[d]
         /\ With(S, c, p).items = S.items
         /\ With(S, c, p).kernel = S.kernel
  BY DEF With, States

\* selector_set_interest changes neither the sessions nor who owns an item.
LEMMA SetInterestType ==
  ASSUME NEW S \in States, NEW f \in Fd \cup {0}, NEW i \in Interest
  PROVE  /\ SetInterest(S, f, i) \in States
         /\ SetInterest(S, f, i).conn = S.conn
         /\ \A g \in Fd : SetInterest(S, f, i).items[g].conn = S.items[g].conn
  <1>1. CASE Registered(S, f)
    <2> DEFINE I == [S.items EXCEPT ![f] = [S.items[f] EXCEPT !.interest = i]]
    <2>1. SetInterest(S, f, i) = [S EXCEPT !.items = I]
      BY <1>1 DEF SetInterest, States
    <2>2. /\ I \in [Fd -> [conn : Conn \cup {NoConn}, interest : Interest]]
          /\ \A g \in Fd : I[g].conn = S.items[g].conn
      BY <1>1 DEF Registered, States
    <2> HIDE DEF I
    <2> QED
      BY <2>1, <2>2 DEF States
  <1>2. CASE ~Registered(S, f)
    BY <1>2 DEF SetInterest
  <1> QED
    BY <1>1, <1>2

\* selector_register changes no session.
LEMMA RegisterType ==
  ASSUME NEW S \in States, NEW f \in Fd, NEW c \in Conn, NEW i \in Interest
  PROVE  /\ Register(S, f, c, i) \in States
         /\ Register(S, f, c, i).conn = S.conn
  BY DEF Register, States

\* The metric wraps in both directions.
LEMMA CounterType ==
  ASSUME NEW n \in 0..(Word - 1)
  PROVE  Increased(n) \in 0..(Word - 1) /\ Decreased(n) \in 0..(Word - 1)
  BY ConstantsAssumption DEF ConstantsAssumption, Increased, Decreased

\* pop3_close frees the session of c or drops one of its references; the other
\* sessions, the items and the descriptors stay.
LEMMA CloseSessionType ==
  ASSUME NEW S \in States, NEW c \in Conn
  PROVE  /\ CloseSession(S, c) \in States
         /\ CloseSession(S, c).items = S.items
         /\ CloseSession(S, c).kernel = S.kernel
         /\ \A d \in Conn \ {c} : CloseSession(S, c).conn[d] = S.conn[d]
         /\ \/ CloseSession(S, c).conn[c] = Blank
            \/ CloseSession(S, c).conn[c] =
                 [S.conn[c] EXCEPT !.references = S.conn[c].references - 1]
  <1>1. CASE S.conn[c].references = 0
    <2>1. Decreased(S.current) \in 0..(Word - 1)
      BY CounterType DEF States
    <2> QED
      BY <1>1, <2>1, BlankType DEF CloseSession, States
  <1>2. CASE S.conn[c].references # 0
    <2> DEFINE q == [S.conn[c] EXCEPT !.references = S.conn[c].references - 1]
    <2>1. S.conn[c] \in Sound /\ S.conn[c].references \in Nat
      BY DEF States, Sound, Session
    <2>2. q \in Sound
      BY <1>2, <2>1 DEF Sound, Session
    <2>3. CloseSession(S, c) = [S EXCEPT !.conn = [S.conn EXCEPT ![c] = q]]
      BY <1>2 DEF CloseSession, States
    <2> HIDE DEF q
    <2>4. /\ CloseSession(S, c) \in States
          /\ CloseSession(S, c).items = S.items
          /\ CloseSession(S, c).kernel = S.kernel
          /\ CloseSession(S, c).conn = [S.conn EXCEPT ![c] = q]
      BY <2>2, <2>3 DEF States
    <2>5. /\ CloseSession(S, c).conn[c] = q
          /\ \A d \in Conn \ {c} : CloseSession(S, c).conn[d] = S.conn[d]
      BY <2>4 DEF States
    <2> QED
      BY <2>4, <2>5 DEF q
  <1> QED
    BY <1>1, <1>2

\* selector_unregister_fd changes the sessions as pop3_close does.
LEMMA UnregisterType ==
  ASSUME NEW S \in States, NEW f \in Fd, Registered(S, f)
  PROVE  Unregister(S, f) \in States
         /\ Unregister(S, f).conn = CloseSession(S, S.items[f].conn).conn
  <1>1. S.items[f].conn \in Conn
    BY DEF Registered, States
  <1>2. CloseSession(S, S.items[f].conn) \in States
    BY <1>1, CloseSessionType
  <1> QED
    BY <1>2 DEF Unregister, States, Unused, Closed, Interest

-----------------------------------------------------------------------------
(* The end of a session.                                                   *)

\* What closing descriptors may do to a session object x: free it, or drop
\* references.
Fades(x, y) ==
  \/ y.st = "UNUSED"
  \/ y.st = x.st /\ SameHold(x, y)

\* selector_unregister_fd frees a session or leaves its state, its user and its
\* marks as they are.
LEMMA UnregisterFades ==
  ASSUME NEW S \in States, NEW f \in Fd, Registered(S, f), NEW d \in Conn
  PROVE  LET y == Unregister(S, f).conn[d]
         IN  /\ Fades(S.conn[d], y)
             /\ y # Blank => y.st = S.conn[d].st /\ SameHold(S.conn[d], y)
  <1>1. S.items[f].conn \in Conn /\ S.conn[d] \in Session
    BY DEF Registered, States, Sound
  <1>2. PICK c \in Conn : c = S.items[f].conn
    BY <1>1
  <1>3. Unregister(S, f).conn = CloseSession(S, c).conn
    BY <1>2, UnregisterType
  <1>4. \/ CloseSession(S, c).conn[d] = S.conn[d]
        \/ CloseSession(S, c).conn[d] = Blank
        \/ CloseSession(S, c).conn[d] =
             [S.conn[d] EXCEPT !.references = S.conn[d].references - 1]
    <2>1. \/ CloseSession(S, c).conn[c] = Blank
          \/ CloseSession(S, c).conn[c] =
               [S.conn[c] EXCEPT !.references = S.conn[c].references - 1]
      BY CloseSessionType
    <2>2. ASSUME d # c PROVE CloseSession(S, c).conn[d] = S.conn[d]
      <3>1. \A b \in Conn \ {c} : CloseSession(S, c).conn[b] = S.conn[b]
        BY CloseSessionType
      <3> QED
        BY <2>2, <3>1
    <2> QED
      BY <2>1, <2>2
  <1> QED
    BY <1>1, <1>3, <1>4 DEF Fades, SameHold, Blank, Session

\* Become installs the state S, session objects included.
LEMMA BecomeType ==
  ASSUME NEW S \in States, Become(S)
  PROVE  Here' \in States /\ conn' = S.conn
  BY DEF Become, Here, States

\* jump only changes the state of the session.
LEMMA StateType ==
  ASSUME NEW p \in Sound, NEW s \in State,
         p.st \in {"ERROR", "FINISHED"} => s \in {"ERROR", "FINISHED"}
  PROVE  /\ [p EXCEPT !.st = s] \in Sound
         /\ [p EXCEPT !.st = s].st = s
         /\ SameHold(p, [p EXCEPT !.st = s])
  <1>1. [p EXCEPT !.st = s] \in Sound
    BY DEF Sound, Session
  <1> QED
    BY <1>1 DEF Sound, Session, SameHold

\* finish_connection: the session of c is over, the others may only fade, and
\* its maildrop is released.
LEMMA FinishLemma ==
  ASSUME server \in {"running", "closing"} \cup Halted,
         NEW S \in States, NEW c \in Conn, NEW lg, LoggedOK(lg),
         Finish(c, S, lg)
  PROVE  /\ Here' \in States
         /\ LoggedOK(logged')
         /\ server' \in {"running", "closing"} \cup Halted
         /\ logged' = Released(S.conn[c], lg)
         /\ conn'[c].st \in {"FINISHED", "UNUSED"}
         /\ \A d \in Conn \ {c} : Fades(S.conn[d], conn'[d])
  <1> DEFINE p    == S.conn[c]
             q    == [p EXCEPT !.st = "FINISHED"]
             F    == With(S, c, q)
             file == p.pop3_protocol_state = "TRANSACTION" /\ p.file_opened
             G    == IF file THEN Unregister(F, p.file_fd) ELSE F
             H    == Unregister(G, p.connection_fd)
  <1>1. p \in Sound /\ q \in Sound /\ q.st = "FINISHED"
    <2>1. p \in Sound
      BY DEF States
    <2>2. q \in Sound /\ q.st = "FINISHED"
      BY <2>1, StateType DEF State
    <2> QED
      BY <2>1, <2>2
  <1>2. F \in States /\ F.conn[c] = q /\ \A d \in Conn \ {c} : F.conn[d] = S.conn[d]
    <2> HIDE DEF q
    <2> QED
      BY <1>1, WithType
  <1>3. logged' = Released(p, lg) /\ LoggedOK(logged')
    BY DEF Finish, Released, LoggedOK
  <1>4. \A x : Fades(x, x)
    BY DEF Fades, SameHold
  <1>5. ASSUME file => Registered(F, p.file_fd)
        PROVE  G \in States /\ \A d \in Conn : Fades(F.conn[d], G.conn[d])
    <2>1. CASE file
      <3>1. Registered(F, p.file_fd) /\ p.file_fd \in Fd
        BY <2>1, <1>5 DEF Registered
      <3> QED
        BY <2>1, <3>1, <1>2, UnregisterType, UnregisterFades
    <2>2. CASE ~file
      BY <2>2, <1>2, <1>4
    <2> QED
      BY <2>1, <2>2
  <1>6. ASSUME G \in States, Registered(G, p.connection_fd)
        PROVE  H \in States /\ \A d \in Conn : Fades(G.conn[d], H.conn[d])
    <2>1. p.connection_fd \in Fd
      BY <1>6 DEF Registered
    <2> QED
      BY <2>1, <1>6, UnregisterType, UnregisterFades
  <1>7. \/ Halt("abort", F)
        \/ /\ file => Registered(F, p.file_fd)
           /\ \/ Halt("undefined", G) \/ Halt("abort", G)
              \/ /\ Registered(G, p.connection_fd)
                 /\ Become(H)
                 /\ UNCHANGED server
    BY DEF Finish
  <1>8. CASE Halt("abort", F)
    BY <1>8, <1>1, <1>2, <1>3, <1>4, BecomeType DEF Halt, Halted
  <1>9. CASE /\ file => Registered(F, p.file_fd)
             /\ Halt("undefined", G) \/ Halt("abort", G)
    <2>1. G \in States /\ \A d \in Conn : Fades(F.conn[d], G.conn[d])
      BY <1>9, <1>5
    <2>2. Here' \in States /\ conn' = G.conn /\ server' \in Halted
      BY <1>9, <2>1, BecomeType DEF Halt, Halted
    <2>3. conn'[c].st \in {"FINISHED", "UNUSED"}
      <3>1. Fades(F.conn[c], conn'[c]) /\ F.conn[c].st = "FINISHED"
        BY <1>1, <1>2, <2>1, <2>2
      <3> QED
        BY <3>1 DEF Fades, SameHold
    <2> QED
      BY <1>2, <1>3, <2>1, <2>2, <2>3
  <1>10. CASE /\ file => Registered(F, p.file_fd)
              /\ Registered(G, p.connection_fd)
              /\ Become(H)
              /\ UNCHANGED server
    <2>1. G \in States /\ \A d \in Conn : Fades(F.conn[d], G.conn[d])
      BY <1>10, <1>5
    <2>2. H \in States /\ \A d \in Conn : Fades(G.conn[d], H.conn[d])
      BY <1>10, <2>1, <1>6
    <2>3. Here' \in States /\ conn' = H.conn /\ server' \in {"running", "closing"} \cup Halted
      BY <1>10, <2>2, BecomeType
    <2>4. \A x, y, z : Fades(x, y) /\ Fades(y, z) => Fades(x, z)
      BY DEF Fades, SameHold
    <2>5. \A d \in Conn : Fades(F.conn[d], conn'[d])
      BY <2>1, <2>2, <2>3, <2>4
    <2>6. conn'[c].st \in {"FINISHED", "UNUSED"}
      BY <1>1, <1>2, <2>5 DEF Fades, SameHold
    <2> QED
      BY <1>2, <1>3, <2>3, <2>5, <2>6
  <1> QED
    BY <1>7, <1>8, <1>9, <1>10

-----------------------------------------------------------------------------
(* The maildrops.                                                          *)

\* A session that has the maildrop of its user.
Locks(p) == p.st \notin {"UNUSED", "FINISHED"} /\ p.pop3_protocol_state = "TRANSACTION"

\* The maildrop of such a session is marked as taken, and is its own.
LockOK(cn, lg) ==
  /\ \A c \in Conn : Locks(cn[c]) => cn[c].user_s \in User /\ lg[cn[c].user_s]
  /\ \A c, d \in Conn :
       Locks(cn[c]) /\ Locks(cn[d]) /\ c # d => cn[c].user_s # cn[d].user_s

\* The inductive invariant.
IInv == TypeOK /\ Here \in States /\ LockOK(conn, logged)

\* What a step of the server keeps of it; maildrop is added by the steps.
After ==
  /\ Here' \in States
  /\ LoggedOK(logged')
  /\ LockOK(conn', logged')
  /\ errno' \in Errors
  /\ server' \in {"running", "closing"} \cup Halted

\* A session that becomes y has no maildrop that x had not, and its listing and
\* its marks are those of x.
Keeps(x, y) == Locks(y) => Locks(x) /\ SameHold(x, y)

KeepsAll(cn, dn) == \A d \in Conn : Keeps(cn[d], dn[d])

\* A step of c leaves the sessions cn, except those that end, and another one
\* only ends with c.
Settles(c, cn) ==
  /\ KeepsAll(cn, conn')
  /\ ~Locks(conn'[c]) \/ \A d \in Conn \ {c} : conn'[d] = cn[d]

\* A step in which sessions may only end, as far as the maildrops go.
Quiet == After /\ KeepsAll(conn, conn')

\* Sessions that take no maildrop keep LockOK.
LEMMA LockStep ==
  ASSUME NEW cn, NEW dn, NEW lg, LockOK(cn, lg), \A d \in Conn : Keeps(cn[d], dn[d])
  PROVE  LockOK(dn, lg)
  BY DEF LockOK, Keeps, SameHold

\* The same, when one session changes.
LEMMA ChangeOne ==
  ASSUME NEW S \in States, NEW c \in Conn, NEW p \in Sound, NEW q \in Sound,
         NEW lg, LockOK(With(S, c, p).conn, lg), Keeps(p, q)
  PROVE  /\ With(S, c, q) \in States /\ LockOK(With(S, c, q).conn, lg)
         /\ KeepsAll(With(S, c, p).conn, With(S, c, q).conn)
         /\ \A d \in Conn \ {c} : With(S, c, q).conn[d] = With(S, c, p).conn[d]
  <1>1. ASSUME NEW d \in Conn
        PROVE  Keeps(With(S, c, p).conn[d], With(S, c, q).conn[d])
    <2>1. CASE d = c
      BY <2>1, WithType
    <2>2. CASE d # c
      <3>1. With(S, c, p).conn[d] = With(S, c, q).conn[d]
        BY <2>2, WithType
      <3> QED
        BY <3>1 DEF Keeps, SameHold
    <2> QED
      BY <2>1, <2>2
  <1>2. With(S, c, q) \in States /\ LockOK(With(S, c, q).conn, lg)
    BY <1>1, WithType, LockStep
  <1>3. \A d \in Conn \ {c} : With(S, c, q).conn[d] = With(S, c, p).conn[d]
    BY WithType
  <1> QED
    BY <1>1, <1>2, <1>3 DEF KeepsAll

\* The same, for a session of the current state.
LEMMA ChangeHere ==
  ASSUME IInv, NEW c \in Conn, NEW q \in Sound, Keeps(conn[c], q)
  PROVE  /\ With(Here, c, q) \in States /\ LockOK(With(Here, c, q).conn, logged)
         /\ KeepsAll(conn, With(Here, c, q).conn)
  <1>1. Here \in States /\ Here.conn = conn /\ LockOK(conn, logged)
    BY DEF IInv, Here
  <1>2. \A d \in Conn : Keeps(conn[d], With(Here, c, q).conn[d])
    BY <1>1, WithType DEF Keeps, SameHold
  <1> QED
    BY <1>1, <1>2, WithType, LockStep DEF KeepsAll

\* The same, when all that changes is what a session that stays marked.
LEMMA MarkHere ==
  ASSUME IInv, NEW c \in Conn, NEW q \in Sound, q.st = conn[c].st,
         q.pop3_protocol_state = conn[c].pop3_protocol_state, q.user_s = conn[c].user_s
  PROVE  LockOK(With(Here, c, q).conn, logged)
  <1>1. Here \in States /\ Here.conn = conn /\ LockOK(conn, logged)
    BY DEF IInv, Here
  <1> DEFINE dn == With(Here, c, q).conn
  <1>2. dn[c] = q /\ \A d \in Conn \ {c} : dn[d] = conn[d]
    BY <1>1, WithType
  <1> HIDE DEF dn
  <1>3. \A d \in Conn : (Locks(dn[d]) <=> Locks(conn[d])) /\ dn[d].user_s = conn[d].user_s
    BY <1>2 DEF Locks
  <1>4. LockOK(dn, logged)
    BY <1>1, <1>3 DEF LockOK
  <1> QED
    BY <1>4 DEF dn

\* A step that leaves c as q and settles leaves it as p, if p becomes q.
LEMMA SettlesFrom ==
  ASSUME NEW S \in States, NEW c \in Conn, NEW p \in Sound, NEW q \in Sound,
         Keeps(p, q), Settles(c, With(S, c, q).conn)
  PROVE  Settles(c, With(S, c, p).conn)
  <1>1. /\ With(S, c, p).conn[c] = p /\ With(S, c, q).conn[c] = q
        /\ \A d \in Conn \ {c} : With(S, c, q).conn[d] = With(S, c, p).conn[d]
    BY WithType
  <1>2. KeepsAll(With(S, c, p).conn, With(S, c, q).conn)
    BY <1>1 DEF KeepsAll, Keeps, SameHold
  <1> QED
    BY <1>1, <1>2 DEF Settles, KeepsAll, Keeps, SameHold

\* If c of the current state becomes q, such a step is quiet.
LEMMA SettledQuiet ==
  ASSUME IInv, After, NEW c \in Conn, NEW q \in Sound, Keeps(conn[c], q),
         Settles(c, With(Here, c, q).conn)
  PROVE  Quiet
  <1>1. KeepsAll(conn, With(Here, c, q).conn)
    BY ChangeHere
  <1> QED
    BY <1>1 DEF Quiet, Settles, KeepsAll, Keeps, SameHold

\* finish_connection frees the maildrop of c and of nobody else.  The bits lg
\* it starts from may differ from the invariant's lh in what it frees.
LEMMA FinishLock ==
  ASSUME server \in {"running", "closing"} \cup Halted,
         NEW S \in States, NEW c \in Conn, NEW lg, LoggedOK(lg), NEW lh, LoggedOK(lh),
         LockOK(S.conn, lh), Released(S.conn[c], lg) = Released(S.conn[c], lh),
         S.conn[c].st \notin {"UNUSED", "FINISHED"},
         Finish(c, S, lg)
  PROVE  LockOK(conn', logged') /\ Settles(c, S.conn)
  <1>1. logged' = Released(S.conn[c], lh)
    BY FinishLemma
  <1>2. ~Locks(conn'[c])
    BY FinishLemma DEF Locks
  <1>3. \A d \in Conn \ {c} : Keeps(S.conn[d], conn'[d])
    BY FinishLemma DEF Fades, Keeps, SameHold, Locks
  <1>4. \A d \in Conn : Keeps(S.conn[d], conn'[d])
    BY <1>2, <1>3 DEF Keeps, SameHold
  <1>5. \A d \in Conn : Locks(conn'[d]) => logged'[conn'[d].user_s]
    <2> SUFFICES ASSUME NEW d \in Conn, Locks(conn'[d])
                 PROVE  logged'[conn'[d].user_s]
      OBVIOUS
    <2>1. d # c /\ Locks(S.conn[d]) /\ conn'[d].user_s = S.conn[d].user_s
      BY <1>2, <1>4 DEF Keeps, SameHold
    <2>2. S.conn[d].user_s \in User /\ lh[S.conn[d].user_s]
      BY <2>1 DEF LockOK
    <2>3. S.conn[c].pop3_protocol_state = "TRANSACTION"
            => S.conn[c].user_s # S.conn[d].user_s
      BY <2>1 DEF LockOK, Locks
    <2> QED
      BY <1>1, <2>1, <2>2, <2>3 DEF Released, LoggedOK
  <1>6. Settles(c, S.conn)
    BY <1>2, <1>4 DEF Settles, KeepsAll
  <1> QED
    BY <1>4, <1>5, <1>6 DEF LockOK, Keeps, SameHold

-----------------------------------------------------------------------------
(* write_response.                                                         *)

\* A parsed request only names the command and its argument.
LEMMA ParsedType ==
  ASSUME NEW p \in Sound, p.st \in {"READING_REQUEST", "WRITING_RESPONSE"},
         NEW r \in Requests
  PROVE  Parsed(p, r) \in Sound /\ Keeps(p, Parsed(p, r))
  <1>1. r.command \in Command /\ r.arg \in Arg
    BY ConstantsAssumption DEF ConstantsAssumption
  <1>2. Accepted(p.pop3_protocol_state, r) /\ r.command = "USER"
          => p.pop3_protocol_state = "AUTHORIZATION"
    BY DEF Accepted
  <1>3. PICK k \in Command, a \in Arg :
          /\ Parsed(p, r) = [p EXCEPT !.st = "WRITING_RESPONSE", !.command = k, !.arg = a]
          /\ k = "USER" => p.pop3_protocol_state = "AUTHORIZATION"
    <2>1. "ERROR_COMMAND" \in Command /\ NoArg \in Arg
      BY DEF Command, Arg
    <2>2. CASE Accepted(p.pop3_protocol_state, r)
      BY <1>1, <1>2, <2>2 DEF Parsed
    <2>3. CASE ~Accepted(p.pop3_protocol_state, r)
      BY <2>1, <2>3 DEF Parsed
    <2> QED
      BY <2>2, <2>3
  <1> DEFINE w == [p EXCEPT !.st = "WRITING_RESPONSE"]
  <1>4. w \in Sound /\ SameHold(p, w)
    BY StateType DEF State
  <1>5. Parsed(p, r) = [w EXCEPT !.command = k, !.arg = a]
    BY <1>3
  <1> HIDE DEF w
  <1>6. Parsed(p, r) \in Sound
    <2>1. Parsed(p, r) \in Session
      BY <1>4, <1>5 DEF Sound, Session
    <2>2. /\ Parsed(p, r).command = k
          /\ Parsed(p, r).pop3_protocol_state = p.pop3_protocol_state
      BY <1>4, <1>5 DEF Sound, Session, SameHold
    <2>3. /\ Parsed(p, r).st = w.st
          /\ Parsed(p, r).emails = w.emails /\ Parsed(p, r).deleted = w.deleted
          /\ w.pop3_protocol_state = p.pop3_protocol_state
      BY <1>4, <1>5 DEF Sound, Session, SameHold
    <2> QED
      BY <1>3, <1>4, <2>1, <2>2, <2>3 DEF Sound
  <1>7. SameHold(p, Parsed(p, r))
    BY <1>4, <1>5 DEF Sound, Session, SameHold
  <1> QED
    BY <1>6, <1>7 DEF Keeps, SameHold, Locks

\* What send() accepts can be read from the buffer.
LEMMA SentType ==
  ASSUME NEW f, NEW limit \in Nat, NEW b \in Buffers(limit), NEW n \in Sent(f, b)
  PROVE  ReadAdv(b, n) \in Buffers(limit)
  <1>1. n \in Nat /\ n <= ReadSpace(b)
    BY DEF Sent, ReadSpace, CanRead, Buffers
  <1> QED
    BY <1>1, ReadAdvType

\* The send() of write_response, for a session object p that the action of the
\* command left sound.
LEMMA SendLemma ==
  ASSUME IInv, NEW f \in Fd, NEW c \in Conn, c = Owner(f),
         NEW p \in Sound, p.st = "WRITING_RESPONSE",
         NEW lg, LoggedOK(lg), LockOK(With(Here, c, p).conn, lg),
         NEW e \in Errors, Send(f, p, lg, e)
  PROVE  After /\ Settles(c, With(Here, c, p).conn)
  <1>1. /\ Here \in States /\ Here.conn = conn
        /\ server \in {"running", "closing"} \cup Halted
    BY DEF IInv, TypeOK, Here
  <1>2. With(Here, c, p) \in States /\ With(Here, c, p).conn[c] = p
    BY <1>1, WithType
  <1>3. CASE errno' \in Failed /\ Finish(c, With(Here, c, p), lg)
    <2>1. LockOK(conn', logged') /\ Settles(c, With(Here, c, p).conn)
      BY <1>1, <1>2, <1>3, FinishLock
    <2> QED
      BY <1>1, <1>2, <1>3, <2>1, FinishLemma, ErrnoType DEF After
  <1>4. ASSUME NEW n \in Sent(f, p.info_write_buff), errno' = e, logged' = lg,
               UNCHANGED server, NEW g \in BOOLEAN,
               LET q == [p EXCEPT !.info_write_buff = ReadAdv(p.info_write_buff, n),
                                  !.finished = g]
               IN  \/ Become(With(Here, c, q))
                   \/ \E r \in Requests : Become(With(Here, c, Parsed(q, r)))
                   \/ Become(SetInterest(With(Here, c,
                                [q EXCEPT !.st = "READING_REQUEST"]), f, "READ"))
        PROVE  After /\ Settles(c, With(Here, c, p).conn)
    <2> DEFINE q == [p EXCEPT !.info_write_buff = ReadAdv(p.info_write_buff, n),
                              !.finished = g]
               t == [q EXCEPT !.st = "READING_REQUEST"]
    <2>1. q \in Sound /\ Keeps(p, q) /\ q.st = "WRITING_RESPONSE"
      <3>1. ReadAdv(p.info_write_buff, n) \in Buffers(WriteLimit)
        BY ConstantsAssumption, SentType DEF ConstantsAssumption, Sound, Session
      <3> QED
        BY <3>1 DEF Sound, Session, Keeps, SameHold, Locks
    <2> HIDE DEF q
    <2>2. t \in Sound /\ Keeps(p, t)
      <3>1. t \in Sound /\ SameHold(q, t)
        BY <2>1, StateType DEF State
      <3> QED
        BY <2>1, <3>1 DEF Keeps, SameHold, Locks
    <2> HIDE DEF t
    <2>3. ASSUME NEW S \in States, Become(S), NEW x \in Sound, Keeps(p, x),
                 S.conn = With(Here, c, x).conn
          PROVE  After /\ Settles(c, With(Here, c, p).conn)
      <3>1. /\ LockOK(S.conn, lg)
            /\ KeepsAll(With(Here, c, p).conn, S.conn)
            /\ \A d \in Conn \ {c} : S.conn[d] = With(Here, c, p).conn[d]
        BY <1>1, <2>3, ChangeOne
      <3>2. Here' \in States /\ conn' = S.conn
        BY <2>3, BecomeType
      <3> QED
        BY <1>1, <1>4, <3>1, <3>2 DEF After, Settles
    <2>4. CASE Become(With(Here, c, q))
      BY <1>1, <2>1, <2>3, <2>4, WithType
    <2>5. ASSUME NEW r \in Requests, Become(With(Here, c, Parsed(q, r)))
          PROVE  After /\ Settles(c, With(Here, c, p).conn)
      <3>1. Parsed(q, r) \in Sound /\ Keeps(q, Parsed(q, r))
        BY <2>1, ParsedType
      <3>2. Keeps(p, Parsed(q, r))
        BY <2>1, <3>1 DEF Keeps, SameHold
      <3> QED
        BY <1>1, <2>3, <2>5, <3>1, <3>2, WithType
    <2>6. CASE Become(SetInterest(With(Here, c, t), f, "READ"))
      <3>1. With(Here, c, t) \in States
        BY <1>1, <2>2, WithType
      <3>2. /\ SetInterest(With(Here, c, t), f, "READ") \in States
            /\ SetInterest(With(Here, c, t), f, "READ").conn = With(Here, c, t).conn
        BY <3>1, SetInterestType DEF Interest
      <3> QED
        BY <2>2, <2>3, <2>6, <3>2
    <2> QED
      BY <1>4, <2>4, <2>5, <2>6 DEF q, t
  <1>5. p.finished \in BOOLEAN
    BY DEF Sound, Session
  <1>6. ASSUME NEW n \in Sent(f, p.info_write_buff),
               LET b       == ReadAdv(p.info_write_buff, n)
                   drained == ~CanRead(b) /\ p.finished
                   q       == [p EXCEPT !.info_write_buff = b,
                                        !.finished = p.finished /\ ~drained]
               IN  /\ \/ /\ ~drained
                         /\ Become(With(Here, c, q))
                      \/ /\ drained
                         /\ \E r \in Requests : Become(With(Here, c, Parsed(q, r)))
                      \/ /\ drained
                         /\ Become(SetInterest(With(Here, c,
                                     [q EXCEPT !.st = "READING_REQUEST"]), f, "READ"))
                   /\ errno' = e
                   /\ logged' = lg
                   /\ UNCHANGED server
        PROVE  After /\ Settles(c, With(Here, c, p).conn)
    <2> DEFINE g == p.finished /\ ~(~CanRead(ReadAdv(p.info_write_buff, n)) /\ p.finished)
    <2>1. g \in BOOLEAN
      OBVIOUS
    <2> QED
      BY <1>6, <2>1, <1>4
  <1> QED
    BY <1>3, <1>6 DEF Send

\* The end of a session in write_response: the action of the command returned
\* FINISHED, with logged bits that differ from lh only in what is released.
LEMMA LeaveLemma ==
  ASSUME IInv, NEW f \in Fd, NEW c \in Conn, c = Owner(f),
         NEW p \in Sound, p.st = "WRITING_RESPONSE",
         NEW lg, LoggedOK(lg), NEW lh, LoggedOK(lh), LockOK(With(Here, c, p).conn, lh),
         Released(p, lg) = Released(p, lh),
         NEW e \in Errors, Leave(f, p, lg, e)
  PROVE  After /\ Settles(c, With(Here, c, p).conn)
  <1>1. /\ Here \in States
        /\ server \in {"running", "closing"} \cup Halted
    BY DEF IInv, TypeOK
  <1>2. With(Here, c, p) \in States /\ With(Here, c, p).conn[c] = p
    BY <1>1, WithType
  <1> DEFINE S == Suspend(With(Here, c, p), f)
  <1>3. S \in States /\ S.conn = With(Here, c, p).conn
    BY <1>2, SetInterestType DEF Suspend, Interest
  <1>4. errno' = e /\ Finish(c, S, lg)
    BY DEF Leave
  <1> HIDE DEF S
  <1>5. LockOK(conn', logged') /\ Settles(c, With(Here, c, p).conn)
    BY <1>1, <1>2, <1>3, <1>4, FinishLock
  <1> QED
    BY <1>1, <1>3, <1>4, <1>5, FinishLemma DEF After

\* try_write adds bytes that fit to the output buffer.
LEMMA WroteType ==
  ASSUME NEW p \in Sound, NEW n \in Nat, Fits(p, n)
  PROVE  /\ Wrote(p, n) \in Sound
         /\ Keeps(p, Wrote(p, n))
         /\ Wrote(p, n).st = p.st
  <1>1. WriteAdv(p.info_write_buff, n) \in Buffers(WriteLimit)
    BY ConstantsAssumption, WriteAdvType DEF ConstantsAssumption, Fits, Sound, Session
  <1> QED
    BY <1>1 DEF Wrote, Sound, Session, Keeps, SameHold, Locks

\* reset_structures keeps the session in its state.
LEMMA ResetType ==
  ASSUME NEW p \in Sound
  PROVE  /\ ResetStructures(p) \in Sound
         /\ Keeps(p, ResetStructures(p))
         /\ ResetStructures(p).st = p.st
         /\ ResetStructures(p).info_write_buff = p.info_write_buff
  <1>1. ResetStructures(p) \in Sound
    BY DEF ResetStructures, Sound, Session
  <1>2. /\ ResetStructures(p).st = p.st
        /\ SameHold(p, ResetStructures(p))
        /\ ResetStructures(p).info_write_buff = p.info_write_buff
    BY DEF ResetStructures, Sound, Session, SameHold
  <1> QED
    BY <1>1, <1>2 DEF Keeps, SameHold, Locks

\* A reply that is complete.
LEMMA FinishedReply ==
  ASSUME NEW p \in Sound
  PROVE  /\ [p EXCEPT !.finished = TRUE] \in Sound
         /\ Keeps(p, [p EXCEPT !.finished = TRUE])
         /\ [p EXCEPT !.finished = TRUE].st = p.st
  BY DEF Sound, Session, Keeps, SameHold, Locks

\* A command that answers with one line.
LEMMA ReplyLemma ==
  ASSUME IInv, NEW f \in Fd, NEW c \in Conn, c = Owner(f),
         NEW p \in Sound, p.st = "WRITING_RESPONSE",
         NEW q \in Sound, q.st = "WRITING_RESPONSE", Fits(p, ReplyLen) => Fits(q, ReplyLen),
         NEW lg, LoggedOK(lg),
         LockOK(With(Here, c, p).conn, lg), LockOK(With(Here, c, q).conn, lg),
         NEW e \in Errors, Reply(f, p, q, lg, e)
  PROVE  After /\ (Settles(c, With(Here, c, p).conn) \/ Settles(c, With(Here, c, q).conn))
  <1>1. Here \in States /\ ReplyLen \in Nat
    BY ConstantsAssumption DEF IInv, ConstantsAssumption
  <1>2. CASE Fits(p, ReplyLen)
    <2> DEFINE t == [Wrote(q, ReplyLen) EXCEPT !.finished = TRUE]
    <2>1. t \in Sound /\ Keeps(q, t) /\ t.st = "WRITING_RESPONSE"
      BY <1>1, <1>2, WroteType, FinishedReply DEF Keeps, SameHold
    <2>2. Send(f, t, lg, e)
      BY <1>2 DEF Reply
    <2> HIDE DEF t
    <2>3. LockOK(With(Here, c, t).conn, lg)
      BY <1>1, <2>1, ChangeOne
    <2> QED
      BY <1>1, <2>1, <2>2, <2>3, SendLemma, SettlesFrom
  <1>3. CASE ~Fits(p, ReplyLen)
    <2>1. Leave(f, p, lg, e)
      BY <1>3 DEF Reply
    <2> QED
      BY <2>1, LeaveLemma
  <1> QED
    BY <1>2, <1>3

\* A command that neither takes nor marks anything starts its answer: at most
\* sessions end.
LEMMA SendQuiet ==
  ASSUME IInv, NEW f \in Fd, NEW c \in Conn, c = Owner(f),
         NEW p \in Sound, p.st = "WRITING_RESPONSE", Keeps(conn[c], p),
         NEW e \in Errors, Send(f, p, logged, e)
  PROVE  Quiet
  <1>1. LoggedOK(logged) /\ LockOK(With(Here, c, p).conn, logged)
    BY ChangeHere DEF IInv, TypeOK, LoggedOK
  <1> QED
    BY <1>1, SendLemma, SettledQuiet

\* The same for one that starts reading, a file or the next request.
LEMMA LeaveQuiet ==
  ASSUME IInv, NEW f \in Fd, NEW c \in Conn, c = Owner(f),
         conn[c] \in Sound, conn[c].st = "WRITING_RESPONSE",
         NEW e \in Errors, Leave(f, conn[c], logged, e)
  PROVE  Quiet
  <1>1. Keeps(conn[c], conn[c])
    BY DEF Keeps, SameHold
  <1>2. LoggedOK(logged) /\ LockOK(With(Here, c, conn[c]).conn, logged)
    BY <1>1, ChangeHere DEF IInv, TypeOK, LoggedOK
  <1> QED
    BY <1>1, <1>2, LeaveLemma, SettledQuiet

\* The same for one that answers at once.
LEMMA ReplyQuiet ==
  ASSUME IInv, NEW f \in Fd, NEW c \in Conn, c = Owner(f),
         NEW p \in Sound, p.st = "WRITING_RESPONSE", Keeps(conn[c], p),
         NEW q \in Sound, q.st = "WRITING_RESPONSE", Keeps(conn[c], q),
         Fits(p, ReplyLen) => Fits(q, ReplyLen),
         NEW e \in Errors, Reply(f, p, q, logged, e)
  PROVE  Quiet
  <1>1. /\ LoggedOK(logged) /\ LockOK(With(Here, c, p).conn, logged)
        /\ LockOK(With(Here, c, q).conn, logged)
    BY ChangeHere DEF IInv, TypeOK, LoggedOK
  <1>2. After /\ (Settles(c, With(Here, c, p).conn) \/ Settles(c, With(Here, c, q).conn))
    BY <1>1, ReplyLemma
  <1> QED
    BY <1>2, SettledQuiet

-----------------------------------------------------------------------------
(* The actions.                                                            *)

\* The session of a descriptor that is dispatched.
LEMMA ReadyType ==
  ASSUME IInv, NEW f \in Fd, NEW i, NEW st, Ready(f, i, st)
  PROVE  /\ Owner(f) \in Conn
         /\ conn[Owner(f)] \in Sound
         /\ conn[Owner(f)].st = st
         /\ server \in {"running", "closing"} \cup Halted
  BY DEF Ready, IInv, TypeOK, States, Here, Owner

\* The same for a command that is executed; its session is as it was.
LEMMA ExecutingType ==
  ASSUME IInv, NEW f \in Fd, NEW k, Executing(f, k)
  PROVE  /\ Owner(f) \in Conn
         /\ conn[Owner(f)] \in Sound
         /\ conn[Owner(f)].st = "WRITING_RESPONSE"
         /\ conn[Owner(f)].command = k
         /\ LoggedOK(logged)
         /\ \A q \in Sound : Keeps(conn[Owner(f)], q)
               => LockOK(With(Here, Owner(f), q).conn, logged)
         /\ Keeps(conn[Owner(f)], conn[Owner(f)])
         /\ errno \in Errors
  <1>1. Ready(f, "WRITE", "WRITING_RESPONSE") /\ conn[Owner(f)].command = k
    BY DEF Executing
  <1> QED
    BY <1>1, ReadyType, ChangeHere DEF IInv, TypeOK, LoggedOK, Keeps, SameHold

\* A command whose only effect on the session is its reply.
LEMMA ReplyOnlyStep ==
  ASSUME IInv, NEW f \in Fd, NEW k, Executing(f, k), ReplyOnly(f)
  PROVE  Quiet
  BY ExecutingType, ReplyQuiet DEF ReplyOnly

\* USER: only in AUTHORIZATION, so no maildrop changes hands.
LEMMA UserStep ==
  ASSUME IInv, NEW f \in Fd, UserAction(f)
  PROVE  Quiet
  <1> DEFINE p == conn[Owner(f)]
             q == IF p.arg \in User THEN [p EXCEPT !.user_s = p.arg] ELSE p
  <1>1. Executing(f, "USER") /\ Reply(f, q, q, logged, errno)
    BY DEF UserAction
  <1>2. p \in Sound /\ p.pop3_protocol_state = "AUTHORIZATION"
    BY <1>1, ExecutingType DEF Sound
  <1>3. q \in Sound /\ Keeps(p, q) /\ q.st = p.st
    BY <1>2 DEF Sound, Session, Keeps, SameHold, Locks
  <1> HIDE DEF q
  <1> QED
    BY <1>1, <1>3, ExecutingType, ReplyQuiet

\* DELE only adds to the marked mails.
LEMMA DeleStep ==
  ASSUME IInv, NEW f \in Fd, DeleAction(f)
  PROVE  LET p == conn[Owner(f)]
             q == IF Parse(p.arg) \notin BadNumber /\ p.arg \in Present(p)
                  THEN [p EXCEPT !.deleted = @ \cup {p.arg}] ELSE p
         IN  /\ After /\ p \in Sound /\ p.st = "WRITING_RESPONSE"
             /\ q \in Sound /\ Settles(Owner(f), With(Here, Owner(f), q).conn)
  <1> DEFINE p == conn[Owner(f)]
             q == IF Parse(p.arg) \notin BadNumber /\ p.arg \in Present(p)
                  THEN [p EXCEPT !.deleted = @ \cup {p.arg}] ELSE p
  <1>1. Executing(f, "DELE") /\ Reply(f, q, q, logged, Parse(p.arg))
    BY DEF DeleAction
  <1>2. p \in Sound /\ Parse(p.arg) \in Errors
    BY <1>1, ExecutingType, ErrnoType DEF Sound, Session
  <1>3. /\ q \in Sound /\ q.st = p.st /\ q.user_s = p.user_s
        /\ q.pop3_protocol_state = p.pop3_protocol_state
    <2>1. CASE Parse(p.arg) \notin BadNumber /\ p.arg \in Present(p)
      <3>1. p.arg \in p.emails /\ p.arg \in Mail /\ p \in Session
        BY <1>2, <2>1 DEF Present, Sound, Session
      <3>2. PICK D \in SUBSET Mail : D = p.deleted \cup {p.arg}
        BY <3>1 DEF Session
      <3>3. q = [p EXCEPT !.deleted = D]
        BY <2>1, <3>2
      <3>4. [p EXCEPT !.deleted = D] \in Session
        BY <3>1 DEF Session
      <3>5. p.pop3_protocol_state # "AUTHORIZATION"
        BY <1>1, <1>2, <3>1, ExecutingType DEF Sound
      <3> QED
        BY <1>2, <3>1, <3>3, <3>4, <3>5 DEF Sound, Session
    <2>2. CASE ~(Parse(p.arg) \notin BadNumber /\ p.arg \in Present(p))
      BY <1>2, <2>2
    <2> QED
      BY <2>1, <2>2
  <1> HIDE DEF q
  <1>4. LockOK(With(Here, Owner(f), q).conn, logged)
    BY <1>1, <1>3, ExecutingType, MarkHere
  <1>5. After /\ Settles(Owner(f), With(Here, Owner(f), q).conn)
    BY <1>1, <1>2, <1>3, <1>4, ExecutingType, ReplyLemma
  <1> QED
    BY <1>1, <1>3, <1>5, ExecutingType DEF q

\* RSET only clears them.
LEMMA RsetStep ==
  ASSUME IInv, NEW f \in Fd, RsetAction(f)
  PROVE  LET p == conn[Owner(f)]
             q == [p EXCEPT !.deleted = {}]
         IN  /\ After /\ p \in Sound /\ p.st = "WRITING_RESPONSE"
             /\ q \in Sound /\ Settles(Owner(f), With(Here, Owner(f), q).conn)
  <1> DEFINE p == conn[Owner(f)]
             q == [p EXCEPT !.deleted = {}]
  <1>1. Executing(f, "RSET") /\ Reply(f, q, q, logged, errno)
    BY DEF RsetAction
  <1>2. p \in Sound
    BY <1>1, ExecutingType
  <1>3. /\ q \in Sound /\ q.st = p.st /\ q.user_s = p.user_s
        /\ q.pop3_protocol_state = p.pop3_protocol_state
    BY <1>2 DEF Sound, Session
  <1> HIDE DEF q
  <1>4. LockOK(With(Here, Owner(f), q).conn, logged)
    BY <1>1, <1>3, ExecutingType, MarkHere
  <1>5. After /\ Settles(Owner(f), With(Here, Owner(f), q).conn)
    BY <1>1, <1>3, <1>4, ExecutingType, ReplyLemma
  <1> QED
    BY <1>1, <1>3, <1>5, ExecutingType DEF q

\* Halt and a plain Become of a known state.
LEMMA BecomeStep ==
  ASSUME IInv, NEW S \in States, Become(S), NEW lg, LoggedOK(lg), LockOK(S.conn, lg),
         logged' = lg, errno' \in Errors,
         server' \in {"running", "closing"} \cup Halted
  PROVE  After /\ (KeepsAll(conn, S.conn) => Quiet)
  BY BecomeType DEF After, Quiet

\* A plain Become settles.
LEMMA BecomeSettles ==
  ASSUME NEW S \in States, NEW c \in Conn, Become(S)
  PROVE  Settles(c, S.conn)
  BY BecomeType DEF Settles, KeepsAll, Keeps, SameHold

\* c logs in and becomes t: it has no maildrop, it takes that of its user, which
\* nobody has, and it sees mails of it and marks none.
Takes(c, t) ==
  /\ ~Locks(conn[c]) /\ ~logged[conn[c].user_s]
  /\ Locks(t) /\ t.user_s = conn[c].user_s /\ t.user_s \in User
  /\ t.emails \subseteq maildrop[t.user_s]
  /\ t.deleted = {}

\* PASS: the maildrop is taken when nobody has it, and marked as taken.
LEMMA PassStep ==
  ASSUME IInv, NEW f \in Fd, PassAction(f)
  PROVE  /\ After
         /\ \/ Quiet
            \/ \E t \in Sound :
                 Takes(Owner(f), t) /\ Settles(Owner(f), With(Here, Owner(f), t).conn)
  <1> DEFINE c  == Owner(f)
             p  == conn[c]
             u  == p.user_s
             lg == [logged EXCEPT ![u] = TRUE]
             q  == [p EXCEPT !.pop3_protocol_state = "TRANSACTION"]
  <1>1. Executing(f, "PASS")
    BY DEF PassAction
  <1>2. /\ c \in Conn /\ p \in Sound /\ p.st = "WRITING_RESPONSE" /\ p.command = "PASS"
        /\ LoggedOK(logged) /\ errno \in Errors
    BY <1>1, ExecutingType
  <1>3. CASE ~Granted(p) /\ ReplyOnly(f)
    BY <1>1, <1>3, ReplyOnlyStep DEF Quiet
  \* A session t of c that takes the maildrop of u keeps LockOK.
  <1>4. ASSUME Granted(p), NEW t \in Sound, t.user_s = u
        PROVE  LoggedOK(lg) /\ LockOK(With(Here, c, t).conn, lg)
    <2>1. u \in User /\ ~logged[u]
      BY <1>2, <1>4 DEF Granted, Sound, Session
    <2>2. LoggedOK(lg) /\ lg[u] /\ \A v \in User : logged[v] => lg[v]
      BY <1>2, <2>1 DEF LoggedOK
    <2> DEFINE dn == With(Here, c, t).conn
    <2>3. dn[c] = t /\ \A d \in Conn \ {c} : dn[d] = conn[d]
      BY <1>2, <1>4, WithType DEF IInv, Here
    <2> HIDE DEF dn, lg, u
    <2>4. \A d \in Conn \ {c} : Locks(dn[d]) =>
            dn[d].user_s \in User /\ lg[dn[d].user_s] /\ dn[d].user_s # u
      BY <2>1, <2>2, <2>3 DEF IInv, LockOK
    <2>5. \A d, e \in Conn \ {c} : Locks(dn[d]) /\ Locks(dn[e]) /\ d # e
            => dn[d].user_s # dn[e].user_s
      BY <2>3 DEF IInv, LockOK
    <2>6. LockOK(dn, lg)
      BY <1>4, <2>1, <2>2, <2>3, <2>4, <2>5 DEF LockOK
    <2> QED
      BY <2>2, <2>6 DEF dn
  <1>5. /\ q \in Sound /\ q.user_s = u /\ q.st = "WRITING_RESPONSE"
        /\ q.pop3_protocol_state = "TRANSACTION"
        /\ q.emails = p.emails /\ q.deleted = p.deleted
    BY <1>2 DEF Sound, Session
  \* Before PASS the session has nothing.
  <1>8. ASSUME Granted(p)
        PROVE  u \in User /\ ~logged[u] /\ ~Locks(p) /\ p.emails = {} /\ p.deleted = {}
    <2>1. u \in User /\ ~logged[u]
      BY <1>2, <1>8 DEF Granted, Sound, Session
    <2>2. ~Locks(p)
      BY <1>2, <2>1 DEF IInv, LockOK
    <2>3. p.pop3_protocol_state = "AUTHORIZATION"
      BY <1>2, <2>2 DEF Locks, Sound, Session
    <2> QED
      BY <1>2, <2>1, <2>2, <2>3 DEF Sound
  <1>6. CASE /\ Granted(p)
             /\ Become(ToError(With(Here, c, q), c))
             /\ errno' \in Failed
             /\ logged' = lg
             /\ UNCHANGED server
    <2> DEFINE t == [q EXCEPT !.st = "ERROR"]
    <2>1. t \in Sound /\ t.user_s = u /\ t.st = "ERROR" /\ SameHold(q, t)
      BY <1>5, StateType DEF State, SameHold
    <2>6. Takes(c, t)
      BY <1>5, <1>6, <1>8, <2>1 DEF Takes, SameHold, Locks
    <2>2. ToError(With(Here, c, q), c) = With(Here, c, t)
      BY <1>2, <1>5 DEF ToError, With, IInv, Here, States
    <2> HIDE DEF t, q, lg
    <2>3. With(Here, c, t) \in States
      BY <1>2, <2>1, WithType DEF IInv
    <2>4. LoggedOK(lg) /\ LockOK(With(Here, c, t).conn, lg)
      BY <1>4, <1>6, <2>1
    <2>5. server \in {"running", "closing"} \cup Halted
      BY DEF IInv, TypeOK
    <2>7. Settles(c, With(Here, c, t).conn)
      BY <1>2, <1>6, <2>2, <2>3, BecomeSettles
    <2>8. After
      BY <1>6, <2>2, <2>3, <2>4, <2>5, BecomeStep, ErrnoType
    <2> QED
      BY <2>1, <2>6, <2>7, <2>8
  <1>7. ASSUME Granted(p), NEW listing \in Listings(maildrop[u]),
               LET r == [q EXCEPT !.emails = listing]
               IN  Reply(f, r, ResetStructures(r), lg, errno)
        PROVE  /\ After
               /\ \E t \in Sound : Takes(c, t) /\ Settles(c, With(Here, c, t).conn)
    <2> DEFINE r == [q EXCEPT !.emails = listing]
    <2>1. u \in User
      BY <1>2, <1>7 DEF Granted, Sound, Session
    <2>2. listing \subseteq Mail /\ listing \subseteq maildrop[u]
      <3>1. maildrop[u] \subseteq Mail
        BY <2>1 DEF IInv, TypeOK
      <3> QED
        BY <3>1, <1>7 DEF Listings, kSubset
    <2>3. /\ r \in Sound /\ r.user_s = u /\ r.st = "WRITING_RESPONSE"
          /\ r.pop3_protocol_state = "TRANSACTION"
          /\ r.emails = listing /\ r.deleted = p.deleted
      BY <1>5, <2>2 DEF Sound, Session
    <2> HIDE DEF r, q
    <2>4. /\ ResetStructures(r) \in Sound /\ ResetStructures(r).st = "WRITING_RESPONSE"
          /\ ResetStructures(r).user_s = u /\ SameHold(r, ResetStructures(r))
          /\ Fits(r, ReplyLen) => Fits(ResetStructures(r), ReplyLen)
      <3>1. ResetStructures(r).user_s = u /\ SameHold(r, ResetStructures(r))
        BY <2>3 DEF ResetStructures, Sound, Session, SameHold
      <3>2. ResetStructures(r).info_write_buff = r.info_write_buff
        BY <2>3 DEF ResetStructures, Sound, Session
      <3> QED
        BY <2>3, <3>1, <3>2, ResetType DEF Fits
    <2>5. Reply(f, r, ResetStructures(r), lg, errno)
      BY <1>7 DEF r, q
    <2>6. /\ LoggedOK(lg) /\ LockOK(With(Here, c, r).conn, lg)
          /\ LockOK(With(Here, c, ResetStructures(r)).conn, lg)
      BY <1>4, <1>7, <2>3, <2>4
    <2>7. Takes(c, r) /\ Takes(c, ResetStructures(r))
      BY <1>7, <1>8, <2>2, <2>3, <2>4 DEF Takes, SameHold, Locks
    <2> HIDE DEF lg
    <2>8. /\ After
          /\ \/ Settles(c, With(Here, c, r).conn)
             \/ Settles(c, With(Here, c, ResetStructures(r)).conn)
      BY <1>2, <2>3, <2>4, <2>5, <2>6, ReplyLemma
    <2> QED
      BY <2>3, <2>4, <2>7, <2>8
  <1> QED
    BY <1>3, <1>6, <1>7 DEF PassAction

\* LIST n.
LEMMA ListOneStep ==
  ASSUME IInv, NEW f \in Fd, ListOne(f)
  PROVE  Quiet
  <1> DEFINE p == conn[Owner(f)]
             q == ResetStructures(p)
  <1>1. Executing(f, "LIST") /\ Reply(f, p, q, logged, Parse(p.arg))
    BY DEF ListOne
  <1>2. p \in Sound /\ Parse(p.arg) \in Errors
    BY <1>1, ExecutingType, ErrnoType DEF Sound, Session
  <1>3. q \in Sound /\ Keeps(p, q) /\ q.st = p.st /\ (Fits(p, ReplyLen) => Fits(q, ReplyLen))
    BY <1>2, ResetType DEF Fits
  <1> HIDE DEF q
  <1> QED
    BY <1>1, <1>2, <1>3, ExecutingType, ReplyQuiet

\* RETR with a number or a message that cannot be sent.
LEMMA RetrErrorStep ==
  ASSUME IInv, NEW f \in Fd, RetrError(f)
  PROVE  Quiet
  <1> DEFINE p == conn[Owner(f)]
             q == ResetStructures(p)
  <1>1. Executing(f, "RETR") /\ Reply(f, p, q, logged, Parse(p.arg))
    BY DEF RetrError
  <1>2. p \in Sound /\ Parse(p.arg) \in Errors
    BY <1>1, ExecutingType, ErrnoType DEF Sound, Session
  <1>3. q \in Sound /\ Keeps(p, q) /\ q.st = p.st /\ (Fits(p, ReplyLen) => Fits(q, ReplyLen))
    BY <1>2, ResetType DEF Fits
  <1> HIDE DEF q
  <1> QED
    BY <1>1, <1>2, <1>3, ExecutingType, ReplyQuiet

\* LIST goes on later from a mail further down.
LEMMA ContinuedType ==
  ASSUME NEW p \in Sound, NEW n \in Nat, NEW x \in {"MULTILINE", "END_LINE"}
  PROVE  LET q == [p EXCEPT !.multiline_state = x, !.mail_index = @ + n]
         IN  q \in Sound /\ Keeps(p, q) /\ q.st = p.st
  <1>1. p.mail_index + n \in Nat
    BY DEF Sound, Session
  <1>2. PICK k \in Nat : k = p.mail_index + n
    BY <1>1
  <1>3. [p EXCEPT !.multiline_state = x, !.mail_index = @ + n]
          = [p EXCEPT !.multiline_state = x, !.mail_index = k]
    BY <1>2 DEF Sound, Session
  <1>4. [p EXCEPT !.multiline_state = x, !.mail_index = k] \in Sound
    BY DEF Sound, Session
  <1> QED
    BY <1>3, <1>4 DEF Sound, Session, Keeps, SameHold, Locks

\* LIST, however many lines fit this time.
LEMMA ListAllStep ==
  ASSUME IInv, NEW f \in Fd, ListAll(f)
  PROVE  Quiet
  <1> DEFINE c     == Owner(f)
             p     == conn[c]
             first == p.multiline_state = "FIRST_LINE"
             p1    == IF first THEN Wrote(p, ReplyLen) ELSE p
             todo  == Cardinality(Present(p)) - p.mail_index
  <1>1. Executing(f, "LIST")
    BY DEF ListAll
  <1>2. /\ c \in Conn /\ p \in Sound /\ p.st = "WRITING_RESPONSE"
        /\ LoggedOK(logged) /\ errno \in Errors
        /\ \A q \in Sound : Keeps(p, q) => LockOK(With(Here, c, q).conn, logged)
        /\ Keeps(p, p)
    BY <1>1, ExecutingType
  <1>3. CASE Leave(f, p, logged, errno)
    BY <1>2, <1>3, LeaveQuiet
  <1>4. ASSUME first => Fits(p, ReplyLen),
               NEW n \in 0..todo, Fits(p1, n * LineLen),
               LET p2 == Wrote(p1, n * LineLen)
               IN  Send(f, IF n < todo THEN [p2 EXCEPT !.multiline_state = "MULTILINE",
                                                       !.mail_index = @ + n]
                           ELSE IF Fits(p2, EndLen)
                           THEN [ResetStructures(Wrote(p2, EndLen)) EXCEPT !.finished = TRUE]
                           ELSE [p2 EXCEPT !.multiline_state = "END_LINE",
                                           !.mail_index = @ + n],
                        logged, errno)
        PROVE  Quiet
    <2>1. n \in Nat /\ {ReplyLen, LineLen, EndLen} \subseteq Nat
      <3>1. IsFiniteSet(Present(p))
        BY <1>2, ConstantsAssumption, FS_Subset
        DEF ConstantsAssumption, Present, Sound, Session
      <3>2. todo \in Int
        BY <1>2, <3>1, FS_CardinalityType DEF Sound, Session
      <3> QED
        BY <3>2, ConstantsAssumption DEF ConstantsAssumption
    <2>2. n * LineLen \in Nat
      BY <2>1
    <2>3. p1 \in Sound /\ Keeps(p, p1) /\ p1.st = "WRITING_RESPONSE"
      BY <1>2, <1>4, <2>1, WroteType
    <2> DEFINE p2 == Wrote(p1, n * LineLen)
               p3 == [p2 EXCEPT !.multiline_state = "MULTILINE", !.mail_index = @ + n]
               p4 == [ResetStructures(Wrote(p2, EndLen)) EXCEPT !.finished = TRUE]
               p5 == [p2 EXCEPT !.multiline_state = "END_LINE", !.mail_index = @ + n]
    <2> HIDE DEF p1
    <2>4. p2 \in Sound /\ Keeps(p, p2) /\ p2.st = "WRITING_RESPONSE"
      BY <1>4, <2>2, <2>3, WroteType DEF Keeps, SameHold
    <2>5. \/ Send(f, p3, logged, errno)
          \/ Fits(p2, EndLen) /\ Send(f, p4, logged, errno)
          \/ Send(f, p5, logged, errno)
      BY <1>4, Zenon
    <2> HIDE DEF p2
    <2>6. p3 \in Sound /\ Keeps(p2, p3) /\ p3.st = "WRITING_RESPONSE"
      BY <2>1, <2>4, ContinuedType
    <2>7. p5 \in Sound /\ Keeps(p2, p5) /\ p5.st = "WRITING_RESPONSE"
      BY <2>1, <2>4, ContinuedType
    <2>8. Fits(p2, EndLen) => p4 \in Sound /\ Keeps(p, p4) /\ p4.st = "WRITING_RESPONSE"
      BY <2>1, <2>4, WroteType, ResetType, FinishedReply DEF Keeps, SameHold
    <2> HIDE DEF p3, p4, p5
    <2>9. Keeps(p, p3) /\ Keeps(p, p5)
      BY <2>4, <2>6, <2>7 DEF Keeps, SameHold
    <2> QED
      BY <1>2, <2>5, <2>6, <2>7, <2>8, <2>9, SendQuiet
  <1> QED
    BY <1>3, <1>4 DEF ListAll

\* process_open_file takes a descriptor for the file and one more reference.
LEMMA OpenFileLemma ==
  ASSUME IInv, NEW f \in Fd, NEW c \in Conn, c = Owner(f),
         NEW p \in Sound, p.st = "WRITING_RESPONSE", Keeps(conn[c], p), p.arg \in Mail,
         NEW e \in Errors, OpenFile(f, p, e)
  PROVE  Quiet
  <1> DEFINE q == [p EXCEPT !.st = "PROCESSING_RESPONSE"]
             S == Suspend(With(Here, c, q), f)
  <1>1. q \in Sound /\ Keeps(conn[c], q)
    <2>1. q \in Sound /\ Keeps(p, q)
      BY StateType DEF State, Keeps, SameHold, Locks
    <2> QED
      BY <2>1 DEF Keeps, SameHold
  <1> HIDE DEF q
  <1>2. /\ With(Here, c, q) \in States /\ LockOK(With(Here, c, q).conn, logged)
        /\ KeepsAll(conn, With(Here, c, q).conn)
    BY <1>1, ChangeHere
  <1>3. S \in States /\ S.conn = With(Here, c, q).conn
    BY <1>2, SetInterestType DEF Suspend, Interest
  <1>4. /\ LoggedOK(logged) /\ logged' = logged
        /\ server \in {"running", "closing"} \cup Halted
    BY DEF IInv, TypeOK, LoggedOK, OpenFile
  <1> HIDE DEF S
  <1>5. CASE errno' \in Failed /\ Halt("exit", S)
    BY <1>2, <1>3, <1>4, <1>5, BecomeStep, ErrnoType DEF Halt, Halted
  <1>6. ASSUME NEW g \in Fd, errno' = e, UNCHANGED server,
               LET F == [Register(S, g, c, "READ") EXCEPT
                           !.kernel[g] = [kind |-> "file", left |-> Size[p.arg]]]
               IN  Become(With(F, c, [q EXCEPT !.file_fd = g, !.file_opened = TRUE,
                                               !.references = @ + 1]))
        PROVE  Quiet
    <2> DEFINE F == [Register(S, g, c, "READ") EXCEPT
                       !.kernel[g] = [kind |-> "file", left |-> Size[p.arg]]]
               t == [q EXCEPT !.file_fd = g, !.file_opened = TRUE, !.references = @ + 1]
    <2>1. Size[p.arg] \in Nat
      BY ConstantsAssumption DEF ConstantsAssumption
    <2>2. F \in States /\ F.conn = S.conn
      <3> DEFINE R == Register(S, g, c, "READ")
                 K == [R.kernel EXCEPT ![g] = [kind |-> "file", left |-> Size[p.arg]]]
      <3>1. R \in States /\ R.conn = S.conn
        BY <1>3, RegisterType DEF Interest
      <3>2. F = [R EXCEPT !.kernel = K]
        OBVIOUS
      <3>3. K \in [Fd -> [kind : {"closed", "socket", "file"}, left : Nat]]
        BY <2>1, <3>1 DEF States
      <3> HIDE DEF R, K, F
      <3> QED
        BY <3>1, <3>2, <3>3 DEF States
    <2>3. t \in Sound /\ Keeps(q, t)
      <3>1. PICK k \in Nat : k = q.references + 1
        BY <1>1 DEF Sound, Session
      <3>2. t = [q EXCEPT !.file_fd = g, !.file_opened = TRUE, !.references = k]
        BY <3>1
      <3>3. [q EXCEPT !.file_fd = g, !.file_opened = TRUE, !.references = k] \in Sound
        BY <1>1 DEF Sound, Session
      <3> QED
        BY <1>1, <3>2, <3>3 DEF Sound, Session, Keeps, SameHold, Locks
    <2>4. Become(With(F, c, t))
      BY <1>6
    <2> HIDE DEF F, t
    <2>5. With(F, c, t) \in States /\ \A d \in Conn : Keeps(S.conn[d], With(F, c, t).conn[d])
      <3>1. S.conn[c] = q
        BY <1>1, <1>3, WithType DEF IInv
      <3> QED
        BY <2>2, <2>3, <3>1, WithType DEF Keeps, SameHold
    <2>6. LockOK(With(F, c, t).conn, logged)
      BY <1>2, <1>3, <2>5, LockStep
    <2>7. KeepsAll(conn, With(F, c, t).conn)
      BY <1>2, <1>3, <2>5 DEF KeepsAll, Keeps, SameHold
    <2> QED
      BY <1>4, <1>6, <2>4, <2>5, <2>6, <2>7, BecomeStep
  <1> QED
    BY <1>5, <1>6 DEF OpenFile, Free, q, S

\* A change of the multiline state keeps the maildrop where it is.
LEMMA MultilineType ==
  ASSUME NEW p \in Sound, NEW x \in {"MULTILINE", "END_LINE"}
  PROVE  /\ [p EXCEPT !.multiline_state = x] \in Sound
         /\ Keeps(p, [p EXCEPT !.multiline_state = x])
         /\ [p EXCEPT !.multiline_state = x].st = p.st
  BY DEF Sound, Session, Keeps, SameHold, Locks

\* The first line of RETR, and the way to the file.
LEMMA RetrFirstStep ==
  ASSUME IInv, NEW f \in Fd, RetrFirst(f)
  PROVE  Quiet
  <1> DEFINE c == Owner(f)
             p == conn[c]
             q == [Wrote(p, ReplyLen) EXCEPT !.multiline_state = "MULTILINE"]
  <1>1. Executing(f, "RETR") /\ p.arg \in Present(p)
    BY DEF RetrFirst
  <1>2. /\ c \in Conn /\ p \in Sound /\ p.st = "WRITING_RESPONSE"
        /\ LoggedOK(logged) /\ errno \in Errors
        /\ \A t \in Sound : Keeps(p, t) => LockOK(With(Here, c, t).conn, logged)
        /\ Keeps(p, p)
    BY <1>1, ExecutingType
  <1>3. CASE Fits(p, ReplyLen)
    <2>1. ReplyLen \in Nat
      BY ConstantsAssumption DEF ConstantsAssumption
    <2>2. Wrote(p, ReplyLen).arg = p.arg
      BY <1>2 DEF Wrote, Sound, Session
    <2>3. /\ Wrote(p, ReplyLen) \in Sound /\ Keeps(p, Wrote(p, ReplyLen))
          /\ Wrote(p, ReplyLen).st = "WRITING_RESPONSE"
      BY <1>2, <1>3, <2>1, WroteType
    <2>4. q \in Sound /\ Keeps(Wrote(p, ReplyLen), q) /\ q.st = "WRITING_RESPONSE"
      BY <2>3, MultilineType
    <2>5. q.arg = p.arg /\ p.arg \in Mail
      BY <1>1, <1>2, <2>2, <2>3 DEF Present, Sound, Session
    <2>6. OpenFile(f, q, errno)
      BY <1>3 DEF RetrFirst
    <2> HIDE DEF q
    <2>7. Keeps(p, q)
      BY <2>3, <2>4 DEF Keeps, SameHold
    <2> QED
      BY <1>2, <2>4, <2>5, <2>6, <2>7, OpenFileLemma
  <1>4. CASE ~Fits(p, ReplyLen)
    <2>1. Leave(f, p, logged, errno)
      BY <1>4 DEF RetrFirst
    <2> QED
      BY <1>2, <2>1, LeaveQuiet
  <1> QED
    BY <1>3, <1>4

\* RETR goes back to the file.
LEMMA RetrMoreStep ==
  ASSUME IInv, NEW f \in Fd, RetrMore(f)
  PROVE  Quiet
  <1> DEFINE c == Owner(f)
             p == conn[c]
             q == [p EXCEPT !.st = "PROCESSING_RESPONSE"]
             S == Suspend(With(Here, c, q), f)
             T == SetInterest(S, p.file_fd, "READ")
  <1>1. Executing(f, "RETR") /\ Become(T) /\ UNCHANGED <<logged, errno, server>>
    BY DEF RetrMore
  <1>2. /\ c \in Conn /\ p \in Sound /\ p.st = "WRITING_RESPONSE"
        /\ LoggedOK(logged) /\ errno \in Errors
    BY <1>1, ExecutingType
  <1>3. q \in Sound /\ Keeps(p, q) /\ p.file_fd \in Fd \cup {0}
    <2>1. p.file_fd \in Fd \cup {0}
      BY <1>2 DEF Sound, Session
    <2> QED
      BY <1>2, <2>1, StateType DEF State, Keeps, SameHold, Locks
  <1> HIDE DEF q
  <1>4. /\ With(Here, c, q) \in States /\ LockOK(With(Here, c, q).conn, logged)
        /\ KeepsAll(conn, With(Here, c, q).conn)
    BY <1>2, <1>3, ChangeHere
  <1>5. S \in States /\ S.conn = With(Here, c, q).conn
    BY <1>4, SetInterestType DEF Suspend, Interest
  <1> HIDE DEF S
  <1>6. T \in States /\ T.conn = S.conn
    BY <1>3, <1>5, SetInterestType DEF Interest
  <1> HIDE DEF T
  <1>7. server \in {"running", "closing"} \cup Halted
    BY DEF IInv, TypeOK
  <1> QED
    BY <1>1, <1>2, <1>4, <1>5, <1>6, <1>7, BecomeStep

\* What the byte stuffing loop moves fits, in both buffers.
LEMMA MovedType ==
  ASSUME NEW p \in Sound, NEW n \in Nat, NEW k \in Nat,
         n <= ReadSpace(p.info_file_buff), Fits(p, n + k)
  PROVE  LET q == [Wrote(p, n + k) EXCEPT !.info_file_buff = ReadAdv(@, n)]
         IN  q \in Sound /\ Keeps(p, q) /\ q.st = p.st
  <1> DEFINE w == Wrote(p, n + k)
  <1>1. w \in Sound /\ Keeps(p, w) /\ w.st = p.st
    BY WroteType
  <1>2. w.info_file_buff = p.info_file_buff
    BY DEF Wrote, Sound, Session
  <1> HIDE DEF w
  <1>3. ReadAdv(w.info_file_buff, n) \in Buffers(FileLimit)
    BY <1>1, <1>2, ConstantsAssumption, ReadAdvType
    DEF ConstantsAssumption, Sound, Session
  <1>4. ASSUME NEW b \in Buffers(FileLimit)
        PROVE  LET q == [w EXCEPT !.info_file_buff = b]
               IN  q \in Sound /\ Keeps(w, q) /\ q.st = w.st
    BY <1>1 DEF Sound, Session, Keeps, SameHold, Locks
  <1> QED
    BY <1>1, <1>3, <1>4 DEF w, Keeps, SameHold

\* RETR copies what fits, or ends.
LEMMA RetrCopyStep ==
  ASSUME IInv, NEW f \in Fd, RetrCopy(f)
  PROVE  Quiet
  <1> DEFINE c     == Owner(f)
             p     == conn[c]
             avail == ReadSpace(p.info_file_buff)
             space == WriteSpace(p.info_write_buff, WriteLimit)
             moves == IF p.multiline_state = "END_LINE" THEN {<<0, 0>>}
                      ELSE Moves(avail, space)
  <1>1. Executing(f, "RETR")
    BY DEF RetrCopy
  <1>2. /\ c \in Conn /\ p \in Sound /\ p.st = "WRITING_RESPONSE"
        /\ LoggedOK(logged) /\ errno \in Errors
        /\ \A t \in Sound : Keeps(p, t) => LockOK(With(Here, c, t).conn, logged)
    BY <1>1, ExecutingType
  <1>3. CASE Halt("assert", Here) /\ UNCHANGED <<logged, errno>>
    <2>1. Here \in States /\ Here.conn = conn /\ LockOK(conn, logged)
      BY DEF IInv, Here
    <2>2. KeepsAll(conn, Here.conn)
      BY <2>1 DEF KeepsAll, Keeps, SameHold
    <2> QED
      BY <1>2, <1>3, <2>1, <2>2, BecomeStep DEF Halt, Halted
  <1>4. avail \in Nat /\ space \in Nat
    BY <1>2, ConstantsAssumption
    DEF ConstantsAssumption, Sound, Session, Buffers, ReadSpace, WriteSpace
  <1>5. ASSUME NEW m \in moves,
               LET p1   == [Wrote(p, m[1] + m[2]) EXCEPT !.info_file_buff = ReadAdv(@, m[1])]
                   done == p.multiline_state = "END_LINE" \/ Exhausted(p1)
                   p2   == IF done /\ Fits(p1, TermLen)
                           THEN [ResetStructures(Wrote(p1, TermLen)) EXCEPT !.finished = TRUE]
                           ELSE IF done THEN [p1 EXCEPT !.multiline_state = "END_LINE"]
                           ELSE p1
               IN  Send(f, p2, logged, errno)
        PROVE  Quiet
    <2> DEFINE p1 == [Wrote(p, m[1] + m[2]) EXCEPT !.info_file_buff = ReadAdv(@, m[1])]
               p3 == [ResetStructures(Wrote(p1, TermLen)) EXCEPT !.finished = TRUE]
               p4 == [p1 EXCEPT !.multiline_state = "END_LINE"]
    <2>1. /\ m[1] \in Nat /\ m[2] \in Nat /\ m[1] <= avail
          /\ m[1] + m[2] <= space
      <3>1. CASE m = <<0, 0>>
        BY <1>4, <3>1
      <3>2. CASE m \in Moves(avail, space)
        BY <1>4, <3>2 DEF Moves
      <3> QED
        BY <1>5, <3>1, <3>2
    <2>2. p1 \in Sound /\ Keeps(p, p1) /\ p1.st = "WRITING_RESPONSE"
      BY <1>2, <2>1, MovedType DEF Fits
    <2>3. \/ Fits(p1, TermLen) /\ Send(f, p3, logged, errno)
          \/ Send(f, p4, logged, errno)
          \/ Send(f, p1, logged, errno)
      BY <1>5, Zenon
    <2> HIDE DEF p1
    <2>4. p4 \in Sound /\ Keeps(p1, p4) /\ p4.st = "WRITING_RESPONSE"
      BY <2>2, MultilineType
    <2>5. Fits(p1, TermLen) => p3 \in Sound /\ Keeps(p1, p3) /\ p3.st = "WRITING_RESPONSE"
      <3>1. TermLen \in Nat
        BY ConstantsAssumption DEF ConstantsAssumption
      <3> QED
        BY <2>2, <3>1, WroteType, ResetType, FinishedReply DEF Keeps, SameHold
    <2> HIDE DEF p3, p4
    <2>6. Keeps(p, p4) /\ (Fits(p1, TermLen) => Keeps(p, p3))
      BY <2>2, <2>4, <2>5 DEF Keeps, SameHold
    <2> QED
      BY <1>2, <2>2, <2>3, <2>4, <2>5, <2>6, SendQuiet
  <1> QED
    BY <1>3, <1>5 DEF RetrCopy

\* The rest of a reply that is complete.
LEMMA SendRestStep ==
  ASSUME IInv, NEW f \in Fd, SendRest(f)
  PROVE  Quiet
  <1>1. Ready(f, "WRITE", "WRITING_RESPONSE") /\ Send(f, conn[Owner(f)], logged, errno)
    BY DEF SendRest
  <1>2. /\ Owner(f) \in Conn /\ conn[Owner(f)] \in Sound
        /\ conn[Owner(f)].st = "WRITING_RESPONSE"
    BY <1>1, ReadyType
  <1>3. Keeps(conn[Owner(f)], conn[Owner(f)]) /\ errno \in Errors
    BY DEF IInv, TypeOK, Keeps, SameHold
  <1> QED
    BY <1>1, <1>2, <1>3, SendQuiet

\* The end of a session outside write_response.
LEMMA FinishStep ==
  ASSUME IInv, NEW c \in Conn, NEW S \in States, LockOK(S.conn, logged), KeepsAll(conn, S.conn),
         S.conn[c].st \notin {"UNUSED", "FINISHED"},
         errno' \in Errors, Finish(c, S, logged)
  PROVE  Quiet
  <1>1. LoggedOK(logged) /\ server \in {"running", "closing"} \cup Halted
    BY DEF IInv, TypeOK, LoggedOK
  <1>2. LockOK(conn', logged') /\ Settles(c, S.conn)
    BY <1>1, FinishLock
  <1>3. After
    BY <1>1, <1>2, FinishLemma DEF After
  <1> QED
    BY <1>2, <1>3 DEF Quiet, Settles, KeepsAll, Keeps, SameHold

\* An update of the session that is dispatched, followed by a change of interest.
LEMMA UpdateStep ==
  ASSUME IInv, NEW f \in Fd, NEW c \in Conn, NEW q \in Sound, Keeps(conn[c], q),
         NEW i \in Interest,
         Become(With(Here, c, q)) \/ Become(SetInterest(With(Here, c, q), f, i)),
         UNCHANGED <<logged, errno, server>>
  PROVE  Quiet
  <1>1. /\ With(Here, c, q) \in States /\ LockOK(With(Here, c, q).conn, logged)
        /\ KeepsAll(conn, With(Here, c, q).conn)
    BY ChangeHere
  <1>2. /\ SetInterest(With(Here, c, q), f, i) \in States
        /\ SetInterest(With(Here, c, q), f, i).conn = With(Here, c, q).conn
    BY <1>1, SetInterestType
  <1>3. /\ LoggedOK(logged) /\ errno \in Errors
        /\ server \in {"running", "closing"} \cup Halted
    BY DEF IInv, TypeOK, LoggedOK
  <1> QED
    BY <1>1, <1>2, <1>3, BecomeStep

\* The greeting.
LEMMA HelloStep ==
  ASSUME IInv, NEW f \in Fd, HelloWrite(f)
  PROVE  Quiet
  <1> DEFINE c == Owner(f)
             p == conn[c]
  <1>1. /\ c \in Conn /\ p \in Sound /\ p.st = "HELLO"
        /\ Here \in States /\ LockOK(Here.conn, logged) /\ Here.conn[c] = p
        /\ KeepsAll(conn, Here.conn)
    BY ReadyType DEF HelloWrite, IInv, Here, KeepsAll, Keeps, SameHold
  <1>2. CASE errno' \in Failed /\ Finish(c, Here, logged)
    BY <1>1, <1>2, FinishStep, ErrnoType
  <1>3. ASSUME NEW n \in Sent(f, p.info_write_buff),
               LET b == ReadAdv(p.info_write_buff, n)
                   q == [p EXCEPT !.info_write_buff = b]
               IN  /\ IF CanRead(b) THEN Become(With(Here, c, q))
                      ELSE Become(SetInterest(With(Here, c,
                                    [q EXCEPT !.st = "READING_REQUEST"]), f, "READ"))
                   /\ UNCHANGED <<logged, errno, server>>
        PROVE  Quiet
    <2> DEFINE q == [p EXCEPT !.info_write_buff = ReadAdv(p.info_write_buff, n)]
               t == [q EXCEPT !.st = "READING_REQUEST"]
    <2>1. ReadAdv(p.info_write_buff, n) \in Buffers(WriteLimit)
      BY <1>1, ConstantsAssumption, SentType DEF ConstantsAssumption, Sound, Session
    <2>2. q \in Sound /\ Keeps(p, q) /\ q.st = "HELLO"
      BY <1>1, <2>1 DEF Sound, Session, Keeps, SameHold, Locks
    <2>3. \/ Become(With(Here, c, q))
          \/ Become(SetInterest(With(Here, c, t), f, "READ"))
      BY <1>3
    <2> HIDE DEF q
    <2>4. t \in Sound /\ Keeps(q, t)
      BY <2>2, StateType DEF State, Keeps, SameHold, Locks
    <2> HIDE DEF t
    <2>5. Keeps(p, t) /\ "READ" \in Interest
      BY <2>2, <2>4 DEF Keeps, SameHold, Interest
    <2> QED
      BY <1>1, <1>3, <2>2, <2>3, <2>4, <2>5, UpdateStep
  <1> QED
    BY <1>2, <1>3 DEF HelloWrite

\* A request is read, or the connection is over.
LEMMA ReadRequestStep ==
  ASSUME IInv, NEW f \in Fd, ReadRequest(f)
  PROVE  Quiet
  <1> DEFINE c == Owner(f)
             p == conn[c]
  <1>1. /\ c \in Conn /\ p \in Sound /\ p.st = "READING_REQUEST"
        /\ Here \in States /\ LockOK(Here.conn, logged) /\ Here.conn[c] = p
        /\ errno \in Errors
        /\ KeepsAll(conn, Here.conn)
    BY ReadyType DEF ReadRequest, IInv, TypeOK, Here, KeepsAll, Keeps, SameHold
  <1>2. CASE errno' \in {errno} \cup Failed /\ Finish(c, Here, logged)
    BY <1>1, <1>2, FinishStep, ErrnoType
  <1>3. ASSUME NEW r \in Requests,
               Become(SetInterest(With(Here, c, Parsed(p, r)), f, "WRITE")),
               UNCHANGED <<logged, errno, server>>
        PROVE  Quiet
    <2>1. Parsed(p, r) \in Sound /\ Keeps(p, Parsed(p, r)) /\ "WRITE" \in Interest
      BY <1>1, ParsedType DEF Interest
    <2> QED
      BY <1>1, <1>3, <2>1, UpdateStep
  <1> QED
    BY <1>2, <1>3 DEF ReadRequest

\* c ends its hold of a maildrop and what it marked is removed; nobody else is
\* concerned.
Quits(c) ==
  /\ Locks(conn[c]) /\ ~Locks(conn'[c])
  /\ \A d \in Conn \ {c} : conn'[d] = conn[d]
  /\ maildrop' = [maildrop EXCEPT ![conn[c].user_s] = @ \ conn[c].deleted]

\* QUIT frees the maildrop and leaves TRANSACTION.
LEMMA QuitStep ==
  ASSUME IInv, NEW f \in Fd, QuitAction(f)
  PROVE  /\ After /\ maildrop' \in [User -> SUBSET Mail]
         /\ \/ Quiet /\ UNCHANGED maildrop
            \/ Quits(Owner(f))
  <1> DEFINE c  == Owner(f)
             p  == conn[c]
             u  == p.user_s
             lg == [logged EXCEPT ![u] = FALSE]
  <1>1. Executing(f, "QUIT")
    BY DEF QuitAction
  <1>2. /\ c \in Conn /\ p \in Sound /\ p.st = "WRITING_RESPONSE"
        /\ LoggedOK(logged) /\ errno \in Errors
        /\ \A t \in Sound : Keeps(p, t) => LockOK(With(Here, c, t).conn, logged)
        /\ Keeps(p, p)
    BY <1>1, ExecutingType
  <1>3. /\ Here \in States /\ Here.conn = conn /\ LockOK(conn, logged)
        /\ maildrop \in [User -> SUBSET Mail]
        /\ server \in {"running", "closing"} \cup Halted
    BY DEF IInv, TypeOK, Here
  <1>4. LoggedOK(lg)
    BY <1>2 DEF LoggedOK
  <1>5. CASE /\ Become(ToError(Here, c))
             /\ p.pop3_protocol_state = "AUTHORIZATION"
             /\ UNCHANGED <<logged, errno, server, maildrop>>
    <2> DEFINE t == [p EXCEPT !.st = "ERROR"]
    <2>1. t \in Sound /\ Keeps(p, t)
      BY <1>2, <1>5, StateType DEF State, Keeps, SameHold, Locks
    <2>2. ToError(Here, c) = With(Here, c, t)
      BY <1>3 DEF ToError, With
    <2> HIDE DEF t
    <2> QED
      BY <1>2, <1>3, <1>5, <2>1, <2>2, UpdateStep DEF Interest, Quiet
  <1>6. CASE /\ \E e \in Failed : Leave(f, p, lg, e)
             /\ p.pop3_protocol_state = "TRANSACTION"
             /\ UNCHANGED maildrop
    <2>1. Released(p, lg) = Released(p, logged)
      BY <1>2, <1>6 DEF Released, LoggedOK
    <2> HIDE DEF lg
    <2>2. PICK e \in Errors : Leave(f, p, lg, e)
      BY <1>6, ErrnoType
    <2>3. After /\ Settles(c, With(Here, c, p).conn)
      BY <1>2, <1>3, <1>4, <2>1, <2>2, LeaveLemma
    <2> QED
      BY <1>2, <1>3, <1>6, <2>3, SettledQuiet
  <1>7. CASE /\ p.pop3_protocol_state = "TRANSACTION"
             /\ Become(ToError(With(Here, c,
                  [p EXCEPT !.pop3_protocol_state = "AUTHORIZATION"]), c))
             /\ logged' = lg
             /\ maildrop' = [maildrop EXCEPT ![u] = Kept(@, p)]
             /\ UNCHANGED <<errno, server>>
    <2> DEFINE q == [p EXCEPT !.pop3_protocol_state = "AUTHORIZATION"]
               t == [q EXCEPT !.st = "ERROR"]
               dn == With(Here, c, t).conn
    <2>1. q \in Session /\ q.pop3_protocol_state = "AUTHORIZATION"
      BY <1>2 DEF Sound, Session
    <2>2. t \in Sound /\ ~Locks(t)
      BY <2>1 DEF Sound, Session, State, Locks
    <2>3. ToError(With(Here, c, q), c) = With(Here, c, t)
      BY <1>2, <1>3, <2>1 DEF ToError, With, States
    <2> HIDE DEF q, t
    <2>4. /\ With(Here, c, t) \in States
          /\ dn[c] = t /\ \A d \in Conn \ {c} : dn[d] = conn[d]
      BY <1>2, <1>3, <2>2, WithType
    <2> HIDE DEF dn
    <2>5. Locks(p)
      BY <1>2, <1>7 DEF Locks
    <2>6. \A d \in Conn : Locks(dn[d]) =>
            dn[d] = conn[d] /\ d # c /\ dn[d].user_s # u
      BY <1>2, <1>3, <2>2, <2>4, <2>5 DEF LockOK
    <2>7. LockOK(dn, lg)
      BY <1>2, <1>3, <2>6 DEF LockOK, LoggedOK
    <2>8. After
      BY <1>2, <1>3, <1>4, <1>7, <2>3, <2>4, <2>7, BecomeStep DEF dn, q
    <2>9. maildrop' \in [User -> SUBSET Mail]
      BY <1>3, <1>7 DEF Kept
    <2>10. conn' = dn
      BY <1>7, <2>3, <2>4, BecomeType DEF dn, q
    <2> QED
      BY <1>7, <2>2, <2>4, <2>5, <2>8, <2>9, <2>10 DEF Quits, Kept
  <1> QED
    BY <1>3, <1>5, <1>6, <1>7 DEF QuitAction

\* The last line of a session.
LEMMA FinishErrorStep ==
  ASSUME IInv, NEW f \in Fd, FinishError(f)
  PROVE  Quiet
  <1> DEFINE c == Owner(f)
             p == conn[c]
             w == [Wrote(p, ReplyLen) EXCEPT !.error_written = TRUE]
             q == IF ~p.error_written /\ Fits(p, ReplyLen) THEN w ELSE p
  <1>1. /\ c \in Conn /\ p \in Sound /\ p.st = "ERROR"
        /\ Here \in States /\ errno \in Errors
        /\ Ready(f, "WRITE", "ERROR")
    BY ReadyType DEF FinishError, IInv, TypeOK
  <1>2. q \in Sound /\ Keeps(p, q) /\ q.st = "ERROR"
    <2>1. CASE ~p.error_written /\ Fits(p, ReplyLen)
      <3>1. ReplyLen \in Nat
        BY ConstantsAssumption DEF ConstantsAssumption
      <3>2. /\ Wrote(p, ReplyLen) \in Sound /\ Keeps(p, Wrote(p, ReplyLen))
            /\ Wrote(p, ReplyLen).st = "ERROR"
        BY <1>1, <2>1, <3>1, WroteType
      <3>3. w \in Sound /\ Keeps(Wrote(p, ReplyLen), w) /\ w.st = "ERROR"
        BY <3>2 DEF Sound, Session, Keeps, SameHold, Locks
      <3> HIDE DEF w
      <3> QED
        BY <2>1, <3>2, <3>3 DEF Keeps, SameHold
    <2>2. CASE ~(~p.error_written /\ Fits(p, ReplyLen))
      BY <1>1, <2>2 DEF Keeps, SameHold
    <2> QED
      BY <2>1, <2>2
  <1>3. ASSUME NEW t \in Sound, Keeps(p, t), t.st = "ERROR",
               errno' \in Errors, Finish(c, With(Here, c, t), logged)
        PROVE  Quiet
    <2>1. /\ With(Here, c, t) \in States /\ With(Here, c, t).conn[c] = t
          /\ LockOK(With(Here, c, t).conn, logged) /\ KeepsAll(conn, With(Here, c, t).conn)
      BY <1>1, <1>3, WithType, ChangeHere
    <2> QED
      BY <1>1, <1>3, <2>1, FinishStep
  <1>4. CASE errno' \in Failed /\ Finish(c, With(Here, c, q), logged)
    <2> HIDE DEF q
    <2> QED
      BY <1>2, <1>3, <1>4, ErrnoType
  <1>5. ASSUME NEW n \in Sent(f, q.info_write_buff),
               LET b == ReadAdv(q.info_write_buff, n)
                   S == With(Here, c, [q EXCEPT !.info_write_buff = b])
               IN  /\ UNCHANGED errno
                   /\ IF CanRead(b) THEN Become(S) /\ UNCHANGED <<logged, server>>
                                    ELSE Finish(c, S, logged)
        PROVE  Quiet
    <2> HIDE DEF q
    <2> DEFINE t == [q EXCEPT !.info_write_buff = ReadAdv(q.info_write_buff, n)]
    <2>1. ReadAdv(q.info_write_buff, n) \in Buffers(WriteLimit)
      BY <1>2, ConstantsAssumption, SentType DEF ConstantsAssumption, Sound, Session
    <2>2. t \in Sound /\ Keeps(q, t) /\ t.st = "ERROR"
      BY <1>2, <2>1 DEF Sound, Session, Keeps, SameHold, Locks
    <2>3. /\ UNCHANGED errno
          /\ \/ Become(With(Here, c, t)) /\ UNCHANGED <<logged, server>>
             \/ Finish(c, With(Here, c, t), logged)
      BY <1>5
    <2> HIDE DEF t
    <2>4. Keeps(p, t)
      BY <1>2, <2>2 DEF Keeps, SameHold
    <2> QED
      BY <1>1, <1>3, <2>2, <2>3, <2>4, UpdateStep DEF Interest
  <1>6. \/ errno' \in Failed /\ Finish(c, With(Here, c, q), logged)
        \/ \E n \in Sent(f, q.info_write_buff) :
              LET b == ReadAdv(q.info_write_buff, n)
                  S == With(Here, c, [q EXCEPT !.info_write_buff = b])
              IN  /\ UNCHANGED errno
                  /\ IF CanRead(b) THEN Become(S) /\ UNCHANGED <<logged, server>>
                                   ELSE Finish(c, S, logged)
    BY Zenon DEF FinishError
  <1> HIDE DEF q
  <1> QED
    BY <1>4, <1>5, <1>6

\* The abort of the state machine changes nothing else.
LEMMA StmAbortStep ==
  ASSUME IInv, NEW f \in Fd, StmAbort(f)
  PROVE  Quiet
  <1>1. Here \in States /\ Here.conn = conn /\ LockOK(conn, logged)
        /\ LoggedOK(logged) /\ errno \in Errors
        /\ KeepsAll(conn, Here.conn)
    BY DEF IInv, TypeOK, Here, LoggedOK, KeepsAll, Keeps, SameHold
  <1> QED
    BY <1>1, BecomeStep DEF StmAbort, Halt, Halted

\* read() fills the file buffer.
LEMMA FilledType ==
  ASSUME NEW p \in Sound, NEW n \in Nat, n <= WriteSpace(p.info_file_buff, FileLimit)
  PROVE  Filled(p, n) \in Sound /\ Keeps(p, Filled(p, n)) /\ Filled(p, n).st = p.st
  <1>1. PICK b \in Buffers(FileLimit) : b = WriteAdv(p.info_file_buff, n)
    <2>1. p.info_file_buff \in Buffers(FileLimit) /\ FileLimit \in Nat
      BY ConstantsAssumption DEF ConstantsAssumption, Sound, Session
    <2> QED
      BY <2>1, WriteAdvType
  <1>2. PICK g \in BOOLEAN : g = (p.file_ended \/ n = 0)
    OBVIOUS
  <1>3. Filled(p, n) = [p EXCEPT !.file_ended = g, !.info_file_buff = b]
    BY <1>1, <1>2 DEF Filled, Sound, Session
  <1>4. [p EXCEPT !.file_ended = g, !.info_file_buff = b] \in Sound
    BY DEF Sound, Session
  <1> QED
    BY <1>3, <1>4 DEF Sound, Session, Keeps, SameHold, Locks

\* and takes the bytes from the file.
LEMMA ConsumedType ==
  ASSUME NEW S \in States, NEW f \in Fd, NEW n \in Nat,
         S.kernel[f].kind = "file" => n <= S.kernel[f].left
  PROVE  Consumed(S, f, n) \in States /\ Consumed(S, f, n).conn = S.conn
  <1>1. CASE S.kernel[f].kind = "file"
    <2>1. PICK k \in Nat : k = S.kernel[f].left - n
      BY <1>1 DEF States
    <2> DEFINE K == [S.kernel EXCEPT ![f] = [S.kernel[f] EXCEPT !.left = k]]
    <2>2. K \in [Fd -> [kind : {"closed", "socket", "file"}, left : Nat]]
      BY DEF States
    <2>3. Consumed(S, f, n) = [S EXCEPT !.kernel = K]
      BY <1>1, <2>1 DEF Consumed, States
    <2> HIDE DEF K
    <2> QED
      BY <2>2, <2>3 DEF States
  <1>2. CASE S.kernel[f].kind # "file"
    BY <1>2 DEF Consumed
  <1> QED
    BY <1>1, <1>2

\* The session goes back to the socket, or ends.
LEMMA AfterFileLemma ==
  ASSUME IInv, NEW c \in Conn, NEW S \in States, LockOK(S.conn, logged), KeepsAll(conn, S.conn),
         S.conn[c].st = "PROCESSING_RESPONSE", UNCHANGED errno, AfterFile(c, S)
  PROVE  Quiet
  <1> DEFINE p == S.conn[c]
             V == BackToSocket(S, p)
             W == IF p.file_ended THEN Unregister(V, p.file_fd) ELSE V
  <1>1. /\ LoggedOK(logged) /\ errno \in Errors
        /\ server \in {"running", "closing"} \cup Halted
        /\ p \in Sound
    BY DEF IInv, TypeOK, LoggedOK, States
  <1>2. p.connection_fd \in Fd \cup {0} /\ p.file_fd \in Fd \cup {0}
    BY <1>1 DEF Sound, Session
  <1> DEFINE U == SetInterest(S, p.connection_fd, "WRITE")
  <1>3. U \in States /\ U.conn = S.conn
        /\ \A g \in Fd : U.items[g].conn = S.items[g].conn
    BY <1>2, SetInterestType DEF Interest
  <1>4. V \in States /\ V.conn = S.conn
        /\ \A g \in Fd : V.items[g].conn = S.items[g].conn
    <2>1. V = SetInterest(U, p.file_fd, "NOOP")
      BY DEF BackToSocket
    <2> HIDE DEF U, V
    <2>2. PICK h \in Fd \cup {0} : h = p.file_fd
      BY <1>2
    <2>3. V = SetInterest(U, h, "NOOP") /\ "NOOP" \in Interest
      BY <2>1, <2>2 DEF Interest
    <2>4. /\ SetInterest(U, h, "NOOP") \in States
          /\ SetInterest(U, h, "NOOP").conn = U.conn
          /\ \A g \in Fd : SetInterest(U, h, "NOOP").items[g].conn = U.items[g].conn
      BY <1>3, <2>3, SetInterestType
    <2> QED
      BY <1>3, <2>3, <2>4
  <1> HIDE DEF V
  <1>5. CASE Finish(c, S, logged)
    BY <1>1, <1>5, FinishStep
  <1>6. CASE Finish(c, V, logged)
    BY <1>1, <1>4, <1>6, FinishStep
  <1>7. CASE /\ Registered(S, p.file_fd)
             /\ UNCHANGED logged
             /\ IF W.conn[c] = Blank THEN Halt("undefined", W)
                ELSE /\ Become(With(W, c, [W.conn[c] EXCEPT !.st = "WRITING_RESPONSE"]))
                     /\ UNCHANGED server
    <2>1. Registered(V, p.file_fd) /\ p.file_fd \in Fd
      BY <1>4, <1>7 DEF Registered
    <2>2. /\ W \in States
          /\ \A d \in Conn : Fades(S.conn[d], W.conn[d])
          /\ W.conn[c] # Blank => W.conn[c].st = p.st /\ SameHold(p, W.conn[c])
      <3>1. CASE p.file_ended
        <4>1. W = Unregister(V, p.file_fd)
          BY <3>1
        <4>2. W \in States
          BY <1>4, <2>1, <4>1, UnregisterType
        <4>3. \A d \in Conn : Fades(V.conn[d], W.conn[d])
          BY <1>4, <2>1, <4>1, UnregisterFades
        <4>4. W.conn[c] # Blank =>
                W.conn[c].st = V.conn[c].st /\ SameHold(V.conn[c], W.conn[c])
          BY <1>4, <2>1, <4>1, UnregisterFades
        <4> HIDE DEF W
        <4> QED
          BY <1>4, <4>2, <4>3, <4>4
      <3>2. CASE ~p.file_ended
        BY <1>4, <3>2 DEF Fades, SameHold
      <3> QED
        BY <3>1, <3>2
    <2> HIDE DEF W
    <2>3. \A d \in Conn : Keeps(S.conn[d], W.conn[d])
      BY <2>2 DEF Fades, Keeps, SameHold, Locks
    <2>4. LockOK(W.conn, logged) /\ KeepsAll(conn, W.conn)
      BY <2>3, LockStep DEF KeepsAll, Keeps, SameHold
    <2>5. CASE Halt("undefined", W)
      BY <1>1, <1>7, <2>2, <2>4, <2>5, BecomeStep DEF Halt, Halted
    <2>6. ASSUME W.conn[c] # Blank,
                 Become(With(W, c, [W.conn[c] EXCEPT !.st = "WRITING_RESPONSE"])),
                 UNCHANGED server
          PROVE  Quiet
      <3> DEFINE t == [W.conn[c] EXCEPT !.st = "WRITING_RESPONSE"]
      <3>1. W.conn[c] \in Sound
        BY <2>2 DEF States
      <3>2. t \in Sound /\ Keeps(W.conn[c], t)
        BY <2>2, <2>6, <3>1, StateType DEF State, Keeps, SameHold, Locks
      <3>3. Become(With(W, c, t))
        BY <2>6
      <3> HIDE DEF t
      <3>4. With(W, c, t) \in States
        BY <2>2, <3>2, WithType
      <3>5. \A d \in Conn : Keeps(W.conn[d], With(W, c, t).conn[d])
        BY <2>2, <3>2, WithType DEF Keeps, SameHold
      <3>6. LockOK(With(W, c, t).conn, logged) /\ KeepsAll(conn, With(W, c, t).conn)
        BY <2>4, <3>5, LockStep DEF KeepsAll, Keeps, SameHold
      <3> QED
        BY <1>1, <1>7, <2>6, <3>3, <3>4, <3>6, BecomeStep
    <2> QED
      BY <1>7, <2>5, <2>6
  <1> QED
    BY <1>5, <1>6, <1>7 DEF AfterFile, V

\* process_response.
LEMMA ProcessResponseStep ==
  ASSUME IInv, NEW f \in Fd, ProcessResponse(f)
  PROVE  Quiet
  <1> DEFINE c     == Owner(f)
             p     == conn[c]
             space == WriteSpace(p.info_file_buff, FileLimit)
  <1>1. /\ c \in Conn /\ p \in Sound /\ p.st = "PROCESSING_RESPONSE"
        /\ Here \in States /\ LockOK(Here.conn, logged)
        /\ Here.conn = conn /\ Here.kernel = kernel
        /\ errno \in Errors /\ KeepsAll(conn, Here.conn)
    BY ReadyType DEF ProcessResponse, IInv, TypeOK, Here, KeepsAll, Keeps, SameHold
  <1>2. CASE errno' \in {errno} \cup Failed /\ Finish(c, Here, logged)
    BY <1>1, <1>2, FinishStep, ErrnoType
  <1>3. ASSUME NEW n \in 0..space, CanReadOf(f, space, n), UNCHANGED errno,
               AfterFile(c, Consumed(With(Here, c, Filled(p, n)), f, n))
        PROVE  Quiet
    <2>1. /\ n \in Nat /\ n <= space
          /\ kernel[f].kind = "file" => n <= kernel[f].left
      BY <1>1, <1>3, ConstantsAssumption
      DEF CanReadOf, ConstantsAssumption, Sound, Session, Buffers, WriteSpace
    <2>2. Filled(p, n) \in Sound /\ Keeps(p, Filled(p, n)) /\ Filled(p, n).st = p.st
      BY <1>1, <2>1, FilledType
    <2> DEFINE F == With(Here, c, Filled(p, n))
    <2>3. /\ F \in States /\ F.conn[c] = Filled(p, n) /\ F.kernel = kernel
          /\ LockOK(F.conn, logged) /\ KeepsAll(conn, F.conn)
      BY <1>1, <2>2, WithType, ChangeHere
    <2> HIDE DEF F
    <2>4. Consumed(F, f, n) \in States /\ Consumed(F, f, n).conn = F.conn
      BY <2>1, <2>3, ConsumedType
    <2>5. AfterFile(c, Consumed(F, f, n))
      BY <1>3 DEF F
    <2> QED
      BY <1>1, <1>3, <2>2, <2>3, <2>4, <2>5, AfterFileLemma
  <1> QED
    BY <1>2, <1>3 DEF ProcessResponse

-----------------------------------------------------------------------------
(* The process.                                                            *)

\* pop3_create.
LEMMA NewSessionType ==
  ASSUME NEW f \in Fd
  PROVE  NewSession(f) \in Sound /\ ~Locks(NewSession(f))
  <1>1. WriteAdv(Fresh, ReplyLen) \in Buffers(WriteLimit)
    <2>1. Fresh \in Buffers(WriteLimit) /\ WriteLimit \in Nat /\ ReplyLen \in Nat
      BY ConstantsAssumption, FreshType DEF ConstantsAssumption
    <2>2. ReplyLen <= WriteSpace(Fresh, WriteLimit)
      BY <2>1, ConstantsAssumption DEF ConstantsAssumption, WriteSpace, Fresh
    <2> QED
      BY <2>1, <2>2, WriteAdvType
  <1>2. PICK b \in Buffers(WriteLimit) : b = WriteAdv(Fresh, ReplyLen)
    BY <1>1
  <1>3. NewSession(f) = [Blank EXCEPT !.st = "HELLO", !.connection_fd = f,
                                      !.info_write_buff = b]
    BY <1>2 DEF NewSession
  <1>4. [Blank EXCEPT !.st = "HELLO", !.connection_fd = f, !.info_write_buff = b] \in Sound
    BY BlankType DEF Sound, Session, State, Blank
  <1> QED
    BY <1>3, <1>4 DEF Locks, Blank

\* A connection is accepted or refused.
LEMMA AcceptStep ==
  ASSUME IInv, Accept
  PROVE  Quiet
  <1>1. /\ Here \in States /\ LockOK(Here.conn, logged) /\ LoggedOK(logged)
        /\ Here.conn = conn
        /\ errno \in Errors
        /\ server \in {"running", "closing"} \cup Halted
        /\ KeepsAll(conn, conn)
    BY DEF IInv, TypeOK, LoggedOK, Here, KeepsAll, Keeps, SameHold
  <1>2. PICK c \in Conn, f \in Fd :
          Become(IF Refuses(Here, f) THEN [Here EXCEPT !.current = Decreased(@)]
                 ELSE [Register(With(Here, c, NewSession(f)), f, c, "WRITE") EXCEPT
                         !.kernel[f].kind = "socket", !.current = Increased(@)])
    BY DEF Accept, Free
  <1>3. UNCHANGED <<logged, errno, server>>
    BY DEF Accept
  <1>4. CASE Become([Here EXCEPT !.current = Decreased(@)])
    <2>1. Decreased(Here.current) \in 0..(Word - 1)
      BY <1>1, CounterType DEF States
    <2>2. /\ [Here EXCEPT !.current = Decreased(@)] \in States
          /\ [Here EXCEPT !.current = Decreased(@)].conn = conn
      BY <1>1, <2>1 DEF States
    <2> QED
      BY <1>1, <1>3, <1>4, <2>2, BecomeStep
  <1>5. CASE Become([Register(With(Here, c, NewSession(f)), f, c, "WRITE") EXCEPT
                       !.kernel[f].kind = "socket", !.current = Increased(@)])
    <2> DEFINE p == NewSession(f)
               R == Register(With(Here, c, p), f, c, "WRITE")
               K == [R.kernel EXCEPT ![f].kind = "socket"]
               n == Increased(R.current)
               X == [R EXCEPT !.kernel[f].kind = "socket", !.current = Increased(@)]
    <2>1. p \in Sound /\ ~Locks(p)
      BY NewSessionType
    <2> HIDE DEF p
    <2>2. /\ With(Here, c, p) \in States /\ LockOK(With(Here, c, p).conn, logged)
          /\ KeepsAll(conn, With(Here, c, p).conn)
      BY <2>1, ChangeHere DEF Keeps, SameHold
    <2>3. R \in States /\ R.conn = With(Here, c, p).conn
      BY <2>2, RegisterType DEF Interest
    <2> HIDE DEF R
    <2>4. n \in 0..(Word - 1)
      BY <2>3, CounterType DEF States
    <2>5. K \in [Fd -> [kind : {"closed", "socket", "file"}, left : Nat]]
      BY <2>3 DEF States
    <2>6. X = [R EXCEPT !.kernel = K, !.current = n]
      BY <2>3 DEF States
    <2> HIDE DEF K, n, X
    <2>7. X \in States /\ X.conn = R.conn
      BY <2>3, <2>4, <2>5, <2>6 DEF States
    <2>8. Become(X)
      BY <1>5 DEF X, R, p
    <2> QED
      BY <1>1, <1>3, <2>2, <2>3, <2>7, <2>8, BecomeStep
  <1> QED
    BY <1>2, <1>4, <1>5

\* selector_destroy closes one item.
LEMMA CloseItemStep ==
  ASSUME IInv, CloseItem
  PROVE  Quiet
  <1>1. /\ Here \in States /\ LockOK(Here.conn, logged) /\ LoggedOK(logged)
        /\ errno \in Errors
        /\ server \in {"running", "closing"} \cup Halted
    BY DEF IInv, TypeOK, LoggedOK, Here
  <1>2. PICK f \in Fd : Registered(Here, f) /\ Become(Unregister(Here, f))
    BY DEF CloseItem
  <1>3. Unregister(Here, f) \in States
    BY <1>1, <1>2, UnregisterType
  <1>4. \A d \in Conn : Keeps(Here.conn[d], Unregister(Here, f).conn[d])
    BY <1>1, <1>2, UnregisterFades DEF Fades, Keeps, SameHold, Locks
  <1>5. LockOK(Unregister(Here, f).conn, logged) /\ KeepsAll(conn, Unregister(Here, f).conn)
    BY <1>1, <1>4, LockStep DEF Here, KeepsAll
  <1> QED
    BY <1>1, <1>2, <1>3, <1>5, BecomeStep DEF CloseItem

\* The steps of the process that touch no session.
LEMMA QuietStep ==
  ASSUME IInv, UNCHANGED <<items, kernel, conn, current, logged>>,
         errno' \in Errors, server' \in {"running", "closing"} \cup Halted
  PROVE  Quiet
  BY DEF Quiet, After, IInv, TypeOK, Here, LoggedOK, LockOK, Locks, KeepsAll, Keeps, SameHold

-----------------------------------------------------------------------------
(* The theorems.                                                           *)

\* The server starts with no session, and every maildrop free.
LEMMA InitIInv == Init => IInv
  <1> SUFFICES ASSUME Init PROVE IInv
    OBVIOUS
  <1>1. Blank \in Sound /\ ~Locks(Blank)
    BY BlankType DEF Blank, Locks
  <1>2. 0 \in 0..(Word - 1)
    BY ConstantsAssumption DEF ConstantsAssumption
  <1>3. Here \in States
    BY <1>1, <1>2 DEF Init, Here, States, Unused, Closed, Interest
  <1>4. TypeOK
    BY <1>1, <1>2, ConstantsAssumption
    DEF ConstantsAssumption, Init, TypeOK, Sound, Unused, Closed, Interest
  <1>5. LockOK(conn, logged)
    BY <1>1 DEF Init, LockOK
  <1> QED
    BY <1>3, <1>4, <1>5 DEF IInv

\* After and the type of maildrop make the invariant of the next state.
LEMMA AfterIInv ==
  ASSUME After, maildrop' \in [User -> SUBSET Mail]
  PROVE  IInv'
  BY DEF After, IInv, TypeOK, Here, States, Sound, LoggedOK

\* The handlers that take, mark or remove nothing.
LEMMA HandlerQuiet ==
  ASSUME IInv, NEW f \in Fd, Handler(f),
         ~PassAction(f), ~DeleAction(f), ~RsetAction(f), ~QuitAction(f)
  PROVE  Quiet /\ UNCHANGED maildrop
  <1>1. UNCHANGED maildrop
    BY DEF Handler
  <1>2. CASE WriteResponse(f)
    <2>1. CASE StatAction(f) \/ NoopAction(f) \/ CapaAction(f) \/ DefaultAction(f)
      BY <1>1, <2>1, ReplyOnlyStep DEF StatAction, NoopAction, CapaAction, DefaultAction
    <2>2. CASE UserAction(f) \/ ListOne(f) \/ ListAll(f)
      BY <1>1, <2>2, UserStep, ListOneStep, ListAllStep
    <2>3. CASE RetrError(f) \/ RetrFirst(f) \/ RetrMore(f) \/ RetrCopy(f)
      BY <1>1, <2>3, RetrErrorStep, RetrFirstStep, RetrMoreStep, RetrCopyStep
    <2>4. CASE SendRest(f)
      BY <1>1, <2>4, SendRestStep
    <2> QED
      BY <1>1, <1>2, <2>1, <2>2, <2>3, <2>4 DEF WriteResponse
  <1>3. CASE HelloWrite(f) \/ ReadRequest(f) \/ ProcessResponse(f)
    BY <1>1, <1>3, HelloStep, ReadRequestStep, ProcessResponseStep
  <1>4. CASE FinishError(f) \/ StmAbort(f)
    BY <1>1, <1>4, FinishErrorStep, StmAbortStep
  <1> QED
    BY <1>2, <1>3, <1>4 DEF Handler

\* New connections and the shutdown take, mark and remove nothing either.
LEMMA ProcessQuiet ==
  ASSUME IInv, Process
  PROVE  Quiet /\ UNCHANGED maildrop
  <1>1. UNCHANGED maildrop /\ errno \in Errors
        /\ server \in {"running", "closing"} \cup Halted
    BY DEF Process, IInv, TypeOK
  <1>2. CASE Accept
    BY <1>1, <1>2, AcceptStep
  <1>3. CASE CloseItem
    BY <1>1, <1>3, CloseItemStep
  <1>4. CASE AcceptFails \/ AdminRead \/ Shutdown \/ Stopped
    <2>1. errno' \in Errors
      BY <1>1, <1>4, ErrnoType, ConstantsAssumption
      DEF AcceptFails, AdminRead, Shutdown, Stopped, ConstantsAssumption
    <2> QED
      BY <1>1, <1>4, <2>1, QuietStep
      DEF AcceptFails, AdminRead, Shutdown, Stopped, Halted
  <1> QED
    BY <1>2, <1>3, <1>4 DEF Process

\* Every step keeps the invariant.
LEMMA NextIInv == IInv /\ [Next]_vars => IInv'
  <1> SUFFICES ASSUME IInv, [Next]_vars PROVE IInv'
    OBVIOUS
  <1>1. /\ maildrop \in [User -> SUBSET Mail] /\ errno \in Errors
        /\ server \in {"running", "closing"} \cup Halted
    BY DEF IInv, TypeOK
  <1>2. ASSUME Quiet, UNCHANGED maildrop
        PROVE  IInv'
    BY <1>1, <1>2, AfterIInv DEF Quiet
  <1>3. ASSUME NEW f \in Fd, Handler(f)
        PROVE  IInv'
    <2>1. CASE QuitAction(f)
      BY <2>1, QuitStep, AfterIInv
    <2>2. CASE PassAction(f) /\ UNCHANGED maildrop
      BY <1>1, <2>2, PassStep, AfterIInv
    <2>3. CASE DeleAction(f) /\ UNCHANGED maildrop
      BY <1>1, <2>3, DeleStep, AfterIInv
    <2>4. CASE RsetAction(f) /\ UNCHANGED maildrop
      BY <1>1, <2>4, RsetStep, AfterIInv
    <2>5. CASE ~PassAction(f) /\ ~DeleAction(f) /\ ~RsetAction(f) /\ ~QuitAction(f)
      BY <1>2, <1>3, <2>5, HandlerQuiet
    <2>6. QuitAction(f) \/ UNCHANGED maildrop
      BY <1>3 DEF Handler
    <2> QED
      BY <2>1, <2>2, <2>3, <2>4, <2>5, <2>6
  <1>4. CASE Process
    BY <1>2, <1>4, ProcessQuiet
  <1>5. CASE Deliver
    <2>1. Quiet
      BY <1>1, <1>5, QuietStep DEF Deliver
    <2>2. maildrop' \in [User -> SUBSET Mail]
      BY <1>1, <1>5 DEF Deliver
    <2> QED
      BY <2>1, <2>2, AfterIInv DEF Quiet
  <1>6. CASE UNCHANGED vars
    BY <1>1, <1>2, <1>6, QuietStep DEF vars
  <1> QED
    BY <1>3, <1>4, <1>5, <1>6 DEF Next

\* The invariant holds in every state the server reaches.
THEOREM Invariant == Spec => []IInv
  BY InitIInv, NextIInv, PTL DEF Spec

\* Every variable keeps its type, whatever the users, mails, buffers and limits
\* are: no handler moves a buffer position past its end (buffer.c:49-68).
THEOREM TypeCorrect == Spec => []TypeOK
  <1>1. IInv => TypeOK
    BY DEF IInv
  <1> QED
    BY <1>1, Invariant, PTL

\* Two sessions never work on the maildrop of one user (pop3.c:746), for any
\* number of sessions, users and descriptors, through every failure modelled.
THEOREM Exclusive == Spec => []ExclusiveMaildrop
  <1>1. IInv => ExclusiveMaildrop
    BY DEF IInv, ExclusiveMaildrop, Holds, Alive, LockOK, Locks
  <1> QED
    BY <1>1, Invariant, PTL

-----------------------------------------------------------------------------
(* Pop3Server implements Maildrop: whatever descriptors are mixed up and   *)
(* in whatever order sessions log in, mark, quit and break, mails          *)
(* disappear only by QUIT.                                                 *)

\* What a session object stands for in Maildrop.
Hold(p) ==
  IF Locks(p)
  THEN [user |-> p.user_s, seen |-> p.emails, marked |-> p.deleted]
  ELSE [user |-> NoUser, seen |-> {}, marked |-> {}]

\* HeldSession reads the session object and nothing else.
LEMMA HeldIsHold ==
  /\ \A c \in Conn : HeldSession(c) = Hold(conn[c])
  /\ \A c \in Conn : HeldSession(c)' = Hold(conn'[c])
  BY DEF HeldSession, Hold, Locks, Alive

\* A session of Maildrop that was kept is as it was or idle.
LEMMA KeptHold ==
  ASSUME NEW x, NEW y, Keeps(x, y)
  PROVE  Hold(y) \in {Hold(x), Drop!Idle}
  BY DEF Keeps, SameHold, Hold, Drop!Idle

\* A session object that agrees and still locks is the same session of Maildrop.
LEMMA SameIsHold ==
  ASSUME NEW x, NEW y, Keeps(x, y), Locks(y)
  PROVE  Hold(y) = Hold(x)
  BY DEF Keeps, SameHold, Hold

\* In a quiet step sessions end.
LEMMA QuietEnds ==
  ASSUME KeepsAll(conn, conn'), UNCHANGED maildrop
  PROVE  Drop!Next
<1> DEFINE S == {c \in Conn : Hold(conn'[c]) = Drop!Idle}
<1>1. \A c \in Conn : Hold(conn'[c]) \in {Hold(conn[c]), Drop!Idle}
  BY KeptHold DEF KeepsAll
<1>2. \A c \in Conn :
        HeldSession(c)' = IF c \in S THEN Drop!Idle ELSE HeldSession(c)
  BY <1>1, HeldIsHold
<1>3. Drop!End(S)
  BY <1>2 DEF Drop!End
<1> QED
  BY <1>3 DEF Drop!Next

\* A step after which the others are as they were and c is t, or in which
\* sessions only end, c among them.
LEMMA SettledHold ==
  ASSUME IInv, NEW c \in Conn, NEW t \in Sound, Settles(c, With(Here, c, t).conn),
         UNCHANGED maildrop
  PROVE  \/ Drop!Next
         \/ /\ Hold(conn'[c]) = Hold(t)
            /\ \A d \in Conn \ {c} : conn'[d] = conn[d]
<1>1. Here \in States /\ Here.conn = conn
  BY DEF IInv, Here
<1>2. /\ With(Here, c, t).conn[c] = t
      /\ \A d \in Conn \ {c} : With(Here, c, t).conn[d] = conn[d]
  BY <1>1, WithType
<1>3. Keeps(t, conn'[c]) /\ \A d \in Conn \ {c} : Keeps(conn[d], conn'[d])
  BY <1>2 DEF Settles, KeepsAll
<1>4. CASE Locks(conn'[c])
  BY <1>2, <1>3, <1>4, SameIsHold DEF Settles
<1>5. CASE ~Locks(conn'[c])
  <2>1. KeepsAll(conn, conn')
    BY <1>3, <1>5 DEF KeepsAll, Keeps
  <2> QED
    BY <2>1, QuietEnds
<1> QED
  BY <1>4, <1>5

\* Only the session of c changes, to h.
LEMMA OneChanges ==
  ASSUME NEW c \in Conn, NEW h, Hold(conn'[c]) = h,
         \A d \in Conn \ {c} : conn'[d] = conn[d]
  PROVE  [d \in Conn |-> HeldSession(d)'] =
           [[d \in Conn |-> HeldSession(d)] EXCEPT ![c] = h]
  BY HeldIsHold

\* PASS logs in, or leaves everything as it is.
LEMMA PassIsLogin ==
  ASSUME IInv, NEW f \in Fd, PassAction(f), UNCHANGED maildrop
  PROVE  Drop!Next
<1>1. CASE Quiet
  BY <1>1, QuietEnds DEF Quiet
<1>2. ASSUME NEW t \in Sound, Takes(Owner(f), t),
             Settles(Owner(f), With(Here, Owner(f), t).conn)
      PROVE  Drop!Next
  <2>1. PICK c \in Conn : c = Owner(f)
    BY ExecutingType DEF PassAction
  <2>2. PICK u \in User : u = conn[c].user_s
    BY <1>2, <2>1 DEF Takes
  <2>3. Hold(t) = [user |-> u, seen |-> t.emails, marked |-> {}]
        /\ t.emails \in SUBSET maildrop[u]
    BY <1>2, <2>1, <2>2 DEF Takes, Hold
  <2>4. HeldSession(c) = Drop!Idle
    BY <1>2, <2>1, HeldIsHold DEF Takes, Hold, Drop!Idle
  <2>5. \A d \in Conn : HeldSession(d).user # u
    <3> TAKE d \in Conn
    <3>1. CASE Locks(conn[d])
      <4>1. logged[conn[d].user_s] /\ ~logged[u]
        BY <1>2, <2>1, <2>2, <3>1 DEF IInv, LockOK, Takes
      <4> QED
        BY <3>1, <4>1, HeldIsHold DEF Hold
    <3>2. CASE ~Locks(conn[d])
      BY <3>2, HeldIsHold, ConstantsAssumption DEF Hold, ConstantsAssumption
    <3> QED
      BY <3>1, <3>2
  <2>6. CASE /\ Hold(conn'[c]) = Hold(t)
             /\ \A d \in Conn \ {c} : conn'[d] = conn[d]
    <3> DEFINE ses == [d \in Conn |-> HeldSession(d)]
               new == [user |-> u, seen |-> t.emails, marked |-> {}]
    <3>1. [d \in Conn |-> HeldSession(d)'] = [ses EXCEPT ![c] = new]
      BY <2>3, <2>6, OneChanges
    <3>2. ses[c] = Drop!Idle /\ \A d \in Conn : ses[d].user # u
      BY <2>4, <2>5
    <3>3. \E seen \in SUBSET maildrop[u] :
            [d \in Conn |-> HeldSession(d)']
              = [ses EXCEPT ![c] = [user |-> u, seen |-> seen, marked |-> {}]]
      BY <2>3, <3>1
    <3>4. Drop!Login(c, u)
      BY <3>2, <3>3 DEF Drop!Login, Drop!Free, Drop!Holds
    <3> QED
      BY <3>4 DEF Drop!Next
  <2> QED
    BY <1>2, <2>1, <2>6, SettledHold
<1> QED
  BY <1>1, <1>2, PassStep

\* DELE marks a mail the session sees, or nothing.
LEMMA DeleIsMark ==
  ASSUME IInv, NEW f \in Fd, DeleAction(f), UNCHANGED maildrop
  PROVE  [Drop!Next]_(Drop!vars)
<1>1. PICK c \in Conn : c = Owner(f)
  BY ExecutingType DEF DeleAction
<1> DEFINE p == conn[c]
           marks == Parse(p.arg) \notin BadNumber /\ p.arg \in Present(p)
           q == IF marks THEN [p EXCEPT !.deleted = @ \cup {p.arg}] ELSE p
<1>2. /\ p \in Sound /\ p.st = "WRITING_RESPONSE" /\ q \in Sound
      /\ Settles(c, With(Here, c, q).conn)
  BY <1>1, DeleStep
<1>3. CASE ~marks
  <2>1. q = p /\ Keeps(p, p)
    BY <1>3 DEF Keeps, SameHold
  <2>2. KeepsAll(conn, conn')
    BY <1>1, <1>2, <2>1, DeleStep, SettledQuiet DEF Quiet
  <2> QED
    BY <2>2, QuietEnds
<1>4. CASE marks
  <2>1. p.arg \in p.emails \ p.deleted /\ p.arg \in Mail
    BY <1>2, <1>4 DEF Present, Sound, Session
  <2>2. Locks(p)
    BY <1>2, <2>1 DEF Locks, Sound, Session
  <2>3. Hold(p) = [user |-> p.user_s, seen |-> p.emails, marked |-> p.deleted]
    BY <2>2 DEF Hold
  <2>4. Hold(q) = [user |-> p.user_s, seen |-> p.emails, marked |-> p.deleted \cup {p.arg}]
    <3>1. /\ q.st = p.st /\ q.pop3_protocol_state = p.pop3_protocol_state
          /\ q.user_s = p.user_s /\ q.emails = p.emails
          /\ q.deleted = p.deleted \cup {p.arg}
      BY <1>2, <1>4 DEF Sound, Session
    <3> QED
      BY <2>2, <3>1 DEF Hold, Locks
  <2> HIDE DEF q
  <2>5. CASE /\ Hold(conn'[c]) = Hold(q)
             /\ \A d \in Conn \ {c} : conn'[d] = conn[d]
    <3> DEFINE ses == [d \in Conn |-> HeldSession(d)]
               old == [user |-> p.user_s, seen |-> p.emails, marked |-> p.deleted]
    <3>1. ses[c] = old
      BY <2>3, HeldIsHold
    <3>2. Hold(q) = [ses[c] EXCEPT !.marked = @ \cup {p.arg}]
      BY <2>4, <3>1
    <3>3. [d \in Conn |-> HeldSession(d)'] = [ses EXCEPT ![c] = Hold(q)]
      BY <2>5, OneChanges
    <3>4. [d \in Conn |-> HeldSession(d)']
            = [ses EXCEPT ![c].marked = @ \cup {p.arg}]
      BY <3>2, <3>3
    <3>5. p.arg \in ses[c].seen \ ses[c].marked
      BY <2>1, <3>1
    <3>6. Drop!Mark(c, p.arg)
      BY <3>4, <3>5 DEF Drop!Mark
    <3> QED
      BY <2>1, <3>6 DEF Drop!Next
  <2> QED
    BY <1>2, <2>5, SettledHold
<1> QED
  BY <1>3, <1>4

\* RSET unmarks.
LEMMA RsetIsUnmark ==
  ASSUME IInv, NEW f \in Fd, RsetAction(f), UNCHANGED maildrop
  PROVE  Drop!Next
<1>1. PICK c \in Conn : c = Owner(f)
  BY ExecutingType DEF RsetAction
<1> DEFINE p == conn[c]
           q == [p EXCEPT !.deleted = {}]
<1>2. /\ p \in Sound /\ q \in Sound
      /\ Settles(c, With(Here, c, q).conn)
  BY <1>1, RsetStep
<1>3. Hold(q) = [Hold(p) EXCEPT !.marked = {}]
  <2>1. /\ q.st = p.st /\ q.pop3_protocol_state = p.pop3_protocol_state
        /\ q.user_s = p.user_s /\ q.emails = p.emails /\ q.deleted = {}
    BY <1>2 DEF Sound, Session
  <2> QED
    BY <2>1 DEF Hold, Locks
<1> HIDE DEF q
<1>4. CASE /\ Hold(conn'[c]) = Hold(q)
           /\ \A d \in Conn \ {c} : conn'[d] = conn[d]
  <2>1. Hold(q) = [HeldSession(c) EXCEPT !.marked = {}]
    BY <1>3, HeldIsHold
  <2>2. Drop!Unmark(c)
    BY <1>4, <2>1, OneChanges DEF Drop!Unmark
  <2> QED
    BY <2>2 DEF Drop!Next
<1> QED
  BY <1>2, <1>4, SettledHold

\* QUIT removes what the session marked and ends its hold.
LEMMA QuitIsCommit ==
  ASSUME IInv, NEW f \in Fd, QuitAction(f)
  PROVE  Drop!Next
<1>1. CASE Quiet /\ UNCHANGED maildrop
  BY <1>1, QuietEnds DEF Quiet
<1>2. CASE Quits(Owner(f))
  <2>1. PICK c \in Conn : c = Owner(f)
    BY ExecutingType DEF QuitAction
  <2>2. PICK u \in User : u = conn[c].user_s
    BY <1>2, <2>1 DEF Quits, IInv, LockOK
  <2>3. HeldSession(c).user = u /\ HeldSession(c).marked = conn[c].deleted
    BY <1>2, <2>1, <2>2, HeldIsHold DEF Quits, Hold
  <2>4. Hold(conn'[c]) = Drop!Idle
    BY <1>2, <2>1 DEF Quits, Hold, Drop!Idle
  <2>5. Drop!Commit(c, u)
    BY <1>2, <2>1, <2>2, <2>3, <2>4, OneChanges DEF Quits, Drop!Commit, Drop!Holds
  <2> QED
    BY <2>5 DEF Drop!Next
<1> QED
  BY <1>1, <1>2, QuitStep

\* Every step of the server is a step of Maildrop or none.
LEMMA MaildropStep == IInv /\ [Next]_vars => [Drop!Next]_(Drop!vars)
<1> SUFFICES ASSUME IInv, [Next]_vars PROVE [Drop!Next]_(Drop!vars)
  OBVIOUS
<1>1. ASSUME NEW f \in Fd, Handler(f) PROVE [Drop!Next]_(Drop!vars)
  <2>1. CASE QuitAction(f)
    BY <2>1, QuitIsCommit
  <2>2. CASE ~QuitAction(f)
    <3>1. UNCHANGED maildrop
      BY <1>1, <2>2 DEF Handler
    <3>2. CASE PassAction(f)
      BY <3>1, <3>2, PassIsLogin
    <3>3. CASE DeleAction(f)
      BY <3>1, <3>3, DeleIsMark
    <3>4. CASE RsetAction(f)
      BY <3>1, <3>4, RsetIsUnmark
    <3>5. CASE ~PassAction(f) /\ ~DeleAction(f) /\ ~RsetAction(f)
      BY <1>1, <2>2, <3>5, HandlerQuiet, QuietEnds DEF Quiet
    <3> QED
      BY <3>2, <3>3, <3>4, <3>5
  <2> QED
    BY <2>1, <2>2
<1>2. CASE Process
  BY <1>2, ProcessQuiet, QuietEnds DEF Quiet
<1>3. CASE Deliver
  <2>1. PICK u \in User, m \in Mail :
          /\ \A v \in User : m \notin maildrop[v]
          /\ maildrop' = [maildrop EXCEPT ![u] = @ \cup {m}]
    BY <1>3 DEF Deliver
  <2>2. [d \in Conn |-> HeldSession(d)'] = [d \in Conn |-> HeldSession(d)]
    BY <1>3, HeldIsHold DEF Deliver
  <2>3. Drop!Deliver(u, m)
    BY <2>1, <2>2 DEF Drop!Deliver
  <2> QED
    BY <2>3 DEF Drop!Next
<1>4. CASE UNCHANGED vars
  <2>1. [d \in Conn |-> HeldSession(d)'] = [d \in Conn |-> HeldSession(d)]
    BY <1>4, HeldIsHold DEF vars
  <2> QED
    BY <1>4, <2>1 DEF vars, Drop!vars
<1> QED
  BY <1>1, <1>2, <1>3, <1>4 DEF Next

\* The server starts as Maildrop does.
LEMMA MaildropInit == Init => Drop!Init
  BY HeldIsHold DEF Init, Drop!Init, Drop!Idle, Hold, Locks, Blank

\* The server implements Maildrop: a maildrop is one session's from PASS to its
\* end, QUIT removes exactly what that session marked, and no other end of a
\* session, no mix-up of descriptors and no shutdown removes a mail
\* (pop3.c:1101-1128, 605-618).
THEOREM ServerIsMaildrop == Spec => ImplementsMaildrop
  BY MaildropInit, MaildropStep, Invariant, PTL DEF Spec, ImplementsMaildrop, Drop!Spec

-----------------------------------------------------------------------------
(* What a session can rely on.                                             *)

\* What a session saw at its login is in the maildrop as long as it has it.
Stays ==
  \A c \in Conn, u \in User :
    Drop!Holds(c, u) => HeldSession(c).seen \subseteq maildrop[u]

\* Two sessions of Maildrop have different maildrops.
LEMMA DropExclusive ==
  ASSUME IInv, NEW c \in Conn, NEW d \in Conn, NEW u \in User,
         Drop!Holds(c, u), Drop!Holds(d, u)
  PROVE  c = d
<1>1. \A e \in Conn : Drop!Holds(e, u) => Locks(conn[e]) /\ conn[e].user_s = u
  BY HeldIsHold, ConstantsAssumption DEF Drop!Holds, Hold, ConstantsAssumption
<1> QED
  BY <1>1 DEF IInv, LockOK

\* A step of Maildrop takes mails from the session that quits only.
LEMMA StaysStep ==
  ASSUME IInv, Stays, [Drop!Next]_(Drop!vars)
  PROVE  Stays'
<1> DEFINE session == [c \in Conn |-> HeldSession(c)]
<1>1. /\ \A c \in Conn : session[c] = HeldSession(c) /\ session'[c] = HeldSession(c)'
      /\ DOMAIN session = Conn /\ maildrop \in [User -> SUBSET Mail]
  BY DEF IInv, TypeOK
<1>2. \A c \in Conn, u \in User : Drop!Holds(c, u) <=> HeldSession(c).user = u
  BY DEF Drop!Holds
<1>3. \A c \in Conn, u \in User : Drop!Holds(c, u)' <=> HeldSession(c)'.user = u
  BY DEF Drop!Holds
<1>4. Drop!Idle.user \notin User
  BY ConstantsAssumption DEF ConstantsAssumption, Drop!Idle
<1>5. ASSUME NEW c \in Conn, NEW u \in User, Drop!Login(c, u)
      PROVE  Stays'
  <2>1. PICK seen \in SUBSET maildrop[u] :
          /\ session' = [session EXCEPT ![c] = [user |-> u, seen |-> seen, marked |-> {}]]
          /\ maildrop' = maildrop
    BY <1>5 DEF Drop!Login
  <2>2. /\ HeldSession(c)'.user = u /\ HeldSession(c)'.seen = seen
        /\ \A d \in Conn \ {c} : HeldSession(d)' = HeldSession(d)
    <3> HIDE DEF session
    <3>1. /\ session'[c] = [user |-> u, seen |-> seen, marked |-> {}]
          /\ \A d \in Conn \ {c} : session'[d] = session[d]
      BY <1>1, <2>1
    <3> QED
      BY <1>1, <3>1
  <2> HIDE DEF session
  <2> QED
    BY <1>2, <1>3, <2>1, <2>2 DEF Stays
<1>6. ASSUME NEW c \in Conn, NEW u \in User, Drop!Commit(c, u)
      PROVE  Stays'
  <2>1. /\ HeldSession(c)' = Drop!Idle
        /\ \A d \in Conn \ {c} : HeldSession(d)' = HeldSession(d)
        /\ \A v \in User \ {u} : maildrop'[v] = maildrop[v]
    BY <1>1, <1>6 DEF Drop!Commit
  <2>2. \A d \in Conn \ {c} : ~Drop!Holds(d, u)
    BY <1>6, DropExclusive DEF Drop!Commit
  <2> HIDE DEF session
  <2> QED
    BY <1>2, <1>3, <1>4, <2>1, <2>2 DEF Stays
<1>7. ASSUME NEW c \in Conn, Drop!Unmark(c) \/ \E m \in Mail : Drop!Mark(c, m)
      PROVE  Stays'
  <2>1. \A d \in Conn : /\ HeldSession(d)'.user = HeldSession(d).user
                        /\ HeldSession(d)'.seen = HeldSession(d).seen
    <3>1. HeldSession(c) \in [user : {HeldSession(c).user}, seen : {HeldSession(c).seen},
                              marked : {HeldSession(c).marked}]
      BY HeldIsHold DEF Hold
    <3>2. /\ \A d \in Conn \ {c} : HeldSession(d)' = HeldSession(d)
          /\ \E M : HeldSession(c)' = [HeldSession(c) EXCEPT !.marked = M]
      BY <1>1, <1>7 DEF Drop!Unmark, Drop!Mark
    <3> HIDE DEF session
    <3> QED
      BY <3>1, <3>2
  <2>2. maildrop' = maildrop
    BY <1>7 DEF Drop!Unmark, Drop!Mark
  <2> HIDE DEF session
  <2> QED
    BY <1>2, <1>3, <2>1, <2>2 DEF Stays
<1>8. ASSUME NEW S \in SUBSET Conn, Drop!End(S) PROVE Stays'
  <2>1. /\ maildrop' = maildrop
        /\ \A d \in Conn : HeldSession(d)' \in {Drop!Idle, HeldSession(d)}
    BY <1>1, <1>8 DEF Drop!End
  <2> HIDE DEF session
  <2> QED
    BY <1>2, <1>3, <1>4, <2>1 DEF Stays
<1>9. ASSUME NEW u \in User, NEW m \in Mail, Drop!Deliver(u, m) PROVE Stays'
  <2>1. /\ \A v \in User : maildrop[v] \subseteq maildrop'[v]
        /\ \A d \in Conn : HeldSession(d)' = HeldSession(d)
    BY <1>1, <1>9 DEF Drop!Deliver
  <2> HIDE DEF session
  <2> QED
    BY <1>2, <1>3, <2>1 DEF Stays
<1>10. CASE UNCHANGED Drop!vars
  <2>1. maildrop' = maildrop /\ \A d \in Conn : HeldSession(d)' = HeldSession(d)
    BY <1>1, <1>10 DEF Drop!vars
  <2> HIDE DEF session
  <2> QED
    BY <1>2, <1>3, <2>1 DEF Stays
<1> QED
  BY <1>5, <1>6, <1>7, <1>8, <1>9, <1>10 DEF Drop!Next

\* Every mail that a session listed at PASS is in the maildir of its user as
\* long as the session has the maildrop.
ListedStays ==
  \A c \in Conn, u \in User : Holds(c, u) => conn[c].emails \subseteq maildrop[u]

\* RETR finds the mails of its listing (pop3.c:1028): no other session removes
\* one of them, however the sessions log in, quit and break.
THEOREM MailsStay == Spec => []ListedStays
<1>1. Init => Stays
  <2>1. Init => \A c \in Conn : Hold(conn[c]).user = NoUser
    BY DEF Init, Hold, Locks, Blank
  <2> QED
    BY <2>1, HeldIsHold, ConstantsAssumption DEF Stays, Drop!Holds, ConstantsAssumption
<1>2. IInv /\ Stays /\ [Next]_vars => Stays'
  BY MaildropStep, StaysStep
<1>3. Stays => ListedStays
  BY HeldIsHold DEF Stays, ListedStays, Holds, Alive, Hold, Locks, Drop!Holds
<1> QED
  BY <1>1, <1>2, <1>3, Invariant, PTL DEF Spec
=============================================================================
