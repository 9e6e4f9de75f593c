--------------------------- MODULE Pop3Properties ---------------------------
(***************************************************************************)
(* What Pop3Server is expected to satisfy.                                 *)
(***************************************************************************)
EXTENDS Pop3Server

\* Every variable has its type.
TypeOK ==
  /\ items \in [Fd -> [conn : Conn \cup {NoConn}, interest : Interest]]
  /\ kernel \in [Fd -> [kind : {"closed", "socket", "file"}, left : Nat]]
  /\ conn \in [Conn -> Session]
  /\ current \in 0..(Word - 1)
  /\ logged \in [User -> BOOLEAN]
  /\ maildrop \in [User -> SUBSET Mail]
  /\ errno \in Errors
  /\ server \in {"running", "closing"} \cup Halted

Alive(c) == conn[c].st \notin {"UNUSED", "FINISHED"}
Items(c) == {f \in Fd : Owner(f) = c}

\* A session in TRANSACTION has the maildrop of its user until it finishes.
Holds(c, u) ==
  /\ Alive(c)
  /\ conn[c].pop3_protocol_state = "TRANSACTION"
  /\ conn[c].user_s = u

\* Two sessions never work on the maildrop of one user at the same time: what
\* the test of logged in pass_action (pop3.c:746) is for, whatever order the
\* two sessions log in, quit and break in.
ExclusiveMaildrop ==
  \A u \in User, c, d \in Conn : Holds(c, u) /\ Holds(d, u) => c = d

\* While the server runs, a maildrop is marked as taken exactly while a session
\* has it: no end of a session (pop3.c:607-611, 1123) leaves it locked, or frees
\* somebody else's.
LockMatchesHolder ==
  Running => \A u \in User : logged[u] <=> \E c \in Conn : Holds(c, u)

\* A session object has one reference less than descriptors in the selector,
\* so pop3_close (pop3.c:447) frees it with its last descriptor, never before.
References ==
  \A c \in Conn :
    IF conn[c] = Blank THEN Items(c) = {}
    ELSE conn[c].references + 1 = Cardinality(Items(c))

\* The sessions that exist.
Sessions == {c \in Conn : conn[c] # Blank}

\* current_connections counts the sessions that exist (pop3.c:346, 414).
CountMatches ==
  current = Cardinality(Sessions) % Word

\* Whatever is accepted, refused, broken or shut down, a step of the server moves
\* the metric by as many as the sessions that begin and end in it; a step that
\* leaves the sessions as they are leaves it alone, but for an accept that is
\* refused, which takes one away (pop3.c:358, 414).
CountFollows ==
  [][\/ Accept /\ UNCHANGED conn /\ current' = Decreased(current)
     \/ current' = (current + Cardinality(Sessions') - Cardinality(Sessions)) % Word]_vars

\* No step of the server ends the process other than through its shutdown.
NeverHalts == server \in {"running", "closing", "stopped"}

\* The selector dispatches a session through one descriptor at a time, the one
\* its state machine has a handler for: were the socket and the file of a
\* session dispatched in the same state, stm.c:70 or stm.c:88 would abort.
OneInterest ==
  \A c \in Conn :
    Running /\ Alive(c) =>
      {f \in Items(c) : items[f].interest # "NOOP"} =
        {IF conn[c].st = "PROCESSING_RESPONSE" THEN conn[c].file_fd
                                               ELSE conn[c].connection_fd}
      /\ \A f \in Items(c) :
           /\ items[f].interest = "READ" =>
                conn[c].st \in {"READING_REQUEST", "PROCESSING_RESPONSE"}
           /\ items[f].interest = "WRITE" =>
                conn[c].st \in {"HELLO", "WRITING_RESPONSE", "ERROR"}

\* A command starts with an empty output buffer, whatever was pipelined before
\* it (pop3.c:736: "no deberia pasar nunca").
FreshOutput ==
  \A c \in Conn :
    /\ conn[c].st = "WRITING_RESPONSE" /\ ~conn[c].finished
    /\ conn[c].multiline_state = "FIRST_LINE"
    => conn[c].info_write_buff = Fresh

\* No byte of a mail is left in the file buffer when the next RETR starts.
NoStaleFile ==
  \A c \in Conn :
    conn[c].multiline_state = "FIRST_LINE" => conn[c].info_file_buff = Fresh

\* A descriptor is open exactly while the selector has it: none leaks, and none
\* is watched after it was closed.
DescriptorsTracked ==
  \A f \in Fd : kernel[f].kind # "closed" <=> Registered(Here, f)

\* While the server runs, a session whose connection was closed is freed
\* (pop3.c:445-446): no reference is left behind.
SessionFreed == Running => \A c \in Conn : conn[c].st # "FINISHED"

\* Shutdown releases every session and every descriptor, in whatever state the
\* sessions are (pop3.c:310).
ShutdownReleases ==
  server = "stopped" =>
    /\ \A c \in Conn : conn[c] = Blank
    /\ \A f \in Fd : kernel[f] = Closed
    /\ current = 0

\* finish_connection never aborts: the file it unregisters is registered
\* (pop3.c:613, 1070).
FinishFindsItsFile == server # "abort"

\* Every session can have a socket and a mail open, and one can open a directory
\* and a mail meanwhile (pop3.c:1020, 1028).
DescriptorsSuffice == IsFiniteSet(Conn) /\ 2 * Cardinality(Conn) < FdLimit

\* The process does not end because a mail could not be opened: only its
\* connection is closed (pop3.c:1046: "cerramos la conexion, no pudimos abrir el
\* archivo").
MailFailureClosesOnlyItsSession == server # "exit"

\* The byte stuffing loop of a RETR is never entered with a full output buffer and
\* bytes of the mail to move, the one state in which write_max - 1 wraps around.
RoomToStuff ==
  \A c \in Conn :
    /\ conn[c].st = "WRITING_RESPONSE" /\ ~conn[c].finished
    /\ conn[c].command = "RETR" /\ conn[c].multiline_state = "MULTILINE"
    /\ CanRead(conn[c].info_file_buff)
    => WriteSpace(conn[c].info_write_buff, WriteLimit) > 0

\* Every send() of a session takes all it is given, so a call of the handler
\* starts with its output buffer as if nothing had been written to it.
WholeSends == \A c \in Conn : conn[c].info_write_buff.r = 0

\* The byte stuffing loop always has room for the dot it may add
\* (pop3.c:973), so buffer_write_adv stays inside the buffer (buffer.c:53).
StuffingFits == server # "assert"

-----------------------------------------------------------------------------
(* Pop3Server implements Maildrop: the session of Maildrop is what a        *)
(* session object holds while it has a maildrop.                            *)

HeldSession(c) ==
  IF Alive(c) /\ conn[c].pop3_protocol_state = "TRANSACTION"
  THEN [user |-> conn[c].user_s, seen |-> conn[c].emails, marked |-> conn[c].deleted]
  ELSE [user |-> NoUser, seen |-> {}, marked |-> {}]

Drop == INSTANCE Maildrop WITH session <- [c \in Conn |-> HeldSession(c)]

\* Every step of the server is a step of Maildrop or changes nothing of it:
\* mails disappear only by QUIT, only the marked ones, only from the maildrop
\* of the session, however the other sessions end or break meanwhile.
ImplementsMaildrop == Drop!Spec

-----------------------------------------------------------------------------
(* Liveness, checked under the fairness of the loop (EventLoop).           *)

\* A command that was accepted is answered in full or its session ends: RETR
\* and LIST do not stay forever between the socket and the file.
CommandCompletes ==
  \A c \in Conn :
    conn[c].multiline_state # "FIRST_LINE"
      ~> (conn[c].multiline_state = "FIRST_LINE" \/ ~Running)

\* A session that is to be closed after its last line is closed.
QuitCloses ==
  \A c \in Conn : conn[c].st = "ERROR" ~> (conn[c] = Blank \/ ~Running)
=============================================================================
