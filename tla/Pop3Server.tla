----------------------------- MODULE Pop3Server -----------------------------
(***************************************************************************)
(* The POP3 server of src/server: the sessions (pop3.c), the state machine *)
(* that drives each of them (stm.c), the descriptor table of the selector  *)
(* that dispatches them (selector.c) and the kernel's descriptor table,    *)
(* which hands out the lowest free number and so lets a stale number name  *)
(* somebody else's descriptor.                                             *)
(*                                                                         *)
(* The program has one thread: a handler called by the selector runs to    *)
(* its end, so a handler is one action.  Sessions interleave at handlers.  *)
(* Bytes are counted, never spelled: a reply of one line is ReplyLen       *)
(* bytes, a mail is Size[m] bytes.  The descriptors the server opened at   *)
(* start are left out; Fd are the numbers that remain.                     *)
(***************************************************************************)
EXTENDS Integers, FiniteSets, FiniteSetsExt, Buffer, ByteStuffing

CONSTANTS
  Conn,        \* the session objects; bounds how many can exist at once
  User,        \* the users given on the command line
  Mail,        \* mails, as files of some maildir
  Mailbox,     \* the mails of each user when the server starts
  Size,        \* the length of each mail, in bytes
  MaxMails,    \* pop3args.max_mails: how many mails a session may see
  FdLimit,     \* descriptors the process can still open (ulimit -n)
  ItemsMax,    \* descriptors the selector can index (ITEMS_MAX_SIZE)
  WriteLimit,  \* size of the output buffer of a session
  FileLimit,   \* size of the file buffer of a session
  ReplyLen,    \* length of a reply line, the greeting included
  LineLen,     \* length of a line of LIST
  EndLen,      \* length of ".\r\n", which ends LIST
  TermLen,     \* length of "\r\n.\r\n", which ends RETR
  Word,        \* the counters of the metrics wrap at this value
  Faults,      \* whether connections break and reads of files fail
  Requests,    \* the requests the clients send: records [command, arg]
  ErrorsLeft,  \* what calls other than the strtol of a session leave in errno
  NoConn, NoUser, NoArg,  \* an unused item, no user, no argument
  Wrong,       \* an argument that names no user, no password and no mail
  Huge         \* a number that strtol cannot represent

Fd == 1..FdLimit
State == {"UNUSED", "HELLO", "READING_REQUEST", "WRITING_RESPONSE",
          "PROCESSING_RESPONSE", "FINISHED", "ERROR"}
Command == {"USER", "PASS", "STAT", "LIST", "RETR", "DELE", "NOOP", "RSET",
            "QUIT", "CAPA", "ERROR_COMMAND"}
Arg == User \cup Mail \cup {NoArg, Wrong, Huge}
Interest == {"NOOP", "READ", "WRITE"}
Halted == {"stopped", "abort", "exit", "assert", "undefined"}

\* What errno may hold, and what of it the commands take for a bad number.
BadNumber == {"EINVAL", "ERANGE"}
Errors == BadNumber \cup {"OTHER"}

\* The calls of a session that fail leave no ERANGE: that is strtol's, which the
\* administration calls too.
Failed == ErrorsLeft \ {"ERANGE"}

ASSUME ConstantsAssumption ==
  /\ NoConn \notin Conn
  /\ NoUser \notin User
  /\ Mailbox \in [User -> SUBSET Mail]
  /\ Size \in [Mail -> Nat]
  /\ Requests \subseteq [command : Command, arg : Arg]
  /\ IsFiniteSet(Mail)
  /\ {MaxMails, FdLimit, ItemsMax} \subseteq Nat
  /\ {FileLimit, ReplyLen, LineLen, EndLen, TermLen, Word} \subseteq Nat \ {0}
  /\ WriteLimit \in Nat /\ ReplyLen <= WriteLimit
  /\ Faults \in BOOLEAN
  /\ ErrorsLeft \subseteq Errors /\ "OTHER" \in ErrorsLeft

VARIABLES
  items,     \* selector: which session a descriptor serves, and its interest
  kernel,    \* what each descriptor number names, and the bytes left in a file
  conn,      \* the session objects
  current,   \* current_connections
  logged,    \* user_t.logged: the maildrop of the user is taken
  maildrop,  \* the mails in the maildir of each user
  errno,     \* what the last failing call of the process left
  server     \* the process: running, closing, or how it ended

vars == <<items, kernel, conn, current, logged, maildrop, errno, server>>

Unused == [conn |-> NoConn, interest |-> "NOOP"]
Closed == [kind |-> "closed", left |-> 0]
Blank ==   \* a session object that is not allocated
  [st |-> "UNUSED", pop3_protocol_state |-> "AUTHORIZATION",
   command |-> "NOOP", arg |-> NoArg, finished |-> FALSE,
   user_s |-> NoUser, emails |-> {}, deleted |-> {},
   multiline_state |-> "FIRST_LINE", mail_index |-> 0,
   file_opened |-> FALSE, file_ended |-> FALSE, file_fd |-> 0,
   info_write_buff |-> Fresh, info_file_buff |-> Fresh,
   references |-> 0, error_written |-> FALSE, connection_fd |-> 0]

Session ==
  [st : State, pop3_protocol_state : {"AUTHORIZATION", "TRANSACTION"},
   command : Command, arg : Arg, finished : BOOLEAN,
   user_s : User \cup {NoUser}, emails : SUBSET Mail, deleted : SUBSET Mail,
   multiline_state : {"FIRST_LINE", "MULTILINE", "END_LINE"}, mail_index : Nat,
   file_opened : BOOLEAN, file_ended : BOOLEAN, file_fd : Fd \cup {0},
   info_write_buff : Buffers(WriteLimit), info_file_buff : Buffers(FileLimit),
   references : Nat, error_written : BOOLEAN, connection_fd : Fd \cup {0}]

\* pop3_create: the greeting waits in the output buffer.
NewSession(f) ==
  [Blank EXCEPT !.st = "HELLO", !.connection_fd = f,
                !.info_write_buff = WriteAdv(Fresh, ReplyLen)]

\* Mutation: file_opened survives the command.
ResetStructuresPartly(p) == [p EXCEPT !.multiline_state = "FIRST_LINE", !.mail_index = 0]

\* reset_structures
ResetStructures(p) ==
  [p EXCEPT !.multiline_state = "FIRST_LINE", !.mail_index = 0,
            !.file_opened = FALSE, !.file_ended = FALSE, !.file_fd = 0]

-----------------------------------------------------------------------------
(* The selector and pop3_close, as functions of the state they change.     *)

Here == [items |-> items, kernel |-> kernel, conn |-> conn, current |-> current]
Become(S) ==
  /\ items' = S.items
  /\ kernel' = S.kernel
  /\ conn' = S.conn
  /\ current' = S.current

With(S, c, p) == [S EXCEPT !.conn[c] = p]

\* Mutation: pop3_destroy does not count the connection out.
DecreasedNot(n) == n

Increased(n) == IF n + 1 = Word THEN 0 ELSE n + 1
Decreased(n) == IF n = 0 THEN Word - 1 ELSE n - 1

Registered(S, f) == f \in Fd /\ S.items[f].conn # NoConn

\* selector_register refuses a number it cannot index and one it has already.
Refuses(S, f) == f > ItemsMax \/ Registered(S, f)

Register(S, f, c, i) ==
  IF Refuses(S, f) THEN S
  ELSE [S EXCEPT !.items[f] = [conn |-> c, interest |-> i]]

\* selector_set_interest
SetInterest(S, f, i) ==
  IF Registered(S, f) THEN [S EXCEPT !.items[f].interest = i] ELSE S

\* Mutation: the socket stays selected.
SuspendForgotten(S, f) == S

\* write_response takes the socket out of the selection before it goes to the
\* file, or before it closes.
Suspend(S, f) == SetInterest(S, f, "NOOP")

\* Mutations: the reference is not dropped; the last but one frees the session.
CloseSessionKeeps(S, c) ==
  IF S.conn[c].references = 0
  THEN [S EXCEPT !.conn[c] = Blank, !.current = Decreased(@)]
  ELSE S
CloseSessionEarly(S, c) ==
  IF S.conn[c].references <= 1
  THEN [S EXCEPT !.conn[c] = Blank, !.current = Decreased(@)]
  ELSE [S EXCEPT !.conn[c].references = @ - 1]

\* pop3_close: the last reference frees the session, and the metric follows.
CloseSession(S, c) ==
  IF S.conn[c].references = 0
  THEN [S EXCEPT !.conn[c] = Blank, !.current = Decreased(@)]
  ELSE [S EXCEPT !.conn[c].references = @ - 1]

\* Mutation: the handler does not close the descriptor.
UnregisterOpen(S, f) ==
  [CloseSession(S, S.items[f].conn) EXCEPT !.items[f] = Unused]

\* selector_unregister_fd: handle_close runs for whoever owns the item.
Unregister(S, f) ==
  LET C == CloseSession(S, S.items[f].conn)
  IN  [C EXCEPT !.items[f] = Unused, !.kernel[f] = Closed]

Halt(how, S) == server' = how /\ Become(S)

\* Mutations: no end of a session frees the maildrop; any end does, when a
\* user was named.
ReleasedNever(p, lg) == lg
ReleasedAlways(p, lg) ==
  IF p.user_s # NoUser THEN [lg EXCEPT ![p.user_s] = FALSE] ELSE lg

\* finish_connection frees the maildrop of a session in TRANSACTION.
Released(p, lg) ==
  IF p.pop3_protocol_state = "TRANSACTION" THEN [lg EXCEPT ![p.user_s] = FALSE] ELSE lg

\* What jump and finish_connection do when a handler of c returns FINISHED.
\* S is the state as that handler leaves it, lg the logged bits.
Finish(c, S, lg) ==
  LET p     == S.conn[c]
      F     == With(S, c, [p EXCEPT !.st = "FINISHED"])
      file  == p.pop3_protocol_state = "TRANSACTION" /\ p.file_opened
      G     == IF file THEN Unregister(F, p.file_fd) ELSE F
      freed == G.conn[c] = Blank
  IN  /\ logged' = Released(p, lg)
      /\ \/ /\ file /\ ~Registered(F, p.file_fd)
            /\ Halt("abort", F)
         \/ /\ file => Registered(F, p.file_fd)
            /\ \/ freed /\ Halt("undefined", G)
               \/ ~freed /\ ~Registered(G, p.connection_fd) /\ Halt("abort", G)
               \/ /\ ~freed /\ Registered(G, p.connection_fd)
                  /\ Become(Unregister(G, p.connection_fd))
                  /\ UNCHANGED server

-----------------------------------------------------------------------------
(* Dispatch: handle_iteration calls the handler of a ready descriptor, and *)
(* the state machine picks the function for the state of its session.      *)

Running == server = "running"
Owner(f) == items[f].conn

Ready(f, i, st) ==
  /\ Running
  /\ Owner(f) # NoConn
  /\ items[f].interest = i
  /\ conn[Owner(f)].st = st

\* The bytes one send() may accept: at least one, when there are any.  Only a
\* socket accepts them.
Sent(f, b) ==
  IF kernel[f].kind # "socket" THEN {}
  ELSE IF CanRead(b) THEN 1..ReadSpace(b) ELSE {0}

\* get_command, the argument check of the command and
\* check_command_for_protocol_state: what a parsed request is executed as.
Accepted(state, r) ==
  /\ CASE r.command \in {"USER", "PASS", "RETR", "DELE"} -> r.arg # NoArg
       [] r.command = "LIST" -> TRUE
       [] OTHER -> r.arg = NoArg
  /\ IF state = "AUTHORIZATION"
     THEN r.command \in {"QUIT", "USER", "PASS", "CAPA"}
     ELSE r.command \notin {"USER", "PASS"}

Parsed(p, r) ==
  LET ok == Accepted(p.pop3_protocol_state, r)
  IN  [p EXCEPT !.st = "WRITING_RESPONSE",
                !.command = IF ok THEN r.command ELSE "ERROR_COMMAND",
                !.arg = IF ok THEN r.arg ELSE NoArg]

HelloWrite(f) ==
  LET c == Owner(f)
      p == conn[c]
  IN  /\ Ready(f, "WRITE", "HELLO")
      /\ \/ /\ Faults
            /\ errno' \in Failed
            /\ Finish(c, Here, logged)
         \/ \E n \in Sent(f, p.info_write_buff) :
              LET b == ReadAdv(p.info_write_buff, n)
                  q == [p EXCEPT !.info_write_buff = b]
              IN  /\ IF CanRead(b) THEN Become(With(Here, c, q))
                     ELSE Become(SetInterest(With(Here, c,
                                   [q EXCEPT !.st = "READING_REQUEST"]), f, "READ"))
                  /\ UNCHANGED <<logged, errno, server>>

\* read_request; a call that completes no request changes nothing kept here.
ReadRequest(f) ==
  LET c == Owner(f)
  IN  /\ Ready(f, "READ", "READING_REQUEST")
      /\ \/ /\ Faults
            /\ errno' \in {errno} \cup Failed    \* end of input, or an error
            /\ Finish(c, Here, logged)
         \/ \E r \in Requests :
              /\ kernel[f].kind = "socket"
              /\ Become(SetInterest(With(Here, c, Parsed(conn[c], r)), f, "WRITE"))
              /\ UNCHANGED <<logged, errno, server>>

-----------------------------------------------------------------------------
(* write_response: an action of the current command, then one send().      *)

Executing(f, k) ==
  /\ Ready(f, "WRITE", "WRITING_RESPONSE")
  /\ ~conn[Owner(f)].finished
  /\ conn[Owner(f)].command = k

\* The tail of write_response, with session p, logged bits lg and errno e as
\* the action of the command leaves them.  When the reply is complete, a
\* request that is already in the input buffer is taken at once.
Send(f, p, lg, e) ==
  LET c == Owner(f)
  IN  \/ /\ Faults \/ kernel[f].kind # "socket"
         /\ errno' \in Failed
         /\ Finish(c, With(Here, c, p), lg)
      \/ \E n \in Sent(f, p.info_write_buff) :
           LET b       == ReadAdv(p.info_write_buff, n)
               drained == ~CanRead(b) /\ p.finished
               q       == [p EXCEPT !.info_write_buff = b,
                                    !.finished = p.finished /\ ~drained]
           IN  /\ \/ /\ ~drained
                     /\ Become(With(Here, c, q))
                  \/ /\ drained
                     /\ \E r \in Requests : Become(With(Here, c, Parsed(q, r)))
                  \/ /\ drained
                     /\ Become(SetInterest(With(Here, c,
                                 [q EXCEPT !.st = "READING_REQUEST"]), f, "READ"))
               /\ errno' = e
               /\ logged' = lg
               /\ UNCHANGED server

\* The action returned FINISHED: the interest is dropped, then the session.
Leave(f, p, lg, e) ==
  /\ errno' = e
  /\ Finish(Owner(f), Suspend(With(Here, Owner(f), p), f), lg)

Wrote(p, n) == [p EXCEPT !.info_write_buff = WriteAdv(@, n)]
Fits(p, n) == n <= WriteSpace(p.info_write_buff, WriteLimit)

\* A reply of one line.  try_write writes all of it or nothing; p is the
\* session when it does not fit, q (before the line is added) when it does.
Reply(f, p, q, lg, e) ==
  IF Fits(p, ReplyLen)
  THEN Send(f, [Wrote(q, ReplyLen) EXCEPT !.finished = TRUE], lg, e)
  ELSE Leave(f, p, lg, e)

ReplyOnly(f) == Reply(f, conn[Owner(f)], conn[Owner(f)], logged, errno)

StatAction(f) == Executing(f, "STAT") /\ ReplyOnly(f)
NoopAction(f) == Executing(f, "NOOP") /\ ReplyOnly(f)
CapaAction(f) == Executing(f, "CAPA") /\ ReplyOnly(f)
DefaultAction(f) == Executing(f, "ERROR_COMMAND") /\ ReplyOnly(f)

UserAction(f) ==
  LET p == conn[Owner(f)]
      q == IF p.arg \in User THEN [p EXCEPT !.user_s = p.arg] ELSE p
  IN  /\ Executing(f, "USER")
      /\ Reply(f, q, q, logged, errno)

\* What read_maildir can return: all the mails, or as many as max_mails.
Listings(box) ==
  LET n == Cardinality(box)
  IN  kSubset(IF n > MaxMails THEN MaxMails ELSE n, box)

Free == {f \in Fd : kernel[f].kind = "closed"}

\* Mutation: logged is not tested.
GrantedTwice(p) == p.user_s # NoUser /\ p.arg = p.user_s

\* The argument of PASS stands for the user whose password it is.
Granted(p) == p.user_s # NoUser /\ p.arg = p.user_s /\ ~logged[p.user_s]

\* Mutation: the socket is taken out of the selection as for the file.
ToErrorMuted(S, c) ==
  [S EXCEPT !.conn[c].st = "ERROR", !.items[S.conn[c].connection_fd].interest = "NOOP"]

\* An action returned ERROR: the socket stays selected for the last line.
ToError(S, c) == [S EXCEPT !.conn[c].st = "ERROR"]

\* Opening the maildir fails when it cannot be read or no descriptor is left.
PassAction(f) ==
  LET c  == Owner(f)
      p  == conn[c]
      u  == p.user_s
      lg == [logged EXCEPT ![u] = TRUE]
      q  == [p EXCEPT !.pop3_protocol_state = "TRANSACTION"]
  IN  /\ Executing(f, "PASS")
      /\ \/ /\ ~Granted(p)
            /\ ReplyOnly(f)
         \/ /\ Granted(p)
            /\ Become(ToError(With(Here, c, q), c))
            /\ errno' \in Failed
            /\ logged' = lg
            /\ UNCHANGED server
         \/ /\ Granted(p)
            /\ Free # {}
            /\ \E listing \in Listings(maildrop[u]) :
                 LET r == [q EXCEPT !.emails = listing]
                 IN  Reply(f, r, ResetStructures(r), lg, errno)

\* strtol reports a number it cannot represent in errno.  Nobody clears errno
\* before, so the tests that follow see what any earlier call left there.
Parse(arg) == IF arg = Huge THEN "ERANGE" ELSE errno
Present(p) == p.emails \ p.deleted

DeleAction(f) ==
  LET p == conn[Owner(f)]
      q == IF Parse(p.arg) \notin BadNumber /\ p.arg \in Present(p)
           THEN [p EXCEPT !.deleted = @ \cup {p.arg}] ELSE p
  IN  /\ Executing(f, "DELE")
      /\ Reply(f, q, q, logged, Parse(p.arg))

RsetAction(f) ==
  LET q == [conn[Owner(f)] EXCEPT !.deleted = {}]
  IN  /\ Executing(f, "RSET")
      /\ Reply(f, q, q, logged, errno)

\* LIST n is a reply of one line, whatever n is.
ListOne(f) ==
  LET p == conn[Owner(f)]
  IN  /\ Executing(f, "LIST")
      /\ p.arg # NoArg
      /\ Reply(f, p, ResetStructures(p), logged, Parse(p.arg))

\* LIST: as many lines as fit now, the rest when the buffer has room again.
ListAll(f) ==
  LET p     == conn[Owner(f)]
      first == p.multiline_state = "FIRST_LINE"
      p1    == IF first THEN Wrote(p, ReplyLen) ELSE p
      todo  == Cardinality(Present(p)) - p.mail_index
  IN  /\ Executing(f, "LIST")
      /\ p.arg = NoArg
      /\ IF first /\ ~Fits(p, ReplyLen) THEN Leave(f, p, logged, errno) ELSE
           \E n \in 0..todo :
             /\ Fits(p1, n * LineLen)
             /\ n < todo => ~Fits(p1, (n + 1) * LineLen)
             /\ LET p2 == Wrote(p1, n * LineLen)
                IN  Send(f, IF n < todo THEN [p2 EXCEPT !.multiline_state = "MULTILINE",
                                                        !.mail_index = @ + n]
                            ELSE IF Fits(p2, EndLen)
                            THEN [ResetStructures(Wrote(p2, EndLen)) EXCEPT
                                    !.finished = TRUE]
                            ELSE [p2 EXCEPT !.multiline_state = "END_LINE",
                                            !.mail_index = @ + n],
                         logged, errno)

-----------------------------------------------------------------------------
(* RETR: the session alternates between the socket and the file.           *)

\* process_open_file, first arrival.  The directory takes the lowest free
\* descriptor and the mail the next one; the result of selector_register is
\* ignored.  When either open fails, the process exits.
OpenFile(f, p, e) ==
  LET c == Owner(f)
      q == [p EXCEPT !.st = "PROCESSING_RESPONSE"]
      S == Suspend(With(Here, c, q), f)
  IN  /\ UNCHANGED logged
      /\ \/ /\ Cardinality(Free) < 2 \/ p.arg \notin maildrop[p.user_s]
            /\ errno' \in Failed
            /\ Halt("exit", S)
         \/ \E d \in Free : \E g \in Free \ {d} :
              /\ \A h \in Free : d <= h /\ (h = d \/ g <= h)
              /\ p.arg \in maildrop[p.user_s]
              /\ LET F == [Register(S, g, c, "READ") EXCEPT
                              !.kernel[g] = [kind |-> "file", left |-> Size[p.arg]]]
                 IN  Become(With(F, c, [q EXCEPT !.file_fd = g, !.file_opened = TRUE,
                                                 !.references = @ + 1]))
              /\ errno' = e
              /\ UNCHANGED server

\* RETR n for a number or a message that cannot be sent.
RetrError(f) ==
  LET p == conn[Owner(f)]
  IN  /\ Executing(f, "RETR")
      /\ \/ Parse(p.arg) \in BadNumber
         \/ p.multiline_state = "FIRST_LINE" /\ p.arg \notin Present(p)
      /\ Reply(f, p, ResetStructures(p), logged, Parse(p.arg))

RetrFirst(f) ==
  LET p == conn[Owner(f)]
  IN  /\ Executing(f, "RETR")
      /\ Parse(p.arg) \notin BadNumber
      /\ p.multiline_state = "FIRST_LINE" /\ p.arg \in Present(p)
      /\ IF Fits(p, ReplyLen)
         THEN OpenFile(f, [Wrote(p, ReplyLen) EXCEPT !.multiline_state = "MULTILINE"],
                       errno)
         ELSE Leave(f, p, logged, errno)

\* The file buffer is empty and the file is not: back to reading it.
NeedsFile(p) == ~CanRead(p.info_file_buff) /\ ~p.file_ended

RetrMore(f) ==
  LET c == Owner(f)
      p == conn[c]
  IN  /\ Executing(f, "RETR")
      /\ Parse(p.arg) \notin BadNumber
      /\ p.multiline_state = "MULTILINE" /\ NeedsFile(p)
      /\ Become(SetInterest(
           Suspend(With(Here, c, [p EXCEPT !.st = "PROCESSING_RESPONSE"]), f),
           p.file_fd, "READ"))
      /\ UNCHANGED <<logged, errno, server>>

\* Mutation: the test is inverted, so that the end comes with the first chunk.
ExhaustedEarly(p) == CanRead(p.info_file_buff) \/ ~p.file_ended

\* All the bytes of the file went to the output buffer.
Exhausted(p) == ~CanRead(p.info_file_buff) /\ p.file_ended

RetrCopy(f) ==
  LET p     == conn[Owner(f)]
      avail == ReadSpace(p.info_file_buff)
      space == WriteSpace(p.info_write_buff, WriteLimit)
  IN  /\ Executing(f, "RETR")
      /\ Parse(p.arg) \notin BadNumber
      /\ \/ p.multiline_state = "END_LINE"
         \/ p.multiline_state = "MULTILINE" /\ ~NeedsFile(p)
      /\ IF p.multiline_state = "MULTILINE" /\ space = 0 /\ avail > 0
         THEN \* write_max - 1 wraps around: the loop writes past the buffer
              /\ Halt("assert", Here)
              /\ UNCHANGED <<logged, errno>>
         ELSE \E m \in IF p.multiline_state = "END_LINE" THEN {<<0, 0>>}
                       ELSE Moves(avail, space) :
                LET p1   == [Wrote(p, m[1] + m[2]) EXCEPT
                               !.info_file_buff = ReadAdv(@, m[1])]
                    done == p.multiline_state = "END_LINE" \/ Exhausted(p1)
                    p2   == IF done /\ Fits(p1, TermLen)
                            THEN [ResetStructures(Wrote(p1, TermLen)) EXCEPT
                                    !.finished = TRUE]
                            ELSE IF done THEN [p1 EXCEPT !.multiline_state = "END_LINE"]
                            ELSE p1
                IN  Send(f, p2, logged, errno)

\* Mutation: the socket is not selected again.
BackToSocketMuted(S, p) == SetInterest(S, p.file_fd, "NOOP")

\* The socket is selected again and the file is not.
BackToSocket(S, p) ==
  SetInterest(SetInterest(S, p.connection_fd, "WRITE"), p.file_fd, "NOOP")

\* read() of at most space bytes: all that is left of a file or the space, any
\* number from a descriptor that is no file.
CanReadOf(f, space, n) ==
  kernel[f].kind = "file" => n <= kernel[f].left /\ n \in {space, kernel[f].left}

Consumed(S, f, n) ==
  IF S.kernel[f].kind = "file" THEN [S EXCEPT !.kernel[f].left = @ - n] ELSE S

Filled(p, n) ==
  [p EXCEPT !.file_ended = @ \/ n = 0, !.info_file_buff = WriteAdv(@, n)]

\* The rest of process_response: when nothing was read the file is over, and
\* its descriptor is unregistered.
AfterFile(c, S) ==
  LET p == S.conn[c]
      V == BackToSocket(S, p)
      W == IF p.file_ended THEN Unregister(V, p.file_fd) ELSE V
  IN  \/ /\ ~Registered(S, p.connection_fd)
         /\ Finish(c, S, logged)
      \/ /\ Registered(S, p.connection_fd) /\ ~Registered(S, p.file_fd)
         /\ Finish(c, V, logged)
      \/ /\ Registered(S, p.connection_fd) /\ Registered(S, p.file_fd)
         /\ UNCHANGED logged
         /\ IF W.conn[c] = Blank THEN Halt("undefined", W)
            ELSE /\ Become(With(W, c, [W.conn[c] EXCEPT !.st = "WRITING_RESPONSE"]))
                 /\ UNCHANGED server

\* process_response reads key->fd, the file, into the file buffer.
ProcessResponse(f) ==
  LET c == Owner(f)
      p == conn[c]
      space == WriteSpace(p.info_file_buff, FileLimit)
  IN  /\ Ready(f, "READ", "PROCESSING_RESPONSE")
      /\ \/ /\ ~p.file_opened
            /\ UNCHANGED errno
            /\ Finish(c, Here, logged)
         \/ /\ p.file_opened /\ Faults
            /\ errno' \in Failed
            /\ Finish(c, Here, logged)
         \/ /\ p.file_opened
            /\ UNCHANGED errno
            /\ \E n \in 0..space :
                 /\ CanReadOf(f, space, n)
                 /\ AfterFile(c, Consumed(With(Here, c, Filled(p, n)), f, n))

SendRest(f) ==
  LET p == conn[Owner(f)]
  IN  /\ Ready(f, "WRITE", "WRITING_RESPONSE")
      /\ p.finished
      /\ Send(f, p, logged, errno)

-----------------------------------------------------------------------------
(* The end of a session.                                                    *)

\* Mutation: QUIT removes every mail the session listed.
KeptNone(box, p) == box \ p.emails

\* The mails that stay when a session quits.
Kept(box, p) == box \ p.deleted

\* QUIT in TRANSACTION frees the maildrop and removes the marked mails, unless
\* the maildir cannot be opened.
QuitAction(f) ==
  LET c  == Owner(f)
      p  == conn[c]
      u  == p.user_s
  IN  /\ Executing(f, "QUIT")
      /\ \/ /\ p.pop3_protocol_state = "AUTHORIZATION"
            /\ Become(ToError(Here, c))
            /\ UNCHANGED <<logged, errno, server, maildrop>>
         \/ /\ p.pop3_protocol_state = "TRANSACTION"
            /\ \E e \in Failed : Leave(f, p, [logged EXCEPT ![u] = FALSE], e)
            /\ UNCHANGED maildrop
         \/ /\ p.pop3_protocol_state = "TRANSACTION"
            /\ Free # {}
            /\ Become(ToError(With(Here, c,
                 [p EXCEPT !.pop3_protocol_state = "AUTHORIZATION"]), c))
            /\ logged' = [logged EXCEPT ![u] = FALSE]
            /\ maildrop' = [maildrop EXCEPT ![u] = Kept(@, p)]
            /\ UNCHANGED <<errno, server>>

\* finish_error: the last line, then the connection is closed.
FinishError(f) ==
  LET c == Owner(f)
      p == conn[c]
      q == IF ~p.error_written /\ Fits(p, ReplyLen)
           THEN [Wrote(p, ReplyLen) EXCEPT !.error_written = TRUE] ELSE p
  IN  /\ Ready(f, "WRITE", "ERROR")
      /\ \/ /\ Faults \/ kernel[f].kind # "socket"
            /\ errno' \in Failed
            /\ Finish(c, With(Here, c, q), logged)
         \/ \E n \in Sent(f, q.info_write_buff) :
              LET b == ReadAdv(q.info_write_buff, n)
                  S == With(Here, c, [q EXCEPT !.info_write_buff = b])
              IN  /\ UNCHANGED errno
                  /\ IF CanRead(b) THEN Become(S) /\ UNCHANGED <<logged, server>>
                                   ELSE Finish(c, S, logged)

\* stm_handler_read and stm_handler_write abort in a state with no handler.
StmAbort(f) ==
  /\ Running
  /\ Owner(f) # NoConn
  /\ LET st == conn[Owner(f)].st
     IN  \/ /\ items[f].interest = "READ"
            /\ st \notin {"READING_REQUEST", "PROCESSING_RESPONSE"}
         \/ /\ items[f].interest = "WRITE"
            /\ st \notin {"HELLO", "WRITING_RESPONSE", "ERROR"}
  /\ Halt("abort", Here)
  /\ UNCHANGED <<logged, errno>>

-----------------------------------------------------------------------------
(* The process: new connections, shutdown, and the mail that arrives.      *)

\* pop3_passive_accept.  The fail path runs pop3_destroy, which counts the
\* connection out although it was never counted in.
Accept ==
  /\ Running
  /\ \E c \in Conn, f \in Free :
       /\ conn[c] = Blank
       /\ \A g \in Free : f <= g
       /\ Become(
            IF Refuses(Here, f) THEN [Here EXCEPT !.current = Decreased(@)]
            ELSE [Register(With(Here, c, NewSession(f)), f, c, "WRITE") EXCEPT
                    !.kernel[f].kind = "socket", !.current = Increased(@)])
       /\ UNCHANGED <<logged, errno, server>>

\* accept() with no descriptor left: nothing happens but the error.
AcceptFails ==
  /\ Running
  /\ Free = {}
  /\ errno' \in Failed
  /\ UNCHANGED <<items, kernel, conn, current, logged, server>>

\* A datagram of the administration (AdminServer).  A session sees of it only
\* what it leaves in errno, which is ERANGE when strtol read a number of it that
\* is out of range, whatever its token is.
AdminRead ==
  /\ Running
  /\ errno' \in ErrorsLeft
  /\ UNCHANGED <<items, kernel, conn, current, logged, server>>

\* A signal ends the loop of main; selector_destroy then closes what is left,
\* in the order of the descriptors.
Shutdown ==
  /\ Running
  /\ server' = "closing"
  /\ UNCHANGED <<items, kernel, conn, current, logged, errno>>

CloseItem ==
  /\ server = "closing"
  /\ \E f \in Fd :
       /\ Registered(Here, f)
       /\ \A g \in Fd : Registered(Here, g) => f <= g
       /\ Become(Unregister(Here, f))
  /\ UNCHANGED <<logged, errno, server>>

Stopped ==
  /\ server = "closing"
  /\ \A f \in Fd : ~Registered(Here, f)
  /\ server' = "stopped"
  /\ UNCHANGED <<items, kernel, conn, current, logged, errno>>

\* The mail transfer agent adds a file to a maildir.
Deliver ==
  /\ server \notin Halted
  /\ \E u \in User, m \in Mail :
       /\ \A v \in User : m \notin maildrop[v]
       /\ maildrop' = [maildrop EXCEPT ![u] = @ \cup {m}]
  /\ UNCHANGED <<items, kernel, conn, current, logged, errno, server>>

-----------------------------------------------------------------------------

Init ==
  /\ items = [f \in Fd |-> Unused]
  /\ kernel = [f \in Fd |-> Closed]
  /\ conn = [c \in Conn |-> Blank]
  /\ current = 0
  /\ logged = [u \in User |-> FALSE]
  /\ maildrop = Mailbox
  /\ errno = "OTHER"
  /\ server = "running"

WriteResponse(f) ==
  \/ StatAction(f) \/ NoopAction(f) \/ CapaAction(f) \/ DefaultAction(f)
  \/ UserAction(f) \/ PassAction(f) \/ DeleAction(f) \/ RsetAction(f)
  \/ ListOne(f) \/ ListAll(f)
  \/ RetrError(f) \/ RetrFirst(f) \/ RetrMore(f) \/ RetrCopy(f)
  \/ SendRest(f)

\* One call of a handler by the selector.
Handler(f) ==
  \/ /\ HelloWrite(f) \/ ReadRequest(f) \/ WriteResponse(f)
        \/ ProcessResponse(f) \/ FinishError(f) \/ StmAbort(f)
     /\ UNCHANGED maildrop
  \/ QuitAction(f)

Process ==
  /\ Accept \/ AcceptFails \/ AdminRead \/ Shutdown \/ CloseItem \/ Stopped
  /\ UNCHANGED maildrop

Next == (\E f \in Fd : Handler(f)) \/ Process \/ Deliver

Spec == Init /\ [][Next]_vars
=============================================================================
