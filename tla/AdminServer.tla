---------------------------- MODULE AdminServer ----------------------------
(***************************************************************************)
(* The administration of src/server/admin.c: what admin_read makes of one  *)
(* datagram.  Each step of it is a function of the state it changes, the   *)
(* record Admin, which is what a handler of the one thread may touch.      *)
(*                                                                         *)
(* A datagram is its number of lines and what they hold.  Of the protocol  *)
(* and the token only whether they match matters; the version and the id   *)
(* are numbers, and the arguments texts.  What a GET or STAT command shows *)
(* and the wording of a failure are left out of the response.              *)
(***************************************************************************)
EXTENDS Users

CONSTANTS
  Text,      \* names, passwords, paths and numbers in the arguments
  NumberOf,  \* what strtol reads in a text: 0 when it is no number
  LongMax    \* the largest number strtol represents

MAX_LINES == 10
HEADER_LINES == 5

Queries == {"GET_MAX_MAILS", "GET_MAILDIR", "STAT_HISTORIC_CONNECTIONS",
            "STAT_CURRENT_CONNECTIONS", "STAT_BYTES_TRANSFERRED"}
Commands == {"ADD_USER", "CHANGE_PASS", "SET_MAX_MAILS", "SET_MAILDIR"} \cup Queries

ASSUME AdminAssumption ==
  /\ Chunk \in Nat \ {0}
  /\ LongMax \in Nat
  /\ NumberOf \in [Text -> Int]

\* What may arrive: the lines after the fifth are the arguments, those after
\* the tenth are not read.
Datagrams ==
  [lines : 0..MAX_LINES, protocol : BOOLEAN, version : Int, token : BOOLEAN,
   id : Int, command : Commands \cup {"ADMIN_ERROR"}, args : Seq(Text)]

\* The static request of admin_read, which stays from datagram to datagram.
Request ==
  [version : Int, req_id : Int, cmd : Commands \cup {"ADMIN_ERROR"}, args : Seq(Text)]

\* What errno may hold, and what of it is taken for a bad number.
BadNumber == {"EINVAL", "ERANGE"}
Errors == BadNumber \cup {"OTHER"}

\* What the administration reads and writes.
Admin ==
  [users : UserArrays(Text), max_mails : Nat, maildir_path : Text,
   errno : Errors, req : Request]

FirstRequest == [version |-> 0, req_id |-> 0, cmd |-> "ADD_USER", args |-> << >>]

\* strtol: a number out of range becomes the nearest one, and errno says so;
\* nobody clears errno before.
Overflows(n) == n > LongMax \/ n < -LongMax - 1
Strtol(n) == IF n > LongMax THEN LongMax
             ELSE IF n < -LongMax - 1 THEN -LongMax - 1 ELSE n
ErrnoOf(n, e) == IF Overflows(n) THEN "ERANGE" ELSE e

-----------------------------------------------------------------------------
(* parse_request                                                           *)

Has(d, line) == d.lines >= line

\* errno after the line of the version, and after the one of the id.
ErrnoVersion(d, e) == IF Has(d, 2) THEN ErrnoOf(d.version, e) ELSE e
ErrnoHeader(d, e) ==
  IF Has(d, 4) THEN ErrnoOf(d.id, ErrnoVersion(d, e)) ELSE ErrnoVersion(d, e)

\* Mutation: the number of arguments is not reset.
TakenKeeping(r, d) ==
  [version |-> IF Has(d, 2) THEN Strtol(d.version) ELSE r.version,
   req_id  |-> IF Has(d, 4) THEN Strtol(d.id) ELSE r.req_id,
   cmd     |-> IF Has(d, 5) THEN d.command ELSE r.cmd,
   args    |-> r.args \o d.args]

\* The fields a datagram writes: those whose line it has.  The number of
\* arguments is reset, so the old ones are out of reach.
Taken(r, d) ==
  [version |-> IF Has(d, 2) THEN Strtol(d.version) ELSE r.version,
   req_id  |-> IF Has(d, 4) THEN Strtol(d.id) ELSE r.req_id,
   cmd     |-> IF Has(d, 5) THEN d.command ELSE r.cmd,
   args    |-> IF Has(d, 6) THEN d.args ELSE << >>]

\* A line of the header is wrong.
Wrong(d, e) ==
  \/ Has(d, 1) /\ ~d.protocol
  \/ Has(d, 2) /\ (ErrnoVersion(d, e) \in BadNumber \/ Strtol(d.version) # 1)
  \/ Has(d, 3) /\ ~d.token
  \/ Has(d, 4) /\ ErrnoHeader(d, e) \in BadNumber
  \/ Has(d, 5) /\ d.command = "ADMIN_ERROR"

\* parse_request returned OK.  The count of lines starts at 0, so four lines
\* pass for the five of the header, and the loop that saw all the lines it may
\* see returns OK whatever it found.
Accepted(d, e) ==
  \/ Has(d, MAX_LINES)
  \/ ~Wrong(d, e) /\ d.lines + 1 >= HEADER_LINES

Parsed(s, d) ==
  [s EXCEPT !.req = Taken(@, d), !.errno = ErrnoHeader(d, @)]

-----------------------------------------------------------------------------
(* The actions of the commands: what they leave and whether they succeed.  *)

Outcome(s, ok) == [admin |-> s, ok |-> ok]

\* Mutation: usersADT_add does not look for the name.
AddUserTwice(s) ==
  LET a == s.req.args
  IN  IF Len(a) >= 2
      THEN Outcome([s EXCEPT !.users = Added(@, a[1], a[2])], TRUE)
      ELSE Outcome(s, FALSE)

AddUser(s) ==
  LET a == s.req.args
  IN  IF Len(a) >= 2 /\ ~Exists(s.users, a[1])
      THEN Outcome([s EXCEPT !.users = Added(@, a[1], a[2])], TRUE)
      ELSE Outcome(s, FALSE)

ChangePass(s) ==
  LET a == s.req.args
  IN  IF Len(a) >= 2 /\ Exists(s.users, a[1])
      THEN Outcome([s EXCEPT !.users = Updated(@, a[1], a[2])], TRUE)
      ELSE Outcome(s, FALSE)

SetMaxMails(s) ==
  LET a   == s.req.args
      max == Strtol(NumberOf[a[1]])
      t   == [s EXCEPT !.errno = ErrnoOf(NumberOf[a[1]], @)]
  IN  IF Len(a) < 1 THEN Outcome(s, FALSE)
      ELSE IF max < 0 \/ (max = LongMax /\ t.errno = "ERANGE") THEN Outcome(t, FALSE)
      ELSE Outcome([t EXCEPT !.max_mails = max], TRUE)

SetMaildir(s) ==
  LET a == s.req.args
  IN  IF Len(a) >= 1 THEN Outcome([s EXCEPT !.maildir_path = a[1]], TRUE)
      ELSE Outcome(s, FALSE)

\* What they show is left out; nothing changes.
GetMaxMails(s) == Outcome(s, TRUE)
GetMaildir(s) == Outcome(s, TRUE)
Stat(s) == Outcome(s, TRUE)

Executed(s) ==
  CASE s.req.cmd = "ADD_USER"      -> AddUser(s)
    [] s.req.cmd = "CHANGE_PASS"   -> ChangePass(s)
    [] s.req.cmd = "SET_MAX_MAILS" -> SetMaxMails(s)
    [] s.req.cmd = "SET_MAILDIR"   -> SetMaildir(s)
    [] s.req.cmd = "GET_MAX_MAILS" -> GetMaxMails(s)
    [] s.req.cmd = "GET_MAILDIR"   -> GetMaildir(s)
    [] OTHER                       -> Stat(s)

\* admin_read calls an action that does not exist: the command is unknown and
\* nobody noticed.
Undefined(s, d) ==
  Accepted(d, s.errno) /\ Parsed(s, d).req.cmd = "ADMIN_ERROR"

\* admin_read: parse, and then refuse or execute.
Handled(s, d) ==
  IF Accepted(d, s.errno) THEN Executed(Parsed(s, d)) ELSE Outcome(Parsed(s, d), FALSE)

\* send_response: the version and the id are those of the static request.
Response(o) ==
  [version |-> o.admin.req.version, req_id |-> o.admin.req.req_id, ok |-> o.ok]
=============================================================================
