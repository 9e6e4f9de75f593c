----------------------------- MODULE AdminLogins -----------------------------
(***************************************************************************)
(* Sessions that log in and leave while the administration adds users and  *)
(* changes passwords.  A session keeps pointers into the array of users    *)
(* (pop3.c:729-731): to the password between USER and PASS, to the user    *)
(* until it ends.  usersADT_add may move the array and usersADT_update_pass *)
(* frees the old password, whoever points to them.                         *)
(***************************************************************************)
EXTENDS AdminServer

CONSTANTS
  Conn,       \* the session objects
  Arrivals,   \* the datagrams that may arrive
  Start, StartMails, StartPath  \* the users, limit and path of the command line

\* What the arguments of the command line and the datagrams are.
LoginsAssumption ==
  /\ Arrivals \subseteq Datagrams
  /\ Start \in UserArrays(Text) /\ StartMails \in Nat /\ StartPath \in Text
  /\ \A i \in DOMAIN Start.array : ~Start.array[i].logged

VARIABLES
  admin,    \* what the administration reads and writes
  session,  \* the sessions
  server    \* running; or freed, a session used a user or a password that is
            \* gone; or undefined, as in AdminChannel

vars == <<admin, session, server>>

\* A session: its state, the user it named (0 when none), and whether what
\* user_s and authorization.pass point to still exists.
Closed == [st |-> "UNUSED", entry |-> 0, user_s |-> "live", pass |-> "live"]
Sessions ==
  [st : {"UNUSED", "AUTHORIZATION", "TRANSACTION"}, entry : Nat,
   user_s : {"live", "freed"}, pass : {"live", "freed"}]

Running == server = "running"
Become(c, s) == session' = [session EXCEPT ![c] = s]
Crash == server' = "freed" /\ UNCHANGED <<admin, session>>

Connect(c) ==
  /\ Running
  /\ session[c].st = "UNUSED"
  /\ Become(c, [Closed EXCEPT !.st = "AUTHORIZATION"])
  /\ UNCHANGED <<admin, server>>

\* user_action: the loop has no break, so the last user of that name is taken.
UserAction(c, name) ==
  LET same == Named(admin.users, name)
  IN  /\ Running
      /\ session[c].st = "AUTHORIZATION"
      /\ \E i \in same :
           /\ \A j \in same : j <= i
           /\ Become(c, [Closed EXCEPT !.st = "AUTHORIZATION", !.entry = i])
      /\ UNCHANGED <<admin, server>>

\* pass_action for a session that named a user: the password is read first,
\* the user only if it is the right one.
PassAction(c, pass) ==
  LET s == session[c]
      u == admin.users.array[s.entry]
  IN  /\ Running
      /\ s.st = "AUTHORIZATION" /\ s.entry # 0
      /\ IF s.pass = "freed" \/ (u.pass = pass /\ s.user_s = "freed") THEN Crash
         ELSE /\ u.pass = pass /\ ~u.logged
              /\ Become(c, [s EXCEPT !.st = "TRANSACTION"])
              /\ admin' = [admin EXCEPT !.users.array[s.entry].logged = TRUE]
              /\ UNCHANGED server

\* The session ends: QUIT or finish_connection frees the maildrop through user_s.
Leave(c) ==
  LET s == session[c]
  IN  /\ Running
      /\ s.st # "UNUSED"
      /\ IF s.st = "TRANSACTION" /\ s.user_s = "freed" THEN Crash
         ELSE /\ Become(c, Closed)
              /\ admin' = IF s.st = "TRANSACTION"
                          THEN [admin EXCEPT !.users.array[s.entry].logged = FALSE]
                          ELSE admin
              /\ UNCHANGED server

\* What a command leaves of the pointers of a session: realloc may move the
\* array when it grows, and a new password frees the old one.
Left(s, o, moved) ==
  [s EXCEPT
     !.user_s = IF s.entry # 0 /\ moved THEN "freed" ELSE @,
     !.pass = IF /\ s.entry # 0 /\ o.ok /\ o.admin.req.cmd = "CHANGE_PASS"
                 /\ s.entry = Find(admin.users, o.admin.req.args[1])
              THEN "freed" ELSE @]

AdminRead(d) ==
  LET o == Handled(admin, d)
  IN  /\ Running
      /\ IF Undefined(admin, d)
         THEN server' = "undefined" /\ UNCHANGED <<admin, session>>
         ELSE /\ admin' = o.admin
              /\ \E moved \in BOOLEAN :
                   /\ moved => o.admin.users.array_length > admin.users.array_length
                   /\ session' = [c \in Conn |-> Left(session[c], o, moved)]
              /\ UNCHANGED server

Init ==
  /\ admin = [users |-> Start, max_mails |-> StartMails, maildir_path |-> StartPath,
              errno |-> "OTHER", req |-> FirstRequest]
  /\ session = [c \in Conn |-> Closed]
  /\ server = "running"

Next ==
  \/ \E c \in Conn :
       \/ Connect(c) \/ Leave(c)
       \/ \E t \in Text : UserAction(c, t) \/ PassAction(c, t)
  \/ \E d \in Arrivals : AdminRead(d)

Spec == Init /\ [][Next]_vars

\* The user and the password a session points to exist until it is done with
\* them.  The server is configured while it runs (section 2 of docs/RFC
\* PROTOS.pdf: "durante su ejecución"), and a session that ends frees the
\* maildrop of its user (pop3.c:609: "Liberamos la casilla del usuario").
UsersInPlace == server # "freed"

\* The session is logged in as the user with that place in the array.
Holds(c, i) == session[c].st = "TRANSACTION" /\ session[c].entry = i

\* Two sessions are never logged in as one user, whatever the administration
\* adds and changes between USER, PASS (pop3.c:746) and the end of a session.
ExclusiveUser ==
  \A c, d \in Conn :
    \A i \in DOMAIN admin.users.array : Holds(c, i) /\ Holds(d, i) => c = d

\* A user is marked as logged in (usersADT.h:12) exactly while a session is:
\* the mark survives the growth of the array and a change of the password, and
\* nobody stays locked out.
LoggedIffHeld ==
  \A i \in DOMAIN admin.users.array :
    admin.users.array[i].logged <=> \E c \in Conn : Holds(c, i)
=============================================================================
