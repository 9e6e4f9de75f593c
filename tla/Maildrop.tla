------------------------------ MODULE Maildrop ------------------------------
(***************************************************************************)
(* What the server promises about mailboxes, without sockets, buffers or   *)
(* descriptors: a session has a maildrop to itself from login to its end,  *)
(* the messages it marks are its own business until QUIT, QUIT removes     *)
(* exactly the marked ones, and a session that ends any other way removes  *)
(* nothing.  Mail may arrive at any time.                                  *)
(***************************************************************************)
EXTENDS FiniteSets

CONSTANTS
  Conn,     \* the sessions
  User,     \* the owners of the maildrops
  Mail,     \* the messages
  Mailbox,  \* the messages of each maildrop at the start
  NoUser    \* a session that has no maildrop

VARIABLES
  maildrop,  \* the messages stored for each user
  session    \* the maildrop a session holds, what it saw of it, its marks

vars == <<maildrop, session>>

Idle == [user |-> NoUser, seen |-> {}, marked |-> {}]
Holds(c, u) == session[c].user = u
Free(u) == \A c \in Conn : ~Holds(c, u)

Init ==
  /\ maildrop = Mailbox
  /\ session = [c \in Conn |-> Idle]

\* A login sees what is stored at that moment, or a part of it.
Login(c, u) ==
  /\ session[c] = Idle
  /\ Free(u)
  /\ \E seen \in SUBSET maildrop[u] :
       session' = [session EXCEPT ![c] = [user |-> u, seen |-> seen, marked |-> {}]]
  /\ UNCHANGED maildrop

Mark(c, m) ==
  /\ m \in session[c].seen \ session[c].marked
  /\ session' = [session EXCEPT ![c].marked = @ \cup {m}]
  /\ UNCHANGED maildrop

Unmark(c) ==
  /\ session' = [session EXCEPT ![c].marked = {}]
  /\ UNCHANGED maildrop

\* QUIT
Commit(c, u) ==
  /\ Holds(c, u)
  /\ maildrop' = [maildrop EXCEPT ![u] = @ \ session[c].marked]
  /\ session' = [session EXCEPT ![c] = Idle]

\* Connections that break, or that the server closes, remove nothing.
End(S) ==
  /\ session' = [c \in Conn |-> IF c \in S THEN Idle ELSE session[c]]
  /\ UNCHANGED maildrop

Deliver(u, m) ==
  /\ \A v \in User : m \notin maildrop[v]
  /\ maildrop' = [maildrop EXCEPT ![u] = @ \cup {m}]
  /\ UNCHANGED session

Next ==
  \/ \E c \in Conn, u \in User : Login(c, u) \/ Commit(c, u)
  \/ \E c \in Conn : Unmark(c) \/ \E m \in Mail : Mark(c, m)
  \/ \E S \in SUBSET Conn : End(S)
  \/ \E u \in User, m \in Mail : Deliver(u, m)

Spec == Init /\ [][Next]_vars

\* Two sessions never hold the same maildrop.
Exclusive ==
  \A c, d \in Conn : c # d /\ session[c].user = session[d].user
                       => session[c].user = NoUser
=============================================================================
