---------------------------- MODULE MCPop3Server ----------------------------
(***************************************************************************)
(* Small instances of Pop3Server for TLC.                                  *)
(***************************************************************************)
EXTENDS Pop3Properties

CONSTANTS c1, c2, u1, u2, m1, m2

\* u1 starts with m1, or with all the mails; u2 with none, or
\* each user with one.
OneMail == [u \in User |-> IF u = u1 THEN {m1} ELSE {}]
AllMails == [u \in User |-> IF u = u1 THEN Mail ELSE {}]
MailEach == [u \in User |-> IF u = u1 THEN {m1} ELSE {m2}]

\* The length of m1; other mails are empty.
Lengths(n) == [m \in Mail |-> IF m = m1 THEN n ELSE 0]
Empty == Lengths(0)
Short == Lengths(1)
Medium == Lengths(3)
Long == Lengths(4)
AllLong == [m \in Mail |-> 3]

Rq(c, a) == [command |-> c, arg |-> a]
Logins == {Rq("USER", u) : u \in User} \cup {Rq("PASS", u) : u \in User}
Quit == Rq("QUIT", NoArg)

TransferRequests ==
  Logins \cup {Quit, Rq("LIST", NoArg), Rq("NOOP", NoArg)}
         \cup {Rq("RETR", m) : m \in Mail}

\* Every command, with the arguments that change what it does.
AllRequests ==
  Logins \cup {Rq("USER", Wrong), Rq("PASS", Wrong), Rq("STAT", NoArg),
               Rq("STAT", Wrong), Rq("LIST", NoArg), Rq("LIST", Wrong),
               Rq("LIST", Huge), Rq("RETR", NoArg), Rq("RETR", m1),
               Rq("RETR", m2), Rq("DELE", m1), Rq("NOOP", NoArg),
               Rq("RSET", NoArg), Quit, Rq("CAPA", NoArg)}

RetrOnly == Logins \cup {Quit} \cup {Rq("RETR", m) : m \in Mail}
RetrAndDele == RetrOnly \cup {Rq("DELE", m1), Rq("RSET", NoArg)}
HugeRetr == RetrOnly \cup {Rq("LIST", Huge)}
=============================================================================
