----------------------------- MODULE MCEventLoop -----------------------------
(***************************************************************************)
(* Small instances of EventLoop for TLC.                                   *)
(***************************************************************************)
EXTENDS EventLoop, MCPop3Server

\* The mails arrive while the server runs.
NoMail == [u \in User |-> {}]

LongReplies == Logins \cup {Quit, Rq("RETR", m1), Rq("LIST", NoArg)}
=============================================================================
