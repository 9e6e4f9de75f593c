-------------------------- MODULE MCLockedMaildrop --------------------------
(***************************************************************************)
(* Three sessions and two users, for TLC: a long sequence of legal calls.  *)
(***************************************************************************)
EXTENDS MCPop3Server, TLC

SessionSymmetry == Permutations(Conn)

\* u1 reads an empty mail; u2 only logs in.
TwoLogins ==
  {Rq("USER", u1), Rq("PASS", u1), Rq("RETR", m1), Rq("USER", u2), Rq("PASS", u2)}
=============================================================================
