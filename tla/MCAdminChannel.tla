--------------------------- MODULE MCAdminChannel ---------------------------
(***************************************************************************)
(* A small instance of AdminChannel for TLC: a client and other programs.  *)
(***************************************************************************)
EXTENDS AdminProperties

CONSTANT a1

Texts == {"", "ana", "beto", "9", "-99", "pass"}
Numbers == [t \in Texts |-> IF t = "9" THEN 9 ELSE IF t = "-99" THEN -99 ELSE 0]

Beto == [array |-> <<[name |-> "beto", pass |-> "pass", logged |-> FALSE]>>,
         array_length |-> 1]

Op(k, a) == [command |-> k, args |-> a]
AddOf(n, p) == Op("ADD_USER", <<n, p>>)
Version == Op("VERSION", << >>)

\* The datagram that adds ana is sent twice.
Repeated == [c \in Client |->
  <<AddOf("ana", "pass"), Version, Op("SET_MAX_MAILS", <<"9">>)>>]
AllTokens == [c \in Client |-> TRUE]

Dgram(n, k, a) ==
  [lines |-> n, protocol |-> TRUE, version |-> 1, token |-> TRUE, id |-> 0,
   command |-> k, args |-> a]

\* The client asks for a limit and for a metric.
Asked == [c \in Client |-> <<Op("GET_MAX_MAILS", << >>),
                             Op("STAT_CURRENT_CONNECTIONS", << >>)>>]

\* A header with a line less than it takes, an unknown command, a number out of
\* range, the password of another user, and the user that the client adds.
OtherPrograms ==
  {Dgram(4, "ADMIN_ERROR", << >>),
   Dgram(5, "ADMIN_ERROR", << >>),
   Dgram(6, "SET_MAX_MAILS", <<"-99">>),
   Dgram(7, "CHANGE_PASS", <<"beto", "ana">>),
   Dgram(7, "ADD_USER", <<"ana", "ana">>)}
=============================================================================
