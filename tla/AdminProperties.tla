--------------------------- MODULE AdminProperties ---------------------------
(***************************************************************************)
(* What AdminChannel is expected to satisfy.                               *)
(***************************************************************************)
EXTENDS AdminChannel

\* Every variable has its type: the users fit in their array, a limit is never
\* negative, what is sent and what is answered belongs to an option of a client.
AdminTypeOK ==
  /\ admin \in Admin
  /\ server \in {"running", "undefined"}
  /\ \A q \in queries :
       /\ q.from \in Client /\ q.number \in Indices(q.from)
       /\ q.datagram = Datagram(q.from, q.number)
  /\ \A a \in answers : a.to \in Client /\ a.of \in Indices(a.to) /\ a.ok \in BOOLEAN
  /\ sent \in [Client -> BOOLEAN]
  /\ DOMAIN timeout = Client
  /\ \A c \in Client : timeout[c] \in [Indices(c) -> BOOLEAN]
  /\ received \in [Client -> Nat]
  /\ \A c \in Client : received[c] <= Len(Options[c])
  /\ buff \in [Client -> {"unwritten", "parsed"}]
  /\ printed \in [Client -> SUBSET [id : 0..LongMax, ok : BOOLEAN]]

\* The static request of admin_read (admin.c:147) keeps nothing of the requests
\* before: what is executed for a client, and the id and the version it is
\* answered with, are those of its own datagram, whatever arrived in between.
AnswersThisRequest ==
  \A a \in answers :
    LET d == Datagram(a.to, a.of)
    IN  a.version = 1 /\ a.req_id = d.id /\ a.cmd = d.command /\ a.args = d.args

\* +OK is unambiguous (section 4.1 of docs/RFC PROTOS.pdf): a client prints it
\* for a command only if that command was executed and succeeded, in whatever
\* order the answers come.
PlusIsTrue ==
  \A c \in Client : \A r \in printed[c] : r.ok =>
    \E a \in answers : a.to = c /\ Source(c, a.of) = r.id + 1 /\ a.ok

\* Of all the requests of all the clients that add a user, at most one is told
\* that it added it, and none if the user was there at the start: datagrams
\* that are repeated, sent twice (admin_args.c:89) or sent by two clients
\* (usersADT.c:39) do not add it again.
AddedOnce ==
  \A a, b \in {x \in answers : x.ok /\ x.cmd = "ADD_USER"} :
    /\ ~Exists(Start, a.args[1])
    /\ a.args[1] = b.args[1] => a = b

\* When a client ends it reports a timeout (main.c:66) for exactly the commands
\* no answer was parsed for.  Not for its first command: that one is cleared by
\* every answer and by a buffer that is parsed again.
TimeoutIffSilent ==
  \A c \in Client : \A i \in Indices(c) \ {1} :
    timeout[c][i] <=> \A r \in printed[c] : r.id # i - 1

\* The same of every command: a client that was answered something reports a
\* timeout for each command it has no answer of (main.c:66, and section 5 of
\* docs/RFC PROTOS.pdf), the first one included.
EveryTimeoutReported ==
  \A c \in Client : received[c] = Len(Options[c]) /\ printed[c] # {} =>
    \A i \in Indices(c) : (\A r \in printed[c] : r.id # i - 1) => timeout[c][i]

\* "-" to a query means that the value could not be obtained (section 4.2 of
\* docs/RFC PROTOS.pdf), and a value can always be obtained: the right token and
\* a command that exists are enough for an answer with "+".
QueriesSucceed ==
  \A a \in answers : Token[a.to] /\ a.cmd \in Queries => a.ok

\* A command that does not exist is answered "Invalid command" (admin.c:57) and
\* never executed, whatever datagrams come before it or after it.
UnknownIsRefused == server # "undefined"

-----------------------------------------------------------------------------
(* AdminChannel implements Directory.                                       *)

Dir == INSTANCE Directory WITH
  password <- Passwords(admin.users),
  limit    <- admin.max_mails,
  path     <- admin.maildir_path

\* Whatever is lost, late, repeated or left in the static request, the users,
\* the limit and the path change only as Directory allows.
ImplementsDirectory == Dir!Spec

\* A client that has sent its datagrams ends, were they all lost.
Terminates == \A c \in Client : sent[c] ~> (received[c] = Len(Options[c]))
=============================================================================
