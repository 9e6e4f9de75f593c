---------------------------- MODULE AdminChannel ----------------------------
(***************************************************************************)
(* The administration protocol: clients (src/admin) that send a datagram   *)
(* for each of their options and then wait for as many answers, the server *)
(* that executes what arrives, and UDP between them.                       *)
(*                                                                         *)
(* The network is two sets of messages that only grow.  A message that is  *)
(* never taken out is lost, one that is taken twice was repeated, and they *)
(* are taken in any order.  Datagrams of other programs may arrive at any  *)
(* time; nobody follows what they are answered.                            *)
(***************************************************************************)
EXTENDS AdminServer

CONSTANTS
  Client,   \* the runs of the client
  Options,  \* the options of each: records [command, args]
  Token,    \* whether each is given the token of the server
  Strays,   \* the datagrams of other programs
  Start, StartMails, StartPath,  \* the users, limit and path of the command line
  Empty     \* the text of an empty line, which ends a request

Indices(c) == DOMAIN Options[c]
Repeats(c, i) == Options[c][i].command = "VERSION"

ASSUME ChannelAssumption ==
  /\ \A c \in Client :
       /\ Options[c] \in Seq([command : Commands \cup {"VERSION"}, args : Seq(Text)])
       /\ Len(Options[c]) > 0 => ~Repeats(c, 1)
       /\ \A i \in Indices(c) : i <= LongMax + 1 /\ Len(Options[c][i].args) <= 2
  /\ Token \in [Client -> BOOLEAN]
  /\ LongMax >= 1
  /\ Empty \in Text
  /\ Strays \subseteq Datagrams
  /\ Start \in UserArrays(Text) /\ StartMails \in Nat /\ StartPath \in Text

VARIABLES
  admin,    \* the users, the limits and the static request of the server
  server,   \* running, or undefined: an action that does not exist was called
  queries,  \* the datagrams that clients sent
  answers,  \* the responses to clients, with the request each one executed
  sent,     \* which clients have sent their datagrams
  timeout,  \* list_command[i].timeout of each client
  received, \* how often each client returned from recvfrom
  buff,     \* whether the buffer of each client was ever parsed
  printed   \* what each client printed: ids, with +OK (TRUE) or -ERR

vars == <<admin, server, queries, answers, sent, timeout, received, buff, printed>>
clients == <<sent, timeout, received, buff, printed>>

-----------------------------------------------------------------------------
(* The client.                                                             *)

\* An option that prints the version leaves the last datagram in the buffer,
\* and that one is sent again.
Source(c, i) ==
  CHOOSE j \in 1..i : ~Repeats(c, j) /\ \A k \in (j + 1)..i : Repeats(c, k)

\* parse_args: ids count from 0, and an empty line ends the datagram.
Datagram(c, i) ==
  LET j == Source(c, i)
      o == Options[c][j]
  IN  [lines |-> 6 + Len(o.args), protocol |-> TRUE, version |-> 1, token |-> Token[c],
       id |-> j - 1, command |-> o.command, args |-> Append(o.args, Empty)]

\* main sends everything before it receives anything.
Send(c) ==
  /\ ~sent[c]
  /\ sent' = [sent EXCEPT ![c] = TRUE]
  /\ queries' = queries \cup
       {[from |-> c, number |-> i, datagram |-> Datagram(c, i)] : i \in Indices(c)}
  /\ UNCHANGED <<admin, server, answers, timeout, received, buff, printed>>

Waiting(c) == sent[c] /\ received[c] < Len(Options[c])

\* Mutation: the answers are taken for those of the commands in their order.
HeardInOrder(c, a) == received[c] + 1

\* The command an answer is taken for.
Heard(c, a) == a.req_id + 1

\* parse_resp clears the timeout of the command 0 before it knows the id.
Receive(c) ==
  /\ Waiting(c)
  /\ received' = [received EXCEPT ![c] = @ + 1]
  /\ buff' = [buff EXCEPT ![c] = "parsed"]
  /\ \E a \in answers :
       /\ a.to = c
       /\ timeout' = [timeout EXCEPT ![c][1] = FALSE, ![c][Heard(c, a)] = FALSE]
       /\ printed' = [printed EXCEPT ![c] =
            @ \cup {[id |-> Heard(c, a) - 1, ok |-> a.version = 1 /\ a.ok]}]
  /\ UNCHANGED <<admin, server, queries, answers, sent>>

\* Mutation: a timeout is cleared by the place of the call and not by an id.
TimeOutTaken(c) ==
  /\ Waiting(c)
  /\ received' = [received EXCEPT ![c] = @ + 1]
  /\ timeout' = [timeout EXCEPT ![c][received[c] + 1] = FALSE]
  /\ UNCHANGED <<admin, server, queries, answers, sent, buff, printed>>

\* Mutation: the socket has no SO_RCVTIMEO.
TimeOutNever(c) == FALSE

\* recvfrom gives up and the buffer is parsed all the same: the name of the
\* protocol is left of an answer that was parsed before, and anything is in a
\* buffer that was not written yet.
TimeOut(c) ==
  /\ Waiting(c)
  /\ received' = [received EXCEPT ![c] = @ + 1]
  /\ \/ timeout' = [timeout EXCEPT ![c][1] = FALSE]
     \/ buff[c] = "unwritten" /\ UNCHANGED timeout
  /\ UNCHANGED <<admin, server, queries, answers, sent, buff, printed>>

-----------------------------------------------------------------------------
(* The server.                                                             *)

Answer(q, o) ==
  LET r == Response(o)
  IN  [to |-> q.from, of |-> q.number, version |-> r.version, req_id |-> r.req_id,
       ok |-> r.ok, cmd |-> o.admin.req.cmd, args |-> o.admin.req.args]

Serve(d) ==
  /\ server = "running"
  /\ IF Undefined(admin, d) THEN server' = "undefined" /\ UNCHANGED admin
     ELSE admin' = Handled(admin, d).admin /\ UNCHANGED server
  /\ UNCHANGED <<queries, clients>>

ServeClient(q) ==
  /\ Serve(q.datagram)
  /\ answers' = IF Undefined(admin, q.datagram) THEN answers
                ELSE answers \cup {Answer(q, Handled(admin, q.datagram))}

ServeOther(d) == Serve(d) /\ UNCHANGED answers

\* A call of a session fails, or a session parses a number (stale_errno).
ErrnoChanges ==
  /\ server = "running"
  /\ \E e \in Errors : admin' = [admin EXCEPT !.errno = e]
  /\ UNCHANGED <<server, queries, answers, clients>>

-----------------------------------------------------------------------------

Init ==
  /\ admin = [users |-> Start, max_mails |-> StartMails, maildir_path |-> StartPath,
              errno |-> "OTHER", req |-> FirstRequest]
  /\ server = "running"
  /\ queries = {} /\ answers = {}
  /\ sent = [c \in Client |-> FALSE]
  /\ timeout = [c \in Client |-> [i \in Indices(c) |-> TRUE]]
  /\ received = [c \in Client |-> 0]
  /\ buff = [c \in Client |-> "unwritten"]
  /\ printed = [c \in Client |-> {}]

Next ==
  \/ \E c \in Client : Send(c) \/ Receive(c) \/ TimeOut(c)
  \/ \E q \in queries : ServeClient(q)
  \/ \E d \in Strays : ServeOther(d)
  \/ ErrnoChanges

Spec == Init /\ [][Next]_vars

\* recvfrom returns, with an answer or after five seconds.
FairSpec == Spec /\ \A c \in Client : WF_vars(Receive(c) \/ TimeOut(c))
=============================================================================
