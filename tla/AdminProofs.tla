----------------------------- MODULE AdminProofs -----------------------------
(***************************************************************************)
(* Proofs that AdminChannel has its properties, and that it implements     *)
(* Directory, for every value of the constants: any clients and options,   *)
(* any datagrams of other programs, any users at the start.                *)
(***************************************************************************)
EXTENDS AdminProperties, AdminServerProofs

-----------------------------------------------------------------------------
(* The client.                                                             *)

\* The options of a client, and that it never parses more than it has.
LEMMA OptionParts ==
  ASSUME NEW c \in Client
  PROVE  /\ Len(Options[c]) \in Nat /\ Indices(c) = 1..Len(Options[c])
         /\ \A i \in Indices(c) :
              /\ Options[c][i] \in [command : Commands \cup {"VERSION"}, args : Seq(Text)]
              /\ i <= LongMax + 1 /\ Len(Options[c][i].args) <= 2
         /\ Len(Options[c]) > 0 => ~Repeats(c, 1)
<1>1. Options[c] \in Seq([command : Commands \cup {"VERSION"}, args : Seq(Text)])
  BY ChannelAssumption
<1>2. Len(Options[c]) \in Nat /\ Indices(c) = 1..Len(Options[c])
  BY <1>1, LenProperties DEF Indices
<1>3. \A i \in Indices(c) :
        Options[c][i] \in [command : Commands \cup {"VERSION"}, args : Seq(Text)]
  BY <1>1, <1>2, ElementOfSeq
<1> QED
  BY <1>2, <1>3, ChannelAssumption

\* The option whose datagram is sent is an earlier one, or the option itself,
\* and it is a command.
LEMMA SourceProperties ==
  ASSUME NEW c \in Client, NEW i \in Indices(c)
  PROVE  Source(c, i) \in 1..i /\ ~Repeats(c, Source(c, i))
<1> DEFINE S == {j \in 1..i : ~Repeats(c, j)}
<1>1. i \in Nat /\ i >= 1 /\ Len(Options[c]) > 0
  BY OptionParts
<1>2. S \subseteq 0..i /\ S # {}
  <2>1. 1 \in S
    BY <1>1, OptionParts
  <2> QED
    BY <1>1, <2>1
<1>3. \E x \in S : \A y \in S : y <= x
  <2> HIDE DEF S
  <2> QED
    BY <1>1, <1>2, Greatest
<1>4. PICK x \in S : \A y \in S : y <= x
  BY <1>3
<1>5. ASSUME NEW k \in (x + 1)..i PROVE Repeats(c, k)
  BY <1>1, <1>4, <1>5
<1>6. x \in 1..i /\ ~Repeats(c, x) /\ \A k \in (x + 1)..i : Repeats(c, k)
  BY <1>4, <1>5
<1> HIDE DEF S
<1> QED
  BY <1>6 DEF Source

\* What a datagram of a client holds.
LEMMA DatagramProperties ==
  ASSUME NEW c \in Client, NEW i \in Indices(c)
  PROVE  LET d == Datagram(c, i)
         IN  /\ d \in Datagrams
             /\ d.lines \in 6..8 /\ d.version = 1 /\ d.protocol
             /\ d.id = Source(c, i) - 1 /\ d.id \in 0..LongMax
             /\ d.id + 1 \in Indices(c)
             /\ d.command \in Commands
             /\ d.args \in Seq(Text)
<1> DEFINE j == Source(c, i)
           o == Options[c][j]
           d == Datagram(c, i)
<1>1. j \in Indices(c) /\ j >= 1 /\ j <= i /\ ~Repeats(c, j)
  BY SourceProperties, OptionParts
<1>2. /\ o \in [command : Commands \cup {"VERSION"}, args : Seq(Text)]
      /\ j <= LongMax + 1 /\ Len(o.args) <= 2
  BY <1>1, OptionParts
<1>3. o.command \in Commands /\ o.args \in Seq(Text)
  BY <1>1, <1>2 DEF Repeats
<1>4. d = [lines |-> 6 + Len(o.args), protocol |-> TRUE, version |-> 1, token |-> Token[c],
           id |-> j - 1, command |-> o.command, args |-> Append(o.args, Empty)]
  BY DEF Datagram
<1> HIDE DEF o, j, d
<1>5. Len(o.args) \in Nat
  BY <1>3, LenProperties
<1>6. Append(o.args, Empty) \in Seq(Text)
  BY <1>3, AppendProperties, ChannelAssumption
<1>7. j - 1 \in 0..LongMax /\ j \in Int
  BY <1>1, <1>2, OptionParts, AdminAssumption
<1>8. 6 + Len(o.args) \in 6..8 /\ 6 + Len(o.args) \in 0..MAX_LINES
  BY <1>2, <1>5 DEF MAX_LINES
<1>9. Token[c] \in BOOLEAN
  BY ChannelAssumption
<1>10. d \in Datagrams
  BY <1>3, <1>4, <1>6, <1>7, <1>8, <1>9 DEF Datagrams
<1>11. j - 1 + 1 = j
  BY <1>7
<1> QED
  BY <1>1, <1>3, <1>4, <1>6, <1>7, <1>8, <1>10, <1>11 DEF d, j

-----------------------------------------------------------------------------
(* The inductive invariant: what the runs check, and that the users that    *)
(* were there at the start, and those a client was told it added, are there *)
(* still.                                                                   *)

UsersStay ==
  /\ \A n \in Names(Start) : Exists(admin.users, n)
  /\ \A a \in answers : a.ok /\ a.cmd = "ADD_USER" => Exists(admin.users, a.args[1])

IInv ==
  /\ AdminTypeOK /\ AnswersThisRequest /\ PlusIsTrue /\ AddedOnce /\ TimeoutIffSilent
  /\ UsersStay

\* A datagram of a client writes every field of the static request.
LEMMA ClientTaken ==
  ASSUME NEW r \in Request, NEW c \in Client, NEW i \in Indices(c)
  PROVE  LET d == Datagram(c, i)
         IN  Taken(r, d) =
               [version |-> 1, req_id |-> d.id, cmd |-> d.command, args |-> d.args]
<1> DEFINE d == Datagram(c, i)
<1>1. d.lines \in 6..8 /\ d.version = 1 /\ d.id \in 0..LongMax
  BY DatagramProperties
<1> HIDE DEF d
<1>2. Strtol(1) = 1 /\ Strtol(d.id) = d.id
  BY <1>1, ChannelAssumption, AdminAssumption DEF Strtol
<1>3. Has(d, 2) /\ Has(d, 4) /\ Has(d, 5) /\ Has(d, 6)
  BY <1>1 DEF Has
<1> QED
  BY <1>1, <1>2, <1>3 DEF Taken, d

\* What serving a datagram leaves of the administration.
LEMMA ServeProperties ==
  ASSUME admin \in Admin, NEW d \in Datagrams, Serve(d)
  PROVE  /\ admin' \in Admin /\ server' \in {"running", "undefined"}
         /\ admin' = admin \/ Effect(admin, admin')
         /\ \A n : Exists(admin.users, n) => Exists(admin'.users, n)
         /\ UNCHANGED <<queries, sent, timeout, received, buff, printed>>
<1>1. /\ UNCHANGED <<queries, sent, timeout, received, buff, printed>>
      /\ server' \in {"running", "undefined"}
      /\ admin' = admin \/ admin' = Handled(admin, d).admin
  BY DEF Serve, clients
<1>2. CASE admin' = admin
  BY <1>1, <1>2
<1>3. CASE admin' = Handled(admin, d).admin
  <2>1. admin' \in Admin /\ Effect(admin, admin')
    BY <1>3, HandledProperties
  <2> QED
    BY <1>1, <2>1, EffectKeepsUsers
<1> QED
  BY <1>1, <1>2, <1>3

\* The initial states satisfy the invariant.
LEMMA InitInv == Init => IInv
<1> SUFFICES ASSUME Init PROVE IInv
  OBVIOUS
<1> USE DEF Init
<1>1. AdminTypeOK
  <2>1. admin \in Admin
    <3>1. FirstRequest \in Request
      BY EmptySeq DEF FirstRequest, Request, Commands
    <3> QED
      BY <3>1, ChannelAssumption DEF Admin, Errors
  <2>2. \A c \in Client : 0 <= Len(Options[c])
    BY OptionParts
  <2>3. printed \in [Client -> SUBSET [id : 0..LongMax, ok : BOOLEAN]]
    OBVIOUS
  <2> QED
    BY <2>1, <2>2, <2>3 DEF AdminTypeOK
<1>2. AnswersThisRequest /\ PlusIsTrue /\ AddedOnce
  BY DEF AnswersThisRequest, PlusIsTrue, AddedOnce
<1>3. TimeoutIffSilent
  BY DEF TimeoutIffSilent
<1>4. UsersStay
  BY NamesExist, ChannelAssumption DEF UsersStay
<1> QED
  BY <1>1, <1>2, <1>3, <1>4 DEF IInv

\* Sending adds datagrams of the client, and nothing else.
LEMMA SendInv ==
  ASSUME IInv, NEW c \in Client, Send(c)
  PROVE  IInv'
<1> USE DEF IInv, Send
<1>1. AdminTypeOK'
  BY DEF AdminTypeOK
<1>2. AnswersThisRequest' /\ PlusIsTrue' /\ AddedOnce' /\ TimeoutIffSilent' /\ UsersStay'
  BY DEF AnswersThisRequest, PlusIsTrue, AddedOnce, TimeoutIffSilent, UsersStay
<1> QED
  BY <1>1, <1>2

\* An answer clears the timeout of the command it is for, prints for that one,
\* and says what the server answered.
LEMMA ReceiveInv ==
  ASSUME IInv, NEW c \in Client, Receive(c)
  PROVE  IInv'
<1> USE DEF IInv
<1>1. PICK a \in answers :
        /\ a.to = c
        /\ timeout' = [timeout EXCEPT ![c][1] = FALSE, ![c][Heard(c, a)] = FALSE]
        /\ printed' = [printed EXCEPT ![c] =
             @ \cup {[id |-> Heard(c, a) - 1, ok |-> a.version = 1 /\ a.ok]}]
  BY DEF Receive
<1>2. UNCHANGED <<admin, server, queries, answers, sent>> /\ Waiting(c)
      /\ received' = [received EXCEPT ![c] = @ + 1]
      /\ buff' = [buff EXCEPT ![c] = "parsed"]
  BY DEF Receive
<1> DEFINE h == Heard(c, a)
           m == [id |-> h - 1, ok |-> a.version = 1 /\ a.ok]
<1>3. /\ a.of \in Indices(c) /\ a.req_id = Datagram(c, a.of).id /\ a.ok \in BOOLEAN
  BY <1>1 DEF AdminTypeOK, AnswersThisRequest
<1>4. /\ a.req_id = Source(c, a.of) - 1 /\ a.req_id \in 0..LongMax
      /\ a.req_id + 1 \in Indices(c) /\ Source(c, a.of) \in Nat
  BY <1>3, DatagramProperties, SourceProperties, OptionParts
<1>5. h \in Indices(c) /\ h - 1 \in 0..LongMax /\ h = Source(c, a.of) /\ h \in Nat
  BY <1>4, AdminAssumption DEF Heard
<1> HIDE DEF h
<1>6. m \in [id : 0..LongMax, ok : BOOLEAN] /\ m.id = h - 1 /\ (m.ok => a.ok)
  BY <1>3, <1>5
<1>7. printed' = [printed EXCEPT ![c] = printed[c] \cup {m}]
  BY <1>1 DEF h
<1> HIDE DEF m
<1>8. 1 \in Indices(c) /\ received[c] \in Nat /\ received[c] + 1 <= Len(Options[c])
  BY <1>2, OptionParts DEF Waiting, AdminTypeOK
<1>9. /\ DOMAIN timeout' = Client
      /\ \A b \in Client \ {c} : timeout'[b] = timeout[b]
      /\ timeout'[c] = [timeout[c] EXCEPT ![1] = FALSE, ![h] = FALSE]
  <2>1. c \in DOMAIN timeout
    BY DEF AdminTypeOK
  <2> QED
    BY <1>1, <2>1 DEF AdminTypeOK, h
<1>10. AdminTypeOK'
  <2>1. timeout'[c] \in [Indices(c) -> BOOLEAN]
    BY <1>9 DEF AdminTypeOK
  <2>2. \A b \in Client : timeout'[b] \in [Indices(b) -> BOOLEAN]
    BY <1>9, <2>1 DEF AdminTypeOK
  <2>3. received' \in [Client -> Nat] /\ \A b \in Client : received'[b] <= Len(Options[b])
    BY <1>2, <1>8 DEF AdminTypeOK
  <2>4. printed' \in [Client -> SUBSET [id : 0..LongMax, ok : BOOLEAN]]
    BY <1>6, <1>7 DEF AdminTypeOK
  <2>5. buff' \in [Client -> {"unwritten", "parsed"}]
    BY <1>2 DEF AdminTypeOK
  <2> QED
    BY <1>2, <1>9, <2>2, <2>3, <2>4, <2>5 DEF AdminTypeOK
<1>11. PlusIsTrue'
  <2> SUFFICES ASSUME NEW b \in Client, NEW r \in printed'[b], r.ok
               PROVE  \E x \in answers : x.to = b /\ Source(b, x.of) = r.id + 1 /\ x.ok
    BY <1>2 DEF PlusIsTrue
  <2>1. CASE r \in printed[b]
    BY <2>1 DEF PlusIsTrue
  <2>2. CASE b = c /\ r = m
    BY <1>1, <1>5, <1>6, <2>2
  <2> QED
    BY <1>7, <2>1, <2>2 DEF AdminTypeOK
<1>12. TimeoutIffSilent'
  <2> SUFFICES ASSUME NEW b \in Client, NEW i \in Indices(b) \ {1}
               PROVE  timeout'[b][i] <=> \A r \in printed'[b] : r.id # i - 1
    BY DEF TimeoutIffSilent
  <2>1. CASE b # c
    BY <1>7, <1>9, <2>1 DEF TimeoutIffSilent, AdminTypeOK
  <2>2. CASE b = c
    <3>1. i \in Nat /\ printed'[c] = printed[c] \cup {m}
      BY <1>7, <2>2, OptionParts DEF AdminTypeOK
    <3>2. timeout'[c][i] <=> i # h /\ timeout[c][i]
      BY <1>9, <2>2 DEF AdminTypeOK
    <3>3. timeout[c][i] <=> \A r \in printed[c] : r.id # i - 1
      BY <2>2 DEF TimeoutIffSilent
    <3> QED
      BY <1>5, <1>6, <2>2, <3>1, <3>2, <3>3
  <2> QED
    BY <2>1, <2>2
<1>13. AnswersThisRequest' /\ AddedOnce' /\ UsersStay'
  BY <1>2 DEF AnswersThisRequest, AddedOnce, UsersStay
<1> QED
  BY <1>10, <1>11, <1>12, <1>13

\* A receive that gives up touches the timeout of the first command only.
LEMMA TimeOutInv ==
  ASSUME IInv, NEW c \in Client, TimeOut(c)
  PROVE  IInv'
<1> USE DEF IInv
<1>1. /\ UNCHANGED <<admin, server, queries, answers, sent, buff, printed>>
      /\ received' = [received EXCEPT ![c] = @ + 1]
  BY DEF TimeOut
<1>2. 1 \in Indices(c) /\ received[c] \in Nat /\ received[c] + 1 <= Len(Options[c])
  BY OptionParts DEF TimeOut, Waiting, AdminTypeOK
<1>3. /\ DOMAIN timeout' = Client
      /\ \A b \in Client \ {c} : timeout'[b] = timeout[b]
      /\ timeout'[c] = timeout[c] \/ timeout'[c] = [timeout[c] EXCEPT ![1] = FALSE]
  BY DEF TimeOut, AdminTypeOK
<1>4. AdminTypeOK'
  <2>1. timeout[c] \in [Indices(c) -> BOOLEAN]
    BY DEF AdminTypeOK
  <2>2. timeout'[c] \in [Indices(c) -> BOOLEAN]
    BY <1>3, <2>1
  <2>3. \A b \in Client : timeout'[b] \in [Indices(b) -> BOOLEAN]
    BY <1>3, <2>2 DEF AdminTypeOK
  <2>4. received' \in [Client -> Nat] /\ \A b \in Client : received'[b] <= Len(Options[b])
    BY <1>1, <1>2 DEF AdminTypeOK
  <2> QED
    BY <1>1, <1>3, <2>3, <2>4 DEF AdminTypeOK
<1>5. TimeoutIffSilent'
  <2>1. \A b \in Client : \A i \in Indices(b) \ {1} : timeout'[b][i] = timeout[b][i]
    BY <1>3 DEF AdminTypeOK
  <2> QED
    BY <1>1, <2>1 DEF TimeoutIffSilent
<1>6. AnswersThisRequest' /\ PlusIsTrue' /\ AddedOnce' /\ UsersStay'
  BY <1>1 DEF AnswersThisRequest, PlusIsTrue, AddedOnce, UsersStay
<1> QED
  BY <1>4, <1>5, <1>6

\* Serving a datagram of a client answers that datagram.
LEMMA ServeClientInv ==
  ASSUME IInv, NEW q \in queries, ServeClient(q)
  PROVE  IInv'
<1> USE DEF IInv
<1> DEFINE d == q.datagram
           o == Handled(admin, d)
           a0 == Answer(q, o)
<1>1. /\ q.from \in Client /\ q.number \in Indices(q.from)
      /\ d = Datagram(q.from, q.number)
  BY DEF AdminTypeOK
<1>2. d \in Datagrams /\ admin \in Admin /\ admin.req \in Request
  BY <1>1, DatagramProperties, AdminParts DEF AdminTypeOK
<1>3. /\ admin' \in Admin /\ server' \in {"running", "undefined"}
      /\ \A n : Exists(admin.users, n) => Exists(admin'.users, n)
      /\ UNCHANGED <<queries, sent, timeout, received, buff, printed>>
  BY <1>2, ServeProperties DEF ServeClient
<1>4. \/ answers' = answers
      \/ admin' = o.admin /\ answers' = answers \cup {a0}
  BY DEF ServeClient, Serve
<1>5. Taken(admin.req, d) =
        [version |-> 1, req_id |-> d.id, cmd |-> d.command, args |-> d.args]
  BY <1>1, <1>2, ClientTaken
<1>6. /\ o.ok \in BOOLEAN
      /\ o.admin.req = Taken(admin.req, d)
      /\ o.ok /\ d.command = "ADD_USER" =>
           ~Exists(admin.users, d.args[1]) /\ Exists(o.admin.users, d.args[1])
  BY <1>2, <1>5, HandledProperties
<1>7. /\ a0.to = q.from /\ a0.of = q.number /\ a0.ok = o.ok
      /\ a0.version = 1 /\ a0.req_id = d.id /\ a0.cmd = d.command /\ a0.args = d.args
  BY <1>5, <1>6 DEF Answer, Response
<1> HIDE DEF a0, o, d
<1>8. AdminTypeOK'
  <2>1. \A a \in answers' : a.to \in Client /\ a.of \in Indices(a.to) /\ a.ok \in BOOLEAN
    BY <1>1, <1>4, <1>6, <1>7 DEF AdminTypeOK
  <2> QED
    BY <1>3, <2>1 DEF AdminTypeOK
<1>9. AnswersThisRequest'
  BY <1>1, <1>4, <1>7 DEF AnswersThisRequest
<1>10. PlusIsTrue'
  <2>1. answers \subseteq answers'
    BY <1>4
  <2> QED
    BY <1>3, <2>1 DEF PlusIsTrue
<1>11. AddedOnce'
  <2> SUFFICES ASSUME NEW a \in answers', NEW b \in answers',
                      a.ok, a.cmd = "ADD_USER", b.ok, b.cmd = "ADD_USER"
               PROVE  /\ ~Exists(Start, a.args[1])
                      /\ a.args[1] = b.args[1] => a = b
    BY DEF AddedOnce
  <2>1. CASE a \in answers /\ b \in answers
    BY <2>1 DEF AddedOnce
  <2>2. ASSUME NEW x \in answers', x.ok, x.cmd = "ADD_USER", x \notin answers
        PROVE  /\ ~Exists(Start, x.args[1])
               /\ \A y \in answers : y.ok /\ y.cmd = "ADD_USER" => y.args[1] # x.args[1]
               /\ x = a0
    <3>1. x = a0 /\ ~Exists(admin.users, x.args[1])
      BY <1>4, <1>6, <1>7, <2>2
    <3>2. ~Exists(Start, x.args[1])
      BY <3>1, NamesExist, ChannelAssumption DEF UsersStay
    <3>3. \A y \in answers : y.ok /\ y.cmd = "ADD_USER" => Exists(admin.users, y.args[1])
      BY DEF UsersStay
    <3> QED
      BY <3>1, <3>2, <3>3
  <2>3. \A x \in answers : x.ok /\ x.cmd = "ADD_USER" => ~Exists(Start, x.args[1])
    BY DEF AddedOnce
  <2> QED
    BY <2>1, <2>2, <2>3
<1>12. TimeoutIffSilent'
  BY <1>3 DEF TimeoutIffSilent
<1>13. UsersStay'
  <2>1. \A n \in Names(Start) : Exists(admin'.users, n)
    BY <1>3 DEF UsersStay
  <2>2. ASSUME NEW a \in answers', a.ok, a.cmd = "ADD_USER"
        PROVE  Exists(admin'.users, a.args[1])
    <3>1. CASE a \in answers
      BY <1>3, <2>2, <3>1 DEF UsersStay
    <3>2. CASE a \notin answers
      BY <1>4, <1>6, <1>7, <2>2, <3>2
    <3> QED
      BY <3>1, <3>2
  <2> QED
    BY <2>1, <2>2 DEF UsersStay
<1> QED
  BY <1>8, <1>9, <1>10, <1>11, <1>12, <1>13

\* A step of the server that answers no client keeps the users that were there.
LEMMA OtherInv ==
  ASSUME IInv, (\E d \in Strays : ServeOther(d)) \/ ErrnoChanges
  PROVE  IInv'
<1> USE DEF IInv
<1>1. /\ admin' \in Admin /\ server' \in {"running", "undefined"}
      /\ \A n : Exists(admin.users, n) => Exists(admin'.users, n)
      /\ UNCHANGED <<queries, answers, sent, timeout, received, buff, printed>>
  <2>1. CASE \E d \in Strays : ServeOther(d)
    <3>1. PICK d \in Strays : ServeOther(d)
      BY <2>1
    <3> QED
      BY <3>1, ServeProperties, ChannelAssumption DEF ServeOther, AdminTypeOK
  <2>2. CASE ErrnoChanges
    <3>1. PICK e \in Errors : admin' = [admin EXCEPT !.errno = e]
      BY <2>2 DEF ErrnoChanges
    <3>2. admin \in Admin
      BY DEF AdminTypeOK
    <3>3. admin' = [users |-> admin.users, max_mails |-> admin.max_mails,
                    maildir_path |-> admin.maildir_path, errno |-> e, req |-> admin.req]
      <4>1. admin = [users |-> admin.users, max_mails |-> admin.max_mails,
                     maildir_path |-> admin.maildir_path, errno |-> admin.errno,
                     req |-> admin.req]
        BY <3>2, AdminParts
      <4> QED
        BY <3>1, <4>1
    <3>4. admin' \in Admin /\ admin'.users = admin.users
      BY <3>2, <3>3, AdminParts DEF Admin
    <3> QED
      BY <2>2, <3>4 DEF ErrnoChanges, clients, AdminTypeOK
  <2> QED
    BY <2>1, <2>2
<1>2. AdminTypeOK'
  BY <1>1 DEF AdminTypeOK
<1>3. AnswersThisRequest' /\ PlusIsTrue' /\ AddedOnce' /\ TimeoutIffSilent' /\ UsersStay'
  BY <1>1 DEF AnswersThisRequest, PlusIsTrue, AddedOnce, TimeoutIffSilent, UsersStay
<1> QED
  BY <1>2, <1>3

\* Every step keeps the invariant.
LEMMA NextInv == IInv /\ [Next]_vars => IInv'
<1> SUFFICES ASSUME IInv, [Next]_vars PROVE IInv'
  OBVIOUS
<1>1. CASE UNCHANGED vars
  BY <1>1 DEF vars, IInv, AdminTypeOK, AnswersThisRequest, PlusIsTrue, AddedOnce,
              TimeoutIffSilent, UsersStay
<1>2. CASE Next
  BY <1>2, SendInv, ReceiveInv, TimeOutInv, ServeClientInv, OtherInv DEF Next
<1> QED
  BY <1>1, <1>2

\* The invariant holds of every reachable state.
THEOREM Invariant == Spec => []IInv
<1>1. Init => IInv
  BY InitInv
<1>2. IInv /\ [Next]_vars => IInv'
  BY NextInv
<1> QED
  BY <1>1, <1>2, PTL DEF Spec

-----------------------------------------------------------------------------
(* The theorems.                                                            *)

\* Every variable has its type: the users fit in their array, and the limit is
\* never negative.
THEOREM TypeCorrect == Spec => []AdminTypeOK
  BY Invariant, PTL DEF IInv

\* Nothing of an earlier request is left in the one that is executed for a
\* client (admin.c:147).
THEOREM RequestIsolation == Spec => []AnswersThisRequest
  BY Invariant, PTL DEF IInv

\* A client prints +OK only for what was executed and succeeded.
THEOREM PlusIsSound == Spec => []PlusIsTrue
  BY Invariant, PTL DEF IInv

\* At most one request is told that it added a user.
THEOREM UserAddedOnce == Spec => []AddedOnce
  BY Invariant, PTL DEF IInv

\* A timeout is reported for exactly the commands without an answer, the first
\* of a client excepted.
THEOREM TimeoutsAreReal == Spec => []TimeoutIffSilent
  BY Invariant, PTL DEF IInv

-----------------------------------------------------------------------------
(* The administration implements a directory of users.                      *)

\* What the server holds at the start is a directory.
LEMMA DirectoryInit == Init => Dir!Init
<1> SUFFICES ASSUME Init PROVE Dir!Init
  OBVIOUS
<1>1. /\ admin.users = Start /\ admin.max_mails = StartMails
      /\ admin.maildir_path = StartPath
  BY DEF Init
<1>2. Names(Start) \subseteq Text /\ Passwords(Start) \in [Names(Start) -> Text]
  BY PasswordsType, ChannelAssumption
<1> QED
  BY <1>1, <1>2, ChannelAssumption DEF Dir!Init, Dir!TypeOK

\* The effect of a request is a step of the directory, or none.
LEMMA EffectIsDirectory ==
  ASSUME admin \in Admin, admin' \in Admin, Effect(admin, admin')
  PROVE  [Dir!Next]_(Dir!vars)
<1>1. /\ admin.users \in UserArrays(Text) /\ admin'.users \in UserArrays(Text)
      /\ admin'.max_mails \in Nat /\ admin'.maildir_path \in Text
  BY AdminParts
<1>2. DOMAIN Passwords(admin.users) = Names(admin.users)
  BY DEF Passwords
<1>3. ASSUME SameLimits(admin, admin'), NEW n \in Text, NEW p \in Text,
             UserAdded(admin, admin', n, p)
      PROVE  Dir!Add(n)
  <2>1. n \notin Names(admin.users)
    BY <1>1, <1>3, NamesExist DEF UserAdded
  <2>2. /\ Names(admin'.users) = Names(admin.users) \cup {n}
        /\ \A m \in Names(admin.users) :
             Passwords(admin'.users)[m] = Passwords(admin.users)[m]
    BY <1>1, <1>3, AddedProperties DEF UserAdded
  <2>3. Passwords(admin'.users) \in [Names(admin.users) \cup {n} -> Text]
    BY <1>1, <2>2, PasswordsType
  <2> QED
    BY <1>2, <1>3, <2>1, <2>2, <2>3 DEF Dir!Add, Dir!Kept, SameLimits
<1>4. ASSUME SameLimits(admin, admin'), NEW n \in Text, NEW p \in Text,
             UserUpdated(admin, admin', n, p)
      PROVE  Dir!Change(n)
  <2>1. n \in Names(admin.users)
    BY <1>1, <1>4, NamesExist DEF UserUpdated
  <2>2. /\ Names(admin'.users) = Names(admin.users)
        /\ \A m \in Names(admin.users) \ {n} :
             Passwords(admin'.users)[m] = Passwords(admin.users)[m]
    BY <1>1, <1>4, UpdatedProperties DEF UserUpdated
  <2>3. Passwords(admin'.users) \in [Names(admin.users) -> Text]
    BY <1>1, <2>2, PasswordsType
  <2> QED
    BY <1>2, <1>4, <2>1, <2>2, <2>3 DEF Dir!Change, Dir!Kept, SameLimits
<1>5. CASE admin'.users = admin.users
           /\ (admin'.max_mails = admin.max_mails
                \/ admin'.maildir_path = admin.maildir_path)
  <2>1. Passwords(admin'.users) = Passwords(admin.users)
    BY <1>5
  <2> QED
    BY <1>1, <1>5, <2>1 DEF Dir!Next, Dir!SetLimit, Dir!SetPath
<1> QED
  BY <1>3, <1>4, <1>5 DEF Effect, Dir!Next

\* Every step of the channel is a step of the directory, or none.
LEMMA DirectoryStep ==
  ASSUME AdminTypeOK, [Next]_vars
  PROVE  [Dir!Next]_(Dir!vars)
<1>1. admin \in Admin
  BY DEF AdminTypeOK
<1>2. ASSUME NEW d \in Datagrams, Serve(d) PROVE [Dir!Next]_(Dir!vars)
  BY <1>1, <1>2, ServeProperties, EffectIsDirectory DEF Dir!vars
<1>3. CASE UNCHANGED admin
  BY <1>3 DEF Dir!vars
<1>4. CASE \E q \in queries : ServeClient(q)
  <2>1. PICK q \in queries : ServeClient(q)
    BY <1>4
  <2>2. q.datagram \in Datagrams
    BY DatagramProperties DEF AdminTypeOK
  <2> QED
    BY <1>2, <2>1, <2>2 DEF ServeClient
<1>5. CASE \E d \in Strays : ServeOther(d)
  BY <1>2, <1>5, ChannelAssumption DEF ServeOther
<1>6. CASE ErrnoChanges
  <2>1. PICK e \in Errors : admin' = [admin EXCEPT !.errno = e]
    BY <1>6 DEF ErrnoChanges
  <2>2. admin = [users |-> admin.users, max_mails |-> admin.max_mails,
                 maildir_path |-> admin.maildir_path, errno |-> admin.errno,
                 req |-> admin.req]
    BY <1>1, AdminParts
  <2>3. /\ admin'.users = admin.users /\ admin'.max_mails = admin.max_mails
        /\ admin'.maildir_path = admin.maildir_path
    BY <2>1, <2>2
  <2> QED
    BY <2>3 DEF Dir!vars
<1> QED
  BY <1>3, <1>4, <1>5, <1>6 DEF Next, vars, Send, Receive, TimeOut

\* The users, the limit and the path change only as Directory allows.
THEOREM AdministrationIsDirectory == Spec => ImplementsDirectory
<1>1. Init => Dir!Init
  BY DirectoryInit
<1>2. AdminTypeOK /\ [Next]_vars => [Dir!Next]_(Dir!vars)
  BY DirectoryStep
<1> QED
  BY <1>1, <1>2, TypeCorrect, PTL DEF Spec, ImplementsDirectory, Dir!Spec
=============================================================================
