------------------------- MODULE AdminLoginsProofs -------------------------
(***************************************************************************)
(* Proofs that the administration does not disturb who is logged in: for   *)
(* any sessions, any users at the start and any datagrams that arrive      *)
(* while they log in and leave.                                            *)
(***************************************************************************)
EXTENDS AdminLogins, AdminServerProofs

\* The array of users changes by growing at its end, and a change of a password
\* leaves the marks.
KeepsMarks(u, v) ==
  /\ Len(u.array) <= Len(v.array)
  /\ \A i \in 1..Len(u.array) : v.array[i].logged = u.array[i].logged
  /\ \A i \in 1..Len(v.array) : i > Len(u.array) => ~v.array[i].logged

LEMMA AddedKeepsMarks ==
  ASSUME NEW u \in UserArrays(Text), NEW n \in Text, NEW p \in Text
  PROVE  KeepsMarks(u, Added(u, n, p))
<1> DEFINE e == [name |-> n, pass |-> p, logged |-> FALSE]
           v == Added(u, n, p)
<1>1. e \in UserEntries(Text) /\ ~e.logged
  BY DEF UserEntries
<1>2. v.array = Append(u.array, e)
  BY DEF Added
<1> HIDE DEF e, v
<1>3. /\ Len(v.array) = Len(u.array) + 1 /\ Len(u.array) \in Nat
      /\ \A i \in 1..Len(u.array) : v.array[i] = u.array[i]
      /\ v.array[Len(u.array) + 1] = e
  BY <1>1, <1>2, UserArrayParts, AppendProperties
<1>4. ASSUME NEW i \in 1..Len(v.array), i > Len(u.array) PROVE ~v.array[i].logged
  <2>1. i = Len(u.array) + 1
    BY <1>3, <1>4
  <2> QED
    BY <1>1, <1>3, <2>1
<1> QED
  BY <1>3, <1>4 DEF KeepsMarks, v

LEMMA UpdatedKeepsMarks ==
  ASSUME NEW u \in UserArrays(Text), NEW n, NEW p \in Text, Exists(u, n)
  PROVE  KeepsMarks(u, Updated(u, n, p))
<1> DEFINE k == Find(u, n)
           v == Updated(u, n, p)
           e == [u.array[k] EXCEPT !.pass = p]
<1>1. k \in 1..Len(u.array)
  BY FindProperties
<1>2. u.array[k] \in UserEntries(Text)
  BY <1>1, UserArrayParts
<1>3. e \in UserEntries(Text) /\ e.logged = u.array[k].logged
  BY <1>2 DEF UserEntries
<1>4. v = [u EXCEPT !.array = [u.array EXCEPT ![k] = e]]
  BY DEF Updated
<1> HIDE DEF e, v, k
<1>5. v.array = [u.array EXCEPT ![k] = e]
  <2>1. u = [array |-> u.array, array_length |-> u.array_length]
    BY UserArrayParts
  <2> QED
    BY <1>4, <2>1
<1>6. /\ Len(v.array) = Len(u.array) /\ Len(u.array) \in Nat
      /\ \A i \in 1..Len(u.array) : v.array[i] = IF i = k THEN e ELSE u.array[i]
  BY <1>1, <1>3, <1>5, UserArrayParts, ExceptSeq
<1> QED
  BY <1>1, <1>3, <1>6 DEF KeepsMarks, v

\* No datagram changes the mark of a user, and new users are not logged in.
LEMMA HandledKeepsMarks ==
  ASSUME NEW s \in Admin, NEW d \in Datagrams
  PROVE  KeepsMarks(s.users, Handled(s, d).admin.users)
<1> DEFINE t == Handled(s, d).admin
<1>1. Effect(s, t)
  BY HandledProperties
<1>2. s.users \in UserArrays(Text)
  BY AdminParts
<1> HIDE DEF t
<1>3. KeepsMarks(s.users, t.users)
  <2>1. CASE t.users = s.users
    BY <1>2, <2>1, UserArrayParts DEF KeepsMarks
  <2>2. ASSUME NEW n \in Text, NEW p \in Text, UserAdded(s, t, n, p)
        PROVE  KeepsMarks(s.users, t.users)
    BY <1>2, <2>2, AddedKeepsMarks DEF UserAdded
  <2>3. ASSUME NEW n \in Text, NEW p \in Text, UserUpdated(s, t, n, p)
        PROVE  KeepsMarks(s.users, t.users)
    BY <1>2, <2>3, UpdatedKeepsMarks DEF UserUpdated
  <2> QED
    BY <1>1, <2>1, <2>2, <2>3 DEF Effect
<1> QED
  BY <1>3 DEF t

\* Marking a user, or taking the mark away, changes nothing else.
LEMMA Marked ==
  ASSUME NEW s \in Admin, NEW k \in 1..Len(s.users.array), NEW b \in BOOLEAN
  PROVE  LET t == [s EXCEPT !.users.array[k].logged = b]
         IN  /\ t \in Admin
             /\ Len(t.users.array) = Len(s.users.array)
             /\ \A i \in 1..Len(s.users.array) :
                  t.users.array[i].logged = IF i = k THEN b ELSE s.users.array[i].logged
<1> DEFINE u == s.users
           e == [u.array[k] EXCEPT !.logged = b]
           a == [u.array EXCEPT ![k] = e]
           v == [u EXCEPT !.array = a]
           t == [s EXCEPT !.users = v]
<1>1. u \in UserArrays(Text)
  BY AdminParts
<1>2. u = [array |-> u.array, array_length |-> u.array_length]
  BY <1>1, UserArrayParts
<1>3. s = [users |-> s.users, max_mails |-> s.max_mails,
           maildir_path |-> s.maildir_path, errno |-> s.errno, req |-> s.req]
  BY AdminParts
<1>4. [s EXCEPT !.users.array[k].logged = b] = t
  OBVIOUS
<1>5. u.array[k] \in UserEntries(Text)
  BY <1>1, UserArrayParts
<1>6. e \in UserEntries(Text) /\ e.logged = b
  BY <1>5 DEF UserEntries
<1> HIDE DEF e
<1>7. /\ a \in Seq(UserEntries(Text)) /\ Len(a) = Len(u.array)
      /\ \A i \in 1..Len(u.array) : a[i] = IF i = k THEN e ELSE u.array[i]
  BY <1>1, <1>6, UserArrayParts, ExceptSeq
<1> HIDE DEF a
<1>8. v = [array |-> a, array_length |-> u.array_length]
  BY <1>2
<1>9. v \in UserArrays(Text)
  BY <1>1, <1>7, <1>8, UserArrayParts DEF UserArrays
<1> HIDE DEF v
<1>10. t = [users |-> v, max_mails |-> s.max_mails,
            maildir_path |-> s.maildir_path, errno |-> s.errno, req |-> s.req]
  BY <1>3
<1>11. t \in Admin /\ t.users.array = a
  BY <1>8, <1>9, <1>10, AdminParts DEF Admin
<1> HIDE DEF t, u
<1>12. \A i \in 1..Len(u.array) :
         t.users.array[i].logged = IF i = k THEN b ELSE u.array[i].logged
  BY <1>6, <1>7, <1>11
<1> QED
  BY <1>4, <1>7, <1>11, <1>12 DEF u

-----------------------------------------------------------------------------
(* The inductive invariant: the types, that a session that named a user      *)
(* points into the array, and who is logged in.                              *)

PointsToUser ==
  \A c \in Conn :
    /\ session[c].entry # 0 => session[c].entry \in 1..Len(admin.users.array)
    /\ session[c].st = "TRANSACTION" => session[c].entry # 0

IInv ==
  /\ admin \in Admin
  /\ session \in [Conn -> Sessions]
  /\ PointsToUser
  /\ ExclusiveUser
  /\ LoggedIffHeld

\* The places of the array, as an interval.
LEMMA Places ==
  ASSUME admin \in Admin
  PROVE  /\ DOMAIN admin.users.array = 1..Len(admin.users.array)
         /\ Len(admin.users.array) \in Nat
         /\ \A i \in 1..Len(admin.users.array) : admin.users.array[i].logged \in BOOLEAN
<1>1. admin.users \in UserArrays(Text)
  BY AdminParts
<1> QED
  BY <1>1, UserArrayParts DEF UserEntries

LEMMA InitInv == LoginsAssumption /\ Init => IInv
<1> SUFFICES ASSUME LoginsAssumption, Init PROVE IInv
  OBVIOUS
<1>1. admin \in Admin
  <2>1. FirstRequest \in Request /\ "OTHER" \in Errors
    BY EmptySeq DEF FirstRequest, Request, Errors, Commands
  <2> QED
    BY <2>1 DEF Init, Admin, LoginsAssumption
<1>2. Closed \in Sessions
  BY DEF Closed, Sessions
<1>3. \A c \in Conn : session[c] = Closed
  BY DEF Init
<1>4. \A c \in Conn : session[c].st = "UNUSED" /\ session[c].entry = 0
  BY <1>3 DEF Closed
<1>5. session \in [Conn -> Sessions]
  BY <1>2 DEF Init
<1>6. \A i \in DOMAIN admin.users.array : ~admin.users.array[i].logged
  BY DEF Init, LoginsAssumption
<1> QED
  BY <1>1, <1>4, <1>5, <1>6 DEF IInv, PointsToUser, ExclusiveUser, LoggedIffHeld, Holds

\* A session that is not logged in, neither before nor after: nobody else is
\* concerned.
LEMMA NotInStep ==
  ASSUME IInv, NEW c \in Conn, NEW s \in Sessions,
         session[c].st # "TRANSACTION", s.st # "TRANSACTION",
         s.entry # 0 => s.entry \in 1..Len(admin.users.array),
         Become(c, s), admin' = admin
  PROVE  IInv'
<1>1. session' \in [Conn -> Sessions]
      /\ \A d \in Conn : session'[d] = IF d = c THEN s ELSE session[d]
  BY DEF IInv, Become
<1>2. PointsToUser'
  BY <1>1 DEF IInv, PointsToUser
<1>3. \A d \in Conn : \A i : Holds(d, i)' <=> Holds(d, i)
  BY <1>1 DEF Holds
<1>4. ExclusiveUser' /\ LoggedIffHeld'
  BY <1>3 DEF IInv, ExclusiveUser, LoggedIffHeld
<1> QED
  BY <1>1, <1>2, <1>4 DEF IInv

LEMMA ConnectInv ==
  ASSUME IInv, NEW c \in Conn, Connect(c)
  PROVE  IInv'
<1> DEFINE s == [Closed EXCEPT !.st = "AUTHORIZATION"]
<1>1. s \in Sessions /\ s.st = "AUTHORIZATION" /\ s.entry = 0
  BY DEF Closed, Sessions
<1>2. session[c].st # "TRANSACTION" /\ Become(c, s) /\ admin' = admin
  BY DEF Connect
<1> HIDE DEF s
<1> QED
  BY <1>1, <1>2, NotInStep

LEMMA UserInv ==
  ASSUME IInv, NEW c \in Conn, NEW name, UserAction(c, name)
  PROVE  IInv'
<1>1. PICK i \in Named(admin.users, name) :
        Become(c, [Closed EXCEPT !.st = "AUTHORIZATION", !.entry = i])
  BY DEF UserAction
<1>2. i \in 1..Len(admin.users.array) /\ i \in Nat
  BY <1>1, Places DEF Named, IInv
<1> DEFINE s == [Closed EXCEPT !.st = "AUTHORIZATION", !.entry = i]
<1>3. s \in Sessions /\ s.st = "AUTHORIZATION" /\ s.entry = i
  BY <1>2 DEF Closed, Sessions
<1>4. session[c].st # "TRANSACTION" /\ Become(c, s) /\ admin' = admin
  BY <1>1 DEF UserAction
<1> HIDE DEF s
<1> QED
  BY <1>2, <1>3, <1>4, NotInStep

\* A session that used what is gone, or an action that does not exist: the
\* process is lost, and the state is as it was.
LEMMA LostInv ==
  ASSUME IInv, UNCHANGED <<admin, session>>
  PROVE  IInv'
  BY DEF IInv, PointsToUser, ExclusiveUser, LoggedIffHeld, Holds

\* PASS: the user is not marked, so nobody is logged in as that user; afterwards
\* the mark is set and this session is.
LEMMA PassInv ==
  ASSUME IInv, NEW c \in Conn, NEW pass, PassAction(c, pass)
  PROVE  IInv'
<1> DEFINE k == session[c].entry
           s == [session[c] EXCEPT !.st = "TRANSACTION"]
           t == [admin EXCEPT !.users.array[k].logged = TRUE]
<1>1. session[c] \in Sessions /\ session[c].st = "AUTHORIZATION"
      /\ k \in 1..Len(admin.users.array)
  BY DEF IInv, PassAction, PointsToUser
<1>2. CASE Crash
  BY <1>2, LostInv DEF Crash
<1>3. CASE ~Crash
  <2>1. ~admin.users.array[k].logged /\ Become(c, s) /\ admin' = t
    BY <1>3 DEF PassAction
  <2>2. s \in Sessions /\ s.st = "TRANSACTION" /\ s.entry = k
    BY <1>1 DEF Sessions
  <2>3. /\ admin' \in Admin /\ Len(admin'.users.array) = Len(admin.users.array)
        /\ \A i \in 1..Len(admin.users.array) :
             admin'.users.array[i].logged = IF i = k THEN TRUE ELSE admin.users.array[i].logged
    BY <1>1, <2>1, Marked DEF IInv
  <2> HIDE DEF s, t
  <2>4. session' \in [Conn -> Sessions]
        /\ \A d \in Conn : session'[d] = IF d = c THEN s ELSE session[d]
    BY <2>1, <2>2 DEF IInv, Become
  <2>5. PointsToUser'
    BY <1>1, <2>2, <2>3, <2>4 DEF IInv, PointsToUser
  <2>6. \A d \in Conn : \A i : Holds(d, i)' <=> Holds(d, i) \/ (d = c /\ i = k)
    BY <1>1, <2>2, <2>4 DEF Holds
  <2>7. /\ DOMAIN admin.users.array = 1..Len(admin.users.array)
        /\ DOMAIN admin'.users.array = 1..Len(admin.users.array)
    BY <2>3, Places, AdminParts, UserArrayParts DEF IInv
  <2>8. \A d \in Conn : ~Holds(d, k)
    BY <1>1, <2>1, <2>7 DEF IInv, LoggedIffHeld
  <2>9. ExclusiveUser'
    BY <2>6, <2>7, <2>8 DEF IInv, ExclusiveUser
  <2>10. LoggedIffHeld'
    BY <1>1, <2>3, <2>6, <2>7 DEF IInv, LoggedIffHeld
  <2> QED
    BY <2>3, <2>4, <2>5, <2>9, <2>10 DEF IInv
<1> QED
  BY <1>2, <1>3

\* The session ends: the mark that is taken away is its own.
LEMMA LeaveInv ==
  ASSUME IInv, NEW c \in Conn, Leave(c)
  PROVE  IInv'
<1> DEFINE k == session[c].entry
           t == [admin EXCEPT !.users.array[k].logged = FALSE]
<1>1. Closed \in Sessions /\ Closed.st = "UNUSED" /\ Closed.entry = 0
  BY DEF Closed, Sessions
<1>2. CASE Crash
  BY <1>2, LostInv DEF Crash
<1>3. CASE ~Crash /\ session[c].st # "TRANSACTION"
  BY <1>1, <1>3, NotInStep DEF Leave
<1>4. CASE ~Crash /\ session[c].st = "TRANSACTION"
  <2>1. Become(c, Closed) /\ admin' = t
    BY <1>4 DEF Leave
  <2>2. k \in 1..Len(admin.users.array)
    BY <1>4 DEF IInv, PointsToUser
  <2>3. /\ admin' \in Admin /\ Len(admin'.users.array) = Len(admin.users.array)
        /\ \A i \in 1..Len(admin.users.array) :
             admin'.users.array[i].logged = IF i = k THEN FALSE ELSE admin.users.array[i].logged
    BY <2>1, <2>2, Marked DEF IInv
  <2> HIDE DEF t
  <2>4. session' \in [Conn -> Sessions]
        /\ \A d \in Conn : session'[d] = IF d = c THEN Closed ELSE session[d]
    BY <1>1, <2>1 DEF IInv, Become
  <2>5. PointsToUser'
    BY <1>1, <2>3, <2>4 DEF IInv, PointsToUser
  <2>6. \A d \in Conn : \A i : Holds(d, i)' <=> Holds(d, i) /\ d # c
    BY <1>1, <2>4 DEF Holds
  <2>7. /\ DOMAIN admin.users.array = 1..Len(admin.users.array)
        /\ DOMAIN admin'.users.array = 1..Len(admin.users.array)
    BY <2>3, Places, AdminParts, UserArrayParts DEF IInv
  <2>8. Holds(c, k) /\ \A i : Holds(c, i) => i = k
    BY <1>4 DEF Holds
  <2>9. \A d \in Conn : Holds(d, k) => d = c
    BY <2>2, <2>7, <2>8 DEF IInv, ExclusiveUser
  <2>10. ExclusiveUser'
    BY <2>6, <2>7 DEF IInv, ExclusiveUser
  <2>11. LoggedIffHeld'
    <3> SUFFICES ASSUME NEW i \in 1..Len(admin.users.array)
                 PROVE  admin'.users.array[i].logged <=>
                          \E d \in Conn : Holds(d, i) /\ d # c
      BY <2>6, <2>7 DEF LoggedIffHeld
    <3>1. CASE i = k
      BY <2>3, <2>9, <3>1
    <3>2. CASE i # k
      BY <2>3, <2>7, <2>8, <3>2 DEF IInv, LoggedIffHeld
    <3> QED
      BY <3>1, <3>2
  <2> QED
    BY <2>3, <2>4, <2>5, <2>10, <2>11 DEF IInv
<1> QED
  BY <1>2, <1>3, <1>4

\* A datagram: the marks stay, sessions keep the user they named, and nobody
\* holds a place that was not there.
LEMMA AdminInv ==
  ASSUME LoginsAssumption, IInv, NEW d \in Arrivals, AdminRead(d)
  PROVE  IInv'
<1> DEFINE o == Handled(admin, d)
<1>1. d \in Datagrams /\ admin \in Admin
  BY DEF LoginsAssumption, IInv
<1>2. o.admin \in Admin /\ KeepsMarks(admin.users, o.admin.users)
  BY <1>1, HandledProperties, HandledKeepsMarks
<1>3. CASE Undefined(admin, d)
  BY <1>3, LostInv DEF AdminRead
<1>4. CASE ~Undefined(admin, d)
  <2>1. admin' = o.admin
    BY <1>4 DEF AdminRead
  <2>2. PICK moved \in BOOLEAN : session' = [c \in Conn |-> Left(session[c], o, moved)]
    BY <1>4 DEF AdminRead
  <2> HIDE DEF o
  <2>3. ASSUME NEW c \in Conn
        PROVE  /\ Left(session[c], o, moved) \in Sessions
               /\ Left(session[c], o, moved).st = session[c].st
               /\ Left(session[c], o, moved).entry = session[c].entry
    <3>1. session[c] \in Sessions
      BY DEF IInv
    <3> QED
      BY <3>1 DEF Left, Sessions
  <2>4. session' \in [Conn -> Sessions]
        /\ \A c \in Conn : session'[c].st = session[c].st /\ session'[c].entry = session[c].entry
    BY <2>2, <2>3
  <2>5. \A c \in Conn : \A i : Holds(c, i)' <=> Holds(c, i)
    BY <2>4 DEF Holds
  <2>6. /\ DOMAIN admin.users.array = 1..Len(admin.users.array)
        /\ DOMAIN admin'.users.array = 1..Len(admin'.users.array)
        /\ Len(admin.users.array) \in Nat /\ Len(admin'.users.array) \in Nat
    BY <1>1, <1>2, <2>1, AdminParts, UserArrayParts
  <2>7. PointsToUser'
    BY <1>2, <2>1, <2>4, <2>6 DEF IInv, PointsToUser, KeepsMarks
  <2>8. \A c \in Conn : \A i : Holds(c, i) => i \in 1..Len(admin.users.array)
    BY DEF Holds, IInv, PointsToUser
  <2>9. ExclusiveUser'
    BY <2>5, <2>6, <2>8 DEF IInv, ExclusiveUser
  <2>10. LoggedIffHeld'
    <3> SUFFICES ASSUME NEW i \in 1..Len(admin'.users.array)
                 PROVE  admin'.users.array[i].logged <=> \E c \in Conn : Holds(c, i)
      BY <2>5, <2>6 DEF LoggedIffHeld
    <3>1. CASE i \in 1..Len(admin.users.array)
      BY <1>2, <2>1, <2>6, <3>1 DEF IInv, LoggedIffHeld, KeepsMarks
    <3>2. CASE i > Len(admin.users.array)
      BY <1>2, <2>1, <2>6, <2>8, <3>2 DEF KeepsMarks
    <3> QED
      BY <2>6, <3>1, <3>2
  <2> QED
    BY <1>2, <2>1, <2>4, <2>7, <2>9, <2>10 DEF IInv
<1> QED
  BY <1>3, <1>4

LEMMA NextInv == LoginsAssumption /\ IInv /\ [Next]_vars => IInv'
<1> SUFFICES ASSUME LoginsAssumption, IInv, [Next]_vars PROVE IInv'
  OBVIOUS
<1>1. CASE UNCHANGED vars
  BY <1>1, LostInv DEF vars
<1>2. CASE \E c \in Conn : Connect(c) \/ Leave(c)
  BY <1>2, ConnectInv, LeaveInv
<1>3. CASE \E c \in Conn : \E t \in Text : UserAction(c, t) \/ PassAction(c, t)
  BY <1>3, UserInv, PassInv
<1>4. CASE \E d \in Arrivals : AdminRead(d)
  BY <1>4, AdminInv
<1> QED
  BY <1>1, <1>2, <1>3, <1>4 DEF Next

THEOREM Invariant ==
  ASSUME LoginsAssumption
  PROVE  Spec => []IInv
<1>1. Init => IInv
  BY InitInv
<1>2. IInv /\ [Next]_vars => IInv'
  BY NextInv
<1> QED
  BY <1>1, <1>2, PTL DEF Spec

-----------------------------------------------------------------------------

\* Two sessions are never logged in as one user, whatever the administration
\* does meanwhile.
THEOREM OneSessionEach ==
  ASSUME LoginsAssumption
  PROVE  Spec => []ExclusiveUser
<1>1. IInv => ExclusiveUser
  BY DEF IInv
<1> QED
  BY <1>1, Invariant, PTL

\* A user is marked exactly while a session is logged in: the administration
\* locks nobody out, as long as no session uses what it moved or freed.
THEOREM MarksAreTrue ==
  ASSUME LoginsAssumption
  PROVE  Spec => []LoggedIffHeld
<1>1. IInv => LoggedIffHeld
  BY DEF IInv
<1> QED
  BY <1>1, Invariant, PTL
=============================================================================
