-------------------------- MODULE AdminServerProofs --------------------------
(***************************************************************************)
(* Lemmas about Users and AdminServer: what adding a user, changing a      *)
(* password and executing any datagram keep, for every array of users and  *)
(* every datagram.  AdminProofs and AdminLoginsProofs rest on them.        *)
(***************************************************************************)
EXTENDS AdminServer, SequenceTheorems, WellFoundedInduction, TLAPS

-----------------------------------------------------------------------------
(* Least and greatest elements.                                            *)

\* A set of naturals that is not empty has a least element.
LEMMA Least ==
  ASSUME NEW T, T \subseteq Nat, T # {}
  PROVE  \E x \in T : \A y \in T : x <= y
<1> DEFINE R == {ss \in Nat \X Nat : ss[1] < ss[2]}
<1>1. IsWellFoundedOn(R, Nat)
  BY NatLessThanWellFounded DEF OpToRel
<1> HIDE DEF R
<1>2. PICK x \in T : \A y \in T : ~(<<y, x>> \in R)
  BY <1>1, WFMin
<1>3. ASSUME NEW y \in T PROVE x <= y
  <2>1. x \in Nat /\ y \in Nat /\ ~(<<y, x>> \in R)
    BY <1>2, <1>3
  <2> QED
    BY <2>1 DEF R
<1> QED
  BY <1>3

\* A set of naturals with a bound that is not empty has a greatest element.
LEMMA Greatest ==
  ASSUME NEW T, NEW n \in Nat, T \subseteq 0..n, T # {}
  PROVE  \E x \in T : \A y \in T : y <= x
<1> DEFINE U == {k \in Nat : n - k \in T}
<1>1. U # {}
  <2>1. PICK y \in T : TRUE
    OBVIOUS
  <2>2. y \in 0..n
    BY <2>1
  <2>3. n - y \in Nat /\ n - (n - y) = y
    BY <2>2
  <2> QED
    BY <2>3
<1>2. PICK k \in U : \A l \in U : k <= l
  <2> HIDE DEF U
  <2>1. U \subseteq Nat
    BY DEF U
  <2> QED
    BY <1>1, <2>1, Least
<1>3. ASSUME NEW y \in T PROVE y <= n - k
  <2>1. y \in 0..n
    BY <1>3
  <2>2. n - y \in Nat /\ n - (n - y) = y
    BY <2>1
  <2>3. k <= n - y
    BY <1>2, <2>2
  <2> QED
    BY <1>2, <2>1, <2>3
<1> QED
  BY <1>2, <1>3

-----------------------------------------------------------------------------
(* Users.                                                                  *)

\* What a member of UserArrays is made of.
LEMMA UserArrayParts ==
  ASSUME NEW u \in UserArrays(Text)
  PROVE  /\ u = [array |-> u.array, array_length |-> u.array_length]
         /\ u.array \in Seq(UserEntries(Text)) /\ u.array_length \in Nat
         /\ Len(u.array) \in Nat /\ Len(u.array) <= u.array_length
         /\ DOMAIN u.array = 1..Len(u.array)
         /\ \A i \in 1..Len(u.array) : u.array[i] \in UserEntries(Text)
<1>1. u \in [array : Seq(UserEntries(Text)), array_length : Nat]
      /\ Len(u.array) <= u.array_length
  BY DEF UserArrays
<1>2. u.array \in Seq(UserEntries(Text)) /\ u.array_length \in Nat
  BY <1>1
<1>3. Len(u.array) \in Nat /\ DOMAIN u.array = 1..Len(u.array)
  BY <1>2, LenProperties
<1>4. \A i \in 1..Len(u.array) : u.array[i] \in UserEntries(Text)
  BY <1>2, ElementOfSeq
<1> QED
  BY <1>1, <1>2, <1>3, <1>4

\* usersADT_find_user finds a user with the name, the first one.
LEMMA FindProperties ==
  ASSUME NEW u \in UserArrays(Text), NEW name, Exists(u, name)
  PROVE  /\ Find(u, name) \in 1..Len(u.array)
         /\ u.array[Find(u, name)].name = name
<1>1. Named(u, name) \subseteq 1..Len(u.array) /\ Named(u, name) # {}
  BY UserArrayParts DEF Named, Exists
<1>2. Named(u, name) \subseteq Nat
  BY <1>1
<1>3. \E x \in Named(u, name) : \A y \in Named(u, name) : x <= y
  BY <1>1, <1>2, Least
<1>4. Find(u, name) \in Named(u, name)
  BY <1>3 DEF Find
<1> QED
  BY <1>1, <1>4 DEF Named

\* The names of an array of users are those that exist in it.
LEMMA NamesExist ==
  ASSUME NEW u \in UserArrays(Text), NEW name
  PROVE  name \in Names(u) <=> Exists(u, name)
  BY DEF Names, Exists, Named

\* The passwords are texts, one for each name, and names are texts.
LEMMA PasswordsType ==
  ASSUME NEW u \in UserArrays(Text)
  PROVE  /\ Names(u) \subseteq Text
         /\ Passwords(u) \in [Names(u) -> Text]
<1>1. Names(u) \subseteq Text
  BY UserArrayParts DEF Names, UserEntries
<1>2. ASSUME NEW n \in Names(u) PROVE u.array[Find(u, n)].pass \in Text
  BY FindProperties, NamesExist, UserArrayParts DEF UserEntries
<1> QED
  BY <1>1, <1>2 DEF Passwords

\* usersADT_add leaves users, and keeps the passwords of the others.
LEMMA AddedProperties ==
  ASSUME NEW u \in UserArrays(Text), NEW n \in Text, NEW p \in Text,
         ~Exists(u, n)
  PROVE  /\ Added(u, n, p) \in UserArrays(Text)
         /\ Names(Added(u, n, p)) = Names(u) \cup {n}
         /\ \A m \in Names(u) : Passwords(Added(u, n, p))[m] = Passwords(u)[m]
<1> DEFINE e == [name |-> n, pass |-> p, logged |-> FALSE]
           v == Added(u, n, p)
<1>1. e \in UserEntries(Text)
  BY DEF UserEntries
<1>2. /\ v.array = Append(u.array, e)
      /\ v.array_length = IF Full(u) THEN u.array_length + Chunk ELSE u.array_length
      /\ v = [array |-> v.array, array_length |-> v.array_length]
  BY DEF Added
<1> HIDE DEF e, v
<1>3. /\ v.array \in Seq(UserEntries(Text))
      /\ Len(v.array) = Len(u.array) + 1
      /\ \A i \in 1..Len(u.array) : v.array[i] = u.array[i]
      /\ v.array[Len(u.array) + 1] = e
  BY <1>1, <1>2, UserArrayParts, AppendProperties
<1>4. v.array_length \in Nat /\ Len(v.array) <= v.array_length
  BY <1>2, <1>3, UserArrayParts, AdminAssumption DEF Full
<1>5. v \in UserArrays(Text)
  <2>1. v \in [array : Seq(UserEntries(Text)), array_length : Nat]
    BY <1>2, <1>3, <1>4
  <2> QED
    BY <1>4, <2>1 DEF UserArrays
<1>6. DOMAIN v.array = 1..(Len(u.array) + 1) /\ DOMAIN u.array = 1..Len(u.array)
      /\ Len(u.array) \in Nat
  BY <1>3, <1>5, UserArrayParts
<1>7. e.name = n
  BY DEF e
<1>8. Names(v) = Names(u) \cup {n}
  <2>1. Names(v) = {v.array[i].name : i \in 1..(Len(u.array) + 1)}
        /\ Names(u) = {u.array[i].name : i \in 1..Len(u.array)}
    BY <1>6 DEF Names
  <2>2. v.array[Len(u.array) + 1].name = n
    BY <1>3, <1>7
  <2>3. ASSUME NEW i \in 1..(Len(u.array) + 1)
        PROVE  v.array[i].name \in Names(u) \cup {n}
    <3>1. CASE i \in 1..Len(u.array)
      BY <1>3, <2>1, <3>1
    <3>2. CASE i = Len(u.array) + 1
      BY <2>2, <3>2
    <3> QED
      BY <1>6, <3>1, <3>2
  <2>4. ASSUME NEW i \in 1..Len(u.array)
        PROVE  u.array[i].name \in Names(v)
    <3>1. i \in 1..(Len(u.array) + 1) /\ v.array[i] = u.array[i]
      BY <1>3, <1>6
    <3> QED
      BY <2>1, <3>1
  <2>5. n \in Names(v)
    <3>1. Len(u.array) + 1 \in 1..(Len(u.array) + 1)
      BY <1>6
    <3> QED
      BY <2>1, <2>2, <3>1
  <2> QED
    BY <2>1, <2>3, <2>4, <2>5
<1>9. ASSUME NEW m \in Names(u) PROVE Passwords(v)[m] = Passwords(u)[m]
  <2>1. m # n /\ Exists(u, m)
    BY <1>9, NamesExist
  <2>2. Named(v, m) = Named(u, m)
    BY <1>3, <1>6, <1>7, <2>1 DEF Named
  <2>3. Find(v, m) = Find(u, m)
    BY <2>2 DEF Find
  <2>4. v.array[Find(v, m)] = u.array[Find(u, m)]
    BY <1>3, <2>1, <2>3, FindProperties
  <2> QED
    BY <1>8, <1>9, <2>4 DEF Passwords
<1> QED
  BY <1>5, <1>8, <1>9 DEF v

\* usersADT_update_pass leaves the same users, and keeps the other passwords.
LEMMA UpdatedProperties ==
  ASSUME NEW u \in UserArrays(Text), NEW n, NEW p \in Text,
         Exists(u, n)
  PROVE  /\ Updated(u, n, p) \in UserArrays(Text)
         /\ Names(Updated(u, n, p)) = Names(u)
         /\ \A m \in Names(u) \ {n} : Passwords(Updated(u, n, p))[m] = Passwords(u)[m]
<1> DEFINE k == Find(u, n)
           v == Updated(u, n, p)
           e == [u.array[k] EXCEPT !.pass = p]
<1>1. k \in 1..Len(u.array) /\ u.array[k].name = n
  BY FindProperties
<1>2. e \in UserEntries(Text) /\ e.name = n
  <2>1. u.array[k] \in UserEntries(Text)
    BY <1>1, UserArrayParts
  <2> QED
    BY <1>1, <2>1 DEF UserEntries
<1>3. v = [u EXCEPT !.array = [u.array EXCEPT ![k] = e]]
  BY DEF Updated
<1> HIDE DEF e, v, k
<1>4. v.array = [u.array EXCEPT ![k] = e] /\ v.array_length = u.array_length
      /\ v = [array |-> v.array, array_length |-> v.array_length]
  <2>1. u = [array |-> u.array, array_length |-> u.array_length]
    BY UserArrayParts
  <2> QED
    BY <1>3, <2>1
<1>5. /\ v.array \in Seq(UserEntries(Text))
      /\ Len(v.array) = Len(u.array)
      /\ \A i \in 1..Len(u.array) : v.array[i] = IF i = k THEN e ELSE u.array[i]
  BY <1>1, <1>2, <1>4, UserArrayParts, ExceptSeq
<1>6. v \in UserArrays(Text)
  <2>1. v \in [array : Seq(UserEntries(Text)), array_length : Nat]
    BY <1>4, <1>5, UserArrayParts
  <2> QED
    BY <1>4, <1>5, <2>1, UserArrayParts DEF UserArrays
<1>7. DOMAIN v.array = 1..Len(u.array) /\ DOMAIN u.array = 1..Len(u.array)
  BY <1>5, <1>6, UserArrayParts
<1>8. \A i \in 1..Len(u.array) : v.array[i].name = u.array[i].name
  BY <1>1, <1>2, <1>5
<1>9. Names(v) = Names(u)
  BY <1>7, <1>8 DEF Names
<1>10. ASSUME NEW m \in Names(u) \ {n} PROVE Passwords(v)[m] = Passwords(u)[m]
  <2>1. m # n /\ Exists(u, m)
    BY <1>10, NamesExist
  <2>2. Named(v, m) = Named(u, m)
    BY <1>7, <1>8 DEF Named
  <2>3. Find(v, m) = Find(u, m)
    BY <2>2 DEF Find
  <2>4. Find(u, m) \in 1..Len(u.array) /\ u.array[Find(u, m)].name = m
    BY <2>1, FindProperties
  <2>5. v.array[Find(v, m)] = u.array[Find(u, m)]
    BY <1>1, <1>5, <2>1, <2>3, <2>4
  <2> QED
    BY <1>9, <1>10, <2>5 DEF Passwords
<1> QED
  BY <1>6, <1>9, <1>10 DEF v

-----------------------------------------------------------------------------
(* The server.                                                             *)

\* What the state of the administration is made of.
LEMMA AdminParts ==
  ASSUME NEW s \in Admin
  PROVE  /\ s = [users |-> s.users, max_mails |-> s.max_mails,
                 maildir_path |-> s.maildir_path, errno |-> s.errno, req |-> s.req]
         /\ s.users \in UserArrays(Text) /\ s.max_mails \in Nat
         /\ s.maildir_path \in Text /\ s.errno \in Errors /\ s.req \in Request
  BY DEF Admin

\* strtol leaves an integer, and errno stays an error.
LEMMA NumberType ==
  ASSUME NEW n \in Int, NEW e \in Errors
  PROVE  Strtol(n) \in Int /\ ErrnoOf(n, e) \in Errors
  BY AdminAssumption DEF Strtol, ErrnoOf, Errors, BadNumber

\* What a datagram leaves in the static request is a request.
LEMMA TakenType ==
  ASSUME NEW r \in Request, NEW d \in Datagrams
  PROVE  Taken(r, d) \in Request
<1>1. /\ d.version \in Int /\ d.id \in Int /\ d.args \in Seq(Text)
      /\ d.command \in Commands \cup {"ADMIN_ERROR"}
  BY DEF Datagrams
<1>2. /\ r.version \in Int /\ r.req_id \in Int
      /\ r.cmd \in Commands \cup {"ADMIN_ERROR"}
  BY DEF Request
<1>3. Strtol(d.version) \in Int /\ Strtol(d.id) \in Int
  BY <1>1, AdminAssumption DEF Strtol
<1>4. << >> \in Seq(Text)
  BY EmptySeq
<1> HIDE DEF Commands
<1> QED
  BY <1>1, <1>2, <1>3, <1>4 DEF Taken, Request

\* Parsing changes the static request and errno, and nothing else.
LEMMA ParsedProperties ==
  ASSUME NEW s \in Admin, NEW d \in Datagrams
  PROVE  /\ Parsed(s, d) \in Admin
         /\ Parsed(s, d).users = s.users /\ Parsed(s, d).max_mails = s.max_mails
         /\ Parsed(s, d).maildir_path = s.maildir_path
         /\ Parsed(s, d).req = Taken(s.req, d)
<1>1. ErrnoHeader(d, s.errno) \in Errors
  <2>1. d.version \in Int /\ d.id \in Int /\ s.errno \in Errors
    BY AdminParts DEF Datagrams
  <2>2. ErrnoVersion(d, s.errno) \in Errors
    BY <2>1, NumberType DEF ErrnoVersion
  <2> QED
    BY <2>1, <2>2, NumberType DEF ErrnoHeader
<1>2. Taken(s.req, d) \in Request
  BY AdminParts, TakenType
<1>3. Parsed(s, d) = [users |-> s.users, max_mails |-> s.max_mails,
                      maildir_path |-> s.maildir_path,
                      errno |-> ErrnoHeader(d, s.errno), req |-> Taken(s.req, d)]
  <2>1. s = [users |-> s.users, max_mails |-> s.max_mails,
             maildir_path |-> s.maildir_path, errno |-> s.errno, req |-> s.req]
    BY AdminParts
  <2> DEFINE r == Taken(s.req, d)
             e == ErrnoHeader(d, s.errno)
             w == [s EXCEPT !.req = r]
  <2>2. Parsed(s, d) = [w EXCEPT !.errno = e]
    BY DEF Parsed
  <2> HIDE DEF r, e
  <2>3. w = [users |-> s.users, max_mails |-> s.max_mails,
             maildir_path |-> s.maildir_path, errno |-> s.errno, req |-> r]
    BY <2>1
  <2> HIDE DEF w
  <2> QED
    BY <2>2, <2>3 DEF r, e
<1> QED
  BY <1>1, <1>2, <1>3, AdminParts DEF Admin

\* What one request may change: a new user, a password, the limit, the path.
UserAdded(s, t, n, p) == ~Exists(s.users, n) /\ t.users = Added(s.users, n, p)
UserUpdated(s, t, n, p) == Exists(s.users, n) /\ t.users = Updated(s.users, n, p)
SameLimits(s, t) == t.max_mails = s.max_mails /\ t.maildir_path = s.maildir_path

Effect(s, t) ==
  \/ SameLimits(s, t) /\ \E n, p \in Text : UserAdded(s, t, n, p) \/ UserUpdated(s, t, n, p)
  \/ t.users = s.users /\ (t.max_mails = s.max_mails \/ t.maildir_path = s.maildir_path)

\* An ADD_USER that succeeds added a user that was not there.
Success(s, o) ==
  o.ok /\ s.req.cmd = "ADD_USER" =>
    /\ Len(s.req.args) >= 2
    /\ ~Exists(s.users, s.req.args[1])
    /\ Exists(o.admin.users, s.req.args[1])

Fine(s, o) ==
  /\ o.admin \in Admin /\ o.ok \in BOOLEAN
  /\ o.admin.req = s.req
  /\ Effect(s, o.admin)
  /\ Success(s, o)

\* Two of the arguments are texts.
LEMMA ArgsType ==
  ASSUME NEW s \in Admin
  PROVE  /\ Len(s.req.args) \in Nat
         /\ \A i \in 1..Len(s.req.args) : s.req.args[i] \in Text
<1>1. s.req.args \in Seq(Text)
  BY AdminParts DEF Request
<1> QED
  BY <1>1, LenProperties, ElementOfSeq

\* A request that changes nothing is fine when it adds no user.
LEMMA RefusedFine ==
  ASSUME NEW s \in Admin, NEW ok \in BOOLEAN, ok => s.req.cmd # "ADD_USER"
  PROVE  Fine(s, Outcome(s, ok))
  BY DEF Fine, Effect, Success, Outcome

\* The action of ADD_USER.
LEMMA AddUserFine ==
  ASSUME NEW s \in Admin
  PROVE  Fine(s, AddUser(s))
<1> DEFINE a == s.req.args
           t == [s EXCEPT !.users = Added(@, a[1], a[2])]
<1>1. CASE ~(Len(a) >= 2 /\ ~Exists(s.users, a[1]))
  BY <1>1, RefusedFine DEF AddUser
<1>2. CASE Len(a) >= 2 /\ ~Exists(s.users, a[1])
  <2>1. a[1] \in Text /\ a[2] \in Text
    BY <1>2, ArgsType
  <2>2. /\ Added(s.users, a[1], a[2]) \in UserArrays(Text)
        /\ Exists(Added(s.users, a[1], a[2]), a[1])
    BY <1>2, <2>1, AddedProperties, NamesExist, AdminParts
  <2>3. /\ t \in Admin /\ t.users = Added(s.users, a[1], a[2])
        /\ SameLimits(s, t) /\ t.req = s.req
    <3>1. s = [users |-> s.users, max_mails |-> s.max_mails,
               maildir_path |-> s.maildir_path, errno |-> s.errno, req |-> s.req]
      BY AdminParts
    <3>2. t = [users |-> Added(s.users, a[1], a[2]), max_mails |-> s.max_mails,
               maildir_path |-> s.maildir_path, errno |-> s.errno, req |-> s.req]
      BY <3>1
    <3> QED
      BY <2>2, <3>2, AdminParts DEF Admin, SameLimits
  <2>4. AddUser(s) = [admin |-> t, ok |-> TRUE]
    BY <1>2 DEF AddUser, Outcome
  <2>5. Effect(s, t)
    BY <1>2, <2>1, <2>3 DEF Effect, UserAdded
  <2> HIDE DEF t
  <2> QED
    BY <1>2, <2>2, <2>3, <2>4, <2>5 DEF Fine, Success
<1> QED
  BY <1>1, <1>2

\* The action of CHANGE_PASS.
LEMMA ChangePassFine ==
  ASSUME NEW s \in Admin, s.req.cmd # "ADD_USER"
  PROVE  Fine(s, ChangePass(s))
<1> DEFINE a == s.req.args
           t == [s EXCEPT !.users = Updated(@, a[1], a[2])]
<1>1. CASE ~(Len(a) >= 2 /\ Exists(s.users, a[1]))
  BY <1>1, RefusedFine DEF ChangePass
<1>2. CASE Len(a) >= 2 /\ Exists(s.users, a[1])
  <2>1. a[1] \in Text /\ a[2] \in Text
    BY <1>2, ArgsType
  <2>2. Updated(s.users, a[1], a[2]) \in UserArrays(Text)
    BY <1>2, <2>1, UpdatedProperties, AdminParts
  <2>3. /\ t \in Admin /\ t.users = Updated(s.users, a[1], a[2])
        /\ SameLimits(s, t) /\ t.req = s.req
    <3>1. s = [users |-> s.users, max_mails |-> s.max_mails,
               maildir_path |-> s.maildir_path, errno |-> s.errno, req |-> s.req]
      BY AdminParts
    <3>2. t = [users |-> Updated(s.users, a[1], a[2]), max_mails |-> s.max_mails,
               maildir_path |-> s.maildir_path, errno |-> s.errno, req |-> s.req]
      BY <3>1
    <3> QED
      BY <2>2, <3>2, AdminParts DEF Admin, SameLimits
  <2>4. ChangePass(s) = [admin |-> t, ok |-> TRUE]
    BY <1>2 DEF ChangePass, Outcome
  <2>5. Effect(s, t)
    BY <1>2, <2>1, <2>3 DEF Effect, UserUpdated
  <2> HIDE DEF t
  <2> QED
    BY <2>3, <2>4, <2>5 DEF Fine, Success
<1> QED
  BY <1>1, <1>2

\* The action of SET_MAX_MAILS: a limit that it sets is not negative.
LEMMA SetMaxMailsFine ==
  ASSUME NEW s \in Admin, s.req.cmd # "ADD_USER"
  PROVE  Fine(s, SetMaxMails(s))
<1> DEFINE a == s.req.args
           n == NumberOf[a[1]]
           e == ErrnoOf(n, s.errno)
           t == [s EXCEPT !.errno = e]
           v == [t EXCEPT !.max_mails = Strtol(n)]
<1>1. CASE Len(a) < 1
  BY <1>1, RefusedFine DEF SetMaxMails
<1>2. CASE ~(Len(a) < 1)
  <2>1. n \in Int /\ s.errno \in Errors
    BY <1>2, ArgsType, AdminParts, AdminAssumption
  <2>2. e \in Errors /\ Strtol(n) \in Int
    BY <2>1, NumberType
  <2>3. s = [users |-> s.users, max_mails |-> s.max_mails,
             maildir_path |-> s.maildir_path, errno |-> s.errno, req |-> s.req]
    BY AdminParts
  <2>4. SetMaxMails(s) = IF Strtol(n) < 0 \/ (Strtol(n) = LongMax /\ t.errno = "ERANGE")
                         THEN Outcome(t, FALSE) ELSE Outcome(v, TRUE)
    BY <1>2 DEF SetMaxMails
  <2> HIDE DEF e, n
  <2>5. t = [users |-> s.users, max_mails |-> s.max_mails,
             maildir_path |-> s.maildir_path, errno |-> e, req |-> s.req]
    BY <2>3
  <2>6. t \in Admin
    BY <2>2, <2>5, AdminParts DEF Admin
  <2>7. Fine(s, Outcome(t, FALSE))
    BY <2>5, <2>6 DEF Fine, Effect, Success, Outcome
  <2> HIDE DEF t
  <2>8. ASSUME ~(Strtol(n) < 0) PROVE Fine(s, Outcome(v, TRUE))
    <3>1. v = [users |-> s.users, max_mails |-> Strtol(n),
               maildir_path |-> s.maildir_path, errno |-> e, req |-> s.req]
      BY <2>5 DEF v
    <3> HIDE DEF v
    <3>2. v \in Admin
      BY <2>2, <2>8, <3>1, AdminParts DEF Admin
    <3> QED
      BY <3>1, <3>2 DEF Fine, Effect, Success, Outcome
  <2> HIDE DEF v
  <2> QED
    BY <2>4, <2>7, <2>8
<1> QED
  BY <1>1, <1>2

\* The action of SET_MAILDIR.
LEMMA SetMaildirFine ==
  ASSUME NEW s \in Admin, s.req.cmd # "ADD_USER"
  PROVE  Fine(s, SetMaildir(s))
<1> DEFINE a == s.req.args
           t == [s EXCEPT !.maildir_path = a[1]]
<1>1. CASE ~(Len(a) >= 1)
  BY <1>1, RefusedFine DEF SetMaildir
<1>2. CASE Len(a) >= 1
  <2>1. a[1] \in Text
    BY <1>2, ArgsType
  <2>2. SetMaildir(s) = [admin |-> t, ok |-> TRUE]
    BY <1>2 DEF SetMaildir, Outcome
  <2>3. s = [users |-> s.users, max_mails |-> s.max_mails,
             maildir_path |-> s.maildir_path, errno |-> s.errno, req |-> s.req]
    BY AdminParts
  <2>4. t = [users |-> s.users, max_mails |-> s.max_mails,
             maildir_path |-> a[1], errno |-> s.errno, req |-> s.req]
    BY <2>3
  <2> HIDE DEF t
  <2>5. t \in Admin
    BY <2>1, <2>4, AdminParts DEF Admin
  <2> QED
    BY <2>2, <2>4, <2>5 DEF Fine, Effect, Success
<1> QED
  BY <1>1, <1>2

\* The action of every command.
LEMMA ExecutedFine ==
  ASSUME NEW s \in Admin
  PROVE  Fine(s, Executed(s))
<1>1. CASE s.req.cmd = "ADD_USER"
  BY <1>1, AddUserFine DEF Executed
<1>2. CASE s.req.cmd = "CHANGE_PASS"
  BY <1>2, ChangePassFine DEF Executed
<1>3. CASE s.req.cmd = "SET_MAX_MAILS"
  BY <1>3, SetMaxMailsFine DEF Executed
<1>4. CASE s.req.cmd = "SET_MAILDIR"
  BY <1>4, SetMaildirFine DEF Executed
<1>5. CASE s.req.cmd \notin {"ADD_USER", "CHANGE_PASS", "SET_MAX_MAILS", "SET_MAILDIR"}
  BY <1>5, RefusedFine DEF Executed, GetMaxMails, GetMaildir, Stat
<1> QED
  BY <1>1, <1>2, <1>3, <1>4, <1>5

\* What one datagram does: it is executed with what it left in the request, or
\* it is refused.
LEMMA HandledProperties ==
  ASSUME NEW s \in Admin, NEW d \in Datagrams
  PROVE  LET o == Handled(s, d)
             r == Taken(s.req, d)
         IN  /\ o.admin \in Admin /\ o.ok \in BOOLEAN
             /\ o.admin.req = r
             /\ Effect(s, o.admin)
             /\ o.ok /\ r.cmd = "ADD_USER" =>
                  /\ ~Exists(s.users, r.args[1])
                  /\ Exists(o.admin.users, r.args[1])
<1> DEFINE t == Parsed(s, d)
           r == Taken(s.req, d)
           o == Handled(s, d)
<1>1. /\ t \in Admin /\ t.users = s.users /\ t.max_mails = s.max_mails
      /\ t.maildir_path = s.maildir_path /\ t.req = r
  BY ParsedProperties
<1>2. o = IF Accepted(d, s.errno) THEN Executed(t) ELSE Outcome(t, FALSE)
  BY DEF Handled
<1>3. Fine(t, Executed(t)) /\ Fine(t, Outcome(t, FALSE))
  BY <1>1, ExecutedFine, RefusedFine
<1> HIDE DEF t, r, o
<1>4. Fine(t, o)
  BY <1>2, <1>3
<1>5. Effect(s, o.admin)
  BY <1>1, <1>4 DEF Fine, Effect, UserAdded, UserUpdated, SameLimits
<1> QED
  BY <1>1, <1>4, <1>5 DEF Fine, Success, r, o

\* A user is never removed.
LEMMA EffectKeepsUsers ==
  ASSUME NEW s \in Admin, NEW t \in Admin, Effect(s, t), NEW n, Exists(s.users, n)
  PROVE  Exists(t.users, n)
<1>1. n \in Names(s.users)
  BY NamesExist, AdminParts
<1>2. Names(s.users) \subseteq Names(t.users)
  BY AddedProperties, UpdatedProperties, AdminParts
     DEF Effect, UserAdded, UserUpdated
<1> QED
  BY <1>1, <1>2, NamesExist, AdminParts
=============================================================================
