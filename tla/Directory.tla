------------------------------ MODULE Directory ------------------------------
(***************************************************************************)
(* What the administration of the server promises: a directory of users    *)
(* with one password each, a limit and a path.  A user is added once and   *)
(* never removed, a password changes for one user at a time, and a limit   *)
(* is never negative, whoever asks and whatever is lost, late or repeated  *)
(* on the way.                                                             *)
(***************************************************************************)
EXTENDS Integers

CONSTANT Text

VARIABLES
  password,  \* the password of each user that exists
  limit,     \* how many mails a session may see
  path       \* where the maildirs are

vars == <<password, limit, path>>

TypeOK ==
  /\ DOMAIN password \subseteq Text
  /\ \A n \in DOMAIN password : password[n] \in Text
  /\ limit \in Nat
  /\ path \in Text

\* The users, the limit and the path of the command line.
Init == TypeOK

Kept(names) == \A m \in names : password'[m] = password[m]

Add(n) ==
  /\ n \notin DOMAIN password
  /\ password' \in [DOMAIN password \cup {n} -> Text]
  /\ Kept(DOMAIN password)
  /\ UNCHANGED <<limit, path>>

Change(n) ==
  /\ n \in DOMAIN password
  /\ password' \in [DOMAIN password -> Text]
  /\ Kept(DOMAIN password \ {n})
  /\ UNCHANGED <<limit, path>>

SetLimit == limit' \in Nat /\ UNCHANGED <<password, path>>
SetPath == path' \in Text /\ UNCHANGED <<password, limit>>

Next == SetLimit \/ SetPath \/ \E n \in Text : Add(n) \/ Change(n)

Spec == Init /\ [][Next]_vars
=============================================================================
