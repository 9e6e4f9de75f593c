------------------------------- MODULE Users -------------------------------
(***************************************************************************)
(* usersADT.c: the users of the server, an array that grows by CHUNK and   *)
(* never shrinks.  A user is found by name, from the start of the array.   *)
(* Names and passwords are texts; the copies that are made of them, and    *)
(* the failure to allocate them, are left out.                             *)
(***************************************************************************)
EXTENDS Integers, Sequences

CONSTANT Chunk   \* CHUNK: how many places the array grows by

UserEntries(Text) == [name : Text, pass : Text, logged : BOOLEAN]

\* The users that the array holds, and how many it has places for.
UserArrays(Text) ==
  {u \in [array : Seq(UserEntries(Text)), array_length : Nat] :
     Len(u.array) <= u.array_length}

Named(u, name) == {i \in DOMAIN u.array : u.array[i].name = name}

Exists(u, name) == Named(u, name) # {}

\* usersADT_find_user, for a name that exists: the first user with that name.
Find(u, name) ==
  CHOOSE i \in Named(u, name) : \A j \in Named(u, name) : i <= j

\* Mutation: the array grows when it has a user more than places.
FullLate(u) == Len(u.array) > u.array_length

\* The array has no place for another user: usersADT_add reallocates it.
Full(u) == Len(u.array) = u.array_length

\* usersADT_add of a name that does not exist; a new user is not logged in.
Added(u, name, pass) ==
  [array |-> Append(u.array, [name |-> name, pass |-> pass, logged |-> FALSE]),
   array_length |-> IF Full(u) THEN u.array_length + Chunk ELSE u.array_length]

\* Mutation: the loop goes on after the first user and does not compare names.
UpdatedAll(u, name, pass) ==
  [u EXCEPT !.array = [i \in DOMAIN u.array |-> [u.array[i] EXCEPT !.pass = pass]]]

\* usersADT_update_pass of a name that exists.
Updated(u, name, pass) == [u EXCEPT !.array[Find(u, name)].pass = pass]

\* What the array stands for: the names, and the password of each.
Names(u) == {u.array[i].name : i \in DOMAIN u.array}
Passwords(u) == [n \in Names(u) |-> u.array[Find(u, n)].pass]
=============================================================================
