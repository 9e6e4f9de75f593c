---------------------------- MODULE MCAdminLogins ----------------------------
(***************************************************************************)
(* A small instance of AdminLogins for TLC: one user, an array that is full. *)
(***************************************************************************)
EXTENDS AdminLogins

CONSTANTS c1, c2

Texts == {"", "ana", "beto", "pass"}
NoNumbers == [t \in Texts |-> 0]

Beto == [array |-> <<[name |-> "beto", pass |-> "pass", logged |-> FALSE]>>,
         array_length |-> 1]

Dgram(k, a) ==
  [lines |-> 8, protocol |-> TRUE, version |-> 1, token |-> TRUE, id |-> 0,
   command |-> k, args |-> a \o <<"">>]

AddsAndChanges ==
  {Dgram("ADD_USER", <<"ana", "pass">>), Dgram("CHANGE_PASS", <<"beto", "ana">>)}
=============================================================================
