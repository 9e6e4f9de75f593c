------------------------------ MODULE EventLoop ------------------------------
(***************************************************************************)
(* The loop of main around selector_select: copy the sets of descriptors,  *)
(* ask the kernel which of them are ready, then look at the descriptors in *)
(* the order of their numbers and call the handler of each one that was    *)
(* reported and whose owner is interested now.  Pop3Server lets handlers   *)
(* happen in any order; here they happen when the selector calls them, so  *)
(* what that module assumes of the selector can be checked.                *)
(*                                                                         *)
(* The passive sockets and the one of the administration were opened first *)
(* and have the lowest numbers.  pselect fails only for a descriptor that  *)
(* was closed and is still selected, which DescriptorsTracked excludes.    *)
(***************************************************************************)
EXTENDS Pop3Properties

CONSTANT ClientsRead  \* clients read what they are sent: sockets can be written

ASSUME EventLoopAssumption == ClientsRead \in BOOLEAN

VARIABLES
  slave_r, slave_w,  \* selector: what the last call of pselect reported
  pos,               \* where handle_iteration is
  since              \* history: the descriptors registered in this iteration

loop == <<slave_r, slave_w, pos, since>>
loopVars == <<vars, loop>>

Idle == -4                 \* in main, before selector_select
Passive == {-3, -2}        \* at the sockets that accept, for IPv4 and IPv6
Administration == -1       \* at the socket of the administration; then at 0 and
Listeners == Passive \cup {Administration}  \* at the descriptors visited
Positions == {Idle} \cup Listeners \cup {0} \cup Fd

\* items_update_fdset_for_fd keeps the sets in step with the interests.
Master(i) == {f \in Fd : Registered(Here, f) /\ items[f].interest = i}

\* Mutation: what was reported before stays in the set.
ReportedKept(i) ==
  {Master(i) \cup (IF i = "WRITE" THEN slave_w ELSE slave_r)}

\* What pselect may report of the descriptors with an interest.  Files are
\* always ready; it is up to the clients when a socket is.
Reported(i) ==
  {R \in SUBSET Master(i) :
     \A f \in Master(i) \ R :
       kernel[f].kind = "socket" /\ (i = "WRITE" => ~ClientsRead)}

\* main: a signal ends the loop, and it is looked at between iterations.
Select ==
  /\ Running
  /\ pos = Idle
  /\ slave_r' \in Reported("READ") /\ slave_w' \in Reported("WRITE")
  /\ pos' = -3
  /\ since' = {}
  /\ UNCHANGED vars

\* The descriptors a step registers.
Opened == {f \in Fd : items'[f].conn # NoConn /\ items'[f].conn # items[f].conn}

\* A socket that is not ready is passed over.
Listen ==
  /\ pos \in Listeners
  /\ Running
  /\ \/ pos \in Passive /\ (Accept \/ AcceptFails) /\ UNCHANGED maildrop
     \/ pos = Administration /\ AdminRead /\ UNCHANGED maildrop
     \/ UNCHANGED vars
  /\ pos' = pos + 1
  /\ since' = since \cup Opened
  /\ UNCHANGED <<slave_r, slave_w>>

\* Mutation: the loop stops before max_fd.
DueButLast(f) ==
  /\ f > pos
  /\ \E g \in Fd : g > f /\ Registered(Here, g)
  /\ \/ f \in slave_r /\ items[f].interest = "READ"
     \/ f \in slave_w /\ items[f].interest = "WRITE"

\* handle_iteration calls the handler of f: it was reported, and the interest is
\* what it is now.  Nobody has two interests, so one test of the two succeeds.
Due(f) ==
  /\ f > pos
  /\ \/ f \in slave_r /\ items[f].interest = "READ"
     \/ f \in slave_w /\ items[f].interest = "WRITE"

\* A socket may have bytes that complete no request.
PartialRequest(f) == Ready(f, "READ", "READING_REQUEST") /\ UNCHANGED vars

Visit(f) ==
  /\ Running
  /\ pos >= 0
  /\ Due(f) /\ \A g \in Fd : Due(g) => f <= g
  /\ Handler(f) \/ PartialRequest(f)
  /\ pos' = f
  /\ since' = since \cup Opened
  /\ UNCHANGED <<slave_r, slave_w>>

EndIteration ==
  /\ Running
  /\ pos >= 0
  /\ \A f \in Fd : ~Due(f)
  /\ pos' = Idle
  /\ UNCHANGED <<vars, slave_r, slave_w, since>>

\* What main does after its loop.
Ending ==
  /\ pos = Idle
  /\ (Shutdown \/ CloseItem \/ Stopped) /\ UNCHANGED maildrop
  /\ UNCHANGED loop

LoopInit ==
  /\ Init
  /\ slave_r = {} /\ slave_w = {}
  /\ pos = Idle
  /\ since = {}

LoopNext ==
  \/ Select \/ Listen \/ (\E f \in Fd : Visit(f)) \/ EndIteration
  \/ Ending
  \/ Deliver /\ UNCHANGED loop

LoopSpec == LoopInit /\ [][LoopNext]_loopVars

\* The one thread goes on: pselect and accept return, and so does each of the
\* handlers that an iteration calls.
Advance == Running /\ pos >= 0 /\ pos' \in Positions
FairLoop ==
  LoopSpec /\ WF_loopVars(Select) /\ WF_loopVars(Listen) /\ WF_pos(Advance)

-----------------------------------------------------------------------------
(* What the loop is expected to satisfy.                                    *)

\* A handler is called only for a descriptor that was reported: never for one
\* that was closed and opened again in this iteration, by an accept or for the
\* file of another session, before its number came up (selector.c:468).
NoStaleReadiness == Running => \A f \in since : pos # Idle => ~Due(f)

\* No descriptor is passed over for ever while its owner waits for it: the
\* handler of a socket that clients read from, or of a file, is called again and
\* again, however many sessions come and go (selector.c:453).
Waiting == Master("WRITE") \cup {f \in Master("READ") : kernel[f].kind = "file"}
NobodyStarves ==
  \A f \in Fd : []<>(pos = f \/ f \notin Waiting \/ ~Running)
=============================================================================
