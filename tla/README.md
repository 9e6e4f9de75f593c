# TLA+ specifications of popserver

These modules specify the POP3 server of `src/server` and its administration:
the sessions, the state machine and the selector that drive them, the request
parser, the transfer of mails, the logger, the users, the administration protocol
and its client of `src/admin`. TLC checks them on small instances; TLAPS proves the
theorems of the `*Proofs` modules for every value of the constants.
`PROJECT.json` lists the runs, ties every definition to the lines it models and
every hazard to the properties that watch it.

## The system

popserver is one process with one thread. `main.c` opens the passive sockets and
the admin socket, registers them in the selector and then calls
`selector_select` until a signal arrives. The selector (`selector.c`) calls
the handler of each descriptor that is ready and in whose readiness its owner is
interested. A handler runs to its end before the next one is called, so nothing
in this program is preempted; what makes it hard is that sessions are cut into
handlers that interleave in any order, that a session owns up to two descriptors
that are closed in either order, and that descriptors, the users and `errno` are
shared by all sessions.

The administration is a protocol of its own over UDP: `src/admin` is a program that
sends a datagram for each of its options and waits for as many answers; the server
reads one datagram per call of a handler and changes users and limits while sessions
use them.

| Component | State | Operations | Interacts with |
|---|---|---|---|
| buffer (`buffer.c`) | a read and a write position in an array | reset, advance, compact | used by sessions |
| request parser (`parserADT.c`, `pop3_parser_definition.c`) | state, text of command and argument, latched error | feed, reset | fed by two handlers of a session |
| sessions (`pop3.c`) | `struct pop3`: state, buffers, command, user, listing, marks, file, references | one function per state, one action per command, close | selector (interests, registration), users (`logged`), files, metrics |
| state machine (`stm.c`) | current state | read, write, jump | calls the functions of a session; aborts in a state without one |
| selector (`selector.c`) | table of descriptors, interests, sets for `pselect` | register, unregister, set interest, select, destroy | calls every handler; `unregister` calls back into the session |
| users (`usersADT.c`) | array of name, password, `logged` | add, find, change password | sessions keep pointers into it; the admin server changes it |
| maildir reader (`maidir_reader.c`) | none | list a directory | `PASS` |
| logger (`logging/logger.c`) | buffer that grows, the log file | log, write when ready, close | selector; called from everywhere |
| admin server (`admin.c`) | one static request | one datagram, one command | users, limits, `errno`, metrics |
| admin client (`src/admin`) | what is unanswered, a receive buffer | send all, receive all or time out | UDP |
| arguments (`args.c`) | none | parse | start of `main` |

What is hard, component by component (the list with the lines is in
`PROJECT.json`, "hazards"):

* *sessions*: exclusive access to a maildrop while sessions log in, quit and break
  in any order; the release of a session by the last of its two descriptors; the
  descriptor number of a file that outlives the file; `errno` left behind by
  another session; requests that arrive in pieces or several at once; a shutdown
  in any state.
* *RETR*: going back and forth between the file and the socket, with the interests
  right at every step; CR LF DOT split over reads and sends; full buffers.
* *parser*: the latched error, the reset, and two loops that must leave the same
  state behind.
* *logger*: bytes that move while they are being written piece by piece, the limit
  of the buffer, the last write.
* *selector*: readiness that was reported before a handler closed the descriptor and
  another opened the same number; a descriptor that others keep from being served.
* *users*: pointers of sessions into an array that moves and to passwords that are
  freed.
* *administration*: a request that survives from datagram to datagram, answers that
  are lost, late, repeated or out of order, requests that arrive twice, a client that
  parses an old buffer when it times out.

## Modules

| Module | Models |
|---|---|
| `Buffer` | `buffer.c`: the positions of a buffer |
| `ByteStuffing` | the byte stuffing loop of RETR, byte by byte (`Stuff`) and as counts (`Moves`) |
| `Maildrop` | abstract: what the server promises about mailboxes |
| `Pop3Server` | sessions, state machine, descriptor table of the selector and of the kernel, shutdown |
| `Pop3Properties` | what `Pop3Server` must satisfy; the refinement mapping to `Maildrop`; fairness; the hypotheses of its theorems |
| `Pop3ServerProofs` | its theorems: types, exclusive maildrops, it refines `Maildrop`, listed mails stay |
| `DescriptorProofs` | its theorems about descriptors, interests, buffers, locks, shutdown and the end of the process; those of `EventLoop` |
| `Pop3Parser` | the parser tables and their interpreter, as functions |
| `RequestStream` | how one session cuts the bytes of its client into requests |
| `RequestProperties` | reference definition of the requests of a stream, and the properties |
| `RequestProofs` | its theorems, for every stream and every size of the read buffer |
| `MailTransfer` | RETR with its bytes |
| `TransferProperties` | what a client decodes, and the properties |
| `TransferProofs` | its theorems, for every mail and every size of the buffers |
| `Logger` | the buffer and the file of the log, and its properties |
| `LoggerProofs` | its theorems |
| `EventLoop` | `Pop3Server` under the loop of `main` and `selector_select`, which refines it |
| `Users` | the array of `usersADT.c`, its growth, new users and new passwords |
| `AdminServer` | what `admin_read` makes of one datagram |
| `Directory` | abstract: what the administration promises about users and limits |
| `AdminChannel` | clients, network and server of the administration protocol |
| `AdminProperties` | what `AdminChannel` must satisfy; the refinement mapping to `Directory` |
| `AdminServerProofs` | lemmas about the commands, used by the next two |
| `AdminProofs` | the theorems of `AdminProperties` |
| `AdminLogins` | sessions that log in and leave while the administration changes users |
| `AdminLoginsProofs` | its theorems |
| `MC*` | constants for TLC; `MCTransfer` also has TLC evaluate the assumptions of the proofs, `MCLockedMaildrop` has a third session |

### Pop3Server

The state is what the code keeps: `items` is the descriptor table of the selector
(which session, which interest), `kernel` what each descriptor number names, `conn`
the `struct pop3` of each session with the fields that decide control, `logged` and
`maildrop` the users and their directories, `current` the metric
`current_connections`, `errno` the variable of the C library, and `server` how the
process is doing. A handler called by the selector is one action: what `stm.c` does
around it (`jump`, and `finish_connection` on arrival in FINISHED) and every
nested call (`selector_unregister_fd`, which calls `pop3_close`, which may free the
session) is part of that action, as functions of the state they change (`Finish`,
`Unregister`, `CloseSession`).

`kernel` gives a new descriptor the lowest free number, as POSIX does. That matters:
`finish_connection` unregisters the number the session remembers for its file, and
the model shows what happens when the number has a new owner. `Halt` records the
ends of the process other than its shutdown: "abort", "exit", "assert" (a buffer
advanced past its end) and "undefined" (a session used after it was freed).

Bytes are counted. A reply line has `ReplyLen` bytes, a mail `Size[m]`, and `send`
takes any part of what is offered. The byte stuffing loop is `Moves`, every number
of bytes and dots it can produce; `MailTransfer` spells the bytes, and its run
checks (`LoopMoves`) that the loop never does anything `Moves` leaves out.
Requests arrive whole: what a parser makes of the bytes is in `RequestStream`.

`errno` belongs to the process. A handler that ends with a call that may fail leaves one
of `Failed` in it, and a datagram of the administration one of `ErrorsLeft`
(`AdminRead`): `strtol` on its version, its id or its limit (admin.c:205, 217, 307) leaves
ERANGE, whatever token the datagram has. `Parse` is what the test of pop3.c:808, 911 and
1083 finds after the `strtol` of a session, which sets ERANGE for a number that does not fit
and else leaves what was there: `BadNumber`, ERANGE or EINVAL, refuses the argument.
`ErrorsLeft` is a constant, since what calls leave in `errno` depends on who sends what.

The selector refuses a descriptor it cannot index and one that is in use (`Refuses`); the
second never happens while the kernel gives out numbers that are not open.

Bounds: `Conn` (how many sessions exist at once), `FdLimit` (descriptors left to
the process), `Word` (where the metric wraps). Everything else is finite by
itself, so TLC explores unbounded runs: sessions come and go for ever.

### Pop3Parser and RequestStream

The tables are rows tried in order (`Table`), `Feed` takes the first row that
matches, and `FeedAll` is the loop around it. `RequestStream` is one session and a
client that sends one of `Streams` in pieces of any size; `taken` is a history of
what the session executed. The properties compare it with `RequestsIn`, a
definition that cuts the stream at every CR LF and looks at each line, without
parser, buffer or handlers.

### MailTransfer

One session retrieves mails one after the other; `sent` is what its client
received. The properties decode that from the client's side.

### Logger

The memory is a sequence of bytes, with the waiting ones at `buffer_start`, because
moving, growing and overwriting them is what could go wrong. A byte is the number
of its message. `file` and `printed` are histories.

### EventLoop

`Pop3Server` lets the handlers happen in any order, which makes its safety properties
hold for any selector. `EventLoop` adds what `selector_select` really does. `Select`
copies the sets and takes what `pselect` reports: some of the descriptors with an
interest, among them every one that is ready. `Listen` passes the two passive sockets and
the socket of the administration, which have the lowest numbers (`Listeners`); `Visit` calls
the handler of the lowest descriptor past
`pos` that was reported and whose owner is interested *now*; `EndIteration` goes back to
`main`, where alone a signal is noticed (`Ending`). `since`, the descriptors that were
registered in this iteration, is a history and guards nothing. `NoStaleReadiness` says with it that
a handler never runs because of the readiness of a descriptor's former owner: the
copies are never cleared, and what saves the server is that a number is used again
only by accepts, which come first in an iteration, and for files, which a session
opens while its own socket is being served.

### Users, AdminServer, AdminChannel

`Users` is the array. A handler of the administration is a function of the record it
may touch (`Admin`: users, limits, `errno`, the static request), so `AdminChannel` and
`AdminLogins` share it. A datagram is its number of lines and what they hold.
`Taken` writes only the fields whose line is there, `Wrong` and `Accepted` are the
tests of `parse_request` with their quirks: the count of lines starts at 0, so a header
of four lines passes; a request whose ten lines were all seen passes whatever they
hold; `errno` is never cleared before `strtol`, so that an old error refuses a good
number. `Undefined` is the call of an action that does not exist: four lines after a
datagram with an unknown command get there, and the server of the model stops.

In `AdminChannel` the network is two sets that only grow, so every message can be
lost, repeated, delayed and reordered. A client sends everything, then receives or times
out as many times as it sent. `answers` keeps what each response was made from (`of`,
`cmd`, `args`), a history that the properties use. Other programs send `Strays` at any time.

### AdminLogins

The other half of `usersADT.c`: `user_s` and `authorization.pass` of a session point
into memory that `usersADT_add` and `usersADT_update_pass` give up. A session is what it
takes to follow these pointers; each of them is live or freed, and using a freed one
stops the model in `freed`. `realloc` may move an array that grows, or not.

## Abstract specifications

`Maildrop` has a set of mails for each user and, for each session, the maildrop it
holds, what it saw and what it marked. A session has a maildrop to itself; `QUIT`
removes exactly what it marked; sessions that end any other way remove nothing; mail
may arrive at any time. `Pop3Properties!Drop` instantiates it with the sessions of
the server (`HeldSession`). `ImplementsMaildrop` is checked in `long_mails`, where sessions
list, retrieve, mark, reset and quit while descriptors are mixed up and used up, and
proved in `Pop3ServerProofs`.

`Directory` has the password of each user, a limit and a path. Users are never removed,
one password changes at a time, a limit is never negative. `AdminProperties!Dir` maps the
array of the server to it, and `ImplementsDirectory` is checked and proved.

`Pop3Server` itself is the abstract specification of `EventLoop`: every step of the
loop is a step of the handlers or leaves them alone (`LoopIsServer`).

## Runs

| Run | Question |
|---|---|
| `transfer` | LIST and RETR that fit the output buffer, with two sessions on two maildrops: nothing but the shutdown ends the server; interests, the output buffer, locks, the end of sessions and the count of connections are right |
| `long_mails` | Mails longer than the output buffer, where a stale descriptor number can hit another session, with DELE, RSET and QUIT: types, exclusion, references, open descriptors, the release at the shutdown, the file buffer and the promises of `Maildrop` still hold |
| `liveness` | Under the selector's loop, with connections that break: readiness is never stale, no descriptor starves, commands are completed and QUIT closes |
| `requests` | Streams of mixed pieces (a command, a letter, a mark, space, CR, LF, another byte) and of pipelined lines, in every cut: executed in order as the reference definition reads them, nothing waits in the read buffer, everything is executed |
| `mails` | Two mails in a row, every mail of up to three bytes over {CR, LF, dot, text} and the sequences that matter at the seams: decoded by the client as stored, one end, answered |
| `log` | The log buffer: moves, growth, limits, partial and failed writes; what waits is written in the end |
| `admin` | A client whose datagram is sent twice, stray datagrams that are short, unknown or conflicting, a network that loses, repeats and reorders: each request is executed and answered as itself, `+OK` is true, users are added once, timeouts are real, the client ends, `Directory` is implemented |

The runs that end in a violation each show one disagreement between the code and
what its comments or assertions say; "findings" in `PROJECT.json` quotes them.

| Run | What the counterexample shows |
|---|---|
| `abort_at_finish` | A client retrieves a mail that fills the output buffer, the file ends and is closed, the terminator does not fit, the client breaks: `finish_connection` unregisters the file again and aborts the server |
| `stuffing_overflow` | The output buffer is full when the loop starts: `write_max - 1` wraps around |
| `stale_errno` | `LIST 99999999999999999999` of one session makes the RETR of another forget its open file |
| `log_tail` | After a partial write the last write starts at the wrong byte |
| `moved_users` | A user is added to a full array while a session is logged in: the array moves, and the session frees its maildrop in the old one |

Seven more configurations, kept beside the runs, end in a counterexample too: other ways in which
the same stale numbers and the same `errno` go wrong, two quirks of the administration, and
what happens at limits that the build does not have by default. `tlc -config X.cfg M` finds
each in less than a minute.

| Configuration (module) | What is violated | What the counterexample shows |
|---|---|---|
| `LockedMaildrop.cfg` (`MCLockedMaildrop`) | `LockMatchesHolder` | As in `abort_at_finish`, but the number of the file has a new owner: it is closed without its `finish_connection`, and its maildrop stays locked. "Liberamos la casilla del usuario" (pop3.c:609) |
| `OldCommand.cfg` (`MCAdminChannel`) | `UnknownIsRefused` | After a datagram with an unknown command, one of four lines passes (admin.c:194) and the entry past the actions is called (admin.c:167), where "Invalid command" (admin.c:57) is the answer |
| `RefusedQuery.cfg` (`MCAdminChannel`) | `QueriesSucceed` | ERANGE left in `errno` makes a valid query fail (admin.c:206). Section 4.2 of the RFC: 'Ante un valor de respuesta "-" se asume que resultó imposible la obtención del valor' |
| `LostTimeout.cfg` (`MCAdminChannel`) | `EveryTimeoutReported` | The answer to the second command clears the timeout of the first (admin_resp.c:46), whose answer was lost; section 5 of the RFC tells them apart by their id |
| `NoDescriptor.cfg` (`MCPop3Server`) | `MailFailureClosesOnlyItsSession` | No descriptor is left for the mail of a RETR: the process exits (pop3.c:1029). "cerramos la conexion, no pudimos abrir el archivo" (pop3.c:1046) |
| `RefusedAccept.cfg` (`MCPop3Server`) | `CountMatches` | The selector cannot index a new connection: it is counted out without having been counted in (pop3.c:358, 414), and the count wraps around |
| `UnindexedFile.cfg` (`MCPop3Server`) | `OneInterest` | It cannot index the file of a RETR: nobody looks at its refusal (pop3.c:1034), and the session waits for a descriptor that is never selected |

The refusals of the selector take `ulimit -n` above 1024 (`FD_SETSIZE`), the exit a
process that ran out of descriptors; the others take nothing but clients.

`AnswersThisRequest`, `PlusIsTrue` and `ImplementsDirectory` do not see `RefusedQuery.cfg` and
`OldCommand.cfg`: a valid request that is refused changes nothing and is answered
with "-", and a client of `src/admin` sends headers that are whole. `TimeoutIffSilent`
leaves out the first command of a client, which is the one of `LostTimeout.cfg`.

`BadNumbers.cfg` (`MCPop3Server`) passes: with ERANGE in `errno` at any time, left by sessions or by the
administration, a RETR is reset half way and its file outlives it, and still `References`,
`DescriptorsTracked`, `ShutdownReleases` and `CountMatches` hold, as the theorems say.

Why the bounds are enough. Two sessions are what a conflict about a maildrop or a
descriptor takes; sessions reuse their objects, so
short-lived ones come in any number. The sizes of buffers are chosen at the
boundaries the code tests: in `transfer` an answer fits the output buffer whole, in
`long_mails` and the counterexamples it does not by one byte, and the file buffer is
shorter than a mail so that RETR returns to the file. `FdLimit` allows for the
directory and the file of every session in `transfer`, and for less in the other
runs. Streams, mails and log messages are longer than their buffers, which is
where compaction, growth and splitting happen; `Requests.cfg` has a read buffer
shorter than two commands and an argument of one byte, so that the limits are met.
`Faults` allows any `send`, `recv` or `read` to fail. `ErrorsLeft` has ERANGE in `BadNumbers.cfg`;
in the runs calls leave errors that `strtol` is not suspected of ("OTHER"), because
one ERANGE is enough to break what `transfer` says, as `stale_errno` shows with that of a session.
`ItemsMax` is above `FdLimit` in all runs, as the build has with the usual limit, and below it in the
two configurations with refusals. `LockedMaildrop.cfg` needs a third session: the
directory of a mail is opened before it, so a lower number is free after it, and two new sessions
are needed for the second one to get the number of the file; `SessionSymmetry` permutes
them, which nothing in `LockMatchesHolder` can tell.

`liveness` has one mail that arrives while the server runs and an output buffer that takes
a LIST in two visits and fits a RETR with its file, because each further mail multiplies
the positions of the loop; what it asks is about the two descriptors of a session and
the neighbours that come and go, and two sessions are enough for that. `admin` has one client with
three datagrams, an addition, the same again and a limit, and five stray datagrams: one
of four lines, one with an unknown command, a number out of range, a password of
another user, and the user that the client adds too. That is each way two requests can
meet in the static request and in the users; `Chunk` = 1 makes the array full each time. For more clients
there are the theorems. `moved_users` needs one user, a full array and one session of two.

`CHECK_DEADLOCK FALSE`: a server that stopped, a client that has nothing more to
send and a closed log have no further step, and those are ends and not deadlocks.
That work that remains is done is what the liveness properties say.

## Fairness

Nothing is assumed about single handlers. `FairLoop` says that the one thread of the
server goes on: `pselect` returns (`Select`), the sockets of accepts and of the administration are
passed (`Listen`), and an iteration goes from descriptor to descriptor (`Advance`). That every
descriptor gets its turn is then a property, `NobodyStarves`, and not an assumption.
Files are always ready. A socket is ready for writing as long as its client reads,
and that is an assumption about clients (`ClientsRead`): without it RETR waits, rightly.
Connections may break at any call (`Faults`); the session then ends, which the
liveness properties accept as an answer.
Nothing is assumed about reading requests in `Pop3Server`: a client may be silent
for ever (the server has no timeout). `RequestStream` assumes that bytes sent
arrive in the end. `Logger` assumes that a selected
log file is tried again and that one of these writes accepts a byte in the end.
In `AdminChannel` `recvfrom` of the client returns, with an answer or after the five
seconds of `SO_RCVTIMEO`; nothing is assumed about the server or the network.

## Proofs

`Pop3ServerProofs` proves, from `ConstantsAssumption` alone and so for any number of
sessions, users, mails, descriptors and any sizes,

* `TypeCorrect`: `Spec => []TypeOK`,
* `Exclusive`: `Spec => []ExclusiveMaildrop`.

Neither is inductive. A maildrop is exclusive because `logged` is set while somebody
holds it, so the invariant has to say that (`LockOK`: whoever holds a maildrop has
its bit set, and no two hold the same one). That bit is cleared by
`finish_connection` and by QUIT on behalf of the session that ends; the
delicate case is a session in ERROR after QUIT, which left TRANSACTION, and a
session that is freed because its descriptor was taken for a stale file: there a
maildrop may stay locked but it is never shared.
`IInv` is `TypeOK`, the states the sessions can be in, and `LockOK`. The proof has a
lemma for each of the functions the handlers are made of (`CloseSession`,
`Unregister`, `Finish`, `Reply`, `Send`, ...) and one step for each action.

`Pop3ServerProofs` proves `ServerIsMaildrop`: `Spec => ImplementsMaildrop`, with no further
assumption, so also where descriptors are mixed up and a maildrop stays locked. The argument
is about what one call can do to the sessions of others. There is a lemma
of it for each function and each action: every session is kept as it was or loses its maildrop
(`Keeps`, `Quiet`), except that PASS can take a maildrop (`Takes`), DELE and RSET
change the marks of the session that runs them and QUIT gives its maildrop back with the
marked mails gone (`Quits`). A quiet step is `End` of the sessions that lost theirs; the
others are `Login`, `Mark`, `Unmark` and `Commit`. `Login` requires a free maildrop, which is
`LockOK`, and starts without marks, which is why `Sound`, the states a session can be in, says
that nothing is seen or marked before login.

`LoggerProofs` proves `RoomAlways` and `NeverLost` for every buffer size, chunk,
message length and failure: the strengthening is the conjunction of types, room for
the NUL and conservation of bytes, because bytes are only kept if printing never
writes over waiting ones, which needs the room. Its core are lemmas about
`SubSeq` of a memory that was moved (`Moved`), grown or printed to (`Put`). From the same
invariant follow `TypeCorrect` and, with the fact that everything that is printed asks
for the interest, `NoneForgotten`: bytes never wait in a log that nobody selects.

It also proves `MailsStay`: what a session listed at PASS stays in the maildir of
its user while the session has the maildrop, so RETR (pop3.c:1028) never fails because of
another session.

### Descriptors, and what ends the process

`DescriptorProofs` is about descriptors, references, interests, locks and buffers. Its
theorems assume as little as the counterexamples leave; each hypothesis is named in the statement.

*Whatever happens.* `MetricRight` is `Spec => CountFollows`, without any hypothesis:
`current_connections` moves by the sessions that begin and end, and goes one down at each
connection that is refused, which is all that is wrong with it. The invariant is `Ahead`: for
some k the metric is k more than the number of sessions, modulo its width. A refused connection
adds `Word - 1` to k, and nothing else changes it.

*When the selector can index every descriptor* (`AllIndexed`, which is `FdLimit <= ItemsMax`):
`ReferencesRight`, `CountRight`, `DescriptorsRight` and `ShutdownReleasesAll` prove `References`,
`CountMatches`, `DescriptorsTracked` and `ShutdownReleases`. They hold through aborted
transfers, files that a reset leaves behind, descriptors that are closed for others and
mails of any length. `AllIndexed` is needed for each: `RefusedAccept.cfg` breaks `CountMatches`
without it, and a file that is not indexed is counted by `references` and closed by nobody.
`Agrees` is their invariant, over the state in the middle of a handler as well, because each
function of a handler (`Register`, `Unregister`, `CloseSession`, `Finish`) keeps it: a session
that exists has one reference less than descriptors in the table, an open descriptor is in
the table, and the metric is as before. It does not know in which state a session is,
which is why errors cannot disturb it.

*Outside of the accidents.* What sessions, selector and kernel agree about beyond that is false as
it stands, and the runs with a violation show why. `Sheltered` excludes three accidents and
nothing else:

* `EndFits`: the file of a RETR ends while the output buffer has no room for the
  last line (`abort_at_finish`, `LockedMaildrop.cfg`);
* `NumbersParse`: `errno` still says ERANGE or EINVAL while a file is open, whoever left it,
  a session or the administration (`stale_errno`);
* `AllIndexed` (`UnindexedFile.cfg`).

`Spec /\ []Sheltered` implies `[]` of `OneInterest`, `FreshOutput`, `NoStaleFile`,
`SessionFreed`, `LockMatchesHolder` and `FinishFindsItsFile`, for any number of sessions, users,
mails and descriptors, mails of any length, and whatever breaks. None is inductive. `CleanInv` is:

* `Orderly`: what a session object keeps to itself, that is, in which states it
  is in the middle of an answer (`MidAnswer`) and what is then in its buffers. Without
  it `finish_connection` could not know whether it has a file to unregister;
* `Tracked`: a descriptor that the selector does not have is closed;
* `Whole`: a session has exactly the descriptors it remembers, of the right
  kind, and `references` counts them. While `selector_destroy` closes them one by
  one that is true of what is left (`Partly`), because each close may or may not free
  the session;
* `Control`: each of them has the interest that the state asks for;
* `LocksHeld`: a bit is set only while somebody holds the maildrop.

The proof says for each function and handler what it does to one session (`Working`), and
that the others have their descriptors as before (`SameElsewhere`); the lowest free
number is nobody's, which is what makes `accept` and `open` safe.

`NeverEnds` proves `NeverHalts` when, besides, the byte stuffing loop has room (`RoomToStuff`,
the accident of `stuffing_overflow`) and there are two descriptors for each session and one more
(`DescriptorsSuffice`; without it `NoDescriptor.cfg`): nothing but its shutdown ends the server. What
it needs beyond `CleanInv` is that a descriptor is free when one is opened, by counting what
the sessions have, and `MailsStay`. So the accidents that the runs show are all there
are: no other end of the process exists in the model.

When do they not happen? `TakenMailsShelter` proves `[]Sheltered` and `[]RoomToStuff` from `WholeSends`, that
every `send` takes the whole of what the session has for it, and `NumbersParse`, when descriptors can
be indexed and the first and the last line of an answer fit in the output buffer together. Nothing is said about the
length of a mail: what waits in the output buffer while a file is open is the first line of the answer
and no more (`Timely`), because each visit of the loop starts with an empty buffer. `WholeSends` is about
the clients and not about the server: a socket that the kernel reports as writable has room for
some bytes and usually for the 4096 of the buffer, but a client that stops reading can make any
`send` partial. `NumbersParse` stays a hypothesis, since any datagram and any session can
make it false. Both hypotheses are about behaviours, and they are satisfied by those in which
clients read and no number is out of range.

The last part of `DescriptorProofs` proves `LoopIsServer`, that `LoopSpec` implements `Spec` of `Pop3Server`
(every action of the loop is one of its actions or a stutter), and with it `LoopExclusive`:
what was proved for handlers in any order holds for the order of the selector. It also proves
`ReadinessIsFresh` (under `[]Sheltered`), which is `NoStaleReadiness`. The invariant `Current` says of each descriptor that was reported and is still to be visited
that it was not opened in this iteration, is registered, and has the interest it was reported
for. A handler keeps that because a session waits on one descriptor at a time
(`OneInterest`), so what it changes is not still to be visited, and because a file is opened
with a number that the selector does not have, which is therefore not among those.

`AdminProofs` proves, for any clients, options, stray datagrams, sizes and any loss,
repetition and order, `TypeCorrect`, `RequestIsolation` (`AnswersThisRequest`), `PlusIsSound`,
`UserAddedOnce`, `TimeoutsAreReal` and `AdministrationIsDirectory`. The invariant is the
conjunction of these properties and `UsersStay`, that whoever was there at the start or
was added successfully is in the array: without it `AddedOnce` is not inductive. The
core is `AdminServerProofs`: what each command leaves of the users, the types and the request, and
(`Effect`, in `AdminProofs`) that it is a step of `Directory`. That a client's requests have
at least six lines is why nothing old is left for them in the static request.

`AdminLoginsProofs` proves `OneSessionEach` and `MarksAreTrue`: as long as no session has
used freed memory, a user is marked as logged in exactly while one session is, whatever
users are added and passwords changed. They assume `LoginsAssumption`, that the command
line starts with nobody logged in. `moved_users` shows the way out of that "as long as".

### The bytes of a mail

`TransferProofs` proves the five safety properties of `MailTransfer` that `mails` checks on short
mails and small buffers, for all of both: `MailCorrect` (what the client decodes is the mail),
`EndSeenOnce` (it sees the end when all was sent and nowhere before), `EndCorrect`,
`TypeCorrect` (nothing is written past a buffer) and `MovesCorrect`, which is what
`Pop3Server` is told about the loop: it chooses from `Moves` and does not know the bytes.

`Stuffed(m, i)` is what the loop makes of the first i bytes of the mail m, as if the output buffer
had no end, and `FlagAfter(m, i)` what it remembers then. The invariant `TransferInv` says that
for some i the bytes after the first i of the mail are in the file buffer and then in the file, that
the flag is `FlagAfter(m, i)`, and that what was sent and what is in the output
buffer are together the first line and `Stuffed(m, i)` (`Halfway`), or the whole answer (`InEnd`, `AtRest`). None of the
five properties is inductive without it. It is an invariant because the loop may stop
anywhere: `StuffFollows` proves that a loop which starts at i with the flag of i and takes n
bytes has appended exactly the rest of `Stuffed(m, i + n)`. The properties then are facts about
`Stuffed`: where each byte of the mail is in it (`Placed`), that lines start for the client where the flag says so
(`StartsLine`) and that every byte comes from one of the mail (`WrittenFrom`). From these
follow `NotInTheMail`, that no line of it looks like the last one, and
`Decoded`, by induction over the bytes.

The loop and `FlattenSeq` are recursive functions, and neither the theorems of the
library about induction nor those about recursion can be used, because they take an operator as a parameter.
The first part of `TransferProofs` replaces them by statements about sets and functions:
`Least` (every nonempty set of natural numbers has a least element) follows from the
theorem that the strict subset ordering on finite sets is well-founded, `Induction` from
`Least`, and `Recursion`, that a function can be iterated, by `Induction`. The loop is a
function of the number of turns alone, because the provers know nothing of functions of several arguments.

### The requests of a stream

`RequestProofs` proves the four safety properties of `RequestStream` for every stream of bytes,
every way it arrives and every size of the argument and of the read buffer: `OrderCorrect`,
`StallCorrect`, `EndingCorrect` and `TypeCorrect`. The properties compare the session with
`RequestsIn`, which cuts the stream at every CRLF and looks at each line as a whole, while the
parser sees one byte at a time and latches errors. `Parsed(p, x)` says what a parser
must have made of a line of which it saw x: unless x ends in CR, an error is latched exactly if x is
not the beginning of a well-formed line (`Good`), and else the state is a function of the length and the text is
kept (`Text`); after a CR the error says whether the line was `WellFormed`. `ByteParsed` proves
it byte by byte, with one lemma for each part of a line, from the tables of the parser
(`FeedIs`). On the side of the stream, `RequestsSame` and `RequestsMore` say what one byte more makes of
`RequestsIn`; for that the i-th end has to be the same one however much of the stream is there (`Ranked`,
`NthIs`). The invariant `RequestInv` joins the two: the parser knows the open line of the
bytes that were taken from the buffer, `taken` is `RequestsIn` of these, and the buffer has the
rest of what arrived. `LoopTakes` carries it through the loop around `parser_feed`, which is a
recursive function of the parser and the bytes: `RunExists` shows that there is such a function, by
`Recursion` from the last byte down. Induction and buffers are as in `TransferProofs`.

### What is only model-checked

Liveness under the fairness above: `CommandCompletes`, `QuitCloses` and `NobodyStarves`
(run `liveness`), `EveryRequestTaken` (`requests`), `Answered` (`mails`), `Flushed` (`log`)
and `Terminates` (`admin`). Using weak or strong fairness needs `ENABLED`, which the
provers have no rule for. Every safety property of a passing run is proved, under the
hypotheses that its theorem names.

## Not modelled

* Failure to allocate memory, except in the logger; the tests of `errno == ENOMEM`
  after successful calls, among them the one of usersADT.c:121, after which a new password was
  stored in vain.
* The text of replies and log lines, the data and wording of the answers to GET and
  STAT commands; the metrics `historic_connections` and `bytes_sent`.
* Which bytes put which error into `errno` of the sessions: `ErrorsLeft` is any set of them.
* Mails removed or changed by other programs; deliveries only add mails. `unlinkat`
  does not fail. The array of results of the maildir reader and its growth.
* Limits and paths that change while a session lists its maildrop: `AdminChannel` has
  the commands, `Pop3Server` the sessions, and `MaxMails` is a constant there.
* The copies of names and passwords, cut at 128 bytes; `usersADT_validate`, which the
  server does not call.
* The buffer and the count of options of the client's `main` (src/admin/main.c:16), which it reads
  before they are written: the count is taken for the zero of a fresh heap, the
  buffer for anything.
* The growth of the selector's table, which never happens because `main` asks for 1024
  items; blocking jobs, which nobody uses.
* The parsing of both command lines, the set-up of the sockets, the build files.

## Plan

1. `Pop3Server` with the limit and the path of the administration as variables.
2. `MaildirReader`: the listing and its growth, with files that are no mails.
3. Metrics with their widths.
