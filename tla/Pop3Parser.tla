----------------------------- MODULE Pop3Parser -----------------------------
(***************************************************************************)
(* The request parser: parserADT.c run over the tables of                  *)
(* pop3_parser_definition.c.  A parser is a value, and feeding it a byte   *)
(* is a function of the parser and the byte.  Bytes are members of Byte;   *)
(* the classes the tables test are the sets below.                         *)
(***************************************************************************)
EXTENDS Naturals, Sequences

CONSTANTS
  Letter,      \* is_letter
  Mark,        \* the printable bytes that are no letters
  Other,       \* the bytes no table names
  SP, CR, LF,  \* space, carriage return, line feed
  ArgMax       \* ARG_MAX_LENGTH

CmdLength == 4
Printable == Letter \cup Mark
Byte == Printable \cup Other \cup {SP, CR, LF}

ASSUME BytesAssumption ==
  /\ ArgMax \in Nat
  /\ SP # CR /\ SP # LF /\ CR # LF
  /\ {SP, CR, LF} \cap (Printable \cup Other) = {}

ParserState == {"INIT", "CMD_1", "CMD_2", "CMD_3", "CMD_4", "ARGST", "MAYEND",
                "ENDST", "ERRST"}

\* State, text of the command, text of the argument, and whether an action
\* reported an error since the last reset.
Parser == [state : ParserState, cmd : Seq(Letter), arg : Seq(Printable),
           error : BOOLEAN]

\* parser_init
Start == [state |-> "INIT", cmd |-> <<>>, arg |-> <<>>, error |-> FALSE]

\* Mutation: the error of the last request is not forgotten.
ResetKeepsError(p) == [p EXCEPT !.state = "INIT", !.cmd = <<>>, !.arg = <<>>]

\* parser_reset
Reset(p) ==
  [p EXCEPT !.state = "INIT", !.error = FALSE, !.cmd = <<>>, !.arg = <<>>]

-----------------------------------------------------------------------------

To(when, dest, action) == [when |-> when, dest |-> dest, action |-> action]

\* What every state but ENDST ends with; a CR may end the request, in error or not.
Otherwise(cr) == <<To({CR}, "MAYEND", cr), To(Byte, "ERRST", "err")>>
CmdRow(dest) == <<To(Letter, dest, "cmd")>> \o Otherwise("err")

\* The transition tables, in the order in which parser_feed tries them.
Table ==
  [INIT   |-> CmdRow("CMD_1"),
   CMD_1  |-> CmdRow("CMD_2"),
   CMD_2  |-> CmdRow("CMD_3"),
   CMD_3  |-> CmdRow("CMD_4"),
   CMD_4  |-> <<To({SP}, "ARGST", "def")>> \o Otherwise("def"),
   ARGST  |-> <<To(Printable, "ARGST", "arg")>> \o Otherwise("def"),
   MAYEND |-> <<To({LF}, "ENDST", "end")>> \o Otherwise("err"),
   ENDST  |-> <<To(Byte, "ENDST", "def")>>,
   ERRST  |-> Otherwise("err")]

\* Mutation: one byte too many fits the argument.
ArgActionLoose(p, c) ==
  IF Len(p.arg) <= ArgMax THEN [p EXCEPT !.arg = Append(@, c)]
                          ELSE [p EXCEPT !.error = TRUE]

\* arg_action
ArgAction(p, c) ==
  IF Len(p.arg) < ArgMax THEN [p EXCEPT !.arg = Append(@, c)]
                         ELSE [p EXCEPT !.error = TRUE]

\* cmd_action
CmdAction(p, c) ==
  IF Len(p.cmd) < CmdLength THEN [p EXCEPT !.cmd = Append(@, c)]
                            ELSE [p EXCEPT !.error = TRUE]

\* The action of a transition; an error is latched until the next reset.
Act(p, action, c) ==
  CASE action = "cmd" -> CmdAction(p, c)
    [] action = "arg" -> ArgAction(p, c)
    [] action = "err" -> [p EXCEPT !.error = TRUE]
    [] action \in {"def", "end"} -> p

\* Mutation: the last transition that matches is taken.
FeedLast(p, c) ==
  LET row  == Table[p.state]
      hits == {i \in DOMAIN row : c \in row[i].when}
      hit  == row[CHOOSE i \in hits : \A j \in hits : j <= i]
  IN  Act([p EXCEPT !.state = hit.dest], hit.action, c)

\* parser_feed: the first transition whose condition holds.
Feed(p, c) ==
  LET row  == Table[p.state]
      hits == {i \in DOMAIN row : c \in row[i].when}
      hit  == row[CHOOSE i \in hits : \A j \in hits : i <= j]
  IN  Act([p EXCEPT !.state = hit.dest], hit.action, c)

\* parser_feed returns PARSER_FINISHED, or PARSER_ERROR when an error is latched.
Complete(p) == p.state = "ENDST"

\* The loop around parser_feed: bytes are fed up to the end of a request, or to
\* the last one.  The result is the parser and the number of bytes it took; Run
\* has a parser and how many it took so far.
FeedAll(p, bytes) ==
  LET Run[x \in Parser \X (0..Len(bytes))] ==
        LET q == x[1]
            n == x[2]
        IN  IF Complete(q) \/ n = Len(bytes) THEN [parser |-> q, used |-> n]
            ELSE Run[<<Feed(q, bytes[n + 1]), n + 1>>]
  IN  Run[<<p, 0>>]

\* What the handlers take from the parser: get_pop3_cmd and get_pop3_arg, or a
\* request that is answered as ERROR_COMMAND.
Bad == [bad |-> TRUE, cmd |-> <<>>, arg |-> <<>>]
Request(p) == IF p.error THEN Bad ELSE [bad |-> FALSE, cmd |-> p.cmd, arg |-> p.arg]
=============================================================================
