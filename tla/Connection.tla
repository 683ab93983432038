----------------------------- MODULE Connection ----------------------------
(***************************************************************************)
(* One client of src/src/server.c: the context on_new_connection makes,    *)
(* its two libuv handles (the stream and the inactivity timer), the parser *)
(* that collects a command from what on_read delivers, the reply, and the  *)
(* callbacks that take everything down again.                              *)
(*                                                                         *)
(* libuv is external: modelled is what the server uses of it.  One thread  *)
(* goes round the phases of the loop, and runs a callback to its end.      *)
(* uv_close of a handle is an assertion failure, which aborts the process, *)
(* when the handle is closing already or was never initialised.  A handle  *)
(* closed in one phase is finished in the closing phase: a stream runs the *)
(* callbacks of its unfinished writes, as cancelled, then its own.  Time   *)
(* is not modelled: a timer that runs may be due whenever the loop looks.  *)
(*                                                                         *)
(* Of the byte stream, a number is one digit and the bytes of an argument  *)
(* are all alike.  A store past the end of a heap block, or a read of one  *)
(* that was freed, is harmless or ends the modelled part of the run        *)
(* (status "corrupt").                                                     *)
(***************************************************************************)
EXTENDS Integers, Sequences, FiniteSets, SequencesExt

CONSTANTS
  Scripts,        \* what a client may send, each [lead, commands, end, rest]: the
                  \* argument lengths of its commands, the two characters that end
                  \* an argument, and what goes before and after the commands
  ARGS_MAX,       \* 1024 in the code
  LEN_MAX,        \* 8192 in the code
  WriteOutcomes,  \* what uv_write may come to at once: "sent", "queued", "failed"
  MallocMayFail,
  AcceptMayFail

ASSUME ConnectionAssumption ==
  /\ ARGS_MAX \in Nat /\ LEN_MAX \in Nat
  /\ WriteOutcomes \subseteq {"sent", "queued", "failed"} /\ "sent" \in WriteOutcomes
  /\ MallocMayFail \in BOOLEAN /\ AcceptMayFail \in BOOLEAN

VARIABLES
  \* the client
  script, unsent, peer,
  inbox,          \* received by the kernel, not yet read
  phase,          \* of the loop
  stream, timer,  \* the states of the two handles
  writes,         \* the write requests whose callback has not run
  \* client_context_t
  ctx, buffer, state, args_total, args_parsed, data_to_read,
  temp_argv,      \* the argument arrays (with temp_arg_lengths) are there
  blocks,         \* allocated for arguments and not freed: the arrays, as one, and
                  \* the strings
  parsing,        \* parse_buffer is in its loop
  executed,       \* commands given to execute_command
  status          \* of the process: "up", "aborted", "corrupt"

client  == <<script, unsent, peer, inbox>>
handles == <<stream, timer, writes>>
counts  == <<args_total, args_parsed, data_to_read>>
memory  == <<temp_argv, blocks>>
parser  == <<buffer, state, counts, memory, parsing, executed>>
vars    == <<client, phase, handles, ctx, parser, status>>

-----------------------------------------------------------------------------
(***************************************************************************)
(* The characters of the protocol, and the format of a command: what       *)
(* tools/scripts/SCDClient sends, when the two characters are CR LF.       *)
(***************************************************************************)
\* The two marks, a digit, the line end, and any other.
Chars == [char : {"*", "$", "0", "r", "n", "x"}, num : Nat]

Character(c) == [char |-> c, num |-> 0]
Byte == Character("x")
CR   == Character("r")
LF   == Character("n")
CRLF == <<CR, LF>>

\* "*" or "$" with a number, and the end of the line.
Header(mark, n) == <<Character(mark), [char |-> "0", num |-> n]>> \o CRLF

\* A command is the sequence of the lengths of its arguments, its name first: the
\* characters up to the end of each argument, and of the last.
FormattedUpTo(lens, end) ==
  LET Arg(len) == Header("$", len) \o [i \in 1 .. len |-> Byte] \o end
      upto[i \in 0 .. Len(lens)] ==
        IF i = 0 THEN Header("*", Len(lens)) ELSE upto[i - 1] \o Arg(lens[i])
  IN  upto

format_resp_command(lens, end) == FormattedUpTo(lens, end)[Len(lens)]

\* The characters of a script up to the end of its first n commands.
Through(s, n) ==
  LET upto[i \in 0 .. Len(s.commands)] ==
        IF i = 0 THEN s.lead ELSE upto[i - 1] \o format_resp_command(s.commands[i], s.end)
  IN  upto[n]

Bytes(s) == Through(s, Len(s.commands)) \o s.rest

\* The commands are within the limits, and only line ends go before them; whatever
\* else a client may send is in the rest.
ASSUME ScriptsAssumption ==
  \A s \in Scripts :
    /\ s.lead \in Seq({CR, LF})
    /\ s.commands \in Seq(Seq(0 .. LEN_MAX))
    /\ \A n \in 1 .. Len(s.commands) : Len(s.commands[n]) \in 1 .. ARGS_MAX
    /\ s.end \in Seq(Chars) /\ Len(s.end) = 2
    /\ s.rest \in Seq(Chars)

-----------------------------------------------------------------------------
(***************************************************************************)
(* libuv.                                                                  *)
(***************************************************************************)

\* A callback of phase p may run.
In(p) == status = "up" /\ phase = p /\ ~parsing

Abort == status' = "aborted" /\ UNCHANGED stream

\* uv_close of the stream.
CloseStream == IF stream = "open" THEN stream' = "closing" /\ UNCHANGED status ELSE Abort

\* uv_write: tried at once unless others wait.
uv_write == \E w \in IF "queued" \in ToSet(writes) THEN {"queued"} ELSE WriteOutcomes :
              writes' = Append(writes, w)

\* A store past the end of a block from malloc.
Overrun == status' \in {"up", "corrupt"}

-----------------------------------------------------------------------------
(***************************************************************************)
(* The client.                                                             *)
(***************************************************************************)
Unseen == UNCHANGED <<phase, handles, ctx, parser, status>>

ClientSends ==
  /\ status = "up" /\ peer = "open" /\ unsent # <<>>
  /\ \E n \in 1 .. Len(unsent) :
       /\ inbox' = inbox \o SubSeq(unsent, 1, n)
       /\ unsent' = SubSeq(unsent, n + 1, Len(unsent))
  /\ UNCHANGED <<script, peer>> /\ Unseen

\* Closed after what was sent, or reset, which may overtake it.
ClientLeaves ==
  /\ status = "up" /\ peer = "open"
  /\ peer' \in {"closed", "reset"}
  /\ UNCHANGED <<script, unsent, inbox>> /\ Unseen

-----------------------------------------------------------------------------
(***************************************************************************)
(* Connecting.                                                             *)
(***************************************************************************)
reset_parser ==
  /\ state' = "EXPECT_TYPE"
  /\ args_total' = 0 /\ args_parsed' = 0 /\ data_to_read' = 0

\* When calloc fails the connection is not accepted, and libuv stops asking.  Called with
\* an error of the listening socket it changes nothing.
on_new_connection ==
  /\ In("poll") /\ ctx = "none"
  /\ \/ ctx' = "live" /\ stream' = "open" /\ timer' = "running"
     \/ AcceptMayFail /\ ctx' = "live" /\ stream' = "closing" /\ UNCHANGED timer
     \/ MallocMayFail /\ ctx' = "refused" /\ UNCHANGED <<stream, timer>>
  /\ reset_parser
  /\ UNCHANGED <<client, phase, writes, buffer, memory, parsing, executed, status>>

-----------------------------------------------------------------------------
(***************************************************************************)
(* Reading.                                                                *)
(***************************************************************************)

\* Mutation: the end of the stream stops the timer and nothing else.
ReadErrorIgnored ==
  /\ timer' = "stopped"
  /\ UNCHANGED <<inbox, stream, status, buffer, parsing>>

\* on_read with nread < 0.
ReadError ==
  /\ timer' = "stopped" /\ CloseStream
  /\ UNCHANGED <<inbox, buffer, parsing>>

\* on_read with nread > 0: the whole inbox fits the buffer libuv asks for.  When
\* append_to_buffer fails it closes the stream, and the parser runs all the same.
ReadData ==
  /\ timer' = "running" /\ parsing' = TRUE
  /\ inbox' = <<>>
  /\ \/ buffer' = buffer \o inbox /\ UNCHANGED <<stream, status>>
     \/ MallocMayFail /\ UNCHANGED buffer /\ CloseStream

on_read ==
  /\ In("poll") /\ stream = "open"
  /\ \/ inbox # <<>> /\ ReadData
     \/ inbox # <<>> /\ MallocMayFail /\ ReadError    \* alloc_buffer failed
     \/ inbox = <<>> /\ peer = "closed" /\ ReadError
     \/ peer = "reset" /\ ReadError
  /\ UNCHANGED <<script, unsent, peer, phase, writes, ctx, state, counts, memory, executed>>

-----------------------------------------------------------------------------
(***************************************************************************)
(* parse_buffer, one round of its loop at a time.                          *)
(***************************************************************************)

\* The first line is complete: the first CR is there, and LF follows it.
FirstCR(b)  == SelectInSeq(b, LAMBDA c : c = CR)
HasLine(b)  == LET i == FirstCR(b) IN i \in 1 .. Len(b) - 1 /\ b[i + 1] = LF
After(b, n) == SubSeq(b, n + 1, Len(b))

\* Without the line ends at its head.
Stripped(b) == LET i == SelectInSeq(b, LAMBDA c : c \notin {CR, LF})
               IN  IF i = 0 THEN <<>> ELSE After(b, i - 1)

\* What strtol makes of what follows the mark.  It skips line ends as blanks, so it
\* may find the number on a later line, and when only blanks are there it reads on in
\* whatever lies behind the used part of the buffer.
Numbers(b) ==
  LET i == SelectInSeq(Tail(b), LAMBDA c : c \notin {CR, LF})
  IN  IF i = 0 THEN 0 .. LEN_MAX + 1 ELSE {Tail(b)[i].num}

\* Mutation: a length one above the limit is accepted.
AllowedOneMore(mark) == IF mark = "*" THEN 1 .. ARGS_MAX ELSE 0 .. LEN_MAX + 1

\* The numbers that may follow a mark.
Allowed(mark) == IF mark = "*" THEN 1 .. ARGS_MAX ELSE 0 .. LEN_MAX

\* Mutation: what waits for more is dropped.
BreakDiscarding(b) ==
  /\ parsing' = FALSE /\ buffer' = <<>>
  /\ UNCHANGED <<stream, writes, state, counts, memory, executed, status>>

\* Waits for more.
Break(b) ==
  /\ parsing' = FALSE /\ buffer' = b
  /\ UNCHANGED <<stream, writes, state, counts, memory, executed, status>>

\* Mutation: closes and does not return.
RejectAndGoOn ==
  /\ CloseStream
  /\ UNCHANGED <<parsing, writes, buffer, state, counts, memory>>

\* Closes and returns.  The buffer is not looked at again.
Reject ==
  /\ parsing' = FALSE /\ CloseStream
  /\ UNCHANGED <<writes, buffer, state, counts, memory>>

BadHeader(b, mark) ==
  \/ /\ b # <<>> /\ b[1].char # mark
     /\ Reject /\ UNCHANGED executed
  \/ /\ ~HasLine(b) /\ (b # <<>> => b[1].char = mark)
     /\ Break(b)
  \/ /\ HasLine(b) /\ b[1].char = mark
     /\ \E n \in Numbers(b) : n \notin Allowed(mark)
     /\ Reject /\ UNCHANGED executed

GoodHeader(b, mark, n) ==
  /\ HasLine(b) /\ b[1].char = mark /\ n \in Numbers(b) \cap Allowed(mark)
  /\ buffer' = After(b, FirstCR(b) + 1)
  /\ UNCHANGED <<stream, writes, memory, parsing, executed, status>>

ParseType ==
  LET b == Stripped(buffer)
  IN  /\ state = "EXPECT_TYPE"
      /\ \/ BadHeader(b, "*")
         \/ \E n \in Allowed("*") :
              /\ GoodHeader(b, "*", n)
              /\ state' = "EXPECT_LENGTH"
              /\ args_total' = n /\ args_parsed' = 0 /\ UNCHANGED data_to_read

ParseLength ==
  /\ state = "EXPECT_LENGTH"
  /\ \/ BadHeader(buffer, "$")
     \/ \E n \in Allowed("$") :
          /\ GoodHeader(buffer, "$", n)
          /\ state' = "EXPECT_DATA"
          /\ data_to_read' = n /\ UNCHANGED <<args_total, args_parsed>>

\* Mutation: the pointers stay, to be freed again with the connection.
FreeKeepingPointers ==
  /\ blocks' = blocks - (IF temp_argv THEN 1 + args_parsed ELSE 0)
  /\ UNCHANGED temp_argv

\* The strings and the arrays, which are then forgotten.
free_parser_resources ==
  /\ blocks' = blocks - (IF temp_argv THEN 1 + args_parsed ELSE 0)
  /\ temp_argv' = FALSE

\* The arrays with the first argument, and the block of the argument.
AllocateArgument ==
  /\ blocks' = blocks + (IF args_parsed = 0 THEN 2 ELSE 1)
  /\ temp_argv' = TRUE

\* Mutation: the two characters after the data are not waited for.
DataWithoutEnd == data_to_read

\* What is waited for, and then consumed: the data and two characters more.
DataAndEnd == data_to_read + 2

\* The last argument: the command is executed.  The LF of the reply is stored one
\* past its block, and the parser is not reset.
Execute ==
  /\ args_parsed + 1 = args_total
  /\ executed' = executed + 1
  /\ Overrun /\ uv_write
  /\ UNCHANGED state

\* Not the last argument, or one after the last: that is stored past the arrays.
StoreArgument ==
  /\ args_parsed + 1 # args_total
  /\ state' = "EXPECT_LENGTH"
  /\ IF args_parsed < args_total THEN UNCHANGED status ELSE Overrun
  /\ UNCHANGED <<writes, executed>>

\* A malloc fails: for the arrays, for an argument, or for the reply to an executed
\* command (whose store past the reply's block, if it came before, Execute accounts
\* for).  What was allocated in this round is freed again.
NoMemory ==
  /\ MallocMayFail
  /\ parsing' = FALSE /\ CloseStream /\ free_parser_resources
  /\ UNCHANGED <<writes, buffer, state, counts>>
  /\ \/ UNCHANGED executed
     \/ args_parsed + 1 = args_total /\ executed' = executed + 1

ParseData ==
  /\ state = "EXPECT_DATA"
  /\ \/ Len(buffer) < DataAndEnd /\ Break(buffer)
     \/ Len(buffer) >= DataAndEnd /\ NoMemory
     \/ /\ Len(buffer) >= DataAndEnd
        /\ buffer' = After(buffer, DataAndEnd) /\ args_parsed' = args_parsed + 1
        /\ AllocateArgument
        /\ Execute \/ StoreArgument
        /\ UNCHANGED <<stream, args_total, data_to_read, parsing>>

parse_buffer ==
  /\ status = "up" /\ parsing
  /\ ParseType \/ ParseLength \/ ParseData
  /\ UNCHANGED <<client, phase, timer, ctx>>

-----------------------------------------------------------------------------
(***************************************************************************)
(* Writing, waiting and closing.                                           *)
(***************************************************************************)
\* Mutation: a reply that could not be sent is taken for one that was.
FailureIgnored(outcome) == UNCHANGED <<stream, status>>

\* After a failure the handle is read out of the request that has just been freed: it
\* is still there, or whatever is there instead is closed.
WildHandle == status' = "corrupt" /\ UNCHANGED stream

on_write_complete(outcome) ==
  IF outcome = "sent" THEN UNCHANGED <<stream, status>> ELSE CloseStream \/ WildHandle

\* The first write has come to its end, and its callback runs.
WriteEnds ==
  /\ stream = "open" /\ writes # <<>>
  /\ \/ In("pending") /\ Head(writes) # "queued" /\ on_write_complete(Head(writes))
     \/ In("poll") /\ Head(writes) = "queued"
        /\ \E outcome \in WriteOutcomes \ {"queued"} : on_write_complete(outcome)
  /\ writes' = Tail(writes)
  /\ UNCHANGED <<client, phase, timer, ctx, parser>>

\* The timer does not repeat.
on_client_timeout ==
  /\ In("timers") /\ timer = "running"
  /\ timer' = "stopped" /\ CloseStream
  /\ UNCHANGED <<client, phase, writes, ctx, parser>>

\* Mutation: the context is freed with the stream, the timer in it still closing.
FreeWithStream ==
  /\ IF timer \in {"running", "stopped"} THEN timer' = "closing" ELSE UNCHANGED timer
  /\ ctx' = "freed"
  /\ free_parser_resources /\ reset_parser

on_client_close ==
  /\ IF timer \in {"running", "stopped"} THEN timer' = "closing" ELSE UNCHANGED timer
  /\ free_parser_resources /\ reset_parser
  /\ UNCHANGED ctx

\* libuv finishes the stream: on_write_complete for each write, where a failure
\* closes a closing handle (or what it takes for the handle), then on_client_close,
\* where the timer may not be one.
FinishStream ==
  /\ In("closing") /\ stream = "closing"
  /\ \/ /\ ToSet(writes) \subseteq {"sent"} /\ timer # "none"
        /\ stream' = "closed" /\ writes' = <<>>
        /\ on_client_close
        /\ UNCHANGED status
     \/ /\ \/ ~(ToSet(writes) \subseteq {"sent"}) /\ (Abort \/ WildHandle)
           \/ timer = "none" /\ Abort
        /\ UNCHANGED <<writes, timer, ctx, state, counts, memory>>
  /\ UNCHANGED <<client, phase, buffer, parsing, executed>>

on_timer_close ==
  /\ In("closing") /\ timer = "closing" /\ stream # "closing"
  /\ timer' = "closed" /\ ctx' = "freed" /\ buffer' = <<>>
  /\ UNCHANGED <<client, phase, stream, writes, state, counts, memory, parsing, executed, status>>

\* The loop goes on when the phase has nothing left to run.
NextPhase ==
  /\ In(phase)
  /\ \/ phase = "timers"  /\ phase' = "pending"
     \/ phase = "pending" /\ phase' = "poll"
        /\ (stream = "open" /\ writes # <<>> => Head(writes) = "queued")
     \/ phase = "poll"    /\ phase' = "closing"
     \/ phase = "closing" /\ "closing" \notin {stream, timer} /\ phase' = "timers"
  /\ UNCHANGED <<client, handles, ctx, parser, status>>

-----------------------------------------------------------------------------
Init ==
  /\ script \in Scripts /\ unsent = Bytes(script) /\ peer = "open" /\ inbox = <<>>
  /\ phase = "timers"
  /\ stream = "none" /\ timer = "none" /\ writes = <<>>
  /\ ctx = "none" /\ buffer = <<>> /\ state = "EXPECT_TYPE"
  /\ args_total = 0 /\ args_parsed = 0 /\ data_to_read = 0
  /\ temp_argv = FALSE /\ blocks = 0
  /\ parsing = FALSE /\ executed = 0 /\ status = "up"

\* What the loop does of itself; its callbacks are run to their end.
Loop == NextPhase \/ parse_buffer \/ FinishStream \/ on_timer_close

Next ==
  \/ ClientSends \/ ClientLeaves
  \/ on_new_connection \/ on_read \/ WriteEnds \/ on_client_timeout
  \/ Loop

\* The loop never stops, a finished write has its callback run, and a timer that
\* stays running is found due: none is fair to the client.
Spec ==
  /\ Init /\ [][Next]_vars
  /\ WF_vars(Loop) /\ WF_vars(phase = "pending" /\ WriteEnds) /\ SF_vars(on_client_timeout)

-----------------------------------------------------------------------------
(***************************************************************************)
(* Properties.                                                             *)
(***************************************************************************)

\* The server waits for events: no callback is under way.
Quiet == status = "up" /\ ~parsing

\* How many of the script's commands were read from the socket to their end.
Delivered == Len(Bytes(script)) - Len(unsent) - Len(inbox)
Complete  == Cardinality({n \in 1 .. Len(script.commands) : Len(Through(script, n)) <= Delivered})

\* Every variable stays in its range; in particular the parser never waits for
\* more than the limit on an argument's length (server.c:173-178).
TypeOK ==
  /\ peer \in {"open", "closed", "reset"}
  /\ phase \in {"timers", "pending", "poll", "closing"}
  /\ stream \in {"none", "open", "closing", "closed"}
  /\ timer \in {"none", "running", "stopped", "closing", "closed"}
  /\ ToSet(writes) \subseteq {"sent", "queued", "failed"}
  /\ ctx \in {"none", "live", "freed", "refused"}
  /\ state \in {"EXPECT_TYPE", "EXPECT_LENGTH", "EXPECT_DATA"}
  /\ args_total \in 0 .. ARGS_MAX /\ args_parsed \in Nat /\ data_to_read \in 0 .. LEN_MAX
  /\ temp_argv \in BOOLEAN /\ blocks \in Int
  /\ parsing \in BOOLEAN /\ executed \in Nat
  /\ status \in {"up", "aborted", "corrupt"}

\* Of the many places that close the stream (server.c:62, 72, 93, 128-276, 310)
\* no two ever close it twice: uv_close aborts the process only when a write did
\* not succeed, or when the timer of a connection not accepted was never set up.
AbortsAreExplained ==
  status = "aborted" => ~(ToSet(writes) \subseteq {"sent"}) \/ timer = "none"

\* A connection that is open between callbacks has its inactivity timer running
\* (server.c:299, 306, 343), so none can stay open and idle.
OpenIsTimed == Quiet /\ stream = "open" => timer = "running"

\* on_timer_close (server.c:15) frees the context, which holds both handles, only
\* when nothing of it is in use: no handle libuv knows, write or parser.
NoUseAfterFree ==
  ctx = "freed" => stream = "closed" /\ timer = "closed" /\ writes = <<>> /\ ~parsing

\* The blocks of the arguments (server.c:199-209) are freed once, by the error that
\* ends the parser (server.c:203, 212, 249, 264) or with the connection (server.c:55),
\* never by both, and none of them outlives the context.
ArgumentsFreedOnce == blocks >= 0 /\ (ctx = "freed" => blocks = 0)

\* A mark without a number, of which what strtol makes depends on the split.
Numberless(s) ==
  \E i \in 1 .. Len(s.rest) - 1 :
    s.rest[i].char \in {"*", "$"} /\ s.rest[i + 1].char # "0"

\* However the bytes are split over reads, no command is executed before its last
\* character was read (server.c:194, 226), where every mark has its number.
OnlyCompleteCommands == ~Numberless(script) => executed <= Complete

\* However the bytes are split over reads, the first command of a connection is
\* executed as soon as on_read returns from reading its last character.
FirstCommandExecuted == Quiet /\ stream = "open" /\ Complete > 0 => executed > 0

\* As FirstCommandExecuted, of every command.
EveryCommandExecuted == Quiet => executed = Complete

\* uv_close is never called where libuv aborts the process.
NeverAborts == status # "aborted"

\* Every context allocated for a connection is freed, whether the client leaves, falls
\* silent or makes a mistake, unless the process stops.  A script is finite: a client
\* that goes on sending, a line end every few seconds, has its timer set anew for ever
\* (server.c:299) and is kept.
EventuallyFreed == ctx = "live" ~> ctx = "freed" \/ status # "up"

-----------------------------------------------------------------------------
(***************************************************************************)
(* The connection as the server sees it.                                   *)
(***************************************************************************)
LifeOf == IF ctx # "live" THEN ctx
          ELSE IF timer = "none" THEN "unaccepted"
          ELSE IF stream = "open" THEN "open" ELSE "closing"

L == INSTANCE Lifecycle WITH
       life <- LifeOf, owed <- IF writes = <<>> THEN "no" ELSE writes[1], process <- status

\* A connection is no more than Lifecycle says, whatever the client sends and in
\* whatever pieces, and whatever fails; in particular it never executes a second
\* command and never owes two replies (server.c:193-286).
ImplementsLifecycle == L!Spec
=============================================================================
