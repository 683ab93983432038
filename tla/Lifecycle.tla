----------------------------- MODULE Lifecycle ------------------------------
(***************************************************************************)
(* What one connection of src/src/server.c is to the rest of the server:   *)
(* it is accepted or not, executes at most one command, owes at most one   *)
(* reply, is closed and freed, and may stop the process on that way.       *)
(* Module Connection has the callbacks, the parser and the handles behind  *)
(* it, module Server has several of them over one table.                   *)
(***************************************************************************)
EXTENDS Integers

VARIABLES
  life,       \* "none", "open", "closing", "freed"; "refused" when there was no
              \* memory for it, "unaccepted" when uv_accept failed
  executed,   \* commands executed
  owed,       \* the reply whose callback has not run, as uv_write left it, or "no"
  process     \* "up", "aborted" or "corrupt": what this connection did to it

vars == <<life, executed, owed, process>>

Init == life = "none" /\ executed = 0 /\ owed = "no" /\ process = "up"

Arrive ==
  /\ life = "none"
  /\ life' \in {"open", "refused", "unaccepted"}
  /\ UNCHANGED <<executed, owed, process>>

\* One command in the whole life; without memory for its reply, it is the last act.
\* The reply is stored one byte past its block.
Execute ==
  /\ life = "open" /\ executed = 0
  /\ executed' = 1
  /\ \/ /\ owed' \in {"sent", "queued", "failed"}
        /\ process' \in {"up", "corrupt"}
        /\ UNCHANGED life
     \/ life' = "closing" /\ UNCHANGED <<owed, process>>

\* What follows the command is stored past the arrays of its arguments.
GoOnParsing ==
  /\ life = "open" /\ executed = 1
  /\ process' \in {"up", "corrupt"}
  /\ UNCHANGED <<life, executed, owed>>

\* The callback of the reply, which closes the stream when the write failed, or what
\* it finds in the place of the stream.
ReplyEnds ==
  /\ life = "open" /\ owed # "no"
  /\ owed' = "no"
  /\ \/ owed # "failed" /\ UNCHANGED <<life, process>>
     \/ owed # "sent" /\ life' = "closing" /\ UNCHANGED process
     \/ owed # "sent" /\ process' = "corrupt" /\ UNCHANGED life
  /\ UNCHANGED executed

\* The end of the stream, a mistake of the client, no memory, or the timeout.
Close ==
  /\ life = "open" /\ life' = "closing"
  /\ UNCHANGED <<executed, owed, process>>

\* A reply that was sent is done with, then the context can go.
Finish ==
  /\ life = "closing" /\ owed \in {"no", "sent"}
  /\ owed' = "no" /\ life' \in {"closing", "freed"}
  /\ UNCHANGED <<executed, process>>

\* A reply that was not sent closes the closing handle a second time, or what it finds
\* in its place; a connection that was not accepted has no timer to close.
Abort ==
  /\ \/ life = "unaccepted" /\ process' = "aborted"
     \/ /\ life = "closing" /\ owed \in {"queued", "failed"}
        /\ process' \in {"aborted", "corrupt"}
  /\ UNCHANGED <<life, executed, owed>>

Next ==
  /\ process = "up"
  /\ Arrive \/ Execute \/ GoOnParsing \/ ReplyEnds \/ Close \/ Finish \/ Abort

Spec == Init /\ [][Next]_vars
=============================================================================
