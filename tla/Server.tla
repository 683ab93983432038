------------------------------- MODULE Server -------------------------------
(***************************************************************************)
(* The process main of src/src/server.c starts: several connections over   *)
(* one registry and one table, served by one thread.  A connection is what *)
(* Lifecycle makes of it (module Connection has the details), a command    *)
(* what Commands does.  A client connects once, and may come when and in   *)
(* any order it likes.                                                     *)
(*                                                                         *)
(* Values stands for the heap: every value lives in a block of its own,    *)
(* and so does the argument it was sent in.  Blocks are interchangeable,   *)
(* so that malloc may as well hand out the first that is free.             *)
(***************************************************************************)
EXTENDS Commands, Sequences, SequencesExt

CONSTANT Clients

ASSUME ServerAssumption == Values \subseteq Nat /\ IsFiniteSet(Values)

VARIABLES
  registry,     \* registry_create found memory
  listening,    \* libuv polls the listening socket
  backlog,      \* clients the kernel has a connection for, not yet accepted
  life, executed, owed, process,    \* of each connection, as in Lifecycle
  argv          \* the block of the last argument of each connection, or Null

connections == <<life, executed, owed, process>>
svars       == <<cvars, registry, listening, backlog, connections, argv>>

Up == status = "up" /\ \A c \in Clients : process[c] = "up"

\* The blocks nothing refers to.
Held       == {argv[c] : c \in Clients} \ {Null}
FreeBlocks == Values \ (owned \cup leaked \cup Held)

\* malloc of a block other than those: the set of what it returns.
malloc(taken) == LET free == FreeBlocks \ taken IN IF free = {} THEN {} ELSE {Min(free)}

-----------------------------------------------------------------------------
(***************************************************************************)
(* Connecting.                                                             *)
(***************************************************************************)
Connect(c) ==
  /\ Up /\ life[c] = "none" /\ c \notin ToSet(backlog)
  /\ backlog' = Append(backlog, c)
  /\ UNCHANGED <<cvars, registry, listening, connections, argv>>

\* Mutation: the connection there is no memory for stays in the kernel's queue.
RefuseLeavingInBacklog ==
  /\ Up /\ listening /\ backlog # <<>>
  /\ \/ life' = [life EXCEPT ![Head(backlog)] = "open"] /\ backlog' = Tail(backlog)
     \/ life' = [life EXCEPT ![Head(backlog)] = "refused"] /\ UNCHANGED backlog
  /\ UNCHANGED <<cvars, registry, listening, executed, owed, process, argv>>

\* libuv has taken the connection from the kernel.  When the context cannot be
\* allocated it is not accepted, and libuv waits for that before it polls again.
on_new_connection ==
  /\ Up /\ listening /\ backlog # <<>>
  /\ \/ life' = [life EXCEPT ![Head(backlog)] = "open"] /\ UNCHANGED listening
     \/ life' = [life EXCEPT ![Head(backlog)] = "unaccepted"] /\ UNCHANGED listening
     \/ /\ MallocMayFail
        /\ life' = [life EXCEPT ![Head(backlog)] = "refused"] /\ listening' = FALSE
  /\ backlog' = Tail(backlog)
  /\ UNCHANGED <<cvars, registry, executed, owed, process, argv>>

-----------------------------------------------------------------------------
(***************************************************************************)
(* The command of a connection.                                            *)
(***************************************************************************)

\* Without a registry every command is turned away.
Dispatch(blocks) ==
  \/ registry /\ execute_command(blocks)
  \/ ~registry /\ Reject("other", 400, "InvalidDispatch")

\* Mutation: the value is not copied out of the argument.
ValueInArgument(arg) == {arg}

\* build_command_data copies the value of a store into a block of its own.
ValueBlocks(arg) == malloc({arg})

\* A connection comes to the end of a command once: its parser is not reset.
FirstCommand(c) == life[c] = "open" /\ executed[c] = 0

\* The argument stays when the reply is on its way, and is freed at once when there is
\* no memory for the reply.
Execute(c) ==
  /\ Up /\ FirstCommand(c)
  /\ executed' = [executed EXCEPT ![c] = @ + 1]
  /\ \E arg \in malloc({}) :
       /\ Dispatch(ValueBlocks(arg))
       /\ \/ /\ argv' = [argv EXCEPT ![c] = arg]
             /\ \E w \in {"sent", "queued", "failed"} : owed' = [owed EXCEPT ![c] = w]
             /\ \E p \in {"up", "corrupt"} : process' = [process EXCEPT ![c] = p]
             /\ UNCHANGED life
          \/ /\ MallocMayFail
             /\ argv' = [argv EXCEPT ![c] = Null]
             /\ life' = [life EXCEPT ![c] = "closing"] /\ UNCHANGED <<owed, process>>
  /\ UNCHANGED <<registry, listening, backlog>>

\* The command reaches for a lock that is not there.
Crash(c) ==
  /\ Up /\ registry /\ FirstCommand(c)
  /\ WildAccess
  /\ UNCHANGED <<reply, leaked, registry, listening, backlog, connections, argv>>

GoOnParsing(c) ==
  /\ Up /\ life[c] = "open" /\ executed[c] = 1
  /\ process' = [process EXCEPT ![c] = "corrupt"]
  /\ UNCHANGED <<cvars, registry, listening, backlog, life, executed, owed, argv>>

-----------------------------------------------------------------------------
(***************************************************************************)
(* The end of a connection.                                                *)
(***************************************************************************)
on_write_complete(c) ==
  /\ Up /\ life[c] = "open" /\ owed[c] # "no"
  /\ owed' = [owed EXCEPT ![c] = "no"]
  /\ \/ owed[c] # "failed" /\ UNCHANGED <<life, process>>
     \/ owed[c] # "sent" /\ life' = [life EXCEPT ![c] = "closing"] /\ UNCHANGED process
     \/ owed[c] # "sent" /\ process' = [process EXCEPT ![c] = "corrupt"] /\ UNCHANGED life
  /\ UNCHANGED <<cvars, registry, listening, backlog, executed, argv>>

\* Mutation: the timer runs only from the first command on.
CloseAfterCommand(c) ==
  /\ Up /\ life[c] = "open" /\ executed[c] = 1
  /\ life' = [life EXCEPT ![c] = "closing"]
  /\ UNCHANGED <<cvars, registry, listening, backlog, executed, owed, process, argv>>

\* The client leaves or makes a mistake, the timer expires, or memory fails; a parser
\* without memory frees the arguments at once.
Close(c) ==
  /\ Up /\ life[c] = "open"
  /\ life' = [life EXCEPT ![c] = "closing"]
  /\ \/ UNCHANGED argv
     \/ MallocMayFail /\ argv' = [argv EXCEPT ![c] = Null]
  /\ UNCHANGED <<cvars, registry, listening, backlog, executed, owed, process>>

\* The stream is closed: the arguments go.
on_client_close(c) ==
  /\ Up /\ life[c] = "closing" /\ owed[c] \in {"no", "sent"}
  /\ owed' = [owed EXCEPT ![c] = "no"]
  /\ argv' = [argv EXCEPT ![c] = Null]
  /\ UNCHANGED <<cvars, registry, listening, backlog, life, executed, process>>

\* The timer is closed after the stream: the context goes.
on_timer_close(c) ==
  /\ Up /\ life[c] = "closing" /\ owed[c] = "no" /\ argv[c] = Null
  /\ life' = [life EXCEPT ![c] = "freed"]
  /\ UNCHANGED <<cvars, registry, listening, backlog, executed, owed, process, argv>>

\* The callback of a reply that was not sent closes the stream a second time, or what it
\* finds in its place; the close of a connection that was not accepted finds no timer.
Abort(c) ==
  /\ Up
  /\ \/ life[c] = "unaccepted" /\ process' = [process EXCEPT ![c] = "aborted"]
     \/ /\ life[c] = "closing" /\ owed[c] \in {"queued", "failed"}
        /\ \E p \in {"aborted", "corrupt"} : process' = [process EXCEPT ![c] = p]
  /\ UNCHANGED <<cvars, registry, listening, backlog, life, executed, owed, argv>>

-----------------------------------------------------------------------------
\* Where main enters uv_run: it does not ask whether it has a registry, and gives
\* up without a table or a socket.
ServerInit ==
  /\ CommandsInit
  /\ registry \in (IF MallocMayFail THEN BOOLEAN ELSE {TRUE})
  /\ listening = TRUE /\ backlog = <<>>
  /\ life = [c \in Clients |-> "none"] /\ executed = [c \in Clients |-> 0]
  /\ owed = [c \in Clients |-> "no"] /\ process = [c \in Clients |-> "up"]
  /\ argv = [c \in Clients |-> Null]

Ends(c) == Close(c) \/ on_client_close(c) \/ on_timer_close(c) \/ Abort(c)

ServerNext ==
  \/ on_new_connection
  \/ \E c \in Clients : \/ Connect(c) \/ Execute(c) \/ Crash(c) \/ GoOnParsing(c)
                        \/ on_write_complete(c) \/ Ends(c)

\* The loop goes on, and a connection that nothing else ends is ended by its timer,
\* which module Connection shows to run as long as the connection is open.
ServerSpec ==
  /\ ServerInit /\ [][ServerNext]_svars
  /\ WF_svars(on_new_connection) /\ \A c \in Clients : WF_svars(Ends(c))

-----------------------------------------------------------------------------
(***************************************************************************)
(* Properties.                                                             *)
(***************************************************************************)

\* Every variable stays in its range, and a client is in one place.
ServerTypeOK ==
  /\ registry \in BOOLEAN /\ listening \in BOOLEAN
  /\ backlog \in Seq(Clients) /\ IsInjective(backlog)
  /\ life \in [Clients -> {"none", "open", "closing", "freed", "refused", "unaccepted"}]
  /\ executed \in [Clients -> {0, 1}]
  /\ owed \in [Clients -> {"no", "sent", "queued", "failed"}]
  /\ process \in [Clients -> {"up", "aborted", "corrupt"}]
  /\ argv \in [Clients -> Values \cup {Null}]
  /\ \A c \in ToSet(backlog) : life[c] = "none"

\* The arguments of a connection are freed when it closes (src/src/server.c:55), and
\* the blocks of the table when a command replaces or removes them: no block is
\* both, nor of two connections, nor one that was given up (src/src/command.c:441),
\* so that no client's leaving takes a stored value away.
BlocksHaveOneOwner ==
  /\ owned \cap Held = {} /\ leaked \cap (owned \cup Held) = {}
  /\ \A c, d \in Clients : argv[c] # Null /\ argv[c] = argv[d] => c = d

\* A client libuv will never look at: it waits behind, or is, the one for which
\* there was no memory (src/src/server.c:325-329).
Unheard(c) == ~listening /\ life[c] \in {"none", "refused"}

\* Whoever connects is served and let go in the end, whatever the other clients do,
\* unless the server has gone deaf or one of them has stopped the process.
EveryoneLetGo ==
  \A c \in Clients :
    (c \in ToSet(backlog) \/ life[c] = "open") ~> (life[c] = "freed" \/ Unheard(c) \/ ~Up)
=============================================================================
