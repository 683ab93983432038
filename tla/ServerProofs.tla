---------------------------- MODULE ServerProofs ----------------------------
(***************************************************************************)
(* Several connections over one table, for every set of clients, of keys   *)
(* and of blocks: the connections never have a block in common with each   *)
(* other or with the table, and what the table and the commands promise    *)
(* holds with all connections at work on it.                               *)
(***************************************************************************)
EXTENDS Server, CommandsProofs

-----------------------------------------------------------------------------
(***************************************************************************)
(* The heap.                                                               *)
(***************************************************************************)

\* malloc returns a block that is free, and not one of those it is to avoid.
LEMMA MallocIsFresh ==
  ASSUME NEW taken, NEW b \in malloc(taken)
  PROVE  b \in FreeBlocks \ taken
<1> DEFINE free == FreeBlocks \ taken
<1>1. free # {} /\ b = Min(free)
  BY DEF malloc
<1>2. free \subseteq Nat
  BY ServerAssumption DEF FreeBlocks
<1> HIDE DEF free
<1>3. b \in free
  BY <1>1, <1>2, MinIsLeast
<1> QED
  BY <1>3 DEF free

-----------------------------------------------------------------------------
(***************************************************************************)
(* The queue of the kernel.                                                *)
(***************************************************************************)

\* The next client of the queue leaves it for good: it is in it once.
LEMMA HeadLeaves ==
  ASSUME NEW q \in Seq(Clients), q # <<>>, IsInjective(q)
  PROVE  /\ Head(q) \in ToSet(q) /\ Head(q) \in Clients
         /\ Tail(q) \in Seq(Clients) /\ IsInjective(Tail(q))
         /\ ToSet(Tail(q)) = ToSet(q) \ {Head(q)}
<1>1. /\ Len(q) \in Nat \ {0} /\ DOMAIN q = 1 .. Len(q)
      /\ Tail(q) \in Seq(Clients) /\ DOMAIN Tail(q) = 1 .. Len(q) - 1
      /\ \A i \in 1 .. Len(q) - 1 : Tail(q)[i] = q[i + 1]
      /\ Head(q) = q[1]
  OBVIOUS
<1>2. IsInjective(Tail(q))
  BY <1>1 DEF IsInjective
<1>3. ToSet(Tail(q)) \subseteq ToSet(q) \ {Head(q)}
  BY <1>1 DEF ToSet, IsInjective
<1>4. ASSUME NEW c \in ToSet(q), c # Head(q) PROVE c \in ToSet(Tail(q))
  <2>1. PICK i \in 2 .. Len(q) : q[i] = c
    BY <1>1, <1>4 DEF ToSet
  <2>2. i - 1 \in 1 .. Len(q) - 1 /\ Tail(q)[i - 1] = c
    BY <1>1, <2>1
  <2> QED
    BY <1>1, <2>2 DEF ToSet
<1>5. Head(q) \in ToSet(q) /\ Head(q) \in Clients
  BY <1>1 DEF ToSet
<1> QED
  BY <1>1, <1>2, <1>3, <1>4, <1>5

\* A client that is not in the queue joins it.
LEMMA ClientJoins ==
  ASSUME NEW q \in Seq(Clients), IsInjective(q), NEW c \in Clients, c \notin ToSet(q)
  PROVE  /\ Append(q, c) \in Seq(Clients) /\ IsInjective(Append(q, c))
         /\ ToSet(Append(q, c)) = ToSet(q) \cup {c}
<1>1. /\ Len(q) \in Nat /\ DOMAIN q = 1 .. Len(q)
      /\ Append(q, c) \in Seq(Clients) /\ DOMAIN Append(q, c) = 1 .. Len(q) + 1
      /\ \A i \in 1 .. Len(q) + 1 : Append(q, c)[i] = IF i = Len(q) + 1 THEN c ELSE q[i]
  OBVIOUS
<1>2. IsInjective(Append(q, c))
  BY <1>1 DEF IsInjective, ToSet
<1>3. ToSet(Append(q, c)) \subseteq ToSet(q) \cup {c}
  BY <1>1 DEF ToSet
<1>4. ToSet(q) \cup {c} \subseteq ToSet(Append(q, c))
  BY <1>1 DEF ToSet
<1> QED
  BY <1>1, <1>2, <1>3, <1>4

-----------------------------------------------------------------------------
(***************************************************************************)
(* The inductive invariant.                                                *)
(***************************************************************************)

\* The table's invariant, the types of requests and connections, and one owner
\* for every block.
ServerInv == IInv /\ CommandsTypeOK /\ ServerTypeOK /\ BlocksHaveOneOwner

\* The invariant holds when main enters uv_run.
LEMMA InitServerInv == ServerInit => ServerInv
<1> SUFFICES ASSUME ServerInit PROVE ServerInv
  OBVIOUS
<1>1. IInv
  BY InitIInv DEF ServerInit, CommandsInit
<1>2. CommandsTypeOK
  BY DEF ServerInit, CommandsInit, CommandsTypeOK, Text, Names
<1>3. ServerTypeOK
  <2>1. registry \in BOOLEAN
    BY Zenon DEF ServerInit
  <2>2. backlog \in Seq(Clients) /\ IsInjective(backlog) /\ ToSet(backlog) = {}
    BY DEF ServerInit, IsInjective, ToSet
  <2> QED
    BY <2>1, <2>2 DEF ServerInit, ServerTypeOK
<1>4. BlocksHaveOneOwner
  BY DEF ServerInit, CommandsInit, Init, BlocksHaveOneOwner, Held
<1> QED
  BY <1>1, <1>2, <1>3, <1>4 DEF ServerInv

\* A step that leaves the table, the requests and the heap alone.
LEMMA SameHeap ==
  ASSUME ServerInv, UNCHANGED <<cvars, argv>>
  PROVE  IInv' /\ CommandsTypeOK' /\ BlocksHaveOneOwner'
<1>1. IInv'
  BY NextIInv DEF ServerInv, cvars
<1>2. CommandsTypeOK'
  BY DEF ServerInv, CommandsTypeOK, cvars
<1>3. BlocksHaveOneOwner'
  BY DEF ServerInv, BlocksHaveOneOwner, Held, cvars, vars, table
<1> QED
  BY <1>1, <1>2, <1>3

\* A request of a connection is one of the command layer, or turned away.
LEMMA DispatchTold ==
  ASSUME IInv, NEW blocks \in SUBSET (Values \ (owned \cup leaked)), Dispatch(blocks)
  PROVE  [Next]_vars /\ Told(blocks) /\ (ShortKeys => Promised)
<1>1. CASE execute_command(blocks)
  BY <1>1, RequestTold, RequestIsCall
<1>2. CASE Reject("other", 400, "InvalidDispatch")
  <2>1. Told(blocks) /\ Promised
    BY <1>2, RejectTold DEF Names
  <2>2. UNCHANGED vars
    BY <1>2 DEF Reject
  <2> QED
    BY <2>1, <2>2
<1> QED
  BY <1>1, <1>2 DEF Dispatch

\* What a command does to the heap, under whatever connection it runs.
LEMMA ExecuteKeepsOwners ==
  ASSUME ServerInv, NEW c \in Clients, Execute(c)
  PROVE  /\ IInv' /\ CommandsTypeOK' /\ BlocksHaveOneOwner'
         /\ argv' \in [Clients -> Values \cup {Null}]
<1>1. PICK arg \in malloc({}) :
        /\ Dispatch(ValueBlocks(arg))
        /\ argv' = [argv EXCEPT ![c] = arg] \/ argv' = [argv EXCEPT ![c] = Null]
  BY DEF Execute
<1> DEFINE blocks == ValueBlocks(arg)
<1>2. arg \in FreeBlocks /\ blocks \subseteq FreeBlocks \ {arg}
  BY <1>1, MallocIsFresh DEF ValueBlocks
<1>3. blocks \in SUBSET (Values \ (owned \cup leaked)) /\ blocks \cap Held = {}
  BY <1>2 DEF FreeBlocks
<1> HIDE DEF blocks
<1>4. Dispatch(blocks)
  BY <1>1 DEF blocks
<1>5. Told(blocks) /\ IInv'
  BY <1>3, <1>4, DispatchTold, NextIInv DEF ServerInv
<1>6. CommandsTypeOK'
  BY <1>3, <1>5 DEF Told, Wellformed, CommandsTypeOK, ServerInv
<1>7. arg \in Values /\ arg \notin owned /\ arg \notin leaked /\ arg \notin Held /\ arg # Null
  BY <1>2, ConstantsAssumption DEF FreeBlocks
<1>8. /\ argv \in [Clients -> Values \cup {Null}]
      /\ argv' \in [Clients -> Values \cup {Null}]
      /\ \A d \in Clients \ {c} : argv'[d] = argv[d]
      /\ argv'[c] \in {arg, Null}
  BY <1>1, <1>7 DEF ServerInv, ServerTypeOK
<1>9. Held' \subseteq Held \cup {arg}
  BY <1>8 DEF Held
<1>10. /\ owned' \subseteq owned \cup blocks /\ leaked' \subseteq leaked \cup blocks
       /\ leaked' \cap owned' = {}
       /\ owned \cap Held = {} /\ leaked \cap Held = {}
  BY <1>5 DEF Told, ServerInv, BlocksHaveOneOwner
<1>11. owned' \cap Held' = {} /\ leaked' \cap Held' = {}
  BY <1>2, <1>3, <1>7, <1>9, <1>10
<1>12. ASSUME NEW d \in Clients, NEW e \in Clients, argv'[d] # Null, argv'[d] = argv'[e]
       PROVE  d = e
  BY <1>7, <1>8, <1>12 DEF Held, ServerInv, BlocksHaveOneOwner
<1> QED
  BY <1>5, <1>6, <1>8, <1>10, <1>11, <1>12 DEF BlocksHaveOneOwner

\* The kernel's queue and the server's reading of it.
LEMMA ArrivalPreserves ==
  ASSUME ServerInv, on_new_connection \/ \E c \in Clients : Connect(c)
  PROVE  ServerInv'
<1>1. UNCHANGED <<cvars, argv>>
  BY DEF on_new_connection, Connect
<1>2. CASE on_new_connection
  <2> DEFINE c == Head(backlog)
  <2>1. /\ c \in Clients /\ backlog' \in Seq(Clients) /\ IsInjective(backlog')
        /\ ToSet(backlog') = ToSet(backlog) \ {c}
    BY <1>2, HeadLeaves DEF on_new_connection, ServerInv, ServerTypeOK
  <2>2. PICK l \in {"open", "unaccepted", "refused"} : life' = [life EXCEPT ![c] = l]
    BY <1>2 DEF on_new_connection
  <2>3. listening' \in BOOLEAN
    BY <1>2, Zenon DEF on_new_connection, ServerInv, ServerTypeOK
  <2> HIDE DEF c
  <2>4. /\ life' \in [Clients -> {"none", "open", "closing", "freed", "refused", "unaccepted"}]
        /\ \A d \in ToSet(backlog') : life'[d] = "none"
    <3>1. \A d \in ToSet(backlog) : d \in Clients
      BY DEF ToSet, ServerInv, ServerTypeOK
    <3> QED
      BY <2>1, <2>2, <3>1 DEF ServerInv, ServerTypeOK
  <2>5. UNCHANGED <<registry, executed, owed, process, argv>>
    BY <1>2 DEF on_new_connection
  <2>6. ServerTypeOK'
    BY <2>1, <2>3, <2>4, <2>5 DEF ServerInv, ServerTypeOK
  <2> QED
    BY <1>1, <2>6, SameHeap DEF ServerInv
<1>3. ASSUME NEW c \in Clients, Connect(c) PROVE ServerInv'
  <2>1. /\ backlog' \in Seq(Clients) /\ IsInjective(backlog')
        /\ ToSet(backlog') = ToSet(backlog) \cup {c}
        /\ life[c] = "none"
    BY <1>3, ClientJoins DEF Connect, ServerInv, ServerTypeOK
  <2>2. UNCHANGED <<registry, listening, life, executed, owed, process, argv>>
    BY <1>3 DEF Connect, connections
  <2>3. ServerTypeOK'
    BY <2>1, <2>2 DEF ServerInv, ServerTypeOK
  <2> QED
    BY <1>1, <2>3, SameHeap DEF ServerInv
<1> QED
  BY <1>2, <1>3

\* A client that is being served is not in the queue.
LEMMA ServedIsNotWaiting ==
  ASSUME ServerInv, NEW c \in Clients, life[c] # "none",
         NEW l \in {"open", "closing", "freed", "refused", "unaccepted"},
         life' = [life EXCEPT ![c] = l] \/ life' = life,
         UNCHANGED <<registry, listening, backlog>>
  PROVE  /\ registry' \in BOOLEAN /\ listening' \in BOOLEAN
         /\ backlog' \in Seq(Clients) /\ IsInjective(backlog')
         /\ life' \in [Clients -> {"none", "open", "closing", "freed", "refused", "unaccepted"}]
         /\ \A d \in ToSet(backlog') : life'[d] = "none"
<1>1. \A d \in ToSet(backlog) : d \in Clients /\ d # c
  BY DEF ToSet, ServerInv, ServerTypeOK
<1>2. registry' \in BOOLEAN /\ listening' \in BOOLEAN
  BY Zenon DEF ServerInv, ServerTypeOK
<1> QED
  BY <1>1, <1>2 DEF ServerInv, ServerTypeOK

\* The command of a connection.
LEMMA ExecutePreserves ==
  ASSUME ServerInv, NEW c \in Clients, Execute(c)
  PROVE  ServerInv'
<1>1. PICK l \in {"open", "closing"} : life' = [life EXCEPT ![c] = l] \/ life' = life
  BY DEF Execute
<1>2. life[c] = "open" /\ executed[c] = 0 /\ UNCHANGED <<registry, listening, backlog>>
  BY DEF Execute, FirstCommand
<1>3. executed' \in [Clients -> {0, 1}]
  BY <1>2 DEF Execute, ServerInv, ServerTypeOK
<1>4. /\ owed' \in [Clients -> {"no", "sent", "queued", "failed"}]
      /\ process' \in [Clients -> {"up", "aborted", "corrupt"}]
  BY DEF Execute, ServerInv, ServerTypeOK
<1> QED
  BY <1>1, <1>2, <1>3, <1>4, ServedIsNotWaiting, ExecuteKeepsOwners DEF ServerInv, ServerTypeOK

\* A connection that frees its argument, or keeps it.
LEMMA FreeingKeepsOwners ==
  ASSUME ServerInv, NEW c \in Clients, UNCHANGED cvars,
         argv' = argv \/ argv' = [argv EXCEPT ![c] = Null]
  PROVE  /\ IInv' /\ CommandsTypeOK' /\ BlocksHaveOneOwner'
         /\ argv' \in [Clients -> Values \cup {Null}]
<1>1. IInv' /\ CommandsTypeOK'
  BY NextIInv DEF ServerInv, CommandsTypeOK, cvars
<1>2. /\ argv' \in [Clients -> Values \cup {Null}]
      /\ \A d \in Clients : argv'[d] \in {argv[d], Null}
  BY DEF ServerInv, ServerTypeOK
<1>3. Held' \subseteq Held /\ owned' = owned /\ leaked' = leaked
  BY <1>2 DEF Held, cvars, vars, table
<1>4. BlocksHaveOneOwner'
  BY <1>2, <1>3 DEF ServerInv, BlocksHaveOneOwner
<1> QED
  BY <1>1, <1>2, <1>4

\* The steps of a connection that is served, other than its command.
LEMMA ServingPreserves ==
  ASSUME ServerInv, NEW c \in Clients, GoOnParsing(c) \/ on_write_complete(c) \/ Ends(c)
  PROVE  ServerInv'
<1> USE DEF GoOnParsing, on_write_complete, Ends, Close, on_client_close, on_timer_close, Abort
<1>1. /\ UNCHANGED <<cvars, registry, listening, backlog, executed>>
      /\ argv' = argv \/ argv' = [argv EXCEPT ![c] = Null]
  OBVIOUS
<1>2. /\ life[c] \in {"open", "closing", "unaccepted"}
      /\ \E l \in {"open", "closing", "freed"} : life' = [life EXCEPT ![c] = l] \/ life' = life
  OBVIOUS
<1>3. /\ owed' \in [Clients -> {"no", "sent", "queued", "failed"}]
      /\ process' \in [Clients -> {"up", "aborted", "corrupt"}]
  BY DEF ServerInv, ServerTypeOK
<1>4. /\ IInv' /\ CommandsTypeOK' /\ BlocksHaveOneOwner'
      /\ argv' \in [Clients -> Values \cup {Null}]
  BY <1>1, FreeingKeepsOwners
<1>5. ServerTypeOK'
  BY <1>1, <1>2, <1>3, <1>4, ServedIsNotWaiting DEF ServerInv, ServerTypeOK
<1> QED
  BY <1>4, <1>5 DEF ServerInv

\* The end of the process leaves everything as it was.
LEMMA CrashPreserves ==
  ASSUME ServerInv, NEW c \in Clients, Crash(c)
  PROVE  ServerInv'
<1>1. /\ UNCHANGED <<reply, leaked, registry, listening, backlog, connections, argv>>
      /\ UNCHANGED table /\ [Next]_vars
  BY DEF Crash, WildAccess, Next
<1>2. IInv'
  BY <1>1, NextIInv DEF ServerInv
<1>3. CommandsTypeOK' /\ BlocksHaveOneOwner'
  BY <1>1 DEF ServerInv, CommandsTypeOK, BlocksHaveOneOwner, Held, table
<1>4. ServerTypeOK'
  BY <1>1 DEF ServerInv, ServerTypeOK, connections
<1> QED
  BY <1>2, <1>3, <1>4 DEF ServerInv

\* ServerInv is inductive.
LEMMA NextServerInv == ServerInv /\ [ServerNext]_svars => ServerInv'
<1> SUFFICES ASSUME ServerInv, [ServerNext]_svars PROVE ServerInv'
  OBVIOUS
<1>1. CASE UNCHANGED svars
  <2>1. ServerTypeOK'
    BY <1>1 DEF ServerInv, ServerTypeOK, svars, connections
  <2> QED
    BY <1>1, <2>1, SameHeap DEF ServerInv, svars
<1> QED
  BY <1>1, ArrivalPreserves, ExecutePreserves, CrashPreserves, ServingPreserves
     DEF ServerNext

\* The inductive invariant holds of every behaviour of the server.
THEOREM ServerInvariant == ServerSpec => []ServerInv
BY InitServerInv, NextServerInv, PTL DEF ServerSpec

\* Every variable of the server stays in its range, no client is queued twice, and none
\* that is served is still queued.
THEOREM ServerTypeCorrect == ServerSpec => []ServerTypeOK
BY ServerInvariant, PTL DEF ServerInv

\* However many connections hold arguments (src/src/server.c:55) while others store and
\* remove values: each block belongs to one connection, to the table or to nobody.
THEOREM BlocksHaveOneOwnerHolds == ServerSpec => []BlocksHaveOneOwner
BY ServerInvariant, PTL DEF ServerInv

-----------------------------------------------------------------------------
(***************************************************************************)
(* The table and its replies, with all connections at work on it.          *)
(***************************************************************************)

\* What a step of the server is to the table and to the reply.
LEMMA ServerStepTold ==
  ASSUME ServerInv, [ServerNext]_svars
  PROVE  /\ [Next]_vars
         /\ \/ (\E blocks : Told(blocks)) /\ (ShortKeys => Promised)
            \/ UNCHANGED cvars
            \/ UNCHANGED <<table, ret, reply>> /\ status' = "down"
<1>1. ASSUME NEW c \in Clients, Execute(c)
      PROVE  [Next]_vars /\ (\E blocks : Told(blocks)) /\ (ShortKeys => Promised)
  <2>1. PICK arg \in malloc({}) : Dispatch(ValueBlocks(arg))
    BY <1>1 DEF Execute
  <2>2. ValueBlocks(arg) \in SUBSET (Values \ (owned \cup leaked))
    BY MallocIsFresh DEF ValueBlocks, FreeBlocks
  <2> QED
    BY <2>1, <2>2, DispatchTold DEF ServerInv
<1>2. ASSUME NEW c \in Clients, Crash(c)
      PROVE  [Next]_vars /\ UNCHANGED <<table, ret, reply>> /\ status' = "down"
  BY <1>2 DEF Crash, WildAccess, Next
<1>3. CASE UNCHANGED cvars
  BY <1>3 DEF cvars
<1>4. CASE \/ on_new_connection
           \/ \E c \in Clients : \/ Connect(c) \/ GoOnParsing(c)
                                 \/ on_write_complete(c) \/ Ends(c)
  BY <1>3, <1>4 DEF on_new_connection, Connect, GoOnParsing, on_write_complete, Ends,
     Close, on_client_close, on_timer_close, Abort
<1> QED
  BY <1>1, <1>2, <1>3, <1>4 DEF ServerNext, svars

\* The server does nothing to the table but call it: every theorem about Spec of HashTable
\* holds of the table of the server.
THEOREM ServerUsesTheTable == ServerSpec => Spec
<1>1. ServerInit => Init
  BY DEF ServerInit, CommandsInit
<1>2. ServerInv /\ [ServerNext]_svars => [Next]_vars
  BY ServerStepTold
<1> QED
  BY <1>1, <1>2, ServerInvariant, PTL DEF ServerSpec, Spec

\* What all clients together see of a table that is never asked to outgrow its locks,
\* with short keys and steady memory, is one KVStore.
THEOREM ServerIsKVStore ==
  ASSUME ShortKeys, SteadyMalloc, NeverOutgrown
  PROVE  ServerSpec => ImplementsKVStore
BY ServerUsesTheTable, KVStoreHolds

\* The replies of src/src/command.c:556, 581 to one client are true of the table all share.
THEOREM ServerFoundIsThere == ServerSpec => []FoundIsThere
<1>1. ServerInit => FoundIsThere
  BY DEF ServerInit, CommandsInit, FoundIsThere, Text
<1>2. ASSUME FoundIsThere, ServerInv, [ServerNext]_svars PROVE FoundIsThere'
  BY <1>2, ServerStepTold, FoundStaysThere DEF cvars, vars
<1> QED
  BY <1>1, <1>2, ServerInvariant, PTL DEF ServerSpec

\* An error told to one client (src/src/command.c:507-522) has changed nothing for any.
THEOREM ServerErrorMeansUndone == ServerSpec => ErrorMeansUndone
<1>1. ASSUME ServerInv, [ServerNext]_svars
      PROVE  [reply'.code # 200 /\ status' = "up" => UNCHANGED table]_cvars
  BY <1>1, ServerStepTold DEF Told
<1> QED
  BY <1>1, ServerInvariant, PTL DEF ServerSpec, ErrorMeansUndone

\* "OK" told to one client (src/src/command.c:565-579) is of its own command, done in full,
\* and of no change to the keys of others.
THEOREM ServerOkMeansDone ==
  ASSUME ShortKeys
  PROVE  ServerSpec => OkMeansDone
<1>1. ASSUME ServerInv, [ServerNext]_svars
      PROVE  [reply'.body.text = "OK" /\ status' = "up" => Done(reply'.name, reply'.key)]_cvars
  BY <1>1, ServerStepTold DEF Promised
<1> QED
  BY <1>1, ServerInvariant, PTL DEF ServerSpec, OkMeansDone

\* The numbers told to one client are of the keys that any client can find, when no long
\* key was added (src/src/command.c:603, 628).
THEOREM ServerCountsTellTheStore ==
  ASSUME ShortKeys
  PROVE  ServerSpec => []CountsTellTheStore
<1>1. ServerInit => KeysFiled /\ CountsTellTheStore
  BY CountsInitially DEF ServerInit
<1>2. ASSUME ServerInv, KeysFiled /\ CountsTellTheStore, [ServerNext]_svars
      PROVE  (KeysFiled /\ CountsTellTheStore)'
  <2>1. [Next]_vars
    BY <1>2, ServerStepTold
  <2>2. (\E blocks : Told(blocks)) \/ UNCHANGED <<table, ret, reply>>
    BY <1>2, ServerStepTold DEF cvars, vars
  <2> QED
    BY <1>2, <2>1, <2>2, CountsStayTrue DEF ServerInv
<1> QED
  BY <1>1, <1>2, ServerInvariant, PTL DEF ServerSpec
=============================================================================
