----------------------------- MODULE OneClient -----------------------------
(***************************************************************************)
(* A connection with all of its callbacks (module Connection) as one of    *)
(* the clients of Server, where they are summed up.  Server leaves nothing *)
(* out of what a connection does: that is the property ServerCovers.       *)
(*                                                                         *)
(* What a connection does next does not depend on what its command was     *)
(* answered, and Server leaves commands to execute_command without         *)
(* summing anything up.  So the server here is one without a registry,     *)
(* which turns every command away and whose table stays as it is.          *)
(***************************************************************************)
EXTENDS Connection

TheClient   == "client"
NoBlock     == 0
TheArgument == 1

\* Words of the table, which has none to work on here.
NoBits(a, b) == 0
NoPower(n)   == n

\* The reply to a command when there is no registry.
TurnedAway ==
  [name |-> "other", key |-> NoBlock, code |-> 400,
   body |-> [text |-> "InvalidDispatch", value |-> NoBlock, num |-> 0, of |-> 1]]

\* The block of the last argument, from the execution of the command until the
\* arguments are freed.
HeldArgument == IF executed # 0 /\ temp_argv THEN TheArgument ELSE NoBlock

S == INSTANCE Server WITH
       Clients   <- {TheClient},
       listening <- LifeOf # "refused",
       backlog   <- IF LifeOf = "none" THEN <<TheClient>> ELSE <<>>,
       life      <- [c \in {TheClient} |-> LifeOf],
       executed  <- [c \in {TheClient} |-> executed],
       owed      <- [c \in {TheClient} |-> IF writes = <<>> THEN "no" ELSE writes[1]],
       process   <- [c \in {TheClient} |-> status],
       argv      <- [c \in {TheClient} |-> HeldArgument],
       registry  <- FALSE,
       \* the heap and the table
       Values <- {TheArgument}, Null <- NoBlock, leaked <- {}, reply <- TurnedAway,
       Keys <- {}, LongKeys <- {}, Truncated <- <<>>, hash <- <<>>, SIZE_MAX <- 1,
       BUCKET_CAPACITY <- 1, CreateSizes <- {1}, ResizeSizes <- {}, MaxBuckets <- 1,
       MaxArgc <- 0, BitAnd <- NoBits, next_power_of_2 <- NoPower,
       buckets <- <<>>, buckets_count <- 0, lock_count <- 0, elem_count <- 0, owned <- {},
       ret <- TurnedAway, status <- "up"

\* Whatever the client sends, whatever fails and in whatever order the callbacks of
\* src/src/server.c:48-347 run, each step is one of Server's or leaves alone what Server
\* has of the connection: no end of a connection is missing there, no reply and no time
\* at which an argument is freed.
ServerCovers == [][S!ServerNext]_(S!svars)
=============================================================================
