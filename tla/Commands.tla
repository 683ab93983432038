----------------------------- MODULE Commands ------------------------------
(***************************************************************************)
(* The command layer of src/src/command.c over the table of HashTable:     *)
(* execute_command finds the command by its name, checks the number of     *)
(* arguments and their form, runs the command on the table and turns its   *)
(* result into a reply.  The event loop runs it to its end before it does  *)
(* anything else, so a request and its reply are one step.                 *)
(*                                                                         *)
(* Of the heap, modelled are the blocks that carry values.  Two kinds of   *)
(* them are freed by nobody: the value of a store that was refused         *)
(* (command.c:441) and the copy table_get makes for GET (command.c:556).   *)
(***************************************************************************)
EXTENDS HashTable

CONSTANT MaxArgc    \* requests have at most this many arguments

VARIABLES
  reply,      \* the latest request and the reply to it
  leaked      \* blocks that nothing points to any more and that were not freed

cvars == <<vars, reply, leaked>>

\* The number of arguments of each command.
command_table ==
  [ADD |-> 2, CLEAR |-> 0, COUNT |-> 1, DEL |-> 1, EXIST |-> 1, GET |-> 1,
   LOADFACTOR |-> 0, REPLACE |-> 2, RESIZE |-> 1, SET |-> 2]

\* Commands whose first argument may be malformed: an empty key, a size that is
\* no number, a counter that does not exist.
CheckedCommands == {c \in DOMAIN command_table : command_table[c] > 0}

\* Commands that report a failure as an ERROR result.
ErrorOnFailure == {"DEL", "REPLACE", "RESIZE"}

-----------------------------------------------------------------------------
(***************************************************************************)
(* Replies.  The status never leaves the server: the client sees the body. *)
(* The text of a message is named by its macro (src/src/command.h:24-32)   *)
(* where it has one; "zu" and "4f" are numbers in these formats.           *)
(***************************************************************************)

Text(t)  == [text |-> t, value |-> Null, num |-> 0, of |-> 1]
Value(v) == [Text("value") EXCEPT !.value = v]

\* Mutation: integers are printed with a sign.
PrintedSigned(format, num, of) ==
  [Text(format) EXCEPT !.num = IF num > SIZE_MAX \div 2 THEN num - SIZE_MAX - 1 ELSE num,
                       !.of = of]

\* A number as it is printed: "%zu" of an integer, "%.4f" and "%.2f" of num / of,
\* and the bits of the double num / of where "%zu" is given a double.
Printed(format, num, of) == [Text(format) EXCEPT !.num = num, !.of = of]

Answer(code, body) == [code |-> code, body |-> body]

WhenMemoryFails(answers) == IF MallocMayFail THEN answers ELSE {}

\* create_error_response: without memory for the message the body is empty.
ErrorAnswers(code, message) ==
  {Answer(code, Text(message))} \cup WhenMemoryFails({Answer(500, Text("empty"))})

\* The copy of a body is checked, and replaced by an apology when it fails.
BodyAnswers(body) ==
  {Answer(200, body)} \cup WhenMemoryFails(ErrorAnswers(500, "TCP_MEMORY_ERROR"))

\* The copy of "OK" is not checked: two characters of whatever is there go out.
SuccessAnswers ==
  {Answer(200, Text("OK"))} \cup WhenMemoryFails({Answer(200, Text("uninitialised"))})

\* Mutation: a failure of DEL, REPLACE or RESIZE is not made an error.
StatusAnswersForgiving(name, rc) ==
  IF rc = 0 \/ name \in ErrorOnFailure THEN SuccessAnswers
  ELSE ErrorAnswers(409, "TCP_OPERATION_FAILED")

\* Mutation: DEL leaves its result an ERROR although it has deleted.
StatusAnswersOfDelError(name, rc) ==
  IF rc = 0 /\ name # "DEL" THEN SuccessAnswers
  ELSE ErrorAnswers(500, "TCP_INTERNAL_ERROR")

StatusAnswers(name, rc) ==
  IF rc = 0 THEN SuccessAnswers
  ELSE IF name \in ErrorOnFailure THEN ErrorAnswers(500, "TCP_INTERNAL_ERROR")
  ELSE ErrorAnswers(409, "TCP_OPERATION_FAILED")

\* Mutation: "1" and "0" are swapped.
ExistAnswersSwapped(rc) == BodyAnswers(Text(IF rc = 1 THEN "0" ELSE "1"))

ExistAnswers(rc) == BodyAnswers(Text(IF rc = 1 THEN "1" ELSE "0"))

ValueAnswers(val) ==
  IF val = Null THEN ErrorAnswers(404, "TCP_KEY_NOT_FOUND") ELSE BodyAnswers(Value(val))

\* cmd_count never sets the type of its result, which stays CAPACITY: the double
\* of OCCUPIED_BUCKET is printed with the format of the integers.
CountAnswers(op) ==
  BodyAnswers(Printed(IF op = "occupied_bucket" THEN "bits" ELSE "zu", ret'.rc, ret'.of))

\* The reply to the request is one of the answers.
Replies(name, k, answers) ==
  \E a \in answers :
    reply' = [name |-> name, key |-> k, code |-> a.code, body |-> a.body]

-----------------------------------------------------------------------------
(***************************************************************************)
(* Requests that never reach the table.                                    *)
(***************************************************************************)

Reject(name, code, message) ==
  /\ Replies(name, Null, ErrorAnswers(code, message))
  /\ UNCHANGED <<vars, leaked>>

NotACommand == Reject("other", 404, "CommandNotFound")

WrongArity(name, argc) ==
  /\ argc # command_table[name]
  /\ Reject(name, 400, "IncorrectArity")

\* build_command_data: a malformed argument, or no memory for the value.
BuildFails(name) ==
  /\ name \in CheckedCommands
  /\ Reject(name, 400, "InvalidArgument")

\* cmd_resize turns size 0 away itself.
ResizeToZero == 0 \in ResizeSizes /\ Reject("RESIZE", 500, "TCP_INTERNAL_ERROR")

-----------------------------------------------------------------------------
(***************************************************************************)
(* Requests that run a command.                                            *)
(***************************************************************************)

\* The block of the value is the table's now, or nobody's.
KeptOrLeaked(v) == leaked' = IF ret'.rc = 0 THEN leaked ELSE leaked \cup {v}

Store(name, k, v) ==
  /\ CASE name = "SET" -> table_set(k, v)
       [] name = "ADD" -> table_add(k, v)
       [] name = "REPLACE" -> table_replace(k, v)
  /\ Replies(name, k, StatusAnswers(name, ret'.rc))
  /\ KeptOrLeaked(v)

cmd_set(k, v)     == Store("SET", k, v)
cmd_add(k, v)     == Store("ADD", k, v)
cmd_replace(k, v) == Store("REPLACE", k, v)

\* What is found is copied into a block that is never freed, if there is one.
cmd_get(k, blocks) ==
  /\ table_get(k) /\ Replies("GET", k, ValueAnswers(ret'.val))
  /\ \/ ret'.val = Null /\ UNCHANGED leaked
     \/ ret'.val # Null /\ \E copy \in blocks : leaked' = leaked \cup {copy}

cmd_del(k)      == table_delete(k) /\ Replies("DEL", k, StatusAnswers("DEL", ret'.rc))
cmd_exist(k)    == table_exist(k) /\ Replies("EXIST", k, ExistAnswers(ret'.rc))
cmd_clear       == table_clear /\ Replies("CLEAR", Null, StatusAnswers("CLEAR", ret'.rc))
cmd_resize(n)   == /\ n # 0
                   /\ table_resize(n)
                   /\ Replies("RESIZE", Null, StatusAnswers("RESIZE", ret'.rc))
cmd_load_factor == /\ table_load_factor
                   /\ Replies("LOADFACTOR", Null,
                              BodyAnswers(Printed("4f", ret'.rc, ret'.of)))
cmd_count       == /\ \/ table_occupied_bucket_counter \/ table_capacity
                      \/ table_memory_usage \/ table_total_elem
                   /\ Replies("COUNT", Null, CountAnswers(ret'.op))

-----------------------------------------------------------------------------
\* One request, with some blocks of the heap free.
execute_command(blocks) ==
  /\ status = "up"
  /\ \/ NotACommand
     \/ \E name \in DOMAIN command_table : \/ \E argc \in 0 .. MaxArgc : WrongArity(name, argc)
                                           \/ BuildFails(name)
     \/ ResizeToZero
     \/ \E k \in Keys, v \in blocks : cmd_set(k, v) \/ cmd_add(k, v) \/ cmd_replace(k, v)
     \/ \E k \in Keys : cmd_get(k, blocks)
     \/ /\ \/ \E k \in Keys : cmd_del(k) \/ cmd_exist(k)
           \/ \E n \in ResizeSizes : cmd_resize(n)
           \/ cmd_clear \/ cmd_load_factor \/ cmd_count
        /\ UNCHANGED leaked

CommandsInit ==
  /\ Init
  /\ reply = [name |-> "none", key |-> Null, code |-> 200, body |-> Text("none")]
  /\ leaked = {}

CommandsNext ==
  \/ execute_command(Values \ (owned \cup leaked))
  \/ WildAccess /\ UNCHANGED <<reply, leaked>>

CommandsSpec == CommandsInit /\ [][CommandsNext]_cvars

-----------------------------------------------------------------------------
(***************************************************************************)
(* Properties: what a client may conclude from a reply, after any sequence *)
(* of requests, in a table that has outgrown its locks and with memory     *)
(* failing at any call.                                                    *)
(***************************************************************************)

Names == DOMAIN command_table \cup {"other", "none"}

\* Every reply has one of the codes of execute_command, and counts are not negative.
CommandsTypeOK ==
  /\ reply.name \in Names /\ reply.key \in Keys \cup {Null}
  /\ reply.code \in {200, 400, 404, 409, 500}
  /\ reply.body.value \in Values \cup {Null}
  /\ reply.body.num \in Nat /\ reply.body.of \in Nat
  /\ leaked \subseteq Values

Fresh(k) == Stored'[k] \notin owned \cup {Null}

OthersKept(k) == \A j \in Keys \ {k} : Stored'[j] = Stored[j]

\* What each command promises when it answers "OK".
Done(name, k) ==
  CASE name = "SET"     -> Fresh(k) /\ OthersKept(k)
    [] name = "ADD"     -> Stored[k] = Null /\ Fresh(k) /\ OthersKept(k)
    [] name = "REPLACE" -> Stored[k] # Null /\ Fresh(k) /\ OthersKept(k)
    [] name = "DEL"     -> Stored[k] # Null /\ Stored'[k] = Null /\ OthersKept(k)
    [] name = "CLEAR"   -> \A j \in Keys : Stored'[j] = Null
    [] name = "RESIZE"  -> \A j \in Keys : Stored'[j] = Stored[j]

\* "OK" (src/src/command.c:565-579) is never said of a command that has not done
\* all of its work, and nothing but its work.
OkMeansDone ==
  [][reply'.body.text = "OK" /\ status' = "up" => Done(reply'.name, reply'.key)]_cvars

\* The words of an error (src/src/command.c:507-522) are never said of a command
\* that has changed the table.
ErrorMeansUndone ==
  [][reply'.code # 200 /\ status' = "up" => UNCHANGED table]_cvars

\* What a read finds is there: a value is the value of the key, "1" means that
\* the key is stored.  (The converse is false of this code: a read that fails
\* for want of memory or of a lock is answered "Key not found" or "0".)
FoundIsThere ==
  /\ reply.body.text = "value" => Stored[reply.key] = reply.body.value
  /\ reply.body.text = "1"     => Stored[reply.key] # Null

\* The numbers that LOADFACTOR and COUNT TOTAL_ELEM tell (src/src/command.c:603, 628)
\* are of the keys a client can find, however the table grew and shrank: none is
\* counted that lookups have lost, none is found that is not counted.
CountsTellTheStore ==
  reply.body.text \in {"zu", "4f"} /\ ret.op \in {"total_elem", "load_factor"}
    => reply.body.num = Cardinality({k \in Keys : Stored[k] # Null})

\* "Out of memory" (src/src/command.h:30) is the reply for a failed allocation, so
\* "Key not found" (src/src/command.h:26) means that the key is not there.
NotFoundIsNotThere == reply.body.text = "TCP_KEY_NOT_FOUND" => Stored[reply.key] = Null
=============================================================================
