# Models of simple-c-database

TLA+ models of the key-value server in `src/`: what can be model-checked is
checked with TLC, and every safety property of the passing runs, with every refinement,
is proved with TLAPS for every value of the constants, under the hypotheses named below.
Paths and line numbers refer to the repository (`src/src/hashtable.c:213` is line 213 of
its `src/hashtable.c`).

## The system

One process, one thread: `main` makes a table and a command registry, listens on
port 7000 and runs the libuv loop for ever. Everything else happens in callbacks,
each of which runs to its end before the next starts.

| part | state | operations | interacts with |
|---|---|---|---|
| hash table (`hashtable.c`) | array of buckets of `BUCKET_CAPACITY` = 8 slots, `buckets_count`, `elem_count`, one rwlock per bucket of the first array, `lock_count` | create, set, get, add, replace, delete, exist, clear, resize, five counters, destroy | called by the command layer; frees values through a callback |
| word arithmetic (`bitwise_functionality.c`) | none | `next_power_of_2` | called by create and resize |
| hash function (`hashing_functionality.c`) | none | djb2 | called by every keyed operation |
| string helpers (`string_functionality.c`) | none | copies, comparisons, conversions | used everywhere |
| command layer (`command.c`) | a constant table of ten commands | `execute_command`: look up, check, run, make the reply | called by the parser; calls the table |
| connection (`server.c`) | per client: stream and timer handles, input buffer, parser state, argument arrays; libuv keeps its write requests | accept, read, parse, reply, timeout, close | libuv calls it; it calls `execute_command` |
| start (`main`) | listening socket | none after the loop starts | |
| client script (`tools/scripts/SCDClient`) | none | sends one command, prints one answer | the wire format is taken from it |

What is hard here:

* **A table that changes size** keeps hashes, counters, ownership of values and
  the place of every entry consistent while the whole array is replaced, and gives
  up half-way when a bucket overflows. It does not remake its locks.
* **Two ways to compute a bucket**, a mask in the lookups and a modulo in the
  rehash, which agree for powers of two only.
* **Bytes come in any pieces**, and the parser must stop and resume anywhere.
* **Two handles and a write share one context**, and libuv aborts the process when
  a handle is closed twice. Seventeen places close the stream, and six error
  paths free the arguments that its closing frees again.
* **One heap under everything**: arguments live as long as their connection, values
  as long as the table keeps them, and two kinds of blocks are freed by nobody.
* **One process for all clients**: a table, a thread and a listening socket that
  every connection depends on.
* **Any allocation may fail**, and the reply must still be true.

There is no concurrency between table calls: the locks are never contended. There
is no persistence and no chaining of buckets (the first paragraph of
`src/readme.md` mentions both; there is no code for either), so there is no crash
recovery, and a full bucket refuses new keys.

## Modules

| module | models | kind |
|---|---|---|
| `Words` | `next_power_of_2`, the test `n & (n - 1)`, the mask, on words of `W` bits | operators |
| `Strings` | `ustrncpy`, `ustrncmp`, `ustrlen`, `is_key_valid`, djb2, on blocks of bytes | operators |
| `KVStore` | what the database promises: a map, answers that are true of it, and the right to refuse a new key | abstract specification |
| `HashTable` | `hashtable.c`, one action per function | state machine |
| `HashTableProofs` | the invariants of `HashTable` | proofs |
| `StoreProofs` | what is found in the table; `HashTable` implements `KVStore` | proofs |
| `Commands` | `command.c` over `HashTable`, one action per command and per rejection | state machine, extends `HashTable` |
| `CommandsProofs` | what the replies promise | proofs |
| `Lifecycle` | what a connection is to the rest of the server | abstract specification |
| `Connection` | one client of `server.c`: callbacks, parser, argument blocks, handles, and what libuv does with them | state machine |
| `ConnectionProofs` | the invariants of `Connection`; it implements `Lifecycle` | proofs |
| `Server` | several connections, the table, the heap and the listening socket | state machine, composes `Commands` and one `Lifecycle` per client |
| `OneClient` | a `Connection` as one of the clients of `Server` | refinement mapping |
| `ServerProofs` | the same of any number of clients over one table and one heap | proofs |
| `MCWords`, `MCHashTable`, `MCCommands`, `MCConnection`, `MCServer` | values for the constants; `MCWords` also enumerates words and fills a slot | TLC instances |
| `WordsProofs` | rounding, the test and the mask, for words of any width | proofs |
| `StringsProofs` | copying into a slot and comparing there, for keys and slots of any length | proofs |
| `Minima` | the least element of a set of numbers, induction over such a set, functions by recursion | lemmas |

Three refinements hold the parts together: `HashTable` implements `KVStore`,
`Connection` implements `Lifecycle`, and what `Connection` does as a client of `Server`
(`OneClient`) are steps that `Server` has.

### Words and Strings

`Words` says what `&`, `|` and `>>` do through the positions of the bits that are set,
and a word is the sum of its powers of two. The shifts of `next_power_of_2` are a
constant: each is twice the one before and together they reach every bit
(`WordsAssumption`), which of a word of 64 bits is true of the x86-64 build alone, the
only one that shifts by 32 (`bitwise_functionality.c:17-19`).

Both modules are definitions without state; `MCWords` goes through all pairs of words, and
fills a slot with one key after another, whatever the last one left behind in it.
`MatchIsExact` is what entitles `HashTable` to keys that are values and not bytes: a
lookup matches a slot exactly when the key sought is the kept part of the key stored
there (`Truncated` in `HashTable`) and both have one hash. `KEY_MAX_LEN`, the range
of bytes and the modulus of the hash are constants.

### HashTable

`buckets`, `buckets_count`, `lock_count` and `elem_count` are the fields of
`hashtable_t`; a slot is a record of the four parallel arrays of a bucket. `ret`
holds the latest call and its result, `owned` the value blocks the table has been
given and has not freed. A value *is* its heap block; a caller always passes a
fresh one, as `build_command_data` does. The hash is an arbitrary function of the
keys. `BitAnd` and `next_power_of_2` are constant operators: the runs instantiate
them with `Words`, the proofs use `WordAssumption` only.

A call that locks beyond `lock_count` (after growing) uses memory that is no lock.
What it finds there is not the model's business: the lock is granted, or refused,
or what the model says ends (`WildAccess`): the process stops, or goes on with memory
of which nothing is known. A bucket index in a table of no buckets is such an end, or
its lock is refused: the slots the code would look at, and perhaps fill, lie behind the
empty array, and what the call then returns is theirs to say. Corruption of a
neighbouring heap block by a wild lock is not followed further.

`table_resize` is one action with its early returns in the order of the code. The
rehash is the loop of the code: `Rehash` is a recursive function over the slots of the
old array in their order, each of which `Moved` puts into the first free slot of its
new bucket; the first full bucket ends it (`Rehash(capacity).fits`). What there is then
of the new array is what `FatalRehash` gets. Both arrays point to the values moved so
far, and only the array is freed: a `FatalRehash` that also dropped the values breaks
`ResizeKeepsEntries` and `OwnershipExact`.

`memory_usage` counts the values instead of adding up their bytes, and a `double`
is kept as numerator and denominator.

### Commands

Each `cmd_*` is the table's action conjoined with the reply that
`execute_command` makes of its result. A reply has the status code, which the code
computes and never sends, and the body, which is what a client sees. Replies that
need an allocation are sets: the reply, and what comes of a failed copy. The text of
a message is named by its macro in `command.h`, or for its words where it has none;
a number is named by its format.

`leaked` has the blocks nothing points to any more and nobody freed: the value of a
store that the table refused, and the copy that `table_get` makes and
`execute_command` copies once more for the reply. `execute_command` takes the set of
blocks that are free as a parameter, so that `Server` can keep others in use.

### Connection

The phases of the loop are timers, pending, poll, closing. `parse_buffer` is modelled
one round of its `while` at a time, with `parsing` set while it runs; only the client
can move in between. The stream and the timer are `open`/`running`, `closing`, `closed`;
`writes` are the requests whose callback has not run, each `sent`, `queued` or `failed`.
A handle is finished in the closing phase: a stream first runs the callbacks of its
writes, the unfinished ones as cancelled. `Abort` is the assertion in `uv_close`; the
installed libuv is taken to be built with assertions, as distributions build it.
`on_write_complete` reads `req->handle` after freeing the request (lines 68 and 72): it
finds the handle, or something else, after which the model says no more (`WildHandle`).
A store past a heap block (the LF of the reply, line 257; the argument after the last,
lines 209 and 218) is harmless or ends the modelled run.

The blocks of the arguments are counted: `blocks` is what `malloc` gave the parser
less what was freed, `temp_argv` whether the context still points to it (both arrays
are one block here: they come and go together). `free_parser_resources` subtracts
what the code would free, so a double free makes `blocks` negative.

Numbers on the wire are one digit and all argument bytes are alike. A mark without a
number is followed by a choice: `strtol` skips line ends as blanks, reads a number
from a later line if one is there, and otherwise goes on into whatever lies behind
the used part of the buffer. `OnlyCompleteCommands` speaks of scripts whose marks
have numbers, for in others it depends on the split what the command is. A client may
send any prefix in any pieces, close, or reset.

A script is some line ends, some commands in the format of `SCDClient`, and a rest.
`ScriptsAssumption` bounds the commands by the parser's limits; the rest is any
characters, and that is where a client may violate the protocol.

`LifeOf` maps a connection to `Lifecycle`: open, closing once its stream is, freed
when the context is, and two ways not to begin.

### Server

`Server` extends `Commands` and gives each client the four variables of `Lifecycle`,
as functions, and `argv`, the block of its last argument. `Execute(c)` is the parser
reaching the end of the first command of `c`: the last argument gets a block, the value
of a store a second one, the command runs on the common table, and the reply is
written, or memory fails, the arguments are freed and the connection closes. A parser
that runs out of memory later frees them too (`Close`), and otherwise the close of the
stream does (`on_client_close`), before that of the timer frees the context
(`on_timer_close`). `on_new_connection` takes clients from the kernel's queue in
order; without memory for one, that one and all later ones are not heard again.
`registry` is FALSE when `registry_create` had no memory, which `main` does not
notice. A process that one connection stopped is stopped for all (`Up`).

Values are blocks of the heap and numbered, and `malloc` gives out the free one with
the least number: blocks differ in nothing else, so that is one case for many. When
none is free the action is not taken; the allocation that fails is in the models of
`Commands` and `Connection`.

### OneClient

`Server` has actions of its own for what a connection does, a summary of some twenty
callbacks and branches of `Connection`. A summary can leave something out, and what is
shown of it would then be of less than the code. `OneClient` maps a connection to a
client of `Server`: `LifeOf` again, its first write, and `argv`, a block from the
execution of the command until `free_parser_resources` runs. `ServerCovers` says that
every step of `Connection` is then one of `ServerNext` or changes nothing there.

The mapping gives `Server` no registry, so that `Dispatch` turns the command away and the
table need not be mapped. Nothing is lost: `Server` runs a command with
`execute_command` of `Commands` itself, and what a connection does afterwards does not
depend on the reply. `Crash`, the one step of `Server` that no connection has, is the
command's. The property says nothing of the first state and of liveness.

## Runs

| run | shows | result |
|---|---|---|
| `words` | rounding, the power-of-two test and the mask are exact, for all pairs of 6-bit words; comparing keys in a slot is exact and stays in its block | holds |
| `table_core` | type, placement, unique keys, count, ownership, growth fits, a resize keeps entries and values | holds |
| `table_refines` | the table implements `KVStore` while it stays within its locks | holds |
| `grown_table` | GET finds what is stored, in a table made larger | **violated** |
| `long_add` | what ADD stores can be found | **violated** |
| `zero_buckets` | the number of buckets is a power of two | **violated** |
| `commands` | OK, errors, found values and counts are true of the table | holds |
| `not_found` | "Key not found" means not there, with failing allocations | **violated** |
| `connection` | handles, memory, arguments, liveness, the first command of a connection; implements `Lifecycle`; `Server` has each of its steps | holds |
| `server` | no block has two owners, everyone is let go | holds |
| `two_commands` | every complete command is executed | **violated** |
| `slow_reader` | the server does not abort | **violated** |

The violated ones are findings; `PROJECT.json` quotes for each the line of the
repository that says otherwise.

**Bounds.** `words`: 6 bits have every case of the smearing (shifts 1, 2, 4) and of the
wrap at the top; slots of 5 bytes, keys of up to 7 made of two different bytes, and djb2
modulo 64, so that keys cut short, keys that fill the slot, keys that are the beginning
of others and equal hashes all occur. `table_core`: words of 4 bits, buckets of 2 slots,
1 to 8 buckets, 3 keys and a long one, 4 values. Three keys share a bucket of two slots
in small tables and part in eight buckets, so full buckets, holes, moves in both
directions and the FATAL rehash all occur; size 9 rounds to 0 and size 3 to 4. Values
are symmetric; keys are not, for their hashes differ. `table_refines` drops what breaks
the promise: sizes beyond the locks, long keys, failing copies; size 9 then is refused
as too large only when the table has entries, otherwise it leaves no buckets, in which
an absent key is still reported absent or the process stops. `commands`: buckets of one
slot and two keys, so that a new key can be refused, and a size that rounds to 0, so
that the table can lose its buckets. `connection`: 13 scripts, one for each test of the
parser and each shape of a command, with limits of 2 arguments and 2 bytes; every split
into reads is explored. A second command is enough to show what the stale parser does,
since after it `args_parsed` exceeds `args_total` for good. `server`: two clients, one
key, five blocks (each command holds at most two, or three with the copy of a GET), a
table of one bucket that can be doubled beyond its locks. Two are enough for what the
properties say of clients: one that leaves, and one whose value, argument, place in the
queue or process is at stake. A third multiplies the states beyond what can be explored
and adds no case.

`CHECK_DEADLOCK FALSE` in the table and command runs because a process that a wild
access stopped has no next state, in the connection and server runs because of an
aborted process; in `words` because the enumeration ends.

**Fairness.** In `Connection`, the loop goes on (`WF_vars(Loop)`): libuv never leaves a
phase unfinished, and a callback always returns. A finished write's callback runs in the
pending phase. A timer that is running when the loop looks again and again is found due
in the end (`SF_vars(on_client_timeout)`): time passes, and it is restarted by arriving
bytes only, of which a script has finitely many: a client that sends a line end every
few seconds for ever keeps its connection (`server.c:299`), and `EventuallyFreed` does
not speak of it. Nothing is assumed of the client, nor of reading. In `Server`, libuv
hands over a waiting connection while it polls the socket (`WF` of `on_new_connection`),
and an open or closing connection is brought to its end (`WF` of `Ends(c)`): that is
what `OpenIsTimed` and `EventuallyFreed` of `Connection` show of the code. No client is
assumed to come, to send, or to leave. `EveryoneLetGo` names its two exceptions: a
server gone deaf (`Unheard`), and a process that stopped (`Up`).

## Proofs

Nothing is assumed but what the modules state of their constants. Most of it
says what the constants range over. Two assumptions say more:

* `WordAssumption` (`HashTable`): rounding gives a power of two or 0, masking with a
  power of two less one is the modulo, and a power of two divides a larger one. That
  the code's arithmetic is so is proved (`WordsServeTheTable`); TLC also evaluates it
  at the start of every table and command run.
* `ServerAssumption`: blocks of the heap are numbers, and finitely many.

### The table (`HashTableProofs`, `StoreProofs`)

The inductive invariant `IInv` is the conjunction of `TypeOK`, `Placement`,
`CountExact`, `OwnershipExact` and `UniqueKeys`. They need one another: `CountExact` is
preserved by an insertion because the free slot was not occupied, and by a deletion
because the slot found was; that a store finds the only slot of its key, wherever it is,
needs `Placement` (no copy can be in another bucket) and keeps `UniqueKeys`;
`OwnershipExact` is preserved by overwriting because no other slot shares the old block.
The hard case is the resize. `RehashRuns` gives the rounds of the loop, and by induction
over them (`MovedCarries`) the slots walked so far and the slots in use in the new array
carry the same entries, one to one; after the last round `RehashMoves` has a bijection
between the occupied slots of the two arrays that keeps every entry, and each conjunct
follows from the bijection. `GrowthFits` follows from `Placement`: with more buckets,
the entries of one new bucket all come from one old bucket, because a remainder by a
larger power of two determines the one by a smaller (`MasksNest`), so that before each
round the bucket has a slot left (`GrowthHasRoom`). With `ResizeKeepsEntries` these are
the seven properties of `table_core`, for all keys, hashes, capacities and word sizes,
and with long keys, failing memory and wild locks.

`KVStoreHolds` proves `ImplementsKVStore` from three hypotheses, each of which the
code needs:

| hypothesis | says | without it |
|---|---|---|
| `ShortKeys` | no caller uses a key that does not fit into a slot | ADD stores what nobody finds (run `long_add`) |
| `SteadyMalloc` | memory is granted up to the bound | GET says a stored key is not there (run `not_found`) |
| `NeverOutgrown` | no size that is granted exceeds the one of `table_create` | a lookup meets a lock that is none (run `grown_table`) |

The run `table_refines` is an instance of all three. The argument: `Stored`, the
function from keys to values that the mapping gives to `KVStore`, is the set of
occupied slots read as a function, which is what `UniqueKeys` and `Placement` make it.
The invariant adds `KeysFiled` (an entry is filed under the key it holds) and
`LocksCover` (each bucket has its lock). An insertion, an overwriting, a deletion and a
clearing change `Stored` at one key or everywhere (`InsertStores`, `OverwriteStores`,
`VacateForgets`, `ClearForgets`), a rehash that fits, or fails, nowhere (`ResizeKeeps`).

### The replies (`CommandsProofs`)

A request is one call of the table, or none (`CommandsUseTheTable`): the theorems about
the table hold under the command layer. What each kind of answer tells is one lemma
for all requests (`RequestTold`): an error code comes with an unchanged table, a value
and a 1 with what the table holds, a count with `elem_count`, OK with the deed. From it
follow `CommandsTypeOK`, `FoundIsThere` and `ErrorMeansUndone` with any memory and any
keys; `OkMeansDone` and `CountsTellTheStore` under `ShortKeys`, since a long key that
was added is neither stored as promised nor found, yet counted.

### One connection (`ConnectionProofs`)

**Handles, memory, closing.** For all scripts, every split into reads, and every limit
on the arguments, `CInv` is inductive. It is `TypeOK` and `AbortsAreExplained` with six
further facts: `StreamsOfChars` (types of the three streams), `HandlesFit` (which states
of stream, timer, context, parser and loop go together), `OneReply`, `BlocksCounted`
(the blocks allocated are those the context points to), `OneCommand` (while the stream
is open, the command was executed exactly when the arguments are complete), and
`ParserStarved`. The last is the reason why `AbortsAreExplained` holds at all: when
`append_to_buffer` fails it closes the stream and returns nothing, and `parse_buffer`
runs on the old buffer. It neither executes nor closes again because what was there
could not move the parser before, and so cannot now. `TypeOK`, `AbortsAreExplained`,
`OpenIsTimed`, `NoUseAfterFree` and `ArgumentsFreedOnce` follow, and
`ImplementsLifecycle`, one action of `Connection` after the other. TLC checked `CInv` on
the instance of the run `connection` before it was proved.

**As the server sees it.** `ServerCovers` follows from `CInv` and the steps of
`Lifecycle`: one lemma per action of `Lifecycle` says which action of `Server` it is when
the arguments are kept or freed as there, and one lemma per callback what it does to
them. A parser without memory frees them while the stream closes, and the close of the
stream frees them before the timer's frees the context: `Server` has both.

**What the parser makes of the bytes.** `CInv` counts arguments and does not look at the
script. `FInv` does, relative to it: what is unsent and in the inbox is the end of the
script (`OnTheWay`), the buffer is the last of what was delivered (`InBuffer`), and
until the first command is executed the parser stands in it at the place that its state
and counts name (`InFirst`), after which all of it was delivered (`FirstDone`). The text of
a command is a recursive function, so `Layout` first shows, by induction over the
arguments, where each header and each argument lies; `HeaderParsed` and `StrippedLead`
show what the searches of `parse_buffer` find there, complete or cut anywhere. Each
round of the parser then keeps `FInv`, and one that stops before the end of the command
does so because what it needs was not delivered.

| theorem | says | of |
|---|---|---|
| `FirstCommandExecutedHolds` | the first command is executed when its last character was read | all scripts |
| `OnlyCompleteCommandsHolds` | none is executed before | scripts with a command (`Started`), with any rest, marks without numbers included |
| `EveryCommandExecutedHolds` | a single command is executed even if the connection is closed later, and once | one command, `~MallocMayFail` |

The last needs a third invariant, `Answered`: a stream that is closing has executed the
command if all of it was delivered. TLC checked `FInv` and `Answered`'s consequence on the
instance of the run `connection` first.

### The server (`ServerProofs`)

For every set of clients: `ServerInv` is `IInv`, `CommandsTypeOK`, `ServerTypeOK` and
`BlocksHaveOneOwner`. The last is inductive because `malloc` gives only what is in
nobody's hands, a command takes at most the blocks it was given (`RequestTold` again),
and a closing connection gives back the blocks of its own arguments only. The server
uses the table as `HashTable` allows (`ServerUsesTheTable`), so what is proved there
holds of all clients together: `ServerIsKVStore` under the hypotheses of `KVStoreHolds`,
and the promises of the replies to each of them (`ServerFoundIsThere`,
`ServerErrorMeansUndone`, and under `ShortKeys` `ServerOkMeansDone` and
`ServerCountsTellTheStore`). All this would be worth little if `Server`,
which sums connections up, lacked a step of theirs; `ServerCoversHolds`, proved with
`Connection`, says that it does not.

### Words (`WordsProofs`)

For words of any width. `BitsOfWord` and `WordOfBits` say that a word and the set of its
bits determine each other, so `&` and `|` are intersection and union; `SmearIs`, that
after *j* shifts the highest 2^*j* bits are set, and so in the end all below the
highest. From it `next_power_of_2` is the least power of two that is not below its
argument, and wraps to 0 when there is none (`RoundingIsRight`); a word between two
powers of two shares its highest bit with its predecessor, and a power of two shares
none (`TestIsRight`); the bits below a power of two are the remainder by it
(`MaskingIsRight`). `WordsServeTheTable` is `WordAssumption` for these operators.

### A slot as bytes (`StringsProofs`)

For keys over any characters and of any length, and slots of any size: a slot always
holds the kept part of its key and then a 0, with whatever lingers behind it, and the
hash of the whole key (`SlotInv`). A comparison that goes on while bytes are equal stops
at that 0 or before (`ComparesWithinBlocks`), and finds equality exactly if the key is
the kept part (`MatchIsExact`).

### The promises that are not kept

All six violated properties hold under the negation of what their runs exhibit,
so that each finding has the causes named here and no other:

| property | run | theorem | holds when |
|---|---|---|---|
| `GetFindsStored` | `grown_table` | `GetFindsStoredHolds` | `NeverOutgrown`, `SteadyMalloc` |
| `NotFoundIsNotThere` | `not_found` | `NotFoundIsNotThereHolds` | `NeverOutgrown`, `SteadyMalloc` |
| `AddedIsFound` | `long_add` | `AddedIsFoundHolds` | `ShortKeys` |
| `SizeIsPowerOf2` | `zero_buckets` | `SizeIsPowerOf2Holds` | `NeverRoundedAway`: no size but 0 rounds to 0 |
| `NeverAborts` | `slow_reader` | `NeverAbortsHolds` | `Undisturbed`: writes and accepts succeed at once |
| `EveryCommandExecuted` | `two_commands` | `EveryCommandExecutedHolds` | the script has one command, and `~MallocMayFail` |

### Only model-checked

* `EventuallyFreed` and `EveryoneLetGo`: liveness under fairness.
* `OnlyCompleteCommands` of scripts without a command: there the rest decides, and it is
  any characters. What of them would be a command is not defined, beyond `Numberless`.
* `hash` in `Strings` is a fold; the proofs use only that it is a function.

## Not modelled

`table_destroy` and `registry_destroy` (they follow `uv_run`, which does not return
while the listening socket is open); the steps of `main` that bind the socket and listen
(lines 375-419), which end the program or lead to `uv_run`; a connection that libuv
reports with an error (`server.c:320`), which changes nothing; logging; the string
functions without a caller (`tokenize_string`, `strscpy`, `ustrcmp`, `stosizet`,
`long_to_int`, `int_to_ul`), nor `free_execute_result` and `on_close_after_failure`; the
conversions of sizes, which cannot fail for what the server gives them (an argument
count is at most 1024, a length at most 8192); the blocks of replies and of requests to
write, which `on_write_complete` frees with each other; what a wild lock, or a store
past a block, overwrites; failures of `pthread_rwlock` on real locks (none can occur
with one thread); what the client script makes of the answer.

## What could follow

`Commands` as a store of its own: its replies, and not only the results of the calls, as
answers of `KVStore` under the hypotheses of `KVStoreHolds`. What each reply tells of the
table is proved (`CommandsProofs`), so this would be a restatement at one level up.
