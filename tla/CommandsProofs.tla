--------------------------- MODULE CommandsProofs ---------------------------
(***************************************************************************)
(* What the replies of module Commands promise, for every value of the     *)
(* constants: proved from the inductive invariant of the table, since a    *)
(* request is one call of the table, or none.                              *)
(***************************************************************************)
EXTENDS Commands, StoreProofs

-----------------------------------------------------------------------------
(***************************************************************************)
(* What each kind of answer tells.                                         *)
(***************************************************************************)

\* The code and the body of an answer that CommandsTypeOK allows.
Wellformed(a) ==
  /\ a.code \in {200, 400, 404, 409, 500}
  /\ a.body.value \in Values \cup {Null} /\ a.body.num \in Nat /\ a.body.of \in Nat

\* create_error_response: an error code and its message, or nothing.
LEMMA ErrorTells ==
  ASSUME NEW code \in {400, 404, 409, 500}, NEW message, NEW a \in ErrorAnswers(code, message)
  PROVE  Wellformed(a) /\ a.code # 200 /\ a.body.text \in {message, "empty"}
BY DEF ErrorAnswers, WhenMemoryFails, Answer, Text, Wellformed

\* A copied body comes with code 200, or with an error that says so.
LEMMA BodyTells ==
  ASSUME NEW body, NEW a \in BodyAnswers(body)
  PROVE  \/ a.code = 200 /\ a.body = body
         \/ Wellformed(a) /\ a.code # 200 /\ a.body.text \in {"TCP_MEMORY_ERROR", "empty"}
<1>1. CASE a = Answer(200, body)
  BY <1>1 DEF Answer
<1>2. CASE a \in ErrorAnswers(500, "TCP_MEMORY_ERROR")
  BY <1>2, ErrorTells
<1> QED
  BY <1>1, <1>2 DEF BodyAnswers, WhenMemoryFails

\* "OK", or two uninitialised characters, of a call that returned 0; an error otherwise.
LEMMA StatusTells ==
  ASSUME NEW name, NEW rc, NEW a \in StatusAnswers(name, rc)
  PROVE  /\ Wellformed(a)
         /\ rc = 0 => a.code = 200 /\ a.body.text \in {"OK", "uninitialised"}
         /\ rc # 0 => /\ a.code # 200
                      /\ a.body.text \in {"TCP_INTERNAL_ERROR", "TCP_OPERATION_FAILED", "empty"}
<1>1. CASE rc = 0
  BY <1>1 DEF StatusAnswers, SuccessAnswers, WhenMemoryFails, Answer, Text, Wellformed
<1>2. CASE rc # 0
  BY <1>2, ErrorTells DEF StatusAnswers
<1> QED
  BY <1>1, <1>2

\* GET: the value that was returned, or an error.
LEMMA ValueTells ==
  ASSUME NEW val \in Values \cup {Null}, NEW a \in ValueAnswers(val)
  PROVE  /\ Wellformed(a)
         /\ a.body.text \in {"value", "TCP_KEY_NOT_FOUND", "TCP_MEMORY_ERROR", "empty"}
         /\ a.body.text = "value" => val # Null /\ a.body.value = val
         /\ a.body.text = "TCP_KEY_NOT_FOUND" => val = Null
<1>1. CASE val = Null
  BY <1>1, ErrorTells DEF ValueAnswers
<1>2. CASE val # Null
  <2>1. a \in BodyAnswers(Value(val))
    BY <1>2 DEF ValueAnswers
  <2>2. Value(val) = [text |-> "value", value |-> val, num |-> 0, of |-> 1]
    BY DEF Value, Text
  <2> QED
    BY <1>2, <2>1, <2>2, BodyTells DEF Wellformed
<1> QED
  BY <1>1, <1>2

\* EXIST: "1" of a call that returned 1 only.
LEMMA ExistTells ==
  ASSUME NEW rc, NEW a \in ExistAnswers(rc)
  PROVE  /\ Wellformed(a) /\ a.body.text \in {"1", "0", "TCP_MEMORY_ERROR", "empty"}
         /\ a.body.text = "1" => rc = 1
BY BodyTells DEF ExistAnswers, Text, Wellformed

\* A printed number is the number.
LEMMA PrintedIs ==
  ASSUME NEW format, NEW num, NEW of
  PROVE  Printed(format, num, of) = [text |-> format, value |-> Null, num |-> num, of |-> of]
<1> DEFINE r == [text |-> format, value |-> Null, num |-> 0, of |-> 1]
<1>1. Printed(format, num, of) = [r EXCEPT !.num = num, !.of = of]
  BY Zenon DEF Printed, Text
<1>2. [r EXCEPT !.num = num, !.of = of] = [[r EXCEPT !.num = num] EXCEPT !.of = of]
  OBVIOUS
<1>3. [r EXCEPT !.num = num] = [text |-> format, value |-> Null, num |-> num, of |-> 1]
  OBVIOUS
<1>4. [[text |-> format, value |-> Null, num |-> num, of |-> 1] EXCEPT !.of = of]
        = [text |-> format, value |-> Null, num |-> num, of |-> of]
  OBVIOUS
<1> HIDE DEF r
<1> QED
  BY <1>1, <1>2, <1>3, <1>4

\* LOADFACTOR and COUNT: the number that was returned, or an error.
LEMMA NumberTells ==
  ASSUME NEW format \in {"zu", "4f", "bits"}, NEW num \in Nat, NEW of \in Nat,
         NEW a \in BodyAnswers(Printed(format, num, of))
  PROVE  /\ Wellformed(a) /\ a.body.text \in {format, "TCP_MEMORY_ERROR", "empty"}
         /\ a.body.text = format => a.body.num = num
BY PrintedIs, BodyTells DEF Wellformed

-----------------------------------------------------------------------------
(***************************************************************************)
(* What a reply tells about the call behind it.                            *)
(***************************************************************************)

\* A request and its reply: the table and the blocks that are given up.
Told(blocks) ==
  /\ reply'.name \in Names /\ reply'.key \in Keys \cup {Null}
  /\ Wellformed(reply')
  /\ reply'.code # 200 => UNCHANGED table
  /\ reply'.body.text = "value" =>
       UNCHANGED table /\ reply'.key \in Keys /\ reply'.body.value = Stored[reply'.key]
  /\ reply'.body.text = "1" =>
       UNCHANGED table /\ reply'.key \in Keys /\ Stored[reply'.key] # Null
  /\ reply'.body.text = "TCP_KEY_NOT_FOUND" =>
       /\ UNCHANGED table /\ reply'.key \in Keys
       /\ SteadyMalloc /\ LocksCover => Stored[reply'.key] = Null
  /\ reply'.body.text \in {"zu", "4f"} /\ ret'.op \in {"total_elem", "load_factor"} =>
       UNCHANGED table /\ reply'.body.num = elem_count
  /\ owned' \subseteq owned \cup blocks /\ leaked' \subseteq leaked \cup blocks
  /\ leaked' \cap owned' \subseteq leaked \cap owned

\* What "OK" promises.
Promised == reply'.body.text = "OK" => Done(reply'.name, reply'.key)

\* A request that is turned away tells nothing of the table and leaves it alone.
LEMMA RejectTold ==
  ASSUME NEW blocks, NEW name \in Names, NEW code \in {400, 404, 409, 500},
         NEW message \in {"CommandNotFound", "IncorrectArity", "InvalidArgument",
                          "TCP_INTERNAL_ERROR", "InvalidDispatch"},
         Reject(name, code, message)
  PROVE  Told(blocks) /\ Promised
<1>1. /\ UNCHANGED table /\ leaked' = leaked /\ owned' = owned
      /\ reply'.name = name /\ reply'.key = Null
  BY DEF Reject, Replies, vars, table
<1>2. /\ Wellformed(reply') /\ reply'.code # 200 /\ reply'.body.text \in {message, "empty"}
  BY ErrorTells DEF Reject, Replies, Wellformed
<1> QED
  BY <1>1, <1>2 DEF Told, Promised

\* A new value for one key is what SET, ADD and REPLACE promise.
LEMMA NewValueIsDone ==
  ASSUME NEW k \in Keys, NEW v \in Values \ owned, Stored' = [Stored EXCEPT ![k] = v],
         NEW name \in {"SET", "ADD", "REPLACE"},
         name = "ADD" => Stored[k] = Null, name = "REPLACE" => Stored[k] # Null
  PROVE  Done(name, k)
<1>1. DOMAIN Stored = Keys
  BY DEF Stored
<1>2. Fresh(k)
  BY <1>1, ConstantsAssumption DEF Fresh
<1>3. OthersKept(k)
  BY <1>1 DEF OthersKept
<1> QED
  BY <1>2, <1>3 DEF Done

\* A call that stores a value: refused and harmless, or one of two changes.
LEMMA StoreEffects ==
  ASSUME NEW k \in Keys, NEW v, NEW name,
         \/ name = "SET" /\ table_set(k, v)
         \/ name = "ADD" /\ table_add(k, v)
         \/ name = "REPLACE" /\ table_replace(k, v)
  PROVE  \/ ret'.rc # 0 /\ UNCHANGED table
         \/ /\ ret'.rc = 0 /\ name # "REPLACE"
            /\ LockGranted(k) /\ SlotsOf(k) = {}
            /\ \E op \in {"set", "add"} : Insert(op, k, v)
         \/ /\ ret'.rc = 0 /\ name # "ADD"
            /\ LockGranted(k) /\ SlotsOf(k) # {}
            /\ \E op \in {"set", "replace"} : Overwrite(op, k, v)
<1>1. CASE \/ \E op \in {"set", "add", "replace"}, rc \in {-1, -2, -3} : ReturnsOnly(op, k, rc)
  BY <1>1 DEF ReturnsOnly, Returns
<1>2. \A op : Insert(op, k, v) => ret'.rc = 0
  BY DEF Insert, Returns
<1>3. \A op : Overwrite(op, k, v) => ret'.rc = 0
  BY DEF Overwrite, Returns
<1> QED
  BY <1>1, <1>2, <1>3 DEF table_set, table_add, table_replace

\* SET, ADD and REPLACE: the block goes to the table with "OK" and to nobody otherwise.
LEMMA StoreTold ==
  ASSUME IInv, NEW blocks \in SUBSET (Values \ (owned \cup leaked)),
         NEW k \in Keys, NEW v \in blocks, NEW name \in {"SET", "ADD", "REPLACE"},
         Store(name, k, v)
  PROVE  Told(blocks) /\ (ShortKeys => Promised)
<1>1. \/ name = "SET" /\ table_set(k, v)
      \/ name = "ADD" /\ table_add(k, v)
      \/ name = "REPLACE" /\ table_replace(k, v)
  BY DEF Store
<1>2. /\ reply'.name = name /\ reply'.key = k /\ Wellformed(reply')
      /\ ret'.rc = 0 => reply'.code = 200 /\ reply'.body.text \in {"OK", "uninitialised"}
      /\ ret'.rc # 0 =>
           /\ reply'.code # 200
           /\ reply'.body.text \in {"TCP_INTERNAL_ERROR", "TCP_OPERATION_FAILED", "empty"}
  BY StatusTells DEF Store, Replies, Wellformed
<1>3. name \in Names
  BY DEF Names, command_table
<1>4. (ret'.rc = 0 /\ leaked' = leaked) \/ (ret'.rc # 0 /\ leaked' = leaked \cup {v})
  BY DEF Store, KeptOrLeaked
<1>5. CASE ret'.rc # 0 /\ UNCHANGED table
  BY <1>5, <1>2, <1>3, <1>4 DEF Told, Promised, table
<1>6. ASSUME ret'.rc = 0, name # "REPLACE", LockGranted(k), SlotsOf(k) = {},
             NEW op \in {"set", "add"}, Insert(op, k, v)
      PROVE  Told(blocks) /\ (ShortKeys => Promised)
  <2>1. owned' = owned \cup {v} /\ leaked' = leaked
    BY <1>6, <1>4 DEF Insert
  <2>2. ShortKeys => Done(name, k)
    BY <1>6, InsertStores, NewValueIsDone
  <2> QED
    BY <1>2, <1>3, <1>6, <2>1, <2>2 DEF Told, Promised
<1>7. ASSUME ret'.rc = 0, name # "ADD", LockGranted(k), SlotsOf(k) # {},
             NEW op \in {"set", "replace"}, Overwrite(op, k, v)
      PROVE  Told(blocks) /\ (ShortKeys => Promised)
  <2>1. owned' \subseteq owned \cup {v} /\ leaked' = leaked
    BY <1>7, <1>4 DEF Overwrite
  <2>2. ShortKeys => Done(name, k)
    BY <1>7, OverwriteStores, NewValueIsDone
  <2> QED
    BY <1>2, <1>3, <1>7, <2>1, <2>2 DEF Told, Promised
<1> QED
  BY <1>1, <1>5, <1>6, <1>7, StoreEffects

\* A call that reads a key changes nothing, and its result is of the key.
LEMMA ReadTells ==
  ASSUME IInv, NEW k \in Keys, table_get(k) \/ table_exist(k)
  PROVE  /\ UNCHANGED table
         /\ table_get(k) => ret'.val = Null \/ ret'.val = Stored[k]
         /\ table_get(k) /\ SteadyMalloc /\ LocksCover => ret'.val = Stored[k]
         /\ table_exist(k) /\ ret'.rc = 1 => Stored[k] # Null
         /\ Stored[k] \in Values \cup {Null}
<1>1. UNCHANGED table
  BY DEF table_get, table_exist, ReturnsValue, ReturnsOnly
<1>2. LockGranted(k) /\ SlotsOf(k) # {} => /\ Findable(k)
                                          /\ Stored[k] = Bucket(k)[Min(SlotsOf(k))].value
  BY FoundSlot DEF Findable, Stored, IInv, TypeOK
<1>3. table_get(k) => ret'.val = Null \/ ret'.val = Stored[k]
  BY <1>2 DEF table_get, ReturnsValue
<1>4. Findable(k) => Stored[k] # Null /\ Stored[k] \in Values
  BY FoundIsEntry, ValueIsBlock DEF IInv, Entry
<1>5. table_exist(k) /\ ret'.rc = 1 => Stored[k] # Null
  BY <1>2, <1>4 DEF table_exist, ReturnsOnly, Returns
<1>6. ~Findable(k) => Stored[k] = Null
  BY DEF Stored
<1>7. table_get(k) /\ SteadyMalloc /\ LocksCover => ret'.val = Stored[k]
  BY GetReads DEF ReturnsValue
<1> QED
  BY <1>1, <1>3, <1>4, <1>5, <1>6, <1>7

\* GET and EXIST: what they find is there.  The copy of GET is given up.
LEMMA ReadTold ==
  ASSUME IInv, NEW blocks \in SUBSET (Values \ (owned \cup leaked)), NEW k \in Keys,
         cmd_get(k, blocks) \/ (cmd_exist(k) /\ UNCHANGED leaked)
  PROVE  Told(blocks) /\ Promised
<1>1. CASE cmd_get(k, blocks)
  <2>1. /\ UNCHANGED table /\ ret'.val \in {Null, Stored[k]}
        /\ ret'.val \in Values \cup {Null}
        /\ SteadyMalloc /\ LocksCover => ret'.val = Stored[k]
    BY <1>1, ReadTells DEF cmd_get
  <2>2. /\ reply'.name = "GET" /\ reply'.key = k /\ Wellformed(reply')
        /\ reply'.body.text \in {"value", "TCP_KEY_NOT_FOUND", "TCP_MEMORY_ERROR", "empty"}
        /\ reply'.body.text = "value" => ret'.val # Null /\ reply'.body.value = ret'.val
        /\ reply'.body.text = "TCP_KEY_NOT_FOUND" => ret'.val = Null
    BY <1>1, <2>1, ValueTells DEF cmd_get, Replies, Wellformed
  <2>3. leaked' = leaked \/ \E copy \in blocks : leaked' = leaked \cup {copy}
    BY <1>1 DEF cmd_get
  <2>4. owned' = owned
    BY <2>1 DEF table
  <2> QED
    BY <2>1, <2>2, <2>3, <2>4 DEF Told, Promised, Names, command_table
<1>2. CASE cmd_exist(k) /\ UNCHANGED leaked
  <2>1. UNCHANGED table /\ (ret'.rc = 1 => Stored[k] # Null)
    BY <1>2, ReadTells DEF cmd_exist
  <2>2. /\ reply'.name = "EXIST" /\ reply'.key = k /\ Wellformed(reply')
        /\ reply'.body.text \in {"1", "0", "TCP_MEMORY_ERROR", "empty"}
        /\ reply'.body.text = "1" => ret'.rc = 1
    BY <1>2, ExistTells DEF cmd_exist, Replies, Wellformed
  <2> QED
    BY <1>2, <2>1, <2>2 DEF Told, Promised, Names, command_table, table
<1> QED
  BY <1>1, <1>2

\* DEL, CLEAR and RESIZE answer with the status of their call.
LEMMA StatusTold ==
  ASSUME NEW blocks, NEW name \in {"DEL", "CLEAR", "RESIZE"}, NEW k \in Keys \cup {Null},
         Replies(name, k, StatusAnswers(name, ret'.rc)), UNCHANGED leaked,
         owned' \subseteq owned,
         ret'.rc # 0 => UNCHANGED table,
         ret'.rc = 0 /\ ShortKeys => Done(name, k)
  PROVE  Told(blocks) /\ (ShortKeys => Promised)
<1>1. /\ reply'.name = name /\ reply'.key = k /\ Wellformed(reply')
      /\ ret'.rc = 0 => reply'.code = 200 /\ reply'.body.text \in {"OK", "uninitialised"}
      /\ ret'.rc # 0 =>
           /\ reply'.code # 200
           /\ reply'.body.text \in {"TCP_INTERNAL_ERROR", "TCP_OPERATION_FAILED", "empty"}
  BY StatusTells DEF Replies, Wellformed
<1>2. name \in Names
  BY DEF Names, command_table
<1>3. CASE ret'.rc = 0
  BY <1>1, <1>2, <1>3 DEF Told, Promised
<1>4. CASE ret'.rc # 0
  BY <1>1, <1>2, <1>4 DEF Told, Promised
<1> QED
  BY <1>3, <1>4

\* DEL, CLEAR and RESIZE.
LEMMA RemovalTold ==
  ASSUME IInv, NEW blocks, UNCHANGED leaked,
         \/ \E k \in Keys : cmd_del(k)
         \/ cmd_clear
         \/ \E n \in ResizeSizes : cmd_resize(n)
  PROVE  Told(blocks) /\ (ShortKeys => Promised)
<1>1. ASSUME NEW k \in Keys, cmd_del(k)
      PROVE  Told(blocks) /\ (ShortKeys => Promised)
  <2>1. \/ ret'.rc # 0 /\ UNCHANGED table
        \/ ret'.rc = 0 /\ LockGranted(k) /\ SlotsOf(k) # {} /\ Vacate(k)
    BY <1>1 DEF cmd_del, table_delete, Vacate, ReturnsOnly, Returns
  <2>2. owned' \subseteq owned
    BY <2>1 DEF Vacate, table
  <2>3. ASSUME ret'.rc = 0, ShortKeys PROVE Done("DEL", k)
    <3>1. Stored[k] # Null /\ Stored' = [Stored EXCEPT ![k] = Null] /\ DOMAIN Stored = Keys
      BY <2>1, <2>3, VacateForgets DEF Stored
    <3> QED
      BY <3>1 DEF Done, OthersKept
  <2> QED
    BY <1>1, <2>1, <2>2, <2>3, StatusTold DEF cmd_del
<1>2. CASE cmd_clear
  <2>1. ret'.rc = 0 /\ owned' \subseteq owned
    BY <1>2 DEF cmd_clear, table_clear, Returns
  <2>2. ASSUME ShortKeys PROVE Done("CLEAR", Null)
    BY <1>2, <2>2, ClearForgets DEF Done, cmd_clear
  <2> QED
    BY <1>2, <2>1, <2>2, StatusTold DEF cmd_clear
<1>3. ASSUME NEW n \in ResizeSizes, cmd_resize(n)
      PROVE  Told(blocks) /\ (ShortKeys => Promised)
  <2>1. owned' = owned /\ (ret'.rc # 0 => UNCHANGED table)
    BY <1>3 DEF cmd_resize, table_resize, FatalRehash, Install, ReturnsOnly, Returns, table
  <2>2. ASSUME ShortKeys PROVE Done("RESIZE", Null)
    BY <1>3, <2>2, ResizeKeeps DEF Done, cmd_resize
  <2> QED
    BY <1>3, <2>1, <2>2, StatusTold DEF cmd_resize
<1> QED
  BY <1>1, <1>2, <1>3

\* A counter changes nothing, and two of them tell elem_count.
LEMMA CounterTells ==
  ASSUME IInv,
         \/ table_total_elem \/ table_capacity \/ table_load_factor
         \/ table_occupied_bucket_counter \/ table_memory_usage
  PROVE  /\ UNCHANGED table /\ ret'.rc \in Nat /\ ret'.of \in Nat
         /\ ret'.op \in {"total_elem", "load_factor"} => ret'.rc = elem_count
<1>1. /\ elem_count \in Nat /\ buckets_count \in Nat /\ SIZE_MAX \in Nat
      /\ buckets_count * BUCKET_CAPACITY \in Nat /\ IsFiniteSet(Occupied)
  BY ConstantsAssumption, OccupiedFinite DEF IInv, TypeOK, Word
<1>2. buckets_count = 0 => elem_count = 0
  <2>1. buckets_count = 0 => Occupied = {}
    BY DEF Occupied, Positions
  <2> QED
    BY <2>1, FS_EmptySet DEF IInv, CountExact
<1>3. CASE table_total_elem \/ table_capacity \/ table_load_factor
  BY <1>1, <1>2, <1>3 DEF table_total_elem, table_capacity, table_load_factor, ReturnsRatio
<1>4. CASE table_memory_usage
  BY <1>1, <1>4, FS_CardinalityType DEF table_memory_usage, ReturnsRatio
<1>5. CASE table_occupied_bucket_counter
  <2>1. \A skipped : Cardinality({p[1] : p \in Occupied} \ skipped) \in Nat
    BY BucketsAreCounted DEF IInv
  <2>2. PICK rc, of \in Nat : rc \in Nat /\ ReturnsRatio("occupied_bucket", rc, of)
    <3>1. CASE buckets_count = 0
      BY <1>5, <3>1 DEF table_occupied_bucket_counter
    <3>2. CASE buckets_count # 0
      BY <1>1, <1>5, <2>1, <3>2, Zenon DEF table_occupied_bucket_counter
    <3> QED
      BY <3>1, <3>2
  <2> QED
    BY <2>2 DEF ReturnsRatio
<1> QED
  BY <1>3, <1>4, <1>5

\* LOADFACTOR and COUNT.
LEMMA CounterTold ==
  ASSUME IInv, NEW blocks, UNCHANGED leaked, cmd_load_factor \/ cmd_count
  PROVE  Told(blocks) /\ Promised
<1>1. /\ UNCHANGED table /\ ret'.rc \in Nat /\ ret'.of \in Nat
      /\ ret'.op \in {"total_elem", "load_factor"} => ret'.rc = elem_count
  BY CounterTells DEF cmd_load_factor, cmd_count
<1>2. PICK format \in {"zu", "4f", "bits"}, name \in {"LOADFACTOR", "COUNT"} :
        Replies(name, Null, BodyAnswers(Printed(format, ret'.rc, ret'.of)))
  BY DEF cmd_load_factor, cmd_count, CountAnswers
<1>3. /\ Wellformed(reply') /\ reply'.body.text \in {format, "TCP_MEMORY_ERROR", "empty"}
      /\ reply'.body.text = format => reply'.body.num = ret'.rc
  BY <1>1, <1>2, NumberTells DEF Replies, Wellformed
<1>4. reply'.name = name /\ reply'.key = Null /\ name \in Names
  BY <1>2 DEF Replies, Names, command_table
<1>5. owned' = owned
  BY <1>1 DEF table
<1> QED
  BY <1>1, <1>3, <1>4, <1>5 DEF Told, Promised

\* Every request of execute_command.
LEMMA RequestTold ==
  ASSUME IInv, NEW blocks \in SUBSET (Values \ (owned \cup leaked)), execute_command(blocks)
  PROVE  Told(blocks) /\ (ShortKeys => Promised)
<1>1. CASE \/ NotACommand \/ ResizeToZero
           \/ \E name \in DOMAIN command_table :
                \/ \E argc \in 0 .. MaxArgc : WrongArity(name, argc)
                \/ BuildFails(name)
  <2>1. PICK name \in Names, code \in {400, 404, 409, 500},
             message \in {"CommandNotFound", "IncorrectArity", "InvalidArgument",
                          "TCP_INTERNAL_ERROR", "InvalidDispatch"} : Reject(name, code, message)
    BY <1>1 DEF NotACommand, ResizeToZero, WrongArity, BuildFails, Names, command_table
  <2> QED
    BY <2>1, RejectTold
<1>2. ASSUME NEW k \in Keys, NEW v \in blocks,
             cmd_set(k, v) \/ cmd_add(k, v) \/ cmd_replace(k, v)
      PROVE  Told(blocks) /\ (ShortKeys => Promised)
  BY <1>2, StoreTold DEF cmd_set, cmd_add, cmd_replace
<1>3. ASSUME NEW k \in Keys, cmd_get(k, blocks) \/ (cmd_exist(k) /\ UNCHANGED leaked)
      PROVE  Told(blocks) /\ Promised
  BY <1>3, ReadTold
<1>4. CASE /\ \/ \E k \in Keys : cmd_del(k)
              \/ cmd_clear
              \/ \E n \in ResizeSizes : cmd_resize(n)
           /\ UNCHANGED leaked
  BY <1>4, RemovalTold
<1>5. CASE (cmd_load_factor \/ cmd_count) /\ UNCHANGED leaked
  BY <1>5, CounterTold
<1> QED
  BY <1>1, <1>2, <1>3, <1>4, <1>5 DEF execute_command

-----------------------------------------------------------------------------
(***************************************************************************)
(* The theorems.                                                           *)
(***************************************************************************)

\* A request is one call of the table, or none.
LEMMA RequestIsCall ==
  ASSUME NEW blocks \in SUBSET (Values \ owned), execute_command(blocks)
  PROVE  [Next]_vars
<1>1. ASSUME NEW k \in Keys, NEW v \in blocks,
             cmd_set(k, v) \/ cmd_add(k, v) \/ cmd_replace(k, v)
      PROVE  Next
  <2>1. table_set(k, v) \/ table_add(k, v) \/ table_replace(k, v)
    BY <1>1 DEF cmd_set, cmd_add, cmd_replace, Store
  <2> QED
    BY <2>1 DEF Next
<1>2. ASSUME NEW k \in Keys, cmd_get(k, blocks) \/ cmd_del(k) \/ cmd_exist(k)
      PROVE  Next
  BY <1>2 DEF Next, cmd_get, cmd_del, cmd_exist
<1>3. CASE \/ cmd_clear \/ cmd_load_factor \/ cmd_count
           \/ \E n \in ResizeSizes : cmd_resize(n)
  BY <1>3 DEF Next, cmd_clear, cmd_load_factor, cmd_count, cmd_resize
<1>4. CASE \/ NotACommand \/ ResizeToZero
           \/ \E name \in DOMAIN command_table :
                \/ \E argc \in 0 .. MaxArgc : WrongArity(name, argc)
                \/ BuildFails(name)
  BY <1>4 DEF NotACommand, ResizeToZero, WrongArity, BuildFails, Reject
<1> QED
  BY <1>1, <1>2, <1>3, <1>4 DEF execute_command

\* The command layer does nothing to the table but call it, with a fresh block for each
\* value: what holds of the table in every order of calls holds behind the commands.
THEOREM CommandsUseTheTable == CommandsSpec => Spec
<1>1. [CommandsNext]_cvars => [Next]_vars
  BY RequestIsCall DEF CommandsNext, Next, cvars
<1> QED
  BY <1>1, PTL DEF CommandsSpec, CommandsInit, Spec

\* So does the table's inductive invariant.
THEOREM CommandsInvariant == CommandsSpec => []IInv
BY CommandsUseTheTable, Invariant, PTL

\* A step of the command layer is a request, the end of the process, or none.
LEMMA StepTold ==
  ASSUME IInv, [CommandsNext]_cvars
  PROVE  \/ Told(Values \ (owned \cup leaked)) /\ (ShortKeys => Promised)
         \/ UNCHANGED <<table, ret, reply, leaked>> /\ status' = "down"
         \/ UNCHANGED cvars
BY RequestTold DEF CommandsNext, WildAccess

\* Every reply has a code of execute_command and a number that is not negative.
THEOREM CommandsTypeCorrect == CommandsSpec => []CommandsTypeOK
<1>1. CommandsInit => CommandsTypeOK
  BY DEF CommandsInit, CommandsTypeOK, Text, Names
<1>2. ASSUME CommandsTypeOK, IInv, [CommandsNext]_cvars PROVE CommandsTypeOK'
  <2>1. CASE UNCHANGED <<reply, leaked>>
    BY <1>2, <2>1 DEF CommandsTypeOK
  <2>2. CASE Told(Values \ (owned \cup leaked))
    BY <1>2, <2>2 DEF CommandsTypeOK, Told, Wellformed
  <2> QED
    BY <1>2, <2>1, <2>2, StepTold DEF cvars
<1> QED
  BY <1>1, <1>2, CommandsInvariant, PTL DEF CommandsSpec

\* FoundIsThere holds after each request, and as long as none changes the table.
LEMMA FoundStaysThere ==
  ASSUME FoundIsThere, UNCHANGED <<table, reply>> \/ \E blocks : Told(blocks)
  PROVE  FoundIsThere'
<1>1. CASE UNCHANGED <<table, reply>>
  BY <1>1, SameTableSameStore DEF FoundIsThere
<1>2. CASE \E blocks : Told(blocks)
  BY <1>2, SameTableSameStore DEF FoundIsThere, Told
<1> QED
  BY <1>1, <1>2

\* What GET and EXIST find is there (src/src/command.c:556, 581), with any keys, failing
\* memory and a table that has outgrown its locks.
THEOREM FoundIsThereHolds == CommandsSpec => []FoundIsThere
<1>1. CommandsInit => FoundIsThere
  BY DEF CommandsInit, FoundIsThere, Text
<1>2. ASSUME FoundIsThere, IInv, [CommandsNext]_cvars PROVE FoundIsThere'
  BY <1>2, StepTold, FoundStaysThere DEF cvars, vars
<1> QED
  BY <1>1, <1>2, CommandsInvariant, PTL DEF CommandsSpec

\* A command that answers with an error has changed nothing (src/src/command.c:507-522),
\* likewise under all circumstances.
THEOREM ErrorMeansUndoneHolds == CommandsSpec => ErrorMeansUndone
<1>1. ASSUME IInv, [CommandsNext]_cvars
      PROVE  [reply'.code # 200 /\ status' = "up" => UNCHANGED table]_cvars
  BY <1>1, StepTold DEF Told
<1> QED
  BY <1>1, CommandsInvariant, PTL DEF CommandsSpec, ErrorMeansUndone

\* "OK" is said of a command that has done its work and nothing else
\* (src/src/command.c:565-579).  With long keys it is not so: ADD says "OK" of a long key
\* that cannot be found (src/src/hashtable.c:452).
THEOREM OkMeansDoneHolds ==
  ASSUME ShortKeys
  PROVE  CommandsSpec => OkMeansDone
<1>1. ASSUME IInv, [CommandsNext]_cvars
      PROVE  [reply'.body.text = "OK" /\ status' = "up" => Done(reply'.name, reply'.key)]_cvars
  BY <1>1, StepTold DEF Promised
<1> QED
  BY <1>1, CommandsInvariant, PTL DEF CommandsSpec, OkMeansDone

\* A step that tells what it should of the counts, or changes nothing they depend on,
\* keeps CountsTellTheStore.
LEMMA CountsStayTrue ==
  ASSUME ShortKeys, IInv, KeysFiled, CountsTellTheStore, [Next]_vars,
         (\E blocks : Told(blocks)) \/ UNCHANGED <<table, ret, reply>>
  PROVE  KeysFiled' /\ CountsTellTheStore'
<1>1. KeysFiled'
  BY KeysFiledKept
<1> DEFINE found == Cardinality({k \in Keys : Stored[k] # Null})
<1>2. UNCHANGED table => found' = found
  BY SameTableSameStore
<1>3. found = elem_count
  BY FoundAreCounted
<1>4. CountsTellTheStore <=>
        (reply.body.text \in {"zu", "4f"} /\ ret.op \in {"total_elem", "load_factor"}
           => reply.body.num = found)
  BY DEF CountsTellTheStore
<1>5. CountsTellTheStore' <=>
        (reply'.body.text \in {"zu", "4f"} /\ ret'.op \in {"total_elem", "load_factor"}
           => reply'.body.num = found')
  BY DEF CountsTellTheStore
<1> HIDE DEF found
<1>6. ASSUME UNCHANGED <<table, ret, reply>> PROVE CountsTellTheStore'
  BY <1>2, <1>4, <1>5, <1>6
<1>7. ASSUME NEW blocks, Told(blocks) PROVE CountsTellTheStore'
  BY <1>2, <1>3, <1>5, <1>7 DEF Told
<1> QED
  BY <1>1, <1>6, <1>7

\* A table that was just created has no entry, and no counts were told of it.
LEMMA CountsInitially == CommandsInit => KeysFiled /\ CountsTellTheStore
<1>1. CommandsInit => KeysFiled
  BY InitSInv DEF CommandsInit, SInv
<1> QED
  BY <1>1 DEF CommandsInit, CountsTellTheStore, Text

\* The counts of LOADFACTOR and COUNT TOTAL_ELEM are of the keys that can be found
\* (src/src/command.c:603, 628), when no long key was added.
THEOREM CountsTellTheStoreHolds ==
  ASSUME ShortKeys
  PROVE  CommandsSpec => []CountsTellTheStore
<1>1. ASSUME IInv, KeysFiled /\ CountsTellTheStore, [CommandsNext]_cvars
      PROVE  (KeysFiled /\ CountsTellTheStore)'
  <2>1. [Next]_vars
    BY <1>1, RequestIsCall DEF CommandsNext, Next, cvars
  <2>2. (\E blocks : Told(blocks)) \/ UNCHANGED <<table, ret, reply>>
    BY <1>1, StepTold DEF cvars, vars
  <2> QED
    BY <1>1, <2>1, <2>2, CountsStayTrue
<1> QED
  BY <1>1, CountsInitially, CommandsInvariant, PTL DEF CommandsSpec

\* "Key not found" (src/src/command.c:644) is true, of keys of any length, when the table
\* never outgrows its locks and the copies have memory.
THEOREM NotFoundIsNotThereHolds ==
  ASSUME SteadyMalloc, NeverOutgrown
  PROVE  CommandsSpec => []NotFoundIsNotThere
<1>1. CommandsInit => NotFoundIsNotThere
  BY DEF CommandsInit, NotFoundIsNotThere, Text
<1>2. ASSUME IInv, LocksCover, NotFoundIsNotThere, [CommandsNext]_cvars
      PROVE  NotFoundIsNotThere'
  <2>1. CASE UNCHANGED <<table, reply>>
    BY <1>2, <2>1, SameTableSameStore DEF NotFoundIsNotThere
  <2>2. ASSUME NEW blocks, Told(blocks) PROVE NotFoundIsNotThere'
    BY <1>2, <2>2, SameTableSameStore DEF Told, NotFoundIsNotThere
  <2> QED
    BY <1>2, <2>1, <2>2, StepTold DEF cvars, vars
<1>3. CommandsSpec => []LocksCover
  BY CommandsUseTheTable, LocksCoverHolds, PTL
<1> QED
  BY <1>1, <1>2, <1>3, CommandsInvariant, PTL DEF CommandsSpec
=============================================================================
