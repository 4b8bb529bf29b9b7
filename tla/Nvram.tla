------------------------------- MODULE Nvram -------------------------------
(***************************************************************************)
(* The name/value store of libezcfg (src/common/nvram.c): an array of      *)
(* nodes searched by bisection, changed by set/unset and read by get/match *)
(* while the caller holds nvram_mutex.                                     *)
(*                                                                         *)
(* The array holds pointers to strdup()ed strings, so the model keeps a    *)
(* small heap: mem is what each allocated string holds, size how long the  *)
(* block is, freed the blocks given back.  A C function that reads, writes or frees a freed block, or *)
(* follows a NULL name, has no defined outcome: the model sets ub and      *)
(* stops there.                                                            *)
(*                                                                         *)
(* lock_nvram_mutex() retries only when pthread_mutex_lock() is negative,  *)
(* which POSIX never returns, so taking the mutex always succeeds; a       *)
(* thread blocked on it changes nothing and is not represented.  What the  *)
(* holder does is split at the iterations of the bisection, so that the    *)
(* loop's bounds are state.                                                *)
(***************************************************************************)
EXTENDS Integers, FiniteSets, Sequences, FiniteSetsExt

CONSTANTS
  Threads,      \* threads of the process that use the store
  NoThread,     \* nvram_mutex is free
  Names,        \* entry names, ordered by < as strcmp() orders them
  Values,       \* entry values
  StrLen,       \* strlen() of each name and value
  NodeListSize, \* META NVRAM_NODE_LIST_SIZE
  MaxAlloc,     \* blocks strdup() can hand out before it returns NULL
  MaxBatch,     \* longest list given to ezcfg_common_set_nvram_entries()
  Ops           \* the operations the callers use

AllOps == {"set", "unset", "get", "match", "match_value", "batch", "del"}

ASSUME NvramAssumption ==
  /\ NoThread \notin Threads
  /\ Names \subseteq Nat
  /\ Values \subseteq Nat
  /\ StrLen \in [Names \union Values -> Nat]
  /\ NodeListSize \in Nat \ {0}
  /\ MaxAlloc \in Nat
  /\ MaxBatch \in Nat
  /\ Ops \subseteq AllOps

VARIABLES
  nvram_mutex,      \* the thread inside a critical section
  this_nvram,       \* TRUE while the store exists
  node_list, node_list_used, total_space_used,
  mem, size,        \* heap: contents and lengths of the blocks
  freed, brk, old,  \* freed blocks, blocks handed out, those a store
                    \* that was deleted left behind
  todo,             \* the entries the holder has still to treat
  phase,            \* where the holder is
  find,             \* find_nvram_entry_position(): its locals
  first,            \* nvram_match_entry(): position of name1, or -1
  ret,              \* the holder's return code
  got,              \* <<name, value>> a successful get returns
  stored,           \* history: <<name, value>> pairs successfully set
  unset_seen,       \* history: an entry has been unset
  ub                \* an undefined C operation has been executed

heapVars == <<mem, size, freed, brk, old>>
listVars == <<node_list, node_list_used, total_space_used>>
callVars == <<todo, phase, find, first, ret, got>>
history == <<stored, unset_seen>>
vars == <<nvram_mutex, this_nvram, listVars, heapVars, callVars, history, ub>>

-----------------------------------------------------------------------------
(* Heap and nodes *)

NULL == 0
Ptr == 1 .. MaxAlloc
Index == 0 .. NodeListSize - 1

(* struct nvram_node; calloc() leaves NullNode. *)
Node == [name : Ptr \union {NULL}, value : Ptr \union {NULL}, nlen : Nat, vlen : Nat]
NullNode == [name |-> NULL, value |-> NULL, nlen |-> 0, vlen |-> 0]

(* A pointer the C code may read, write or free. *)
Valid(p) == p # NULL /\ p \notin freed

(* The node a fresh strdup(name), strdup(value) pair makes. *)
NewNode(n, v) ==
  [name |-> brk + 1, value |-> brk + 2, nlen |-> StrLen[n] + 1, vlen |-> StrLen[v] + 1]

(* free() takes the contents and the length of a block with it: nothing can *)
(* be known of them afterwards.                                            *)
Cleared(f, ps) == [p \in Ptr |-> IF p \in ps THEN 0 ELSE f[p]]

InRange == 0 .. node_list_used - 1

-----------------------------------------------------------------------------
(* What the callers ask for.  An unset is an entry with a NULL value, as in *)
(* ezcfg_common_set_nvram_entries().                                        *)

SetEntry(n, v)  == [kind |-> "set", name |-> n, arg |-> v]
UnsetEntry(n)   == [kind |-> "unset", name |-> n, arg |-> NULL]
Changes == {SetEntry(n, v) : n \in Names, v \in Values} \union {UnsetEntry(n) : n \in Names}

Requests(op) ==
  CASE op = "set"         -> {<<SetEntry(n, v)>> : n \in Names, v \in Values}
    [] op = "unset"       -> {<<UnsetEntry(n)>> : n \in Names}
    [] op = "get"         -> {<<[kind |-> "get", name |-> n, arg |-> NULL]>> : n \in Names}
    [] op = "match"       -> {<<[kind |-> "match", name |-> n, arg |-> m]>> : n \in Names, m \in Names}
    [] op = "match_value" -> {<<[kind |-> "match_value", name |-> n, arg |-> v]>> : n \in Names, v \in Values}
    [] op = "batch"       -> UNION {[1 .. k -> Changes] : k \in 2 .. MaxBatch}
    [] OTHER              -> {}

NoFind == [bottom |-> 0, upper |-> 0, middle |-> 0, equal |-> FALSE]

Init ==
  /\ nvram_mutex = NoThread
  /\ this_nvram = TRUE
  /\ node_list = [i \in Index |-> NullNode]
  /\ node_list_used = 0
  /\ total_space_used = 0
  /\ mem = [p \in Ptr |-> 0]
  /\ size = [p \in Ptr |-> 0]
  /\ freed = {}
  /\ brk = 0
  /\ old = {}
  /\ todo = <<>>
  /\ phase = "unlocked"
  /\ find = NoFind
  /\ first = -1
  /\ ret = "OK"
  /\ got = <<>>
  /\ stored = {}
  /\ unset_seen = FALSE
  /\ ub = FALSE

(* A public wrapper or ezcfg_common_set_nvram_entries() takes the mutex. *)
lock_nvram_mutex(t) ==
  /\ phase = "unlocked" /\ this_nvram
  /\ \E op \in Ops : \E list \in Requests(op) : todo' = list
  /\ nvram_mutex' = t
  /\ phase' = "entry"
  /\ ret' = "OK"
  /\ UNCHANGED <<this_nvram, listVars, heapVars, find, first, got, history, ub>>

unlock_nvram_mutex ==
  /\ phase = "unlock"
  /\ nvram_mutex' = NoThread
  /\ phase' = "unlocked"
  /\ got' = <<>>
  /\ UNCHANGED <<this_nvram, listVars, heapVars, todo, find, first, ret, history, ub>>

(* The current entry is done: the next one of the list, or the unlock; the *)
(* first failure ends the list.                                            *)
EntryDone(r) ==
  /\ todo' = IF r = "OK" THEN Tail(todo) ELSE <<>>
  /\ phase' = IF r = "OK" /\ Len(todo) > 1 THEN "entry" ELSE "unlock"
  /\ ret' = r
  /\ first' = -1
  /\ find' = NoFind

(* An undefined operation: nothing is known of what follows. *)
Undefined ==
  /\ ub' = TRUE
  /\ phase' = "undefined"
  /\ UNCHANGED <<nvram_mutex, this_nvram, listVars, heapVars, todo, find, first, ret, got, history>>

-----------------------------------------------------------------------------
(* find_nvram_entry_position() *)

Key == IF first >= 0 THEN Head(todo).arg ELSE Head(todo).name

WholeInterval == [bottom |-> 0, upper |-> node_list_used,
                  middle |-> node_list_used \div 2, equal |-> FALSE]

find_start ==
  /\ phase = "entry"
  /\ ~(Head(todo).kind = "set" /\ node_list_used = 0)
  /\ find' = WholeInterval
  /\ phase' = "find"
  /\ UNCHANGED <<nvram_mutex, this_nvram, listVars, heapVars, todo, first, ret, got, history, ub>>

(* Fault: the lower half keeps its middle, which is then looked at again. *)
NarrowedSlowly(middle, name) ==
  CASE name = Key -> [find EXCEPT !.middle = middle, !.equal = TRUE]
    [] name < Key -> [find EXCEPT !.middle = middle, !.bottom = middle]
    [] name > Key -> [find EXCEPT !.middle = middle, !.upper = middle - 1]

(* Fault: a name that sorts after the key is taken for the key. *)
NarrowedByPrefix(middle, name) ==
  IF name >= Key THEN [find EXCEPT !.middle = middle, !.equal = TRUE]
                 ELSE [find EXCEPT !.middle = middle, !.bottom = middle + 1]

(* One bisection: the half-open interval [bottom, upper) is narrowed around *)
(* middle, or the entry is found there.                                     *)
Narrowed(middle, name) ==
  CASE name = Key -> [find EXCEPT !.middle = middle, !.equal = TRUE]
    [] name < Key -> [find EXCEPT !.middle = middle, !.bottom = middle + 1]
    [] name > Key -> [find EXCEPT !.middle = middle, !.upper = middle - 1]

find_iterate ==
  /\ phase = "find" /\ ~find.equal /\ find.bottom < find.upper
  /\ LET middle == (find.bottom + find.upper) \div 2
         np     == node_list[middle]
     IN  IF Valid(np.name)
         THEN /\ find' = Narrowed(middle, mem[np.name])
              /\ UNCHANGED <<nvram_mutex, this_nvram, listVars, heapVars, todo, phase, first, ret, got, history, ub>>
         ELSE Undefined

find_return ==
  /\ phase = "find" /\ (find.equal \/ find.bottom >= find.upper)
  /\ phase' = "found"
  /\ UNCHANGED <<nvram_mutex, this_nvram, listVars, heapVars, todo, find, first, ret, got, history, ub>>

(* The holder is back from the search for an entry of kind k. *)
Found(k)   == phase = "found" /\ Head(todo).kind = k /\ find.equal
Missing(k) == phase = "found" /\ Head(todo).kind = k /\ ~find.equal

-----------------------------------------------------------------------------
(* nvram_set_entry() *)

(* Fault: the new node is written without moving the one that was there. *)
Overwritten(i, new) == [node_list EXCEPT ![i] = new]

(* The nodes from position i to node_list_used - 1 move up by one and the *)
(* new node takes position i.                                             *)
Inserted(i, new) ==
  [j \in Index |-> IF j < i \/ j > node_list_used THEN node_list[j]
                   ELSE IF j = i THEN new ELSE node_list[j - 1]]

(* The two strings are duplicated and the node is put at position i. *)
PlaceNode(i, n, v) ==
  /\ brk + 2 <= MaxAlloc
  /\ node_list' = Inserted(i, NewNode(n, v))
  /\ node_list_used' = node_list_used + 1
  /\ total_space_used' = total_space_used + StrLen[n] + 1 + StrLen[v] + 1
  /\ mem' = [mem EXCEPT ![brk + 1] = n, ![brk + 2] = v]
  /\ size' = [size EXCEPT ![brk + 1] = StrLen[n] + 1, ![brk + 2] = StrLen[v] + 1]
  /\ brk' = brk + 2
  /\ stored' = stored \union {<<n, v>>}
  /\ EntryDone("OK")
  /\ UNCHANGED <<nvram_mutex, this_nvram, freed, old, got, unset_seen, ub>>

Fail ==
  /\ EntryDone("FAIL")
  /\ UNCHANGED <<nvram_mutex, this_nvram, listVars, heapVars, got, history, ub>>

set_first_entry ==
  /\ phase = "entry" /\ Head(todo).kind = "set" /\ node_list_used = 0
  /\ PlaceNode(0, Head(todo).name, Head(todo).arg)

Full == node_list_used = NodeListSize

(* Fault: the terminating NUL of the new value is forgotten. *)
FitsExactly(v, np) == StrLen[v] <= np.vlen

FitsBlock(v, np) == StrLen[v] < np.vlen

(* Fault: the length of the old value stays accounted. *)
SpaceAdded(v, np) == total_space_used + StrLen[v] + 1

SpaceReplaced(v, np) == total_space_used - np.vlen + StrLen[v] + 1

FreedByReplace(np) == freed \union {np.value}

(* A new node is to be made: the first one or one to insert. *)
MakesNode == \/ phase = "entry" /\ Head(todo).kind = "set" /\ node_list_used = 0
             \/ Missing("set") /\ ~Full

(* strdup() returned NULL, for both strings of a new node. *)
set_no_memory ==
  /\ \/ MakesNode
     \/ Found("set") /\ ~FitsBlock(Head(todo).arg, node_list[find.middle])
  /\ Fail

(* Fault: fail_exit forgets the string that was duplicated. *)
NotFreedOnExit(p) == freed

FreedOnExit(p) == freed \union {p}

(* strdup() returned NULL for one of the two strings: fail_exit frees the  *)
(* other, which nothing has pointed to (its contents are left out).        *)
set_half_memory ==
  /\ MakesNode
  /\ brk < MaxAlloc
  /\ brk' = brk + 1
  /\ freed' = FreedOnExit(brk + 1)
  /\ EntryDone("FAIL")
  /\ UNCHANGED <<nvram_mutex, this_nvram, listVars, mem, size, old, got, history, ub>>

(* The new value fits the old block: it is overwritten. *)
set_in_place ==
  /\ Found("set")
  /\ LET np == node_list[find.middle]
         v  == Head(todo).arg
     IN  /\ FitsBlock(v, np)
         /\ IF Valid(np.value)
            THEN /\ mem' = [mem EXCEPT ![np.value] = v]
                 /\ stored' = stored \union {<<Head(todo).name, v>>}
                 /\ EntryDone("OK")
                 /\ UNCHANGED <<nvram_mutex, this_nvram, listVars, size, freed, brk, old, got, unset_seen, ub>>
            ELSE Undefined

(* The new value is longer: a new block replaces the old one. *)
set_replace ==
  /\ Found("set")
  /\ brk < MaxAlloc
  /\ LET np == node_list[find.middle]
         v  == Head(todo).arg
     IN  /\ ~FitsBlock(v, np)
         /\ IF Valid(np.value)
            THEN /\ mem' = [mem EXCEPT ![np.value] = 0, ![brk + 1] = v]
                 /\ size' = [size EXCEPT ![np.value] = 0, ![brk + 1] = StrLen[v] + 1]
                 /\ brk' = brk + 1
                 /\ freed' = FreedByReplace(np)
                 /\ node_list' = [node_list EXCEPT ![find.middle].value = brk + 1,
                                                   ![find.middle].vlen = StrLen[v] + 1]
                 /\ total_space_used' = SpaceReplaced(v, np)
                 /\ stored' = stored \union {<<Head(todo).name, v>>}
                 /\ EntryDone("OK")
                 /\ UNCHANGED <<nvram_mutex, this_nvram, node_list_used, old, got, unset_seen, ub>>
            ELSE Undefined

set_full ==
  /\ Missing("set") /\ Full
  /\ Fail

set_insert ==
  /\ Missing("set") /\ ~Full
  /\ PlaceNode(find.middle, Head(todo).name, Head(todo).arg)

-----------------------------------------------------------------------------
(* nvram_unset_entry() *)

(* What the array looks like once node i has been cleaned and the loop has  *)
(* run for j = i .. used - 1: its body copies node i + 1 to node i.         *)
AfterUnset(i, used) ==
  [node_list EXCEPT ![i] = IF i < used THEN node_list[i + 1] ELSE NullNode]

(* Fault: the node is counted off before and after it is cleaned. *)
UsedTwiceOff == node_list_used - 2

UsedAfterUnset == node_list_used - 1

unset_entry ==
  /\ Found("unset")
  /\ LET i  == find.middle
         np == node_list[i]
     IN  IF Valid(np.name) /\ Valid(np.value)
         THEN /\ total_space_used' = total_space_used - np.nlen - np.vlen
              /\ node_list_used' = UsedAfterUnset
              /\ freed' = freed \union {np.name, np.value}
              /\ mem' = Cleared(mem, {np.name, np.value})
              /\ size' = Cleared(size, {np.name, np.value})
              /\ node_list' = AfterUnset(i, UsedAfterUnset)
              /\ EntryDone("OK")
              /\ unset_seen' = TRUE
              /\ UNCHANGED <<nvram_mutex, this_nvram, brk, old, got, stored, ub>>
         ELSE Undefined

unset_missing == Missing("unset") /\ Fail

-----------------------------------------------------------------------------
(* nvram_get_entry_value(), nvram_match_entry(), nvram_match_entry_value(). *)
(* nvram_match_entry() is declared bool: its EZCFG_RET_FAIL reaches the     *)
(* caller as 1 ("ONE").                                                     *)

(* strdup(np->value) is returned, or NULL was: the caller's copy is not *)
(* followed further.                                                    *)
get_entry_value ==
  /\ Found("get")
  /\ LET np == node_list[find.middle]
     IN  IF Valid(np.value)
         THEN /\ \E r \in {"OK", "FAIL"} :
                   /\ EntryDone(r)
                   /\ got' = IF r = "OK" THEN <<Head(todo).name, mem[np.value]>> ELSE <<>>
              /\ UNCHANGED <<nvram_mutex, this_nvram, listVars, heapVars, history, ub>>
         ELSE Undefined

get_missing == Missing("get") /\ Fail

(* The first of the two names is found: look for the second. *)
match_first ==
  /\ Found("match") /\ first = -1
  /\ first' = find.middle
  /\ phase' = "entry"
  /\ UNCHANGED <<nvram_mutex, this_nvram, listVars, heapVars, todo, find, ret, got, history, ub>>

(* The comparison of two values, each read through its node. *)
Compare(values, r) ==
  IF \A p \in values : Valid(p)
  THEN /\ EntryDone(r)
       /\ UNCHANGED <<nvram_mutex, this_nvram, listVars, heapVars, got, history, ub>>
  ELSE Undefined

match_entry ==
  /\ Found("match") /\ first >= 0
  /\ LET p1 == node_list[first].value
         p2 == node_list[find.middle].value
     IN  Compare({p1, p2}, IF mem[p1] = mem[p2] THEN "OK" ELSE "ONE")

match_missing ==
  /\ Missing("match")
  /\ EntryDone("ONE")
  /\ UNCHANGED <<nvram_mutex, this_nvram, listVars, heapVars, got, history, ub>>

match_entry_value ==
  /\ Found("match_value")
  /\ LET p == node_list[find.middle].value
     IN  Compare({p}, IF mem[p] = Head(todo).arg THEN "OK" ELSE "FAIL")

match_value_missing == Missing("match_value") /\ Fail

-----------------------------------------------------------------------------
(* local_nvram_del() and local_nvram_new() *)

(* local_nvram_del() cleans the nodes from the front up to the first one   *)
(* whose name is NULL.                                                     *)
Cleaned == {i \in Index : \A j \in 0 .. i : node_list[j].name # NULL}
Strings(is) == {node_list[i].name : i \in is} \union {node_list[i].value : i \in is}
NoSharing(is) == \A i, j \in is : i # j => /\ node_list[i].name # node_list[j].name
                                           /\ node_list[i].value # node_list[j].value

local_nvram_del(t) ==
  /\ phase = "unlocked" /\ this_nvram /\ "del" \in Ops
  /\ IF NoSharing(Cleaned) /\ \A p \in Strings(Cleaned) : Valid(p)
     THEN /\ freed' = freed \union Strings(Cleaned)
          /\ mem' = Cleared(mem, Strings(Cleaned))
          /\ size' = Cleared(size, Strings(Cleaned))
          /\ this_nvram' = FALSE
          /\ UNCHANGED <<nvram_mutex, listVars, brk, old, callVars, history, ub>>
     ELSE Undefined

(* The blocks strdup() gave that were not freed. *)
Live == (1 .. brk) \ freed

(* calloc() gives zeroed nodes and counters; what the store before it has  *)
(* not freed is left over.                                                 *)
local_nvram_new ==
  /\ phase = "unlocked" /\ ~this_nvram
  /\ this_nvram' = TRUE
  /\ node_list' = [i \in Index |-> NullNode]
  /\ node_list_used' = 0
  /\ total_space_used' = 0
  /\ stored' = {}
  /\ old' = Live
  /\ UNCHANGED <<nvram_mutex, mem, size, freed, brk, callVars, unset_seen, ub>>

-----------------------------------------------------------------------------
Find   == find_start \/ find_iterate \/ find_return
Set    == \/ set_first_entry \/ set_no_memory \/ set_half_memory \/ set_in_place
          \/ set_replace \/ set_full \/ set_insert
Unset  == unset_entry \/ unset_missing
Read   == \/ get_entry_value \/ get_missing \/ match_first \/ match_entry
          \/ match_missing \/ match_entry_value \/ match_value_missing

(* What the holder of the mutex does next. *)
HolderStep == Find \/ Set \/ Unset \/ Read \/ unlock_nvram_mutex

Next ==
  \/ \E t \in Threads : lock_nvram_mutex(t) \/ local_nvram_del(t)
  \/ local_nvram_new
  \/ HolderStep

Spec == Init /\ [][Next]_vars

(* The holder is a running thread: it is not stopped inside the section. *)
FairSpec == Spec /\ WF_vars(HolderStep)
-----------------------------------------------------------------------------
(* Properties *)

Requested == UNION {Requests(op) : op \in Ops}

(* Types of the store, of the heap and of the holder's locals. *)
TypeOK ==
  /\ nvram_mutex \in Threads \union {NoThread}
  /\ this_nvram \in BOOLEAN
  /\ node_list \in [Index -> Node]
  /\ node_list_used \in 0 .. NodeListSize
  /\ total_space_used \in Int
  /\ mem \in [Ptr -> {0} \union Names \union Values]
  /\ size \in [Ptr -> Nat]
  /\ freed \subseteq Ptr /\ old \subseteq Ptr
  /\ brk \in 0 .. MaxAlloc
  /\ phase \in {"unlocked", "entry", "find", "found", "unlock", "undefined"}
  /\ find \in [bottom : Nat, upper : Int, middle : Nat, equal : BOOLEAN]
  /\ first \in {-1} \union Index
  /\ ret \in {"OK", "FAIL", "ONE"}
  /\ stored \subseteq Names \X Values
  /\ unset_seen \in BOOLEAN
  /\ ub \in BOOLEAN

(* nvram.c, find_nvram_entry_position(): whatever the order of the nodes,  *)
(* the bisection only compares nodes in use, and these have a name, so     *)
(* strcmp() never sees a node past node_list_used or a NULL pointer; the   *)
(* position it returns is one nvram_set_entry() can insert at.             *)
SearchInRange ==
  /\ \A i \in InRange : node_list[i].name # NULL /\ node_list[i].value # NULL
  /\ phase = "find" /\ ~find.equal /\ find.bottom < find.upper =>
       (find.bottom + find.upper) \div 2 \in InRange
  /\ phase = "found" => /\ find.equal => find.middle \in InRange
                        /\ find.middle \in 0 .. node_list_used
  /\ first # -1 => first \in InRange

(* nvram.c, nvram_set_entry(): the sprintf() that overwrites a value stays *)
(* inside the block strdup() made for it, also for nodes that share one.   *)
ValueFits ==
  \A i \in Index : Valid(node_list[i].value) =>
    StrLen[mem[node_list[i].value]] < node_list[i].vlen

(* nvram.c, nvram_set_entry(): inserting a node keeps every node already   *)
(* in use, once, and in the same order.                                    *)
InsertKeepsNodes ==
  [][node_list_used' > node_list_used =>
       \E k \in 0 .. node_list_used : \A j \in InRange :
         node_list'[IF j < k THEN j ELSE j + 1] = node_list[j]]_vars

(* nvram.c, nvram_get_entry_value(): a value that is returned for a name   *)
(* was set under that name since the store was made, in spite of the nodes *)
(* that unset duplicates.                                                  *)
GetReturnsStored == got # <<>> => got \in stored

(* The mutex is given back: every operation and every batch ends. *)
HolderFinishes == (nvram_mutex # NoThread) ~> (nvram_mutex = NoThread \/ ub)

(* nvram.c: total_space_used is the length of the blocks this store has    *)
(* not freed, after any sequence of inserts, in-place writes, replacements *)
(* and unsets: also when the node that is subtracted is one that an unset  *)
(* has put into the array twice, so that this size_t never wraps round.    *)
(* What an unset has lost without freeing it stays counted.                *)
SpaceAccounted ==
  this_nvram => total_space_used = MapThenSumSet(LAMBDA p : size[p], Live \ old)

(* nvram.c: until an entry is unset, every block strdup() gave is freed or *)
(* owned by exactly one node in use; after local_nvram_del() none is left. *)
BlocksOwned ==
  ~unset_seen =>
  LET owned == IF this_nvram THEN Strings(InRange) ELSE {}
  IN  /\ Live = owned
      /\ this_nvram => NoSharing(InRange)

(* nvram.c:50-51, "Deleting an entry shifts the remaining entries to the  *)
(* front": the nodes left are the old ones without the deleted one.       *)
DeleteShifts ==
  [][node_list_used' < node_list_used /\ this_nvram' /\ this_nvram =>
       \E k \in InRange : \A j \in 0 .. node_list_used - 2 :
         node_list'[j] = node_list[IF j < k THEN j ELSE j + 1]]_vars

(* nvram.c: no operation, of any sequence, reads or writes outside the     *)
(* nodes in use or the block of a value.                                   *)
MemorySafe == SearchInRange /\ ValueFits
=============================================================================
