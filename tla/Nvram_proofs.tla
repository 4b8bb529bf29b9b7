---------------------------- MODULE Nvram_proofs ----------------------------
(***************************************************************************)
(* Proofs about Nvram for any names and values, any size of the node list  *)
(* and of the heap, and any sequence of operations, unset included, up to  *)
(* the first undefined C operation.                                        *)
(***************************************************************************)
EXTENDS Nvram, SequenceTheorems, TLAPS

(* What the holder works on: entries with the arguments of their kind. *)
Kinds == {"set", "unset", "get", "match", "match_value"}
Entries ==
  {e \in [kind : Kinds, name : Names, arg : Nat] :
     /\ e.kind = "set" => e.arg \in Values
     /\ e.kind = "match" => e.arg \in Names}

Searching == {"entry", "find", "found"}

(* The mutex is held while there is an entry to treat; only a match has    *)
(* found a first name; nothing is left over when the mutex is free.        *)
HolderInv ==
  /\ todo \in Seq(Entries)
  /\ phase \in Searching => todo # <<>>
  /\ first # -1 => phase \in Searching \union {"undefined"} /\ Head(todo).kind = "match"
  /\ phase = "unlocked" => got = <<>>
  /\ this_nvram \/ phase = "unlocked"

(* Where the bisection is: inside the nodes in use, and at a node with the *)
(* name it looks for once that is found.                                   *)
FindInv ==
  /\ phase \in {"find", "found"} =>
       /\ find.upper <= node_list_used
       /\ find.middle \in 0 .. node_list_used
       /\ find.equal => /\ find.middle \in InRange
                        /\ Valid(node_list[find.middle].name)
                        /\ mem[node_list[find.middle].name] = Key
  /\ first # -1 => first \in InRange

(* The pointers of the nodes: handed out by strdup(), there for the nodes  *)
(* in use, of two separate kinds; two nodes with the same value are copies *)
(* one of the other.                                                       *)
NodeInv ==
  /\ freed \subseteq 1 .. brk
  /\ \A i \in Index : node_list[i].name \in 0 .. brk /\ node_list[i].value \in 0 .. brk
  /\ \A i \in InRange : node_list[i].name # NULL /\ node_list[i].value # NULL
  /\ \A i, j \in Index : node_list[i].name # NULL => node_list[i].name # node_list[j].value
  /\ \A i, j \in Index :
       node_list[i].value # NULL /\ node_list[i].value = node_list[j].value =>
         /\ node_list[i].name = node_list[j].name
         /\ node_list[i].vlen = node_list[j].vlen

(* What a node with both strings alive says has been set. *)
PairsStored ==
  \A i \in Index :
    Valid(node_list[i].name) /\ Valid(node_list[i].value) =>
      <<mem[node_list[i].name], mem[node_list[i].value]>> \in stored

(* The inductive invariant. *)
IndInv ==
  /\ TypeOK /\ HolderInv /\ FindInv
  /\ NodeInv /\ ValueFits /\ PairsStored
  /\ GetReturnsStored

(* Until an entry is unset, the nodes past the last one in use are empty.  *)
RestEmpty ==
  this_nvram /\ ~unset_seen => \A i \in Index \ InRange : node_list[i] = NullNode

-----------------------------------------------------------------------------
(* What a step does to the store *)

Quiet == UNCHANGED <<this_nvram, listVars, heapVars, history>>

(* A node for name n and value v is put at position i. *)
Places(i, n, v) ==
  /\ this_nvram /\ this_nvram' /\ node_list_used < NodeListSize /\ brk + 2 <= MaxAlloc
  /\ node_list' = Inserted(i, NewNode(n, v)) /\ node_list_used' = node_list_used + 1
  /\ mem' = [mem EXCEPT ![brk + 1] = n, ![brk + 2] = v]
  /\ brk' = brk + 2 /\ freed' = freed
  /\ total_space_used' \in Int /\ size' \in [Ptr -> Nat] /\ old' = old
  /\ stored' = stored \union {<<n, v>>} /\ unset_seen' = unset_seen

(* Node i, whose name is n, gets value v in the block it has. *)
Overwrites(i, n, v) ==
  /\ this_nvram /\ this_nvram' /\ Valid(node_list[i].name) /\ mem[node_list[i].name] = n
  /\ Valid(node_list[i].value) /\ StrLen[v] < node_list[i].vlen
  /\ mem' = [mem EXCEPT ![node_list[i].value] = v]
  /\ stored' = stored \union {<<n, v>>}
  /\ UNCHANGED <<listVars, size, freed, brk, old, unset_seen>>

(* Node i, whose name is n, gets value v in a new block. *)
Replaces(i, n, v) ==
  /\ this_nvram /\ this_nvram' /\ Valid(node_list[i].name) /\ mem[node_list[i].name] = n
  /\ Valid(node_list[i].value) /\ brk < MaxAlloc
  /\ mem' = [mem EXCEPT ![node_list[i].value] = 0, ![brk + 1] = v] /\ brk' = brk + 1
  /\ freed' = freed \union {node_list[i].value}
  /\ node_list' = [node_list EXCEPT ![i].value = brk + 1, ![i].vlen = StrLen[v] + 1]
  /\ total_space_used' \in Int /\ size' \in [Ptr -> Nat]
  /\ stored' = stored \union {<<n, v>>}
  /\ UNCHANGED <<node_list_used, old, unset_seen>>

(* The blocks ps are given back. *)
Frees(ps) ==
  /\ freed' = freed \union ps
  /\ mem' = Cleared(mem, ps) /\ size' = Cleared(size, ps)

(* Node i is freed and overwritten by the next one, which stays. *)
Removes(i) ==
  /\ this_nvram /\ this_nvram' /\ Valid(node_list[i].name) /\ Valid(node_list[i].value)
  /\ node_list_used' = node_list_used - 1
  /\ node_list' = AfterUnset(i, node_list_used - 1)
  /\ Frees({node_list[i].name, node_list[i].value})
  /\ total_space_used' \in Int
  /\ unset_seen' = TRUE
  /\ UNCHANGED <<brk, old, stored>>

(* The store is given back; its strings are freed. *)
Deletes ==
  /\ this_nvram /\ ~this_nvram' /\ \A p \in Strings(Cleaned) : Valid(p)
  /\ Frees(Strings(Cleaned))
  /\ UNCHANGED <<listVars, brk, old, history>>

(* A new, empty store is made. *)
Creates ==
  /\ ~this_nvram /\ this_nvram'
  /\ node_list' = [i \in Index |-> NullNode] /\ node_list_used' = 0 /\ total_space_used' = 0
  /\ stored' = {} /\ old' = Live
  /\ UNCHANGED <<mem, size, freed, brk, unset_seen>>

(* A block is handed out and given back at once: a set that fails. *)
Wastes ==
  /\ brk < MaxAlloc /\ brk' = brk + 1 /\ freed' = freed \union {brk + 1}
  /\ UNCHANGED <<this_nvram, listVars, mem, size, old, history>>

(* The lengths of two blocks are noted. *)
LEMMA Noted ==
  ASSUME NEW f \in [Ptr -> Nat], NEW p, NEW x \in Nat, NEW q, NEW y \in Nat
  PROVE  [f EXCEPT ![p] = x, ![q] = y] \in [Ptr -> Nat]
OBVIOUS

(* The entry the holder treats, and the name it looks for. *)
LEMMA HeadEntry ==
  ASSUME IndInv, phase \in Searching
  PROVE  /\ Head(todo) \in Entries
         /\ Head(todo).name \in Names
         /\ Head(todo).kind = "set" => Head(todo).arg \in Values
         /\ Key \in Names
<1>1. Head(todo) \in Entries
  BY HeadTailProperties DEF IndInv, HolderInv
<1>2. /\ Head(todo).name \in Names
      /\ Head(todo).kind = "set" => Head(todo).arg \in Values
      /\ Head(todo).kind = "match" => Head(todo).arg \in Names
  BY <1>1 DEF Entries
<1>3. first >= 0 => Head(todo).kind = "match"
  BY NvramAssumption DEF IndInv, TypeOK, HolderInv
<1> QED
  BY <1>1, <1>2, <1>3 DEF Key

(* nvram.c: every step of every operation leaves the store alone or does   *)
(* one of seven things to it, at a position inside the nodes in use.         *)
LEMMA StoreSteps ==
  ASSUME IndInv, [Next]_vars
  PROVE  \/ Quiet
         \/ \E i \in 0 .. node_list_used, n \in Names, v \in Values : Places(i, n, v)
         \/ \E i \in InRange, n \in Names, v \in Values : Overwrites(i, n, v) \/ Replaces(i, n, v)
         \/ \E i \in InRange : Removes(i)
         \/ Deletes
         \/ Creates
         \/ Wastes
<1> USE NvramAssumption DEF listVars, heapVars, history, callVars, Quiet
<1>0. Undefined => Quiet
  BY DEF Undefined
<1>1. ASSUME NEW t \in Threads, lock_nvram_mutex(t) \/ local_nvram_del(t)
      PROVE  Quiet \/ Deletes
  BY <1>0, <1>1 DEF lock_nvram_mutex, local_nvram_del, Deletes, Frees
<1>2. CASE local_nvram_new
  BY <1>2 DEF local_nvram_new, Creates, IndInv, TypeOK
<1>3. CASE Find
  BY <1>0, <1>3 DEF Find, find_start, find_iterate, find_return
<1>4. CASE Read
  BY <1>0, <1>4 DEF Read, get_entry_value, get_missing, match_first, match_entry, match_missing,
                    match_entry_value, match_value_missing, Compare, Fail
<1>5. CASE unset_entry
  <2> DEFINE i == find.middle
  <2>1. i \in InRange /\ this_nvram
    BY <1>5 DEF unset_entry, Found, IndInv, FindInv, HolderInv
  <2>2. CASE Valid(node_list[i].name) /\ Valid(node_list[i].value)
    <3>1. total_space_used - node_list[i].nlen - node_list[i].vlen \in Int
      BY <2>1 DEF IndInv, TypeOK, Node, InRange, Index
    <3>2. Removes(i)
      BY <1>5, <2>1, <2>2, <3>1 DEF unset_entry, Removes, Frees, UsedAfterUnset
    <3> QED
      BY <2>1, <3>2
  <2> QED
    BY <1>0, <1>5, <2>2 DEF unset_entry
<1>6. CASE set_first_entry \/ set_insert
  <2> DEFINE i == IF set_first_entry THEN 0 ELSE find.middle
             n == Head(todo).name
             v == Head(todo).arg
  <2>1. phase \in Searching /\ Head(todo).kind = "set" /\ PlaceNode(i, n, v)
    BY <1>6 DEF set_first_entry, set_insert, Missing, Searching
  <2>2. n \in Names /\ v \in Values /\ this_nvram
    BY <2>1, HeadEntry DEF IndInv, HolderInv, Searching
  <2>3. i \in 0 .. node_list_used /\ node_list_used < NodeListSize
    BY <1>6 DEF set_first_entry, set_insert, Missing, Full, IndInv, TypeOK, FindInv
  <2>4. total_space_used + StrLen[n] + 1 + StrLen[v] + 1 \in Int
    <3>1. StrLen[n] \in Nat /\ StrLen[v] \in Nat
      BY <2>2
    <3>2. total_space_used \in Int
      BY DEF IndInv, TypeOK
    <3> QED
      BY <3>1, <3>2
  <2> HIDE DEF i, n, v
  <2>5. [size EXCEPT ![brk + 1] = StrLen[n] + 1, ![brk + 2] = StrLen[v] + 1] \in [Ptr -> Nat]
    <3>1. StrLen[n] + 1 \in Nat /\ StrLen[v] + 1 \in Nat
      BY <2>2
    <3>2. size \in [Ptr -> Nat]
      BY DEF IndInv, TypeOK
    <3> QED
      BY <3>1, <3>2, Noted
  <2>6. Places(i, n, v)
    BY <2>1, <2>2, <2>3, <2>4, <2>5 DEF PlaceNode, Places
  <2> QED
    BY <2>2, <2>3, <2>6
<1>7. CASE set_in_place \/ set_replace
  <2> DEFINE i == find.middle
             n == Head(todo).name
             v == Head(todo).arg
  <2>1. Found("set") /\ this_nvram /\ i \in InRange /\ Valid(node_list[i].name)
        /\ mem[node_list[i].name] = Key
    BY <1>7 DEF set_in_place, set_replace, Found, IndInv, FindInv, HolderInv
  <2>2. n \in Names /\ v \in Values /\ Key = n
    <3>1. n \in Names /\ v \in Values
      BY <2>1, HeadEntry DEF Found, Searching
    <3>2. first = -1
      BY <2>1 DEF Found, IndInv, HolderInv
    <3> QED
      BY <3>1, <3>2 DEF Key
  <2>3. CASE Undefined
    BY <1>0, <2>3
  <2>4. CASE set_in_place /\ Valid(node_list[i].value)
    <3>1. Overwrites(i, n, v)
      BY <2>1, <2>2, <2>4 DEF set_in_place, Overwrites, FitsBlock
    <3> QED
      BY <2>1, <2>2, <3>1
  <2>5. CASE set_replace /\ Valid(node_list[i].value)
    <3>1. SpaceReplaced(v, node_list[i]) \in Int
      <4>1. StrLen[v] \in Nat
        BY <2>2
      <4>2. node_list[i] \in Node /\ total_space_used \in Int
        BY <2>1 DEF IndInv, TypeOK, InRange, Index
      <4> QED
        BY <4>1, <4>2 DEF SpaceReplaced, Node
    <3>2. [size EXCEPT ![node_list[i].value] = 0, ![brk + 1] = StrLen[v] + 1] \in [Ptr -> Nat]
      <4>0. StrLen[v] \in Nat
        BY <2>2
      <4>1. StrLen[v] + 1 \in Nat
        BY <4>0
      <4>2. size \in [Ptr -> Nat]
        BY DEF IndInv, TypeOK
      <4> QED
        BY <4>1, <4>2, Noted
    <3>3. Replaces(i, n, v)
      BY <2>1, <2>2, <2>5, <3>1, <3>2 DEF set_replace, Replaces, FreedByReplace
    <3> QED
      BY <2>1, <2>2, <3>3
  <2> QED
    BY <1>7, <2>3, <2>4, <2>5 DEF set_in_place, set_replace
<1>8. CASE set_no_memory \/ set_full \/ unset_missing \/ unlock_nvram_mutex
  BY <1>8 DEF set_no_memory, set_full, unset_missing, unlock_nvram_mutex, Fail
<1>9. CASE set_half_memory
  BY <1>9 DEF set_half_memory, FreedOnExit, Wastes
<1>10. CASE UNCHANGED vars
  BY <1>10 DEF vars
<1> QED
  BY <1>1, <1>2, <1>3, <1>4, <1>5, <1>6, <1>7, <1>8, <1>9, <1>10 DEF Next, HolderStep, Set, Unset

-----------------------------------------------------------------------------
(* The nodes and their strings *)

StoreType ==
  /\ node_list \in [Index -> Node]
  /\ node_list_used \in 0 .. NodeListSize
  /\ total_space_used \in Int
  /\ mem \in [Ptr -> {0} \union Names \union Values]
  /\ size \in [Ptr -> Nat]
  /\ freed \subseteq Ptr /\ old \subseteq Ptr
  /\ brk \in 0 .. MaxAlloc
  /\ stored \subseteq Names \X Values
  /\ unset_seen \in BOOLEAN

StoreInv == StoreType /\ NodeInv /\ ValueFits /\ PairsStored

(* free() keeps the contents of the blocks it does not give back. *)
LEMMA FreesKeeps ==
  ASSUME StoreType, NEW ps, Frees(ps)
  PROVE  /\ mem' \in [Ptr -> {0} \union Names \union Values] /\ size' \in [Ptr -> Nat]
         /\ \A q \in Ptr \ freed' : mem'[q] = mem[q]
BY DEF StoreType, Frees, Cleared

(* nvram_set_entry(), insertion: after it, every node is one there was or  *)
(* the new one, in use if it was or is new.                                *)
LEMMA InsertedNodes ==
  ASSUME StoreType, NEW i \in 0 .. node_list_used, NEW n, NEW v, Places(i, n, v)
  PROVE  /\ \A j \in Index : \/ node_list'[j] = NewNode(n, v)
                             \/ \E k \in Index : node_list'[j] = node_list[k]
         /\ \A j \in InRange' : \/ node_list'[j] = NewNode(n, v)
                                \/ \E k \in InRange : node_list'[j] = node_list[k]
         /\ \A j \in Index : j < i => node_list'[j] = node_list[j]
         /\ node_list'[i] = NewNode(n, v)
         /\ \A j \in InRange : j >= i => node_list'[j + 1] = node_list[j]
         /\ \A j \in Index : j > node_list_used => node_list'[j] = node_list[j]
<1> USE NvramAssumption
<1>1. /\ i \in Index /\ node_list_used \in Nat /\ node_list_used < NodeListSize
      /\ node_list_used' = node_list_used + 1
  BY DEF StoreType, Places, Index
<1>2. \A j \in Index : node_list'[j] = IF j < i \/ j > node_list_used THEN node_list[j]
                                       ELSE IF j = i THEN NewNode(n, v) ELSE node_list[j - 1]
  BY DEF Places, Inserted
<1>3. \A j \in Index : j \in Int /\ (j > i => j - 1 \in Index)
  BY <1>1 DEF Index
<1>4. \A j \in Index : \/ node_list'[j] = NewNode(n, v)
                       \/ \E k \in Index : node_list'[j] = node_list[k]
  BY <1>1, <1>2, <1>3
<1>5. ASSUME NEW j \in InRange'
      PROVE  \/ node_list'[j] = NewNode(n, v)
             \/ \E k \in InRange : node_list'[j] = node_list[k]
  <2>1. j \in Index /\ j \in 0 .. node_list_used
    BY <1>1 DEF InRange, Index
  <2>2. CASE j < i
    BY <1>1, <1>2, <2>1, <2>2 DEF InRange
  <2>3. CASE j = i
    BY <1>1, <1>2, <2>1, <2>3
  <2>4. CASE j > i
    <3>1. j - 1 \in InRange /\ node_list'[j] = node_list[j - 1]
      BY <1>1, <1>2, <2>1, <2>4 DEF InRange
    <3> QED
      BY <3>1
  <2> QED
    BY <1>1, <2>1, <2>2, <2>3, <2>4
<1>6. \A j \in InRange : j >= i => node_list'[j + 1] = node_list[j]
  BY <1>1, <1>2 DEF InRange, Index
<1>7. /\ \A j \in Index : j < i => node_list'[j] = node_list[j]
      /\ node_list'[i] = NewNode(n, v)
      /\ \A j \in Index : j > node_list_used => node_list'[j] = node_list[j]
  BY <1>1, <1>2, <1>3
<1> QED
  BY <1>4, <1>5, <1>6, <1>7

(* The new node has two fresh strings that hold the name and the value.    *)
LEMMA FreshNode ==
  ASSUME StoreType, NodeInv, NEW i, NEW n \in Names, NEW v \in Values, Places(i, n, v)
  PROVE  /\ NewNode(n, v) \in Node
         /\ NewNode(n, v).name = brk + 1 /\ NewNode(n, v).value = brk + 2
         /\ NewNode(n, v).vlen = StrLen[v] + 1 /\ StrLen[v] \in Nat
         /\ brk \in Nat /\ brk' = brk + 2
         /\ mem'[brk + 1] = n /\ mem'[brk + 2] = v
         /\ \A p \in 1 .. brk : mem'[p] = mem[p]
         /\ brk + 1 \notin freed' /\ brk + 2 \notin freed'
<1> USE NvramAssumption
<1>1. /\ brk \in Nat /\ brk + 1 \in Ptr /\ brk + 2 \in Ptr /\ brk + 1 # 0 /\ brk + 2 # 0
      /\ brk + 1 # brk + 2 /\ 1 .. brk \subseteq Ptr
      /\ \A p \in 1 .. brk : p # brk + 1 /\ p # brk + 2
  <2>1. brk \in 0 .. MaxAlloc /\ brk + 2 <= MaxAlloc /\ MaxAlloc \in Nat
    BY DEF StoreType, Places
  <2> QED
    BY <2>1 DEF Ptr
<1>2. StrLen[n] \in Nat /\ StrLen[v] \in Nat
  OBVIOUS
<1>3. NewNode(n, v) \in Node
  BY <1>1, <1>2 DEF NewNode, Node
<1>4. /\ mem'[brk + 1] = n /\ mem'[brk + 2] = v
      /\ \A p \in 1 .. brk : mem'[p] = mem[p]
  BY <1>1 DEF Places, StoreType
<1>5. brk + 1 \notin freed' /\ brk + 2 \notin freed'
  BY <1>1 DEF NodeInv, Places
<1> QED
  BY <1>1, <1>2, <1>3, <1>4, <1>5 DEF NewNode, Places

(* Inserting a node keeps StoreInv. *)
LEMMA PlacesKeeps ==
  ASSUME StoreInv, NEW i \in 0 .. node_list_used, NEW n \in Names, NEW v \in Values, Places(i, n, v)
  PROVE  StoreInv'
<1> USE NvramAssumption
<1> DEFINE new == NewNode(n, v)
<1>1. /\ \A j \in Index : node_list'[j] = new \/ \E k \in Index : node_list'[j] = node_list[k]
      /\ \A j \in InRange' : node_list'[j] = new \/ \E k \in InRange : node_list'[j] = node_list[k]
  BY InsertedNodes DEF StoreInv
<1>2. /\ new \in Node /\ new.name = brk + 1 /\ new.value = brk + 2
      /\ new.vlen = StrLen[v] + 1 /\ StrLen[v] \in Nat
      /\ brk \in Nat /\ brk' = brk + 2
      /\ mem'[brk + 1] = n /\ mem'[brk + 2] = v
      /\ \A p \in 1 .. brk : mem'[p] = mem[p]
      /\ brk + 1 \notin freed' /\ brk + 2 \notin freed'
  BY FreshNode DEF StoreInv
<1> HIDE DEF new
<1>3. StoreType'
  <2>1. node_list' \in [Index -> Node]
    <3>1. node_list' = [j \in Index |-> node_list'[j]]
      BY DEF Places, Inserted
    <3>2. \A j \in Index : node_list'[j] \in Node
      BY <1>1, <1>2 DEF StoreInv, StoreType
    <3> QED
      BY <3>1, <3>2
  <2>2. mem' \in [Ptr -> {0} \union Names \union Values]
    BY DEF Places, StoreInv, StoreType
  <2>3. node_list_used' \in 0 .. NodeListSize /\ brk' \in 0 .. MaxAlloc
    BY DEF Places, StoreInv, StoreType
  <2> QED
    BY <2>1, <2>2, <2>3 DEF Places, StoreInv, StoreType
<1>4. \A k \in Index : /\ node_list[k].name \in 0 .. brk /\ node_list[k].value \in 0 .. brk
                       /\ node_list[k] \in Node
  BY DEF StoreInv, StoreType, NodeInv
<1>5. NodeInv'
  <2>1. freed' \subseteq 1 .. brk'
    BY <1>2 DEF Places, StoreInv, NodeInv
  <2>2. \A j \in Index : node_list'[j].name \in 0 .. brk' /\ node_list'[j].value \in 0 .. brk'
    BY <1>1, <1>2, <1>4
  <2>3. \A j \in InRange' : node_list'[j].name # NULL /\ node_list'[j].value # NULL
    BY <1>1, <1>2 DEF StoreInv, NodeInv, NULL
  <2>4. \A j, l \in Index : node_list'[j].name # NULL => node_list'[j].name # node_list'[l].value
    BY <1>1, <1>2, <1>4 DEF StoreInv, NodeInv, NULL
  <2>5. \A j, l \in Index :
          node_list'[j].value # NULL /\ node_list'[j].value = node_list'[l].value =>
            /\ node_list'[j].name = node_list'[l].name
            /\ node_list'[j].vlen = node_list'[l].vlen
    BY <1>1, <1>2, <1>4 DEF StoreInv, NodeInv, NULL
  <2> QED
    BY <2>1, <2>2, <2>3, <2>4, <2>5 DEF NodeInv
<1>6. ValueFits'
  <2> SUFFICES ASSUME NEW j \in Index, Valid(node_list[j].value)'
               PROVE  StrLen[mem'[node_list'[j].value]] < node_list'[j].vlen
    BY DEF ValueFits
  <2>1. CASE node_list'[j] = new
    BY <1>2, <2>1
  <2>2. ASSUME NEW k \in Index, node_list'[j] = node_list[k]
        PROVE  StrLen[mem'[node_list'[j].value]] < node_list'[j].vlen
    <3>1. node_list[k].value \in 1 .. brk /\ Valid(node_list[k].value)
      BY <1>2, <1>4, <2>2 DEF Valid, NULL, Places
    <3>2. StrLen[mem[node_list[k].value]] < node_list[k].vlen
      BY <3>1 DEF StoreInv, ValueFits
    <3> QED
      BY <1>2, <2>2, <3>1, <3>2
  <2> QED
    BY <1>1, <2>1, <2>2
<1>7. PairsStored'
  <2> SUFFICES ASSUME NEW j \in Index, Valid(node_list[j].name)', Valid(node_list[j].value)'
               PROVE  <<mem'[node_list'[j].name], mem'[node_list'[j].value]>> \in stored'
    BY DEF PairsStored
  <2>1. CASE node_list'[j] = new
    <3>1. mem'[node_list'[j].name] = n /\ mem'[node_list'[j].value] = v
      BY <1>2, <2>1
    <3> QED
      BY <3>1 DEF Places
  <2>2. ASSUME NEW k \in Index, node_list'[j] = node_list[k]
        PROVE  <<mem'[node_list'[j].name], mem'[node_list'[j].value]>> \in stored'
    <3>1. /\ node_list[k].name \in 1 .. brk /\ Valid(node_list[k].name)
          /\ node_list[k].value \in 1 .. brk /\ Valid(node_list[k].value)
      BY <1>2, <1>4, <2>2 DEF Valid, NULL, Places
    <3>2. <<mem[node_list[k].name], mem[node_list[k].value]>> \in stored
      BY <3>1 DEF StoreInv, PairsStored
    <3>3. /\ mem'[node_list'[j].name] = mem[node_list[k].name]
          /\ mem'[node_list'[j].value] = mem[node_list[k].value]
      BY <1>2, <2>2, <3>1
    <3> QED
      BY <3>2, <3>3 DEF Places
  <2> QED
    BY <1>1, <2>1, <2>2
<1> QED
  BY <1>3, <1>5, <1>6, <1>7 DEF StoreInv

(* Overwriting a value keeps StoreInv: the nodes that share the block have *)
(* the same name and the same length.                                      *)
LEMMA OverwritesKeeps ==
  ASSUME StoreInv, NEW i \in InRange, NEW n \in Names, NEW v \in Values, Overwrites(i, n, v)
  PROVE  StoreInv'
<1> USE NvramAssumption DEF listVars
<1> DEFINE p == node_list[i].value
<1>1. i \in Index /\ \A j \in Index : node_list[j] \in Node
  BY DEF StoreInv, StoreType, InRange, Index
<1>2. /\ p \in Ptr /\ StrLen[v] < node_list[i].vlen
      /\ mem'[p] = v /\ \A q \in Ptr \ {p} : mem'[q] = mem[q]
  BY <1>1 DEF Overwrites, Valid, Node, NULL, StoreInv, StoreType
<1>3. StoreType' /\ NodeInv'
  <2>0. stored' \subseteq Names \X Values
    BY DEF Overwrites, StoreInv, StoreType
  <2>1. mem' \in [Ptr -> {0} \union Names \union Values]
    BY DEF Overwrites, StoreInv, StoreType
  <2>2. UNCHANGED <<node_list, node_list_used, total_space_used, size, freed, brk, old, unset_seen>>
    BY DEF Overwrites
  <2>3. StoreType'
    BY <2>0, <2>1, <2>2 DEF StoreInv, StoreType
  <2>4. NodeInv'
    BY <2>2 DEF StoreInv, NodeInv, InRange
  <2> QED
    BY <2>3, <2>4
<1>4. ValueFits'
  <2> SUFFICES ASSUME NEW j \in Index, Valid(node_list[j].value)'
               PROVE  StrLen[mem'[node_list[j].value]] < node_list[j].vlen
    BY DEF ValueFits, Overwrites
  <2>0. node_list[j].value \in Ptr /\ Valid(node_list[j].value)
    BY <1>1 DEF Valid, Overwrites, Node
  <2>1. CASE node_list[j].value = p
    BY <1>1, <1>2, <2>0, <2>1 DEF StoreInv, NodeInv, Valid
  <2>2. CASE node_list[j].value # p
    BY <1>2, <2>0, <2>2 DEF StoreInv, ValueFits
  <2> QED
    BY <2>1, <2>2
<1>5. PairsStored'
  <2> SUFFICES ASSUME NEW j \in Index, Valid(node_list[j].name)', Valid(node_list[j].value)'
               PROVE  <<mem'[node_list[j].name], mem'[node_list[j].value]>> \in stored'
    BY DEF PairsStored, Overwrites
  <2>0. /\ node_list[j].value \in Ptr /\ Valid(node_list[j].value)
        /\ node_list[j].name \in Ptr /\ Valid(node_list[j].name)
    BY <1>1 DEF Valid, Overwrites, Node
  <2>1. mem'[node_list[j].name] = mem[node_list[j].name]
    BY <1>1, <1>2, <2>0 DEF StoreInv, NodeInv, Valid
  <2>2. CASE node_list[j].value = p
    <3>1. node_list[j].name = node_list[i].name
      BY <1>1, <2>0, <2>2 DEF StoreInv, NodeInv, Valid
    <3> QED
      BY <1>2, <2>1, <2>2, <3>1 DEF Overwrites
  <2>3. CASE node_list[j].value # p
    BY <1>2, <2>0, <2>1, <2>3 DEF StoreInv, PairsStored, Overwrites
  <2> QED
    BY <2>2, <2>3
<1> QED
  BY <1>3, <1>4, <1>5 DEF StoreInv

(* Replacing a value keeps StoreInv: the new block is nobody else's. *)
LEMMA ReplacesKeeps ==
  ASSUME StoreInv, NEW i \in InRange, NEW n \in Names, NEW v \in Values, Replaces(i, n, v)
  PROVE  StoreInv'
<1> USE NvramAssumption
<1> DEFINE b == brk + 1
<1>1. i \in Index /\ \A j \in Index : node_list[j] \in Node
  BY DEF StoreInv, StoreType, InRange, Index
<1>2. /\ brk \in Nat /\ b \in Ptr /\ brk' = b /\ StrLen[v] \in Nat
      /\ mem'[b] = v /\ \A q \in (1 .. brk) \ freed' : mem'[q] = mem[q]
  <2>1. brk \in 0 .. MaxAlloc /\ brk < MaxAlloc /\ MaxAlloc \in Nat /\ brk' = b /\ StrLen[v] \in Nat
    BY DEF Replaces, StoreInv, StoreType
  <2>2. brk \in Nat /\ b \in Ptr /\ (1 .. brk) \subseteq Ptr /\ b \notin 1 .. brk
    BY <2>1 DEF Ptr
  <2>3. mem \in [Ptr -> {0} \union Names \union Values]
    BY DEF StoreInv, StoreType
  <2>4. mem' = [mem EXCEPT ![node_list[i].value] = 0, ![b] = v] /\ node_list[i].value \in freed'
    BY DEF Replaces
  <2> HIDE DEF b
  <2>5. mem'[b] = v /\ \A q \in (1 .. brk) \ freed' : mem'[q] = mem[q]
    BY <2>2, <2>3, <2>4
  <2> QED
    BY <2>1, <2>2, <2>5
<1>3. /\ node_list' \in [Index -> Node]
      /\ \A j \in Index \ {i} : node_list'[j] = node_list[j]
      /\ node_list'[i].name = node_list[i].name /\ node_list'[i].value = b
      /\ node_list'[i].vlen = StrLen[v] + 1
  <2>1. node_list \in [Index -> Node]
    BY DEF StoreInv, StoreType
  <2>2. node_list' = [node_list EXCEPT ![i] = [@ EXCEPT !.value = b, !.vlen = StrLen[v] + 1]]
    BY <1>1, <2>1 DEF Replaces
  <2>3. [node_list[i] EXCEPT !.value = b, !.vlen = StrLen[v] + 1] \in Node
    <3>1. StrLen[v] + 1 \in Nat /\ node_list[i] \in Node /\ b \in Ptr
      BY <1>1, <1>2
    <3> HIDE DEF b
    <3> QED
      BY <3>1 DEF Node
  <2> HIDE DEF b
  <2> QED
    BY <1>1, <2>1, <2>2, <2>3 DEF Node
<1>4. /\ \A j \in Index : node_list[j].name \in 0 .. brk /\ node_list[j].value \in 0 .. brk
      /\ freed \subseteq 1 .. brk /\ freed' \subseteq 1 .. brk /\ freed \subseteq freed'
  BY <1>1 DEF Replaces, Valid, NULL, StoreInv, NodeInv
<1>5. StoreType'
  <2>1. mem' \in [Ptr -> {0} \union Names \union Values]
    <3>1. mem \in [Ptr -> {0} \union Names \union Values]
      BY DEF StoreInv, StoreType
    <3> QED
      BY <3>1 DEF Replaces
  <2>2. brk' \in 0 .. MaxAlloc /\ freed' \subseteq Ptr
    <3>1. \A q \in 1 .. brk : q \in Ptr
      BY <1>2 DEF Ptr
    <3> QED
      BY <1>2, <1>4, <3>1 DEF Ptr
  <2> QED
    BY <1>3, <2>1, <2>2 DEF Replaces, StoreInv, StoreType
<1> HIDE DEF b
<1>6. b \in Nat /\ b # 0 /\ b \notin 0 .. brk /\ \A q \in 0 .. brk : q \in 0 .. b
  BY <1>2 DEF b
<1>7. NodeInv'
  <2>1. freed' \subseteq 1 .. brk'
    BY <1>2, <1>4 DEF b
  <2>2. \A j \in Index : node_list'[j].name \in 0 .. brk' /\ node_list'[j].value \in 0 .. brk'
    <3>1. brk' = b /\ b \in 0 .. b
      BY <1>2, <1>6
    <3> QED
      BY <1>1, <1>3, <1>4, <1>6, <3>1
  <2>3. \A j \in InRange' : node_list'[j].name # NULL /\ node_list'[j].value # NULL
    <3>1. InRange' = InRange /\ InRange \subseteq Index
      <4>1. node_list_used' = node_list_used /\ node_list_used \in 0 .. NodeListSize
        BY DEF Replaces, StoreInv, StoreType
      <4> QED
        BY <4>1 DEF InRange, Index
    <3> QED
      BY <1>3, <1>6, <3>1 DEF StoreInv, NodeInv, NULL
  <2>4. \A j, l \in Index : node_list'[j].name # NULL => node_list'[j].name # node_list'[l].value
    BY <1>1, <1>3, <1>4, <1>6 DEF StoreInv, NodeInv
  <2>5. \A j, l \in Index :
          node_list'[j].value # NULL /\ node_list'[j].value = node_list'[l].value =>
            /\ node_list'[j].name = node_list'[l].name
            /\ node_list'[j].vlen = node_list'[l].vlen
    BY <1>1, <1>3, <1>4, <1>6 DEF StoreInv, NodeInv
  <2> QED
    BY <2>1, <2>2, <2>3, <2>4, <2>5 DEF NodeInv
<1>8. \A j \in Index : j # i /\ Valid(node_list[j].value)' =>
        /\ node_list[j].value \in 1 .. brk /\ Valid(node_list[j].value)
        /\ mem'[node_list[j].value] = mem[node_list[j].value]
  BY <1>2, <1>3, <1>4 DEF Valid, NULL
<1>9. ValueFits'
  <2> SUFFICES ASSUME NEW j \in Index, Valid(node_list[j].value)'
               PROVE  StrLen[mem'[node_list'[j].value]] < node_list'[j].vlen
    BY DEF ValueFits
  <2>1. CASE j = i
    BY <1>2, <1>3, <2>1
  <2>2. CASE j # i
    BY <1>3, <1>8, <2>2 DEF StoreInv, ValueFits
  <2> QED
    BY <2>1, <2>2
<1>10. \A j \in Index : Valid(node_list[j].name)' =>
         /\ node_list'[j].name = node_list[j].name /\ Valid(node_list[j].name)
         /\ mem'[node_list[j].name] = mem[node_list[j].name]
  BY <1>1, <1>2, <1>3, <1>4 DEF Valid, NULL
<1>11. PairsStored'
  <2> SUFFICES ASSUME NEW j \in Index, Valid(node_list[j].name)', Valid(node_list[j].value)'
               PROVE  <<mem'[node_list'[j].name], mem'[node_list'[j].value]>> \in stored'
    BY DEF PairsStored
  <2>1. CASE j = i
    <3>1. mem'[node_list'[j].name] = n
      BY <1>10, <2>1 DEF Replaces
    <3>2. mem'[node_list'[j].value] = v
      BY <1>2, <1>3, <2>1
    <3>3. <<n, v>> \in stored'
      BY DEF Replaces
    <3> QED
      BY <3>1, <3>2, <3>3
  <2>2. CASE j # i
    <3>1. /\ node_list'[j] = node_list[j] /\ Valid(node_list[j].name) /\ Valid(node_list[j].value)
          /\ mem'[node_list[j].name] = mem[node_list[j].name]
          /\ mem'[node_list[j].value] = mem[node_list[j].value]
      BY <1>3, <1>8, <1>10, <2>2
    <3>2. <<mem[node_list[j].name], mem[node_list[j].value]>> \in stored
      BY <3>1 DEF StoreInv, PairsStored
    <3>3. stored \subseteq stored'
      BY DEF Replaces
    <3> QED
      BY <3>1, <3>2, <3>3
  <2> QED
    BY <2>1, <2>2
<1> QED
  BY <1>5, <1>7, <1>9, <1>11 DEF StoreInv

(* Unsetting an entry keeps StoreInv, although it copies a node. *)
LEMMA RemovesKeeps ==
  ASSUME StoreInv, NEW i \in InRange, Removes(i)
  PROVE  StoreInv'
<1> USE NvramAssumption
<1>1. /\ InRange \subseteq Index /\ i \in Index /\ node_list_used \in 1 .. NodeListSize
      /\ \A j \in Index : node_list[j] \in Node
  BY DEF StoreInv, StoreType, InRange, Index
<1>2. node_list' = [node_list EXCEPT ![i] = IF i < node_list_used - 1 THEN node_list[i + 1]
                                            ELSE NullNode]
  BY DEF Removes, AfterUnset
<1>3. i < node_list_used - 1 => i + 1 \in InRange
  BY <1>1 DEF InRange
<1>4. NullNode \in Node /\ NullNode.name = 0 /\ NullNode.value = 0
  BY DEF NullNode, Node, NULL
<1>5. /\ node_list' \in [Index -> Node]
      /\ \A j \in Index : node_list'[j] = NullNode \/ \E k \in Index : node_list'[j] = node_list[k]
  BY <1>1, <1>2, <1>3, <1>4 DEF StoreInv, StoreType
<1>6. \A j \in InRange' : \E k \in InRange : node_list'[j] = node_list[k]
  <2> SUFFICES ASSUME NEW j \in InRange'
               PROVE  \E k \in InRange : node_list'[j] = node_list[k]
    OBVIOUS
  <2>1. j \in InRange /\ j < node_list_used - 1
    BY <1>1 DEF Removes, InRange
  <2> QED
    BY <1>1, <1>2, <1>3, <2>1 DEF StoreInv, StoreType
<1>7. freed' \subseteq 1 .. brk /\ freed' \subseteq Ptr /\ freed \subseteq freed'
  <2>1. node_list[i].name \in Ptr /\ node_list[i].value \in Ptr
    BY <1>1 DEF Removes, Valid, Node
  <2>2. node_list[i].name \in 1 .. brk /\ node_list[i].value \in 1 .. brk
    BY <1>1, <2>1 DEF StoreInv, StoreType, NodeInv, Ptr
  <2> QED
    BY <2>1, <2>2 DEF Removes, Frees, StoreInv, StoreType, NodeInv
<1>8. StoreType'
  <2>1. node_list_used' \in 0 .. NodeListSize
    BY <1>1 DEF Removes
  <2>2. mem' \in [Ptr -> {0} \union Names \union Values] /\ size' \in [Ptr -> Nat]
    BY FreesKeeps DEF Removes, StoreInv
  <2> QED
    BY <1>5, <1>7, <2>1, <2>2 DEF Removes, StoreInv, StoreType
<1>9. NodeInv'
  <2>1. \A j \in Index : node_list'[j].name \in 0 .. brk /\ node_list'[j].value \in 0 .. brk
    BY <1>4, <1>5 DEF StoreInv, StoreType, NodeInv
  <2>2. \A j \in InRange' : node_list'[j].name # NULL /\ node_list'[j].value # NULL
    BY <1>6 DEF StoreInv, NodeInv
  <2>3. \A j, l \in Index : node_list'[j].name # NULL => node_list'[j].name # node_list'[l].value
    BY <1>4, <1>5 DEF StoreInv, NodeInv, NULL
  <2>4. \A j, l \in Index :
          node_list'[j].value # NULL /\ node_list'[j].value = node_list'[l].value =>
            /\ node_list'[j].name = node_list'[l].name
            /\ node_list'[j].vlen = node_list'[l].vlen
    BY <1>4, <1>5 DEF StoreInv, NodeInv, NULL
  <2> QED
    BY <1>7, <2>1, <2>2, <2>3, <2>4 DEF NodeInv, Removes
<1>10. ValueFits' /\ PairsStored'
  <2>1. \A j \in Index : Valid(node_list[j].value)' \/ Valid(node_list[j].name)' =>
          \E k \in Index : node_list'[j] = node_list[k]
    BY <1>4, <1>5 DEF Valid, NULL
  <2>2. ASSUME NEW k \in Index
        PROVE  /\ Valid(node_list[k].name) \/ node_list[k].name = 0 \/ node_list[k].name \in freed'
               /\ Valid(node_list[k].value) \/ node_list[k].value = 0 \/ node_list[k].value \in freed'
               /\ node_list[k].name # 0 /\ node_list[k].name \notin freed' =>
                    mem'[node_list[k].name] = mem[node_list[k].name]
               /\ node_list[k].value # 0 /\ node_list[k].value \notin freed' =>
                    mem'[node_list[k].value] = mem[node_list[k].value]
    <3>1. node_list[k].name \in Ptr \union {0} /\ node_list[k].value \in Ptr \union {0}
      BY <1>1 DEF Node, NULL
    <3>2. \A q \in Ptr \ freed' : mem'[q] = mem[q]
      BY FreesKeeps DEF Removes, StoreInv
    <3> QED
      BY <1>7, <3>1, <3>2 DEF Valid, NULL
  <2>3. ValueFits'
    BY <2>1, <2>2 DEF StoreInv, ValueFits, Valid, NULL
  <2>4. PairsStored'
    BY <2>1, <2>2 DEF StoreInv, PairsStored, Removes, Valid, NULL
  <2> QED
    BY <2>3, <2>4
<1> QED
  BY <1>8, <1>9, <1>10 DEF StoreInv

(* Giving the store back keeps StoreInv. *)
LEMMA DeletesKeeps ==
  ASSUME StoreInv, Deletes
  PROVE  StoreInv'
<1> USE DEF listVars, history
<1>1. \A p \in Strings(Cleaned) : p \in 1 .. brk /\ p \in Ptr
  <2> SUFFICES ASSUME NEW p \in Strings(Cleaned)
               PROVE  p \in 1 .. brk /\ p \in Ptr
    OBVIOUS
  <2>1. p # NULL
    BY DEF Deletes, Valid
  <2>2. PICK i \in Index : p = node_list[i].name \/ p = node_list[i].value
    BY DEF Strings, Cleaned
  <2> QED
    BY <2>1, <2>2, NvramAssumption DEF StoreInv, StoreType, NodeInv, NULL, Ptr
<1>2. freed' \subseteq 1 .. brk /\ freed' \subseteq Ptr /\ freed \subseteq freed'
  BY <1>1 DEF Deletes, Frees, StoreInv, StoreType, NodeInv
<1>3. StoreType' /\ NodeInv'
  <2>1. mem' \in [Ptr -> {0} \union Names \union Values] /\ size' \in [Ptr -> Nat]
    BY FreesKeeps DEF Deletes, StoreInv
  <2> QED
    BY <1>2, <2>1 DEF Deletes, StoreInv, StoreType, NodeInv, InRange
<1>4. ValueFits' /\ PairsStored'
  <2>1. \A k \in Index : /\ node_list[k].name \in Ptr \union {0}
                          /\ node_list[k].value \in Ptr \union {0}
    BY DEF StoreInv, StoreType, Node, NULL
  <2>2. \A q \in Ptr \ freed' : mem'[q] = mem[q]
    BY FreesKeeps DEF Deletes, StoreInv
  <2>3. node_list' = node_list /\ stored' = stored
    BY DEF Deletes
  <2> QED
    BY <1>2, <2>1, <2>2, <2>3 DEF StoreInv, ValueFits, PairsStored, Valid, NULL
<1> QED
  BY <1>3, <1>4 DEF StoreInv

(* An empty store has StoreInv. *)
LEMMA CreatesKeeps ==
  ASSUME StoreInv, Creates
  PROVE  StoreInv'
<1> USE NvramAssumption DEF heapVars
<1>1. NullNode \in Node /\ NullNode.name = 0 /\ NullNode.value = 0
  BY DEF NullNode, Node, NULL
<1>2. \A i \in Index : node_list'[i] = NullNode
  BY DEF Creates
<1>3. StoreType'
  <2>1. old' \subseteq Ptr
    BY DEF Creates, Live, StoreInv, StoreType, Ptr
  <2> QED
    BY <1>1, <2>1 DEF Creates, StoreInv, StoreType
<1>4. NodeInv'
  <2>1. brk' \in Nat /\ brk' = brk /\ freed' = freed /\ InRange' = {}
    BY DEF Creates, StoreInv, StoreType, InRange
  <2> QED
    BY <1>1, <1>2, <2>1 DEF StoreInv, NodeInv, NULL
<1>5. ValueFits' /\ PairsStored'
  BY <1>1, <1>2 DEF ValueFits, PairsStored, Valid, NULL
<1> QED
  BY <1>3, <1>4, <1>5 DEF StoreInv

(* A set that fails keeps StoreInv: no node points to the wasted block. *)
LEMMA WastesKeeps ==
  ASSUME StoreInv, Wastes
  PROVE  StoreInv'
<1> USE NvramAssumption DEF listVars, history
<1>1. /\ brk \in Nat /\ brk' = brk + 1 /\ brk' \in 0 .. MaxAlloc /\ brk + 1 \in Ptr
      /\ freed' = freed \union {brk + 1}
      /\ UNCHANGED <<node_list, node_list_used, total_space_used, mem, size, old, stored, unset_seen>>
  BY DEF Wastes, StoreInv, StoreType, Ptr
<1>2. StoreType'
  BY <1>1 DEF StoreInv, StoreType
<1>3. NodeInv'
  BY <1>1 DEF StoreInv, NodeInv, InRange
<1>4. ValueFits' /\ PairsStored'
  BY <1>1 DEF StoreInv, ValueFits, PairsStored, Valid
<1> QED
  BY <1>2, <1>3, <1>4 DEF StoreInv

(* Every step of every operation keeps StoreInv. *)
LEMMA StoreStep == IndInv /\ [Next]_vars => StoreInv'
<1> SUFFICES ASSUME IndInv, [Next]_vars
             PROVE  StoreInv'
  OBVIOUS
<1>0. StoreInv
  BY DEF IndInv, TypeOK, StoreInv, StoreType
<1>1. CASE Quiet
  BY <1>0, <1>1 DEF Quiet, listVars, heapVars, history, StoreInv, StoreType, NodeInv, ValueFits,
                    PairsStored, InRange, Valid
<1> QED
  BY <1>0, <1>1, PlacesKeeps, OverwritesKeeps, ReplacesKeeps, RemovesKeeps, DeletesKeeps,
     CreatesKeeps, WastesKeeps, StoreSteps

-----------------------------------------------------------------------------
(* The holder and its search *)

LocalType ==
  /\ nvram_mutex \in Threads \union {NoThread}
  /\ this_nvram \in BOOLEAN
  /\ phase \in {"unlocked", "entry", "find", "found", "unlock", "undefined"}
  /\ find \in [bottom : Nat, upper : Int, middle : Nat, equal : BOOLEAN]
  /\ first \in {-1} \union Index
  /\ ret \in {"OK", "FAIL", "ONE"}
  /\ ub \in BOOLEAN

LocalInv == LocalType /\ HolderInv /\ FindInv /\ GetReturnsStored

(* The lists that the callers hand over are non-empty lists of entries. *)
LEMMA RequestsTyped ==
  ASSUME NEW op \in Ops, NEW list \in Requests(op)
  PROVE  list \in Seq(Entries) /\ list # <<>>
<1> USE NvramAssumption
<1>1. \A n \in Names, v \in Values : SetEntry(n, v) \in Entries
  BY DEF SetEntry, Entries, Kinds
<1>2. \A n \in Names : UnsetEntry(n) \in Entries
  BY DEF UnsetEntry, Entries, Kinds, NULL
<1>3. Changes \subseteq Entries
  BY <1>1, <1>2 DEF Changes
<1>4. \A n \in Names : [kind |-> "get", name |-> n, arg |-> NULL] \in Entries
  BY DEF Entries, Kinds, NULL
<1>5. \A n, m \in Names : [kind |-> "match", name |-> n, arg |-> m] \in Entries
  BY DEF Entries, Kinds
<1>6. \A n \in Names, v \in Values : [kind |-> "match_value", name |-> n, arg |-> v] \in Entries
  BY DEF Entries, Kinds
<1>7. \A e \in Entries : <<e>> \in Seq(Entries) /\ <<e>> # <<>>
  OBVIOUS
<1>8. CASE op = "batch"
  <2>1. PICK k \in 2 .. MaxBatch : list \in [1 .. k -> Changes]
    BY <1>8 DEF Requests
  <2>2. list \in Seq(Entries)
    BY <1>3, <2>1
  <2>3. Len(list) = k /\ k > 0
    BY <2>1, <2>2
  <2> QED
    BY <2>2, <2>3
<1>9. CASE op # "batch"
  <2>1. \E e \in Entries : list = <<e>>
    BY <1>1, <1>2, <1>4, <1>5, <1>6, <1>9 DEF Requests, AllOps
  <2> QED
    BY <1>7, <2>1
<1> QED
  BY <1>8, <1>9

(* When an entry is done the search is put away and the list gets shorter. *)
LEMMA DoneLocals ==
  ASSUME IndInv, phase \in Searching, NEW r \in {"OK", "FAIL", "ONE"}, EntryDone(r),
         nvram_mutex' = nvram_mutex, this_nvram' = this_nvram, ub' = ub
  PROVE  LocalType' /\ HolderInv' /\ FindInv'
<1>1. todo \in Seq(Entries) /\ todo # <<>> /\ this_nvram
  BY DEF IndInv, HolderInv, Searching
<1>2. Tail(todo) \in Seq(Entries) /\ Len(Tail(todo)) = Len(todo) - 1 /\ Len(todo) \in Nat
  BY <1>1, HeadTailProperties, LenProperties
<1>3. todo' \in Seq(Entries) /\ phase' \in {"entry", "unlock"}
  BY <1>2 DEF EntryDone
<1>4. phase' = "entry" => todo' # <<>>
  <2>1. phase' = "entry" => todo' = Tail(todo) /\ Len(todo) > 1
    BY DEF EntryDone
  <2>2. Len(Tail(todo)) = 0 <=> Tail(todo) = <<>>
    BY <1>2, EmptySeq
  <2>3. Len(todo) > 1 => Tail(todo) # <<>>
    BY <1>2, <2>2
  <2> QED
    BY <2>1, <2>3
<1>5. first' = -1 /\ find' = NoFind /\ ret' \in {"OK", "FAIL", "ONE"}
  BY DEF EntryDone
<1>6. NoFind \in [bottom : Nat, upper : Int, middle : Nat, equal : BOOLEAN]
  BY DEF NoFind
<1>7. LocalType'
  BY <1>3, <1>5, <1>6 DEF LocalType, IndInv, TypeOK
<1>8. HolderInv'
  BY <1>1, <1>3, <1>4, <1>5 DEF HolderInv, Searching
<1>9. FindInv'
  BY <1>3, <1>5 DEF FindInv
<1> QED
  BY <1>7, <1>8, <1>9

(* A step that only moves the holder on. *)
LEMMA StopLocals ==
  ASSUME IndInv, Undefined, this_nvram
  PROVE  LocalInv'
<1> USE DEF listVars, heapVars, history, Undefined
<1>1. LocalType' /\ HolderInv'
  BY DEF IndInv, TypeOK, LocalType, HolderInv, Searching
<1>2. FindInv' /\ GetReturnsStored'
  BY DEF IndInv, FindInv, GetReturnsStored, InRange
<1> QED
  BY <1>1, <1>2 DEF LocalInv

(* find_nvram_entry_position(): the interval stays inside the nodes in use *)
(* and equal is only set at a node with the name.                          *)
LEMMA FindLocals ==
  ASSUME IndInv, Find
  PROVE  LocalInv'
<1> USE NvramAssumption DEF listVars, heapVars, history
<1>0. this_nvram /\ phase \in Searching
  BY DEF IndInv, HolderInv, Find, find_start, find_iterate, find_return, Searching
<1>1. CASE find_start
  <2>1. node_list_used \in Nat /\ node_list_used \div 2 \in 0 .. node_list_used
    BY DEF IndInv, TypeOK
  <2>2. find' \in [bottom : Nat, upper : Int, middle : Nat, equal : BOOLEAN]
    BY <1>1, <2>1 DEF find_start, WholeInterval
  <2>3. LocalType' /\ HolderInv' /\ GetReturnsStored'
    BY <1>1, <2>2 DEF find_start, IndInv, TypeOK, LocalType, HolderInv, Searching, GetReturnsStored
  <2>4. FindInv'
    BY <1>1, <2>1 DEF find_start, WholeInterval, IndInv, FindInv, InRange, Searching
  <2> QED
    BY <2>3, <2>4 DEF LocalInv
<1>2. CASE find_return
  <2>1. LocalType' /\ HolderInv' /\ GetReturnsStored'
    BY <1>2 DEF find_return, IndInv, TypeOK, LocalType, HolderInv, Searching, GetReturnsStored
  <2>2. FindInv'
    BY <1>2 DEF find_return, IndInv, FindInv, InRange, Valid, Key
  <2> QED
    BY <2>1, <2>2 DEF LocalInv
<1>3. CASE find_iterate
  <2> DEFINE middle == (find.bottom + find.upper) \div 2
             np     == node_list[middle]
             name   == mem[np.name]
  <2>1. /\ find.bottom \in Nat /\ find.upper \in Int /\ find.bottom < find.upper
        /\ find.upper <= node_list_used /\ node_list_used \in Nat /\ ~find.equal
        /\ find \in [bottom : Nat, upper : Int, middle : Nat, equal : BOOLEAN]
        /\ node_list_used <= NodeListSize
    BY <1>3 DEF find_iterate, IndInv, TypeOK, FindInv
  <2>2. middle \in Nat /\ middle < node_list_used /\ middle \in InRange
    BY <2>1 DEF InRange
  <2>3. CASE Valid(np.name)
    <3>1. name \in Nat /\ Key \in Nat
      <4>1. np \in Node
        BY <2>1, <2>2 DEF IndInv, TypeOK, Index
      <4>2. np.name \in Ptr
        BY <4>1, <2>3 DEF Node, Valid
      <4> HIDE DEF np
      <4>3. name \in {0} \union Names \union Values
        BY <4>2 DEF IndInv, TypeOK
      <4>4. Key \in Names
        BY <1>0, HeadEntry
      <4> HIDE DEF name
      <4> QED
        BY <4>3, <4>4
    <3>2. find' = Narrowed(middle, name)
          /\ UNCHANGED <<nvram_mutex, this_nvram, listVars, heapVars, todo, phase, first, ret, got,
                         history, ub>>
      BY <1>3, <2>3 DEF find_iterate
    <3> HIDE DEF middle, np, name
    <3>3. /\ find' \in [bottom : Nat, upper : Int, middle : Nat, equal : BOOLEAN]
          /\ find'.middle = middle /\ find'.upper <= node_list_used
          /\ find'.equal => name = Key
      <4>1. CASE name = Key
        <5>1. find' = [find EXCEPT !.middle = middle, !.equal = TRUE]
          BY <3>1, <3>2, <4>1 DEF Narrowed
        <5> QED
          BY <2>1, <2>2, <4>1, <5>1
      <4>2. CASE name < Key
        <5>1. find' = [find EXCEPT !.middle = middle, !.bottom = middle + 1]
          BY <3>1, <3>2, <4>2 DEF Narrowed
        <5>2. find' \in [bottom : Nat, upper : Int, middle : Nat, equal : BOOLEAN]
          <6>1. middle \in Nat /\ middle + 1 \in Nat
            BY <2>2
          <6> QED
            BY <2>1, <5>1, <6>1, Zenon
        <5>3. find'.middle = middle /\ find'.equal = find.equal
          BY <2>1, <5>1
        <5>4. find'.upper <= node_list_used
          BY <2>1, <2>2, <5>1
        <5> QED
          BY <2>1, <5>2, <5>3, <5>4
      <4>3. CASE name > Key
        <5>1. find' = [find EXCEPT !.middle = middle, !.upper = middle - 1]
          BY <3>1, <3>2, <4>3 DEF Narrowed
        <5>2. find' \in [bottom : Nat, upper : Int, middle : Nat, equal : BOOLEAN]
          <6>1. middle \in Nat /\ middle - 1 \in Int
            BY <2>2
          <6> QED
            BY <2>1, <5>1, <6>1, Zenon
        <5>3. find'.middle = middle /\ find'.equal = find.equal
          BY <2>1, <5>1
        <5>4. find'.upper <= node_list_used
          BY <2>1, <2>2, <5>1
        <5> QED
          BY <2>1, <5>2, <5>3, <5>4
      <4> QED
        BY <3>1, <4>1, <4>2, <4>3
    <3>4. LocalType' /\ HolderInv' /\ GetReturnsStored'
      BY <3>2, <3>3 DEF IndInv, TypeOK, LocalType, HolderInv, GetReturnsStored
    <3>5. InRange' = InRange /\ Key' = Key /\ Valid(node_list[middle].name)
          /\ UNCHANGED <<node_list, mem, freed, first, node_list_used>>
      BY <2>3, <3>2 DEF InRange, Key, np
    <3>6. middle \in 0 .. node_list_used
      BY <2>1, <2>2
    <3>7. FindInv'
      BY <2>2, <3>3, <3>5, <3>6 DEF IndInv, FindInv, Valid, name, np
    <3> QED
      BY <3>4, <3>7 DEF LocalInv
  <2>4. CASE ~Valid(np.name)
    BY <1>0, <1>3, <2>4, StopLocals DEF find_iterate
  <2> QED
    BY <2>3, <2>4
<1> QED
  BY <1>1, <1>2, <1>3 DEF Find

(* nvram_set_entry() and nvram_unset_entry() *)
LEMMA ChangeLocals ==
  ASSUME IndInv, Set \/ Unset
  PROVE  LocalInv'
<1> USE DEF listVars, heapVars, history
<1>1. phase \in Searching /\ this_nvram
  BY DEF Set, set_first_entry, set_no_memory, set_half_memory, MakesNode, set_in_place,
         set_replace, set_full, set_insert, Unset, unset_entry, unset_missing, Found, Missing, Searching, IndInv, HolderInv
<1>2. \/ Undefined
      \/ \E r \in {"OK", "FAIL", "ONE"} :
           /\ EntryDone(r)
           /\ UNCHANGED <<nvram_mutex, this_nvram, got, ub>>
           /\ stored \subseteq stored'
  BY DEF Set, set_first_entry, set_no_memory, set_half_memory, set_in_place, set_replace, set_full,
         set_insert, Unset, unset_entry, unset_missing, PlaceNode, Fail
<1> QED
  BY <1>1, <1>2, DoneLocals, StopLocals DEF LocalInv, IndInv, GetReturnsStored

(* nvram_get_entry_value(), nvram_match_entry(), nvram_match_entry_value(): *)
(* a get returns the pair of the node that was found.                      *)
LEMMA ReadLocals ==
  ASSUME IndInv, Read
  PROVE  LocalInv'
<1> USE NvramAssumption DEF listVars, heapVars, history
<1>1. phase \in Searching /\ this_nvram
  BY DEF Read, get_entry_value, get_missing, match_first, match_entry, match_missing,
         match_entry_value, match_value_missing, Found, Missing, Searching, IndInv, HolderInv
<1>2. CASE get_entry_value
  <2> DEFINE np == node_list[find.middle]
  <2>1. CASE ~Valid(np.value)
    BY <1>1, <1>2, <2>1, StopLocals DEF get_entry_value
  <2>2. CASE Valid(np.value)
    <3>1. PICK r \in {"OK", "FAIL"} :
            /\ EntryDone(r)
            /\ got' = IF r = "OK" THEN <<Head(todo).name, mem[np.value]>> ELSE <<>>
      BY <1>2, <2>2 DEF get_entry_value
    <3>2. UNCHANGED <<nvram_mutex, this_nvram, listVars, heapVars, history, ub>>
      BY <1>2, <2>2 DEF get_entry_value
    <3>3. Found("get") /\ find.middle \in InRange /\ Valid(np.name) /\ mem[np.name] = Key
      BY <1>2 DEF get_entry_value, Found, IndInv, FindInv
    <3>4. first = -1
      BY <3>3 DEF Found, IndInv, HolderInv
    <3>5. <<Head(todo).name, mem[np.value]>> \in stored
      <4>1. find.middle \in Index
        BY <3>3 DEF IndInv, TypeOK, InRange, Index
      <4>2. mem[np.name] = Head(todo).name
        BY <3>3, <3>4 DEF Key
      <4> QED
        BY <2>2, <3>3, <4>1, <4>2 DEF IndInv, PairsStored
    <3>6. GetReturnsStored'
      BY <3>1, <3>2, <3>5 DEF GetReturnsStored
    <3> QED
      BY <1>1, <3>1, <3>2, <3>6, DoneLocals DEF LocalInv
  <2> QED
    BY <2>1, <2>2
<1>3. CASE match_first
  <2>1. find.middle \in InRange /\ first = -1 /\ Head(todo).kind = "match"
    BY <1>3 DEF match_first, Found, IndInv, FindInv
  <2>2. find.middle \in Index
    BY <2>1 DEF IndInv, TypeOK, InRange, Index
  <2>3. LocalType' /\ HolderInv' /\ GetReturnsStored'
    BY <1>1, <1>3, <2>1, <2>2 DEF match_first, IndInv, TypeOK, LocalType, HolderInv, Searching,
                                  GetReturnsStored
  <2>4. FindInv'
    BY <1>3, <2>1 DEF match_first, IndInv, FindInv, InRange
  <2> QED
    BY <2>3, <2>4 DEF LocalInv
<1>4. CASE \/ get_missing \/ match_entry \/ match_missing
           \/ match_entry_value \/ match_value_missing
  <2>1. \/ Undefined
        \/ \E r \in {"OK", "FAIL", "ONE"} :
             EntryDone(r) /\ UNCHANGED <<nvram_mutex, this_nvram, got, stored, ub>>
    BY <1>4 DEF get_missing, match_entry, match_missing, match_entry_value, match_value_missing,
                Compare, Fail
  <2> QED
    BY <1>1, <2>1, DoneLocals, StopLocals DEF LocalInv, IndInv, GetReturnsStored
<1> QED
  BY <1>2, <1>3, <1>4 DEF Read

(* Every step keeps LocalInv. *)
LEMMA LocalStep == IndInv /\ [Next]_vars => LocalInv'
<1> SUFFICES ASSUME IndInv, [Next]_vars
             PROVE  LocalInv'
  OBVIOUS
<1> USE NvramAssumption DEF listVars, heapVars, history, callVars
<1>1. ASSUME NEW t \in Threads, lock_nvram_mutex(t)
      PROVE  LocalInv'
  <2>1. todo' \in Seq(Entries) /\ todo' # <<>>
    BY <1>1, RequestsTyped DEF lock_nvram_mutex
  <2>2. first = -1
    BY <1>1 DEF lock_nvram_mutex, IndInv, HolderInv, Searching
  <2>3. LocalType' /\ HolderInv'
    BY <1>1, <2>1, <2>2 DEF lock_nvram_mutex, IndInv, TypeOK, LocalType, HolderInv
  <2>4. FindInv' /\ GetReturnsStored'
    BY <1>1, <2>2 DEF lock_nvram_mutex, IndInv, FindInv, GetReturnsStored
  <2> QED
    BY <2>3, <2>4 DEF LocalInv
<1>2. ASSUME NEW t \in Threads, local_nvram_del(t)
      PROVE  LocalInv'
  <2>1. CASE Undefined
    BY <1>2, <2>1, StopLocals DEF local_nvram_del
  <2>2. CASE ~Undefined
    <3>1. LocalType' /\ HolderInv'
      BY <1>2, <2>2 DEF local_nvram_del, IndInv, TypeOK, LocalType, HolderInv
    <3>2. FindInv' /\ GetReturnsStored'
      BY <1>2, <2>2 DEF local_nvram_del, IndInv, FindInv, GetReturnsStored, InRange
    <3> QED
      BY <3>1, <3>2 DEF LocalInv
  <2> QED
    BY <2>1, <2>2
<1>3. CASE local_nvram_new
  <2>1. first = -1 /\ got = <<>>
    BY <1>3 DEF local_nvram_new, IndInv, HolderInv, Searching
  <2>2. LocalType' /\ HolderInv'
    BY <1>3 DEF local_nvram_new, IndInv, TypeOK, LocalType, HolderInv
  <2>3. FindInv' /\ GetReturnsStored'
    BY <1>3, <2>1 DEF local_nvram_new, FindInv, GetReturnsStored
  <2> QED
    BY <2>2, <2>3 DEF LocalInv
<1>4. CASE unlock_nvram_mutex
  <2>1. first = -1
    BY <1>4 DEF unlock_nvram_mutex, IndInv, HolderInv, Searching
  <2>2. LocalType' /\ HolderInv'
    BY <1>4, <2>1 DEF unlock_nvram_mutex, IndInv, TypeOK, LocalType, HolderInv, Searching
  <2>3. FindInv' /\ GetReturnsStored'
    BY <1>4, <2>1 DEF unlock_nvram_mutex, FindInv, GetReturnsStored
  <2> QED
    BY <2>2, <2>3 DEF LocalInv
<1>5. CASE UNCHANGED vars
  <2>1. LocalType' /\ HolderInv' /\ GetReturnsStored'
    BY <1>5 DEF vars, IndInv, TypeOK, LocalType, HolderInv, GetReturnsStored
  <2>2. FindInv'
    BY <1>5 DEF vars, IndInv, FindInv, InRange, Valid, Key
  <2> QED
    BY <2>1, <2>2 DEF LocalInv
<1> QED
  BY <1>1, <1>2, <1>3, <1>4, <1>5, FindLocals, ChangeLocals, ReadLocals DEF Next, HolderStep

-----------------------------------------------------------------------------
(* The invariant and the theorems *)

(* A new store satisfies the invariant: no node is used, no call is on.    *)
LEMMA InitInv == Init => IndInv
<1> SUFFICES ASSUME Init
             PROVE  IndInv
  OBVIOUS
<1> USE NvramAssumption DEF Init
<1>1. NullNode \in Node /\ NullNode.name = 0 /\ NullNode.value = 0
  BY DEF NullNode, Node, NULL
<1>2. NoFind \in [bottom : Nat, upper : Int, middle : Nat, equal : BOOLEAN]
  BY DEF NoFind
<1>3. TypeOK
  <2>1. /\ node_list \in [Index -> Node]
        /\ mem \in [Ptr -> {0} \union Names \union Values]
        /\ size \in [Ptr -> Nat]
    BY <1>1
  <2>2. /\ node_list_used \in 0 .. NodeListSize /\ brk \in 0 .. MaxAlloc
        /\ total_space_used \in Int
    OBVIOUS
  <2>3. /\ nvram_mutex \in Threads \union {NoThread} /\ first \in {-1} \union Index
        /\ freed \subseteq Ptr /\ old \subseteq Ptr /\ stored \subseteq Names \X Values
    OBVIOUS
  <2> QED
    BY <1>2, <2>1, <2>2, <2>3 DEF TypeOK
<1>4. HolderInv /\ FindInv /\ GetReturnsStored
  BY DEF HolderInv, FindInv, GetReturnsStored, Searching
<1>5. \A i \in Index : node_list[i].name = 0 /\ node_list[i].value = 0
  BY <1>1
<1>6. InRange = {} /\ 0 \in 0 .. brk
  BY DEF InRange
<1>7. NodeInv
  BY <1>5, <1>6 DEF NodeInv, NULL
<1>8. ValueFits /\ PairsStored
  BY <1>5 DEF ValueFits, PairsStored, Valid, NULL
<1> QED
  BY <1>3, <1>4, <1>7, <1>8 DEF IndInv

(* Every step of nvram.c keeps it: the store by StoreStep, the locals of   *)
(* the call by LocalStep.                                                  *)
LEMMA StepInv == IndInv /\ [Next]_vars => IndInv'
<1>1. StoreInv' /\ LocalInv' => IndInv'
  BY DEF StoreInv, StoreType, LocalInv, LocalType, IndInv, TypeOK
<1> QED
  BY <1>1, StoreStep, LocalStep

(* IndInv holds in every reachable state. *)
LEMMA Invariant == Spec => []IndInv
BY InitInv, StepInv, PTL DEF Spec

(* nvram.c: the store, the heap and the locals of every operation keep     *)
(* their types, whatever the names, the values and the sizes.              *)
THEOREM TypesCorrect == Spec => []TypeOK
<1>1. IndInv => TypeOK
  BY DEF IndInv
<1> QED
  BY <1>1, Invariant, PTL

(* nvram.c: no sequence of sets, unsets, reads, deletions of the store and *)
(* failed allocations makes the bisection leave the nodes in use or a      *)
(* value outgrow its block.                                                *)
THEOREM AlwaysMemorySafe == Spec => []MemorySafe
<1>1. IndInv => MemorySafe
  <2> SUFFICES ASSUME IndInv
               PROVE  MemorySafe
    OBVIOUS
  <2>1. phase = "find" /\ ~find.equal /\ find.bottom < find.upper =>
          (find.bottom + find.upper) \div 2 \in InRange
    <3> SUFFICES ASSUME phase = "find", find.bottom < find.upper
                 PROVE  (find.bottom + find.upper) \div 2 \in InRange
      OBVIOUS
    <3>1. /\ find.bottom \in Nat /\ find.upper \in Int /\ find.upper <= node_list_used
          /\ node_list_used \in Nat
      BY NvramAssumption DEF IndInv, TypeOK, FindInv
    <3> QED
      BY <3>1 DEF InRange
  <2>2. SearchInRange
    BY <2>1 DEF IndInv, FindInv, NodeInv, SearchInRange
  <2> QED
    BY <2>2 DEF IndInv, MemorySafe
<1> QED
  BY <1>1, Invariant, PTL

(* nvram.c, nvram_get_entry_value(): what a get returns was set under that *)
(* name, also through the nodes that unset copied.                         *)
THEOREM GetsAreStored == Spec => []GetReturnsStored
<1>1. IndInv => GetReturnsStored
  BY DEF IndInv
<1> QED
  BY <1>1, Invariant, PTL

(* nvram.c, nvram_set_entry(): the step that inserts a node moves the ones *)
(* after it up by one and loses none.                                      *)
THEOREM InsertsKeepNodes == Spec => InsertKeepsNodes
<1> DEFINE Kept == node_list_used' > node_list_used =>
                     \E k \in 0 .. node_list_used : \A j \in InRange :
                       node_list'[IF j < k THEN j ELSE j + 1] = node_list[j]
<1>1. IndInv /\ [Next]_vars => Kept
  <2> SUFFICES ASSUME IndInv, [Next]_vars, node_list_used' > node_list_used
               PROVE  \E k \in 0 .. node_list_used : \A j \in InRange :
                        node_list'[IF j < k THEN j ELSE j + 1] = node_list[j]
    OBVIOUS
  <2>0. node_list_used \in Nat /\ InRange \subseteq Index /\ InRange \subseteq Nat
    BY NvramAssumption DEF IndInv, TypeOK, InRange, Index
  <2>1. PICK i \in 0 .. node_list_used, n \in Names, v \in Values : Places(i, n, v)
    <3>1. Quiet \/ Deletes \/ Wastes => node_list_used' = node_list_used
      BY DEF Quiet, Deletes, Wastes, listVars
    <3>2. ASSUME NEW i, NEW n, NEW v, Overwrites(i, n, v) \/ Replaces(i, n, v)
          PROVE  node_list_used' = node_list_used
      BY <3>2 DEF Overwrites, Replaces, listVars
    <3>3. ASSUME NEW i, Removes(i)
          PROVE  node_list_used' = node_list_used - 1
      BY <3>3 DEF Removes
    <3>4. Creates => node_list_used' = 0
      BY DEF Creates
    <3> QED
      BY <2>0, <3>1, <3>2, <3>3, <3>4, StoreSteps
  <2>2. /\ \A j \in Index : j < i => node_list'[j] = node_list[j]
        /\ \A j \in InRange : j >= i => node_list'[j + 1] = node_list[j]
    BY <2>1, InsertedNodes DEF IndInv, TypeOK, StoreType
  <2>3. \A j \in InRange : node_list'[IF j < i THEN j ELSE j + 1] = node_list[j]
    BY <2>0, <2>2
  <2> QED
    BY <2>3
<1>2. IndInv /\ [Next]_vars => [Kept]_vars
  BY <1>1
<1>3. Spec => [][Kept]_vars
  BY <1>2, Invariant, PTL DEF Spec
<1> QED
  BY <1>3 DEF InsertKeepsNodes

-----------------------------------------------------------------------------
(* Who owns the blocks, until an entry is unset *)

OwnInv == RestEmpty /\ BlocksOwned

(* The strings of a set of nodes, one by one. *)
LEMMA StringsOf ==
  ASSUME NEW is, NEW p
  PROVE  p \in Strings(is) <=> \E i \in is : p = node_list[i].name \/ p = node_list[i].value
BY DEF Strings

(* nvram_set_entry(), insertion: the new node owns the two new blocks. *)
LEMMA PlacesOwned ==
  ASSUME IndInv, OwnInv, NEW i \in 0 .. node_list_used, NEW n \in Names, NEW v \in Values,
         Places(i, n, v)
  PROVE  OwnInv'
<1> USE NvramAssumption
<1> SUFFICES ASSUME ~unset_seen
             PROVE  /\ \A j \in Index : j \notin InRange' => node_list'[j] = NullNode
                    /\ (1 .. brk') \ freed' = Strings(InRange)'
                    /\ NoSharing(InRange)'
  BY DEF OwnInv, RestEmpty, BlocksOwned, Live, Places
<1>0. StoreType /\ NodeInv /\ this_nvram
  BY DEF IndInv, TypeOK, StoreType, Places
<1>1. /\ \A j \in Index \ InRange : node_list[j] = NullNode
      /\ (1 .. brk) \ freed = Strings(InRange)
      /\ NoSharing(InRange)
  BY <1>0 DEF OwnInv, RestEmpty, BlocksOwned, Live
<1>2. /\ node_list_used \in Nat /\ node_list_used' = node_list_used + 1 /\ i \in Nat
      /\ InRange \subseteq Index /\ node_list_used < NodeListSize
      /\ i <= node_list_used /\ i \in InRange'
  BY <1>0 DEF StoreType, Places, InRange, Index
<1>3. /\ \A j \in Index : j < i => node_list'[j] = node_list[j]
      /\ node_list'[i] = NewNode(n, v)
      /\ \A j \in InRange : j >= i => node_list'[j + 1] = node_list[j]
      /\ \A j \in Index : j > node_list_used => node_list'[j] = node_list[j]
  BY <1>0, InsertedNodes
<1>4. /\ NewNode(n, v).name = brk + 1 /\ NewNode(n, v).value = brk + 2
      /\ brk \in Nat /\ brk' = brk + 2 /\ freed' = freed
      /\ \A p \in freed : p <= brk
  <2>1. freed \subseteq 1 .. brk /\ freed' = freed
    BY <1>0 DEF NodeInv, Places
  <2> QED
    BY <1>0, <2>1, FreshNode
<1>5. \A j \in Index : j \notin InRange' => node_list'[j] = NullNode
  <2> SUFFICES ASSUME NEW j \in Index, j \notin InRange'
               PROVE  node_list'[j] = NullNode
    OBVIOUS
  <2>1. j > node_list_used /\ j \notin InRange
    BY <1>2 DEF InRange, Index
  <2> QED
    BY <1>1, <1>3, <2>1
<1> DEFINE To(j) == IF j < i THEN j ELSE j + 1
<1>6. ASSUME NEW j \in InRange
      PROVE  To(j) \in InRange' /\ To(j) # i /\ node_list'[To(j)] = node_list[j]
  <2>1. j \in Index /\ j \in Nat
    BY <1>2 DEF InRange
  <2>2. To(j) \in InRange' /\ To(j) # i
    BY <1>2, <2>1 DEF InRange
  <2>3. node_list'[To(j)] = node_list[j]
    BY <1>2, <1>3, <2>1
  <2> QED
    BY <2>2, <2>3
<1>7. ASSUME NEW j \in InRange', j # i
      PROVE  \E k \in InRange : j = To(k)
  <2>1. CASE j < i
    BY <1>2, <1>7, <2>1 DEF InRange
  <2>2. CASE j > i
    <3>1. j - 1 \in InRange /\ To(j - 1) = j
      BY <1>2, <1>7, <2>2 DEF InRange
    <3> QED
      BY <3>1
  <2> QED
    BY <1>2, <1>7, <2>1, <2>2 DEF InRange
<1> HIDE DEF To
<1>8. \A j \in InRange : node_list[j].name \in 1 .. brk /\ node_list[j].value \in 1 .. brk
  <2>1. \A j \in InRange : node_list[j].name \in 0 .. brk /\ node_list[j].value \in 0 .. brk
                           /\ node_list[j].name # 0 /\ node_list[j].value # 0
    BY <1>0, <1>2 DEF NodeInv, NULL
  <2> QED
    BY <1>4, <2>1
<1>9. (1 .. brk') \ freed' = Strings(InRange)'
  <2>1. (1 .. brk') \ freed' = ((1 .. brk) \ freed) \union {brk + 1, brk + 2}
    BY <1>4
  <2>2. ASSUME NEW p
        PROVE  p \in Strings(InRange)' <=> p \in Strings(InRange) \/ p = brk + 1 \/ p = brk + 2
    <3>1. p \in Strings(InRange)' <=>
            \E j \in InRange' : p = node_list'[j].name \/ p = node_list'[j].value
      BY DEF Strings
    <3>2. p \in Strings(InRange) <=>
            \E j \in InRange : p = node_list[j].name \/ p = node_list[j].value
      BY StringsOf
    <3>3. ASSUME NEW j \in InRange', p = node_list'[j].name \/ p = node_list'[j].value
          PROVE  p \in Strings(InRange) \/ p = brk + 1 \/ p = brk + 2
      BY <1>3, <1>4, <1>6, <1>7, <3>2, <3>3
    <3>4. ASSUME NEW j \in InRange, p = node_list[j].name \/ p = node_list[j].value
          PROVE  p \in Strings(InRange)'
      BY <1>6, <3>1, <3>4
    <3>5. p = brk + 1 \/ p = brk + 2 => p \in Strings(InRange)'
      BY <1>2, <1>3, <1>4, <3>1
    <3> QED
      BY <3>1, <3>2, <3>3, <3>4, <3>5
  <2> QED
    BY <1>1, <2>1, <2>2
<1>10. NoSharing(InRange)'
  <2> SUFFICES ASSUME NEW j \in InRange', NEW l \in InRange', j # l
               PROVE  /\ node_list'[j].name # node_list'[l].name
                      /\ node_list'[j].value # node_list'[l].value
    BY DEF NoSharing
  <2>1. brk + 1 \notin 1 .. brk /\ brk + 2 \notin 1 .. brk
    BY <1>4
  <2>2. CASE j = i
    BY <1>3, <1>4, <1>6, <1>7, <1>8, <2>1, <2>2
  <2>3. CASE l = i
    BY <1>3, <1>4, <1>6, <1>7, <1>8, <2>1, <2>3
  <2>4. CASE j # i /\ l # i
    <3>1. PICK k \in InRange : j = To(k)
      BY <1>7, <2>4
    <3>2. PICK m \in InRange : l = To(m)
      BY <1>7, <2>4
    <3> QED
      BY <1>1, <1>6, <3>1, <3>2 DEF NoSharing
  <2> QED
    BY <2>2, <2>3, <2>4
<1> QED
  BY <1>5, <1>9, <1>10

(* nvram_set_entry(), replacement: the old block was this node's only. *)
LEMMA ReplacesOwned ==
  ASSUME IndInv, OwnInv, NEW i \in InRange, NEW n, NEW v \in Values, Replaces(i, n, v)
  PROVE  OwnInv'
<1> USE NvramAssumption
<1> DEFINE b == brk + 1
           p == node_list[i].value
<1> SUFFICES ASSUME ~unset_seen
             PROVE  /\ \A j \in Index : j \notin InRange' => node_list'[j] = NullNode
                    /\ (1 .. brk') \ freed' = Strings(InRange)'
                    /\ NoSharing(InRange)'
  BY DEF OwnInv, RestEmpty, BlocksOwned, Live, Replaces
<1>0. this_nvram /\ InRange' = InRange /\ InRange \subseteq Index /\ i \in Index
  <2> HIDE DEF b, p
  <2>1. this_nvram /\ node_list_used' = node_list_used
    BY DEF Replaces
  <2>2. node_list_used \in 0 .. NodeListSize
    BY DEF IndInv, TypeOK
  <2> QED
    BY <2>1, <2>2 DEF InRange, Index
<1>1. /\ \A j \in Index \ InRange : node_list[j] = NullNode
      /\ (1 .. brk) \ freed = Strings(InRange)
      /\ NoSharing(InRange)
  BY <1>0 DEF OwnInv, RestEmpty, BlocksOwned, Live
<1>2. /\ node_list'[i].name = node_list[i].name /\ node_list'[i].value = b
      /\ \A j \in Index \ {i} : node_list'[j] = node_list[j]
  BY <1>0 DEF Replaces, IndInv, TypeOK, Node
<1>3. /\ brk \in Nat /\ brk' = b /\ freed' = freed \union {p}
      /\ freed \subseteq 1 .. brk /\ p \notin freed /\ p \in 1 .. brk
      /\ \A j \in Index : node_list[j].name \in 0 .. brk /\ node_list[j].value \in 0 .. brk
  BY <1>0 DEF Replaces, IndInv, TypeOK, NodeInv, Valid, NULL
<1>4. \A j \in InRange : node_list[j].name # p /\ (j # i => node_list[j].value # p)
  BY <1>0, <1>1 DEF NoSharing, IndInv, NodeInv
<1>5. b \notin 0 .. brk /\ (1 .. b) = (1 .. brk) \union {b} /\ b \notin freed' /\ b # p
  <2>1. b \in Nat /\ b = brk + 1
    BY <1>3 DEF b
  <2>2. b \notin 0 .. brk /\ b \notin 1 .. brk /\ (1 .. b) = (1 .. brk) \union {b}
    BY <1>3, <2>1
  <2> HIDE DEF b, p
  <2> QED
    BY <1>3, <2>2
<1> HIDE DEF b, p
<1>6. (1 .. brk') \ freed' = (((1 .. brk) \ freed) \ {p}) \union {b}
  BY <1>3, <1>5
<1>7. ASSUME NEW q
      PROVE  q \in Strings(InRange)' <=> (q \in Strings(InRange) /\ q # p) \/ q = b
  <2>1. q \in Strings(InRange)' <=>
          \E j \in InRange : q = node_list'[j].name \/ q = node_list'[j].value
    BY <1>0 DEF Strings
  <2>2. q \in Strings(InRange) <=>
          \E j \in InRange : q = node_list[j].name \/ q = node_list[j].value
    BY StringsOf
  <2>3. \A j \in InRange : node_list'[j].name = node_list[j].name
    BY <1>0, <1>2
  <2>4. \A j \in InRange : node_list'[j].value = IF j = i THEN b ELSE node_list[j].value
    BY <1>0, <1>2
  <2>5. \A j \in InRange : node_list[j].name # b /\ node_list[j].value # b
    BY <1>0, <1>3, <1>5
  <2>6. p = node_list[i].value
    BY DEF p
  <2> QED
    BY <1>4, <1>5, <2>1, <2>2, <2>3, <2>4, <2>5, <2>6
<1>8. (1 .. brk') \ freed' = Strings(InRange)'
  BY <1>1, <1>6, <1>7
<1>9. NoSharing(InRange)'
  <2>1. \A j \in InRange : node_list[j].value # b
    BY <1>0, <1>3, <1>5
  <2> QED
    BY <1>0, <1>1, <1>2, <2>1 DEF NoSharing
<1>10. \A j \in Index : j \notin InRange' => node_list'[j] = NullNode
  BY <1>0, <1>1, <1>2
<1> QED
  BY <1>8, <1>9, <1>10

(* local_nvram_del(): the nodes it cleans are the ones in use. *)
LEMMA DeletesOwned ==
  ASSUME IndInv, OwnInv, Deletes
  PROVE  OwnInv'
<1> USE NvramAssumption DEF listVars, history
<1>1. SUFFICES ASSUME ~unset_seen
               PROVE  (1 .. brk) \ freed' = {}
  BY DEF OwnInv, RestEmpty, BlocksOwned, Live, Deletes
<1>2. /\ \A j \in Index \ InRange : node_list[j] = NullNode
      /\ (1 .. brk) \ freed = Strings(InRange)
  BY <1>1 DEF OwnInv, RestEmpty, BlocksOwned, Live, Deletes
<1>3. InRange \subseteq Cleaned
  <2> SUFFICES ASSUME NEW i \in InRange
               PROVE  i \in Index /\ \A j \in 0 .. i : node_list[j].name # NULL
    BY DEF Cleaned
  <2>1. i \in Index /\ \A j \in 0 .. i : j \in InRange
    BY DEF IndInv, TypeOK, InRange, Index
  <2> QED
    BY <2>1 DEF IndInv, NodeInv
<1>4. Strings(InRange) \subseteq Strings(Cleaned)
  BY <1>3 DEF Strings
<1> QED
  BY <1>2, <1>4 DEF Deletes, Frees

(* Every step keeps OwnInv. *)
LEMMA OwnStep == IndInv /\ OwnInv /\ [Next]_vars => OwnInv'
<1> SUFFICES ASSUME IndInv, OwnInv, [Next]_vars
             PROVE  OwnInv'
  OBVIOUS
<1> USE DEF listVars, heapVars, history
<1>1. CASE Quiet
  BY <1>1 DEF Quiet, OwnInv, RestEmpty, BlocksOwned, Live, Strings, NoSharing, InRange
<1>2. ASSUME NEW i \in InRange, NEW n, NEW v, Overwrites(i, n, v)
      PROVE  OwnInv'
  BY <1>2 DEF Overwrites, OwnInv, RestEmpty, BlocksOwned, Live, Strings, NoSharing, InRange
<1>3. ASSUME NEW i, Removes(i)
      PROVE  OwnInv'
  BY <1>3 DEF Removes, OwnInv, RestEmpty, BlocksOwned, Live
<1>4. CASE Creates
  <2>1. InRange' = {} /\ \A j \in Index : node_list'[j] = NullNode
    BY <1>4 DEF Creates, InRange
  <2>2. Strings(InRange)' = {} /\ NoSharing(InRange)'
    BY <2>1 DEF Strings, NoSharing
  <2>3. ~unset_seen => Live = {}
    BY <1>4 DEF OwnInv, BlocksOwned, Live, Creates
  <2> QED
    BY <1>4, <2>1, <2>2, <2>3 DEF Creates, OwnInv, RestEmpty, BlocksOwned, Live
<1>5. CASE Wastes
  <2>1. (1 .. brk + 1) \ (freed \union {brk + 1}) = (1 .. brk) \ freed
    BY DEF IndInv, TypeOK
  <2> QED
    BY <1>5, <2>1 DEF Wastes, OwnInv, RestEmpty, BlocksOwned, Live, Strings, NoSharing, InRange
<1> QED
  BY <1>1, <1>2, <1>3, <1>4, <1>5, PlacesOwned, ReplacesOwned, DeletesOwned, StoreSteps

(* nvram.c: until an entry is unset, every block strdup() handed out is    *)
(* freed or belongs to exactly one node in use, and none is left when the  *)
(* store has been given back.                                              *)
THEOREM NoBlockLost == Spec => []BlocksOwned
<1>1. Init => OwnInv
  <2> SUFFICES ASSUME Init
               PROVE  OwnInv
    OBVIOUS
  <2>1. InRange = {} /\ 1 .. brk = {} /\ \A j \in Index : node_list[j] = NullNode
    BY DEF Init, InRange
  <2>2. Strings(InRange) = {} /\ NoSharing(InRange)
    BY <2>1 DEF Strings, NoSharing
  <2> QED
    BY <2>1, <2>2 DEF OwnInv, RestEmpty, BlocksOwned, Live, Init
<1>2. OwnInv => BlocksOwned
  BY DEF OwnInv
<1> QED
  BY <1>1, <1>2, OwnStep, Invariant, PTL DEF Spec
=============================================================================
