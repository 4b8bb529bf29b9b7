------------------------ MODULE EzcfgContext_proofs ------------------------
(***************************************************************************)
(* Proofs about EzcfgContext for any number of threads, objects and        *)
(* contexts, when no thread keeps a context pointer without a reference.   *)
(***************************************************************************)
EXTENDS EzcfgContext, FiniteSetTheorems, TLAPS

Fresh == {"new_lock"} \union Held
Locked == {"del_loop", "del_freed", "del_failed"}

(* ezcfg_ref_mutex is held exactly by a thread inside ezcfg_del(). *)
MutexHeld ==
  /\ \A t \in Threads : pc[t] \in Locked <=> ezcfg_ref_mutex = t

(* A context address belongs to one thread until it is published or freed. *)
AddressOwned ==
  /\ \A t \in Threads : pc[t] \in Fresh => arg[t] \in live
  /\ \A t, u \in Threads : pc[t] \in Fresh /\ pc[u] \in Fresh /\ arg[t] = arg[u] => t = u
  /\ \A t \in Threads : pc[t] = "new_lock" => arg[t] # this_ezcfg
  /\ this_ezcfg # NULL => this_ezcfg \in live

(* One thread at a time builds, owns or takes down the counted context. *)
OneOwner ==
  /\ \A t \in Threads : pc[t] \in Fresh => handle[t] = NULL
  /\ \A t, u \in Threads : /\ handle[t] # NULL \/ pc[t] \in Held
                           /\ handle[u] # NULL \/ pc[u] \in Held
                           => t = u
  /\ \A t \in Threads : handle[t] # NULL => handle[t] = this_ezcfg
  /\ this_ezcfg # NULL => \A t \in Threads : /\ pc[t] # "new_body"
                                             /\ pc[t] \in Held => arg[t] = this_ezcfg

(* An object in a constructor is not counted yet, one in a destructor is,  *)
(* and no two threads work on the same object.                             *)
ObjectsOwned ==
  /\ \A t \in Threads : pc[t] = "inc_lock" => obj[t] \in Objects \ refs
  /\ \A t \in Threads : pc[t] = "dec_lock" => obj[t] \in refs /\ user[obj[t]] = t
  /\ \A t \in Threads : pc[t] \notin {"inc_lock", "dec_lock"} => obj[t] = NoObject
  /\ \A t, u \in Threads : obj[t] = obj[u] /\ obj[t] # NoObject => t = u

(* A constructor runs on behalf of the owner or of a user of an object. *)
Entitled ==
  /\ \A t \in Threads : borrowed[t] = NULL
  /\ \A t \in Threads : pc[t] = "inc_lock" =>
       /\ this_ezcfg # NULL /\ arg[t] = this_ezcfg
       /\ handle[t] = this_ezcfg \/ \E o \in refs : user[o] = t
  /\ this_ezcfg = NULL => refs = {}
  /\ \A o \in refs : home[o] = this_ezcfg

(* A waiting ezcfg_del() sees the references it waits for. *)
WaitsForOthers ==
  \A t \in Threads : pc[t] = "del_loop" /\ retry[t] > 0 => ezcfg_ref_counter > 1

Core ==
  /\ MutexHeld
  /\ AddressOwned
  /\ OneOwner
  /\ ObjectsOwned
  /\ Entitled
  /\ WaitsForOthers
  /\ ezcfg_ref_counter = Cardinality(refs) + OwnReference
  /\ \A t \in Threads : pc[t] = "del_freed" => retry[t] = 0

(* An object in a constructor and a context under construction exist. *)
TypeInv ==
  /\ TypeOK
  /\ \A t \in Threads : pc[t] = "inc_lock" => obj[t] \in Objects
  /\ \A t \in Threads : pc[t] \in {"new_lock", "new_body"} => arg[t] \in Contexts

(* The inductive invariant.  A process that died keeps the state it had. *)
IndInv ==
  /\ TypeInv
  /\ fault = "none" => Core
  /\ NoUseAfterFree
  /\ RetryNeverHelps

-----------------------------------------------------------------------------
(* The type invariant *)

(* TypeInv holds initially: no thread is in a call. *)
LEMMA TypeInit == Init => TypeInv
BY ContextAssumption DEF Init, TypeInv, TypeOK

(* Every step of every call of ezcfg.c keeps TypeInv. *)
LEMMA TypeStep == TypeInv /\ [Next]_vars => TypeInv'
<1> USE ContextAssumption
<1> SUFFICES ASSUME TypeInv, [Next]_vars
             PROVE  TypeInv'
  OBVIOUS
<1>1. CASE UNCHANGED vars
  BY <1>1 DEF TypeInv, TypeOK, vars, objVars, callVars
<1>2. ASSUME NEW t \in Threads, New(t)
      PROVE  TypeInv'
  <2>1. CASE new_call(t)
    BY <2>1 DEF TypeInv, TypeOK, new_call, At, Goto, ASSERT, objVars
  <2>2. CASE new_refused(t)
    BY <2>2 DEF TypeInv, TypeOK, new_refused, At, Goto, objVars, callVars
  <2>3. CASE new_counted(t)
    BY <2>3 DEF TypeInv, TypeOK, new_counted, At, Goto, objVars, callVars
  <2>4. CASE new_publish(t)
    BY <2>4 DEF TypeInv, TypeOK, new_publish, At, Goto, objVars, callVars
  <2>5. CASE new_fail_out(t)
    BY <2>5 DEF TypeInv, TypeOK, new_fail_out, At, Goto, objVars, callVars
  <2> QED
    BY <1>2, <2>1, <2>2, <2>3, <2>4, <2>5 DEF New
<1>3. ASSUME NEW t \in Threads, del_call(t)
      PROVE  TypeInv'
  BY <1>3 DEF TypeInv, TypeOK, del_call, At, Goto, objVars
<1>4. ASSUME NEW t \in Threads, Del(t)
      PROVE  TypeInv'
  <2>1. CASE del_assert(t)
    BY <2>1 DEF TypeInv, TypeOK, del_assert, At, Goto, ASSERT, objVars, callVars
  <2>2. CASE del_lock(t)
    BY <2>2 DEF TypeInv, TypeOK, del_lock, At, Goto, objVars
  <2>3. CASE del_wait(t)
    BY <2>3 DEF TypeInv, TypeOK, del_wait, RetriesLeft, At, objVars
  <2>4. CASE del_free(t)
    BY <2>4 DEF TypeInv, TypeOK, del_free, At, Goto, objVars, callVars
  <2>5. CASE del_fail(t)
    BY <2>5 DEF TypeInv, TypeOK, del_fail, At, Goto, objVars, callVars
  <2>6. CASE del_unlock(t)
    BY <2>6 DEF TypeInv, TypeOK, del_unlock, UnlockedBy, At, Goto, objVars, callVars
  <2> QED
    BY <1>4, <2>1, <2>2, <2>3, <2>4, <2>5, <2>6 DEF Del
<1>5. ASSUME NEW t \in Threads, Ref(t)
      PROVE  TypeInv'
  <2>1. CASE borrow(t)
    BY <2>1 DEF TypeInv, TypeOK, borrow, At, callVars
  <2>2. CASE inc_call(t)
    <3>1. PICK o \in Objects, e \in CanName(t) :
            /\ obj' = [obj EXCEPT ![t] = o]
            /\ arg' = [arg EXCEPT ![t] = e]
            /\ ASSERT(t, this_ezcfg = e, "inc_lock")
      BY <2>2 DEF inc_call
    <3>2. e \in Contexts
      BY DEF CanName, TypeInv, TypeOK
    <3> QED
      BY <2>2, <3>1, <3>2 DEF TypeInv, TypeOK, inc_call, At, Goto, ASSERT, objVars
  <2>3. CASE inc_ref(t)
    BY <2>3 DEF TypeInv, TypeOK, inc_ref, At, Goto
  <2>4. CASE inc_fail(t)
    BY <2>4 DEF TypeInv, TypeOK, inc_fail, At, Goto, objVars
  <2>5. CASE dec_call(t)
    BY <2>5 DEF TypeInv, TypeOK, dec_call, At, Goto, ASSERT, objVars
  <2>6. CASE dec_ref(t)
    BY <2>6 DEF TypeInv, TypeOK, dec_ref, At, Goto
  <2> QED
    BY <1>5, <2>1, <2>2, <2>3, <2>4, <2>5, <2>6 DEF Ref
<1> QED
  BY <1>1, <1>2, <1>3, <1>4, <1>5 DEF Next

(* ezcfg.c: the counters, the tables and the calls keep their types for    *)
(* any number of threads, objects and contexts, borrowers included.        *)
THEOREM TypeCorrect == Spec => []TypeOK
<1>1. TypeInv => TypeOK
  BY DEF TypeInv
<1> QED
  BY TypeInit, TypeStep, <1>1, PTL DEF Spec

-----------------------------------------------------------------------------
(* The reference counter *)

(* ezcfg.c: what ezcfg_new() counts, and who may have a context then. *)
LEMMA CountFacts ==
  ASSUME TypeInv, Core
  PROVE  /\ IsFiniteSet(refs)
         /\ Cardinality(refs) \in Nat
         /\ Cardinality(refs) = 0 <=> refs = {}
         /\ OwnReference \in {0, 1}
         /\ OwnReference = 1 <=> this_ezcfg # NULL \/ \E t \in Threads : pc[t] \in Held
<1>1. IsFiniteSet(refs)
  BY FS_Subset, ContextAssumption DEF TypeInv, TypeOK
<1>2. Cardinality(refs) \in Nat /\ (Cardinality(refs) = 0 <=> refs = {})
  BY <1>1, FS_CardinalityType, FS_EmptySet
<1> QED
  BY <1>1, <1>2 DEF OwnReference

(* Initially nothing is counted and nobody is in a call. *)
LEMMA CoreInit == Init => Core
<1> SUFFICES ASSUME Init
             PROVE  Core
  OBVIOUS
<1>1. Cardinality(refs) = 0
  BY FS_EmptySet DEF Init
<1>2. OwnReference = 0
  BY DEF Init, OwnReference, Held
<1>3. MutexHeld /\ AddressOwned /\ OneOwner
  BY ContextAssumption DEF Init, MutexHeld, Locked, AddressOwned, OneOwner, Fresh, Held
<1>4. ObjectsOwned /\ Entitled /\ WaitsForOthers
  BY DEF Init, ObjectsOwned, Entitled, WaitsForOthers
<1> QED
  BY <1>1, <1>2, <1>3, <1>4 DEF Core, Init

(* The steps of ezcfg_new() keep Core. *)
LEMMA CoreNew ==
  ASSUME TypeInv, Core, NEW t \in Threads, New(t), fault' = "none"
  PROVE  Core'
<1> USE ContextAssumption
<1>0. /\ Cardinality(refs) \in Nat
      /\ OwnReference \in {0, 1}
      /\ OwnReference = 1 <=> this_ezcfg # NULL \/ \E u \in Threads : pc[u] \in Held
  BY CountFacts
<1>1. CASE new_call(t)
  <2>1. PICK e \in Contexts \ live : live' = live \union {e} /\ arg' = [arg EXCEPT ![t] = e]
    BY <1>1 DEF new_call
  <2>2. /\ pc[t] = "idle" /\ pc' = [pc EXCEPT ![t] = "new_lock"]
        /\ handle[t] = NULL
        /\ UNCHANGED <<ezcfg_ref_mutex, ezcfg_ref_counter, this_ezcfg, objVars, handle, obj, retry>>
    BY <1>1 DEF new_call, At, ASSERT, Goto
  <2>3. MutexHeld'
    BY <2>2 DEF MutexHeld, Locked, Core, TypeInv, TypeOK
  <2>4. AddressOwned'
    BY <2>1, <2>2 DEF AddressOwned, Fresh, Held, Core, TypeInv, TypeOK
  <2>5. OneOwner'
    BY <2>1, <2>2 DEF OneOwner, Fresh, Held, Core, TypeInv, TypeOK
  <2>6. ObjectsOwned'
    BY <2>2 DEF ObjectsOwned, objVars, Core, TypeInv, TypeOK
  <2>7. Entitled'
    BY <2>1, <2>2 DEF Entitled, objVars, Core, TypeInv, TypeOK
  <2>8. OwnReference' = OwnReference
    BY <2>2 DEF OwnReference, Held, TypeInv, TypeOK
  <2> QED
    BY <2>2, <2>3, <2>4, <2>5, <2>6, <2>7, <2>8 DEF Core, WaitsForOthers, objVars, TypeInv, TypeOK
<1>2. CASE new_refused(t)
  <2>2. /\ pc[t] = "new_lock" /\ pc' = [pc EXCEPT ![t] = "idle"]
        /\ live' = live \ {arg[t]}
        /\ UNCHANGED <<ezcfg_ref_mutex, ezcfg_ref_counter, this_ezcfg, objVars, handle, arg, obj, retry>>
    BY <1>2 DEF new_refused, At, Goto, callVars
  <2>3. MutexHeld'
    BY <2>2 DEF MutexHeld, Locked, Core, TypeInv, TypeOK
  <2>4. AddressOwned'
    BY <2>2 DEF AddressOwned, Fresh, Held, Core, TypeInv, TypeOK
  <2>5. OneOwner'
    BY <2>2 DEF OneOwner, Fresh, Held, Core, TypeInv, TypeOK
  <2>6. ObjectsOwned'
    BY <2>2 DEF ObjectsOwned, objVars, Core, TypeInv, TypeOK
  <2>7. Entitled'
    BY <2>2 DEF Entitled, objVars, Core, TypeInv, TypeOK
  <2>8. OwnReference' = OwnReference
    BY <2>2 DEF OwnReference, Held, TypeInv, TypeOK
  <2> QED
    BY <2>2, <2>3, <2>4, <2>5, <2>6, <2>7, <2>8 DEF Core, WaitsForOthers, objVars, TypeInv, TypeOK
<1>3. CASE new_counted(t)
  <2>1. this_ezcfg = NULL /\ \A u \in Threads : pc[u] \notin Held /\ handle[u] = NULL
    <3>1. ezcfg_ref_counter = 0
      BY <1>3 DEF new_counted
    <3>2. OwnReference = 0
      BY <1>0, <3>1 DEF Core
    <3> QED
      BY <1>0, <3>2 DEF Core, OneOwner
  <2>2. /\ pc[t] = "new_lock" /\ pc' = [pc EXCEPT ![t] = "new_body"]
        /\ ezcfg_ref_counter' = ezcfg_ref_counter + 1
        /\ UNCHANGED <<ezcfg_ref_mutex, this_ezcfg, live, objVars, handle, arg, obj, retry>>
    BY <1>3 DEF new_counted, At, Goto, callVars
  <2>3. MutexHeld'
    BY <2>2 DEF MutexHeld, Locked, Core, TypeInv, TypeOK
  <2>4. AddressOwned'
    BY <2>2 DEF AddressOwned, Fresh, Held, Core, TypeInv, TypeOK
  <2>5. OneOwner'
    BY <2>1, <2>2 DEF OneOwner, Fresh, Held, Core, TypeInv, TypeOK
  <2>6. ObjectsOwned'
    BY <2>2 DEF ObjectsOwned, objVars, Core, TypeInv, TypeOK
  <2>7. Entitled'
    BY <2>2 DEF Entitled, objVars, Core, TypeInv, TypeOK
  <2>8. OwnReference' = 1 /\ OwnReference = 0
    BY <2>1, <2>2 DEF OwnReference, Held, TypeInv, TypeOK
  <2>9. ezcfg_ref_counter' = Cardinality(refs') + OwnReference'
    BY <1>0, <2>2, <2>8 DEF Core, objVars
  <2> QED
    BY <2>2, <2>3, <2>4, <2>5, <2>6, <2>7, <2>9 DEF Core, WaitsForOthers, TypeInv, TypeOK
<1>4. CASE new_publish(t)
  <2>1. /\ this_ezcfg = NULL
        /\ \A u \in Threads \ {t} : pc[u] \notin Held /\ handle[u] = NULL
        /\ arg[t] \in live /\ arg[t] # NULL
    BY <1>4 DEF new_publish, At, Held, Fresh, Core, OneOwner, AddressOwned, TypeInv, TypeOK
  <2>2. /\ pc[t] = "new_body" /\ pc' = [pc EXCEPT ![t] = "idle"]
        /\ this_ezcfg' = arg[t] /\ handle' = [handle EXCEPT ![t] = arg[t]]
        /\ UNCHANGED <<ezcfg_ref_mutex, ezcfg_ref_counter, live, objVars, arg, obj, retry>>
    BY <1>4 DEF new_publish, At, Goto, callVars
  <2>3. MutexHeld'
    BY <2>2 DEF MutexHeld, Locked, Core, TypeInv, TypeOK
  <2>4. AddressOwned'
    BY <2>1, <2>2 DEF AddressOwned, Fresh, Held, Core, TypeInv, TypeOK
  <2>5. OneOwner'
    BY <2>1, <2>2 DEF OneOwner, Fresh, Held, Core, TypeInv, TypeOK
  <2>6. ObjectsOwned'
    BY <2>2 DEF ObjectsOwned, objVars, Core, TypeInv, TypeOK
  <2>7. Entitled'
    BY <2>1, <2>2 DEF Entitled, objVars, Core, TypeInv, TypeOK
  <2>8. OwnReference' = OwnReference
    BY <2>1, <2>2 DEF OwnReference, Held
  <2> QED
    BY <2>2, <2>3, <2>4, <2>5, <2>6, <2>7, <2>8 DEF Core, WaitsForOthers, objVars, TypeInv, TypeOK
<1>5. CASE new_fail_out(t)
  <2>2. /\ pc[t] = "new_body" /\ pc' = [pc EXCEPT ![t] = "del_assert"]
        /\ UNCHANGED <<ezcfg_ref_mutex, ezcfg_ref_counter, this_ezcfg, live, objVars, handle, arg, obj, retry>>
    BY <1>5 DEF new_fail_out, At, Goto, callVars
  <2>3. MutexHeld'
    BY <2>2 DEF MutexHeld, Locked, Core, TypeInv, TypeOK
  <2>4. AddressOwned'
    BY <2>2 DEF AddressOwned, Fresh, Held, Core, TypeInv, TypeOK
  <2>5. OneOwner'
    BY <2>2 DEF OneOwner, Fresh, Held, Core, TypeInv, TypeOK
  <2>6. ObjectsOwned'
    BY <2>2 DEF ObjectsOwned, objVars, Core, TypeInv, TypeOK
  <2>7. Entitled'
    BY <2>2 DEF Entitled, objVars, Core, TypeInv, TypeOK
  <2>8. OwnReference' = OwnReference
    BY <2>2 DEF OwnReference, Held, TypeInv, TypeOK
  <2> QED
    BY <2>2, <2>3, <2>4, <2>5, <2>6, <2>7, <2>8 DEF Core, WaitsForOthers, objVars, TypeInv, TypeOK
<1> QED
  BY <1>1, <1>2, <1>3, <1>4, <1>5 DEF New

(* ezcfg_del(): the caller hands its context over; nothing is counted. *)
LEMMA CoreDelCall ==
  ASSUME TypeInv, Core, NEW t \in Threads, del_call(t), fault' = "none"
  PROVE  Core'
<1> USE ContextAssumption
<1>1. CASE del_call(t)
  <2>1. handle[t] # NULL /\ handle[t] = this_ezcfg
    BY <1>1 DEF del_call, Core, OneOwner
  <2>2. /\ pc[t] = "idle" /\ pc' = [pc EXCEPT ![t] = "del_assert"]
        /\ arg' = [arg EXCEPT ![t] = handle[t]] /\ handle' = [handle EXCEPT ![t] = NULL]
        /\ UNCHANGED <<ezcfg_ref_mutex, ezcfg_ref_counter, this_ezcfg, live, objVars, obj, retry>>
    BY <1>1 DEF del_call, At, Goto
  <2>3. MutexHeld'
    BY <2>2 DEF MutexHeld, Locked, Core, TypeInv, TypeOK
  <2>4. AddressOwned'
    BY <2>1, <2>2 DEF AddressOwned, OneOwner, Fresh, Held, Core, TypeInv, TypeOK
  <2>5. OneOwner'
    BY <2>1, <2>2 DEF OneOwner, Fresh, Held, Core, TypeInv, TypeOK
  <2>6. ObjectsOwned'
    BY <2>2 DEF ObjectsOwned, objVars, Core, TypeInv, TypeOK
  <2>7. Entitled'
    BY <2>1, <2>2 DEF Entitled, objVars, Core, TypeInv, TypeOK
  <2>8. OwnReference' = OwnReference
    BY <2>1, <2>2 DEF OwnReference, Held
  <2> QED
    BY <2>2, <2>3, <2>4, <2>5, <2>6, <2>7, <2>8 DEF Core, WaitsForOthers, objVars, TypeInv, TypeOK
<1> QED
  BY <1>1

(* The steps inside ezcfg_del() keep Core: it frees the context only when  *)
(* no object counts a reference, and a call that gives up leaves objects   *)
(* behind that still do.                                                   *)
LEMMA CoreDel ==
  ASSUME TypeInv, Core, NEW t \in Threads, Del(t), fault' = "none"
  PROVE  Core'
<1> USE ContextAssumption
<1>0. /\ Cardinality(refs) \in Nat
      /\ Cardinality(refs) = 0 <=> refs = {}
      /\ OwnReference \in {0, 1}
      /\ OwnReference = 1 <=> this_ezcfg # NULL \/ \E u \in Threads : pc[u] \in Held
  BY CountFacts
<1>1. CASE del_assert(t)
  <2>2. /\ pc[t] = "del_assert" /\ pc' = [pc EXCEPT ![t] = "del_lock"]
        /\ UNCHANGED <<ezcfg_ref_mutex, ezcfg_ref_counter, this_ezcfg, live, objVars, handle, arg, obj, retry>>
    BY <1>1 DEF del_assert, At, ASSERT, Goto, callVars
  <2>3. MutexHeld'
    BY <2>2 DEF MutexHeld, Locked, Core, TypeInv, TypeOK
  <2>4. AddressOwned'
    BY <2>2 DEF AddressOwned, Fresh, Held, Core, TypeInv, TypeOK
  <2>5. OneOwner'
    BY <2>2 DEF OneOwner, Fresh, Held, Core, TypeInv, TypeOK
  <2>6. ObjectsOwned'
    BY <2>2 DEF ObjectsOwned, objVars, Core, TypeInv, TypeOK
  <2>7. Entitled'
    BY <2>2 DEF Entitled, objVars, Core, TypeInv, TypeOK
  <2>8. OwnReference' = OwnReference
    BY <2>2 DEF OwnReference, Held, Core, TypeInv, TypeOK
  <2> QED
    BY <2>2, <2>3, <2>4, <2>5, <2>6, <2>7, <2>8 DEF Core, WaitsForOthers, objVars, TypeInv, TypeOK
<1>2. CASE del_lock(t)
  <2>2. /\ pc[t] = "del_lock" /\ pc' = [pc EXCEPT ![t] = "del_loop"]
        /\ ezcfg_ref_mutex = NoThread /\ ezcfg_ref_mutex' = t
        /\ retry' = [retry EXCEPT ![t] = 0]
        /\ UNCHANGED <<ezcfg_ref_counter, this_ezcfg, live, objVars, handle, arg, obj>>
    BY <1>2 DEF del_lock, At, Goto, Unlocked
  <2>3. MutexHeld'
    BY <2>2 DEF MutexHeld, Locked, Core, TypeInv, TypeOK
  <2>4. AddressOwned'
    BY <2>2 DEF AddressOwned, Fresh, Held, Core, TypeInv, TypeOK
  <2>5. OneOwner'
    BY <2>2 DEF OneOwner, Fresh, Held, Core, TypeInv, TypeOK
  <2>6. ObjectsOwned'
    BY <2>2 DEF ObjectsOwned, objVars, Core, TypeInv, TypeOK
  <2>7. Entitled'
    BY <2>2 DEF Entitled, objVars, Core, TypeInv, TypeOK
  <2>8. OwnReference' = OwnReference
    BY <2>2 DEF OwnReference, Held, Core, TypeInv, TypeOK
  <2> QED
    BY <2>2, <2>3, <2>4, <2>5, <2>6, <2>7, <2>8 DEF Core, WaitsForOthers, objVars, TypeInv, TypeOK
<1>3. CASE del_wait(t)
  <2>2. /\ pc[t] = "del_loop" /\ ezcfg_ref_counter > 1
        /\ retry' = [retry EXCEPT ![t] = @ + 1]
        /\ UNCHANGED <<ezcfg_ref_mutex, ezcfg_ref_counter, this_ezcfg, live, objVars, handle, pc, arg, obj>>
    BY <1>3 DEF del_wait, At
  <2>3. MutexHeld'
    BY <2>2 DEF MutexHeld, Locked, Core, TypeInv, TypeOK
  <2>4. AddressOwned'
    BY <2>2 DEF AddressOwned, Fresh, Held, Core, TypeInv, TypeOK
  <2>5. OneOwner'
    BY <2>2 DEF OneOwner, Fresh, Held, Core, TypeInv, TypeOK
  <2>6. ObjectsOwned'
    BY <2>2 DEF ObjectsOwned, objVars, Core, TypeInv, TypeOK
  <2>7. Entitled'
    BY <2>2 DEF Entitled, objVars, Core, TypeInv, TypeOK
  <2>8. OwnReference' = OwnReference
    BY <2>2 DEF OwnReference, Held, Core, TypeInv, TypeOK
  <2> QED
    BY <2>2, <2>3, <2>4, <2>5, <2>6, <2>7, <2>8 DEF Core, WaitsForOthers, objVars, TypeInv, TypeOK
<1>4. CASE del_free(t)
  <2>1. refs = {} /\ retry[t] = 0
    <3>1. ezcfg_ref_counter = 1 /\ pc[t] = "del_loop" /\ pc[t] \in Held
      BY <1>4 DEF del_free, LastReference, At, Held
    <3>2. OwnReference = 1
      BY <1>0, <3>1
    <3>3. Cardinality(refs) = 0
      BY <1>0, <3>1, <3>2 DEF Core
    <3>4. retry[t] = 0
      BY <3>1 DEF Core, WaitsForOthers, TypeInv, TypeOK
    <3> QED
      BY <1>0, <3>3, <3>4
  <2>2. /\ pc[t] = "del_loop" /\ pc' = [pc EXCEPT ![t] = "del_freed"]
        /\ ezcfg_ref_counter = 1 /\ ezcfg_ref_counter' = 0
        /\ this_ezcfg' = NULL /\ live' = live \ {arg[t]}
        /\ UNCHANGED <<ezcfg_ref_mutex, objVars, handle, arg, obj, retry>>
    BY <1>4 DEF del_free, At, Goto, LastReference, callVars
  <2>3. MutexHeld'
    BY <2>2 DEF MutexHeld, Locked, Core, TypeInv, TypeOK
  <2>4. \A u \in Threads \ {t} : pc[u] \notin Held /\ handle[u] = NULL
    BY <2>2 DEF OneOwner, Held, Core
  <2>5. AddressOwned'
    BY <2>2, <2>4 DEF AddressOwned, Fresh, Held, Core, TypeInv, TypeOK
  <2>6. OneOwner'
    BY <2>2, <2>4 DEF OneOwner, Fresh, Held, Core, TypeInv, TypeOK
  <2>7. ObjectsOwned'
    BY <2>2 DEF ObjectsOwned, objVars, Core, TypeInv, TypeOK
  <2>8. Entitled'
    BY <2>1, <2>2, <2>4 DEF Entitled, objVars, Core, TypeInv, TypeOK
  <2>9. Cardinality(refs') = 0 /\ OwnReference' = 0
    BY <1>0, <2>1, <2>2, <2>4 DEF OwnReference, Held, objVars, TypeInv, TypeOK
  <2>10. WaitsForOthers'
    BY <2>2, <2>4 DEF WaitsForOthers, Held, TypeInv, TypeOK
  <2> QED
    BY <2>1, <2>2, <2>3, <2>5, <2>6, <2>7, <2>8, <2>9, <2>10 DEF Core, TypeInv, TypeOK
<1>5. CASE del_fail(t)
  <2>1. this_ezcfg # NULL
    <3>1. pc[t] = "del_loop" /\ pc[t] \in Held /\ (ezcfg_ref_counter < 1 \/ ~(retry[t] < RetryMax))
      BY <1>5 DEF del_fail, RetriesLeft, At, Held
    <3>2. OwnReference = 1
      BY <1>0, <3>1
    <3>3. ezcfg_ref_counter > 1
      BY <1>0, <3>1, <3>2 DEF Core, WaitsForOthers, TypeInv, TypeOK
    <3>4. refs # {}
      BY <1>0, <3>2, <3>3 DEF Core
    <3> QED
      BY <3>4 DEF Core, Entitled
  <2>2. /\ pc[t] = "del_loop" /\ pc' = [pc EXCEPT ![t] = "del_failed"]
        /\ UNCHANGED <<ezcfg_ref_mutex, ezcfg_ref_counter, this_ezcfg, live, objVars, handle, arg, obj, retry>>
    BY <1>5 DEF del_fail, At, Goto, callVars
  <2>3. MutexHeld'
    BY <2>1, <2>2 DEF MutexHeld, Locked, Core, TypeInv, TypeOK
  <2>4. AddressOwned'
    BY <2>1, <2>2 DEF AddressOwned, Fresh, Held, Core, TypeInv, TypeOK
  <2>5. OneOwner'
    BY <2>1, <2>2 DEF OneOwner, Fresh, Held, Core, TypeInv, TypeOK
  <2>6. ObjectsOwned'
    BY <2>1, <2>2 DEF ObjectsOwned, objVars, Core, TypeInv, TypeOK
  <2>7. Entitled'
    BY <2>1, <2>2 DEF Entitled, objVars, Core, TypeInv, TypeOK
  <2>8. OwnReference' = OwnReference
    BY <2>1, <2>2 DEF OwnReference, Held, Core, TypeInv, TypeOK
  <2> QED
    BY <2>1, <2>2, <2>3, <2>4, <2>5, <2>6, <2>7, <2>8 DEF Core, WaitsForOthers, objVars, TypeInv, TypeOK
<1>6. CASE del_unlock(t)
  <2>2. /\ pc[t] \in {"del_freed", "del_failed"} /\ pc' = [pc EXCEPT ![t] = "idle"]
        /\ ezcfg_ref_mutex' = NoThread
        /\ UNCHANGED <<ezcfg_ref_counter, this_ezcfg, live, objVars, handle, arg, obj, retry>>
    BY <1>6 DEF del_unlock, UnlockedBy, At, Goto, callVars
  <2>3. MutexHeld'
    BY <2>2 DEF MutexHeld, Locked, Core, TypeInv, TypeOK
  <2>4. AddressOwned'
    BY <2>2 DEF AddressOwned, Fresh, Held, Core, TypeInv, TypeOK
  <2>5. OneOwner'
    BY <2>2 DEF OneOwner, Fresh, Held, Core, TypeInv, TypeOK
  <2>6. ObjectsOwned'
    BY <2>2 DEF ObjectsOwned, objVars, Core, TypeInv, TypeOK
  <2>7. Entitled'
    BY <2>2 DEF Entitled, objVars, Core, TypeInv, TypeOK
  <2>8. OwnReference' = OwnReference
    BY <2>2 DEF OwnReference, Held, Core, TypeInv, TypeOK
  <2> QED
    BY <2>2, <2>3, <2>4, <2>5, <2>6, <2>7, <2>8 DEF Core, WaitsForOthers, objVars, TypeInv, TypeOK
<1> QED
  BY <1>1, <1>2, <1>3, <1>4, <1>5, <1>6 DEF Del

(* Constructors and destructors keep Core when no pointer is borrowed: the *)
(* context they name is the published one, which the owner or an object    *)
(* keeps counted.                                                          *)
LEMMA CoreRef ==
  ASSUME Borrowers = {}, TypeInv, Core, NEW t \in Threads, Ref(t), fault' = "none"
  PROVE  Core'
<1> USE ContextAssumption
<1>0. /\ IsFiniteSet(refs)
      /\ Cardinality(refs) \in Nat
      /\ Cardinality(refs) = 0 <=> refs = {}
      /\ OwnReference \in {0, 1}
      /\ OwnReference = 1 <=> this_ezcfg # NULL \/ \E u \in Threads : pc[u] \in Held
  BY CountFacts
<1>1. ~borrow(t)
  BY DEF borrow
<1>2. CASE inc_call(t)
  <2>1. PICK o \in Objects \ (refs \union Busy), e \in CanName(t) :
          /\ obj' = [obj EXCEPT ![t] = o]
          /\ arg' = [arg EXCEPT ![t] = e]
          /\ ASSERT(t, this_ezcfg = e, "inc_lock")
    BY <1>2 DEF inc_call
  <2>2. /\ pc[t] = "idle" /\ pc' = [pc EXCEPT ![t] = "inc_lock"]
        /\ UNCHANGED <<ezcfg_ref_mutex, ezcfg_ref_counter, this_ezcfg, live, objVars, handle, retry>>
    BY <1>2, <2>1 DEF inc_call, At, ASSERT, Goto
  <2>3. MutexHeld'
    BY <2>2 DEF MutexHeld, Locked, Core, TypeInv, TypeOK
  <2>4. AddressOwned'
    BY <2>1, <2>2 DEF AddressOwned, Fresh, Held, Core, TypeInv, TypeOK
  <2>5. OneOwner'
    BY <2>1, <2>2 DEF OneOwner, Fresh, Held, Core, TypeInv, TypeOK
  <2>6. ObjectsOwned'
    BY <2>1, <2>2 DEF ObjectsOwned, Busy, objVars, Core, TypeInv, TypeOK
  <2>7. /\ e = this_ezcfg /\ e # NULL
        /\ handle[t] = this_ezcfg \/ \E q \in refs : user[q] = t
    BY DEF CanName, Entitled, OneOwner, Core
  <2>8. Entitled'
    BY <2>1, <2>2, <2>7 DEF Entitled, objVars, Core, TypeInv, TypeOK
  <2>9. OwnReference' = OwnReference
    BY <2>2 DEF OwnReference, Held, TypeInv, TypeOK
  <2> QED
    BY <2>2, <2>3, <2>4, <2>5, <2>6, <2>8, <2>9 DEF Core, WaitsForOthers, objVars, TypeInv, TypeOK
<1>3. CASE inc_ref(t)
  <2>1. PICK u \in Threads : user' = [user EXCEPT ![obj[t]] = u]
    BY <1>3 DEF inc_ref
  <2>2. /\ pc[t] = "inc_lock" /\ pc' = [pc EXCEPT ![t] = "idle"]
        /\ ezcfg_ref_mutex = NoThread
        /\ ezcfg_ref_counter' = ezcfg_ref_counter + 1
        /\ refs' = refs \union {obj[t]}
        /\ home' = [home EXCEPT ![obj[t]] = arg[t]]
        /\ obj' = [obj EXCEPT ![t] = NoObject]
        /\ UNCHANGED <<ezcfg_ref_mutex, this_ezcfg, live, borrowed, handle, arg, retry>>
    BY <1>3 DEF inc_ref, At, Goto, Unlocked
  <2>3. MutexHeld'
    BY <2>2 DEF MutexHeld, Locked, Core, TypeInv, TypeOK
  <2>4. AddressOwned'
    BY <2>2 DEF AddressOwned, Fresh, Held, Core, TypeInv, TypeOK
  <2>5. OneOwner'
    BY <2>2 DEF OneOwner, Fresh, Held, Core, TypeInv, TypeOK
  <2>6. obj[t] \in Objects \ refs
    BY <2>2 DEF ObjectsOwned, Core
  <2>7. ObjectsOwned'
    BY <2>1, <2>2, <2>6 DEF ObjectsOwned, Core, TypeInv, TypeOK
  <2>8. Entitled'
    BY <2>1, <2>2, <2>6 DEF Entitled, Core, TypeInv, TypeOK
  <2>9. Cardinality(refs') = Cardinality(refs) + 1
    BY <1>0, <2>2, <2>6, FS_AddElement
  <2>10. OwnReference' = OwnReference
    BY <2>2 DEF OwnReference, Held, TypeInv, TypeOK
  <2>11. ezcfg_ref_counter' = Cardinality(refs') + OwnReference'
    BY <1>0, <2>2, <2>9, <2>10 DEF Core
  <2> QED
    BY <2>2, <2>3, <2>4, <2>5, <2>7, <2>8, <2>11 DEF Core, WaitsForOthers, TypeInv, TypeOK
<1>4. CASE inc_fail(t)
  <2>2. /\ pc[t] = "inc_lock" /\ pc' = [pc EXCEPT ![t] = "idle"]
        /\ obj' = [obj EXCEPT ![t] = NoObject]
        /\ UNCHANGED <<ezcfg_ref_mutex, ezcfg_ref_counter, this_ezcfg, live, objVars, handle, arg, retry>>
    BY <1>4 DEF inc_fail, At, Goto
  <2>3. MutexHeld'
    BY <2>2 DEF MutexHeld, Locked, Core, TypeInv, TypeOK
  <2>4. AddressOwned'
    BY <2>2 DEF AddressOwned, Fresh, Held, Core, TypeInv, TypeOK
  <2>5. OneOwner'
    BY <2>2 DEF OneOwner, Fresh, Held, Core, TypeInv, TypeOK
  <2>6. ObjectsOwned'
    BY <2>2 DEF ObjectsOwned, objVars, Core, TypeInv, TypeOK
  <2>7. Entitled'
    BY <2>2 DEF Entitled, objVars, Core, TypeInv, TypeOK
  <2>8. OwnReference' = OwnReference
    BY <2>2 DEF OwnReference, Held, Core, TypeInv, TypeOK
  <2> QED
    BY <2>2, <2>3, <2>4, <2>5, <2>6, <2>7, <2>8 DEF Core, WaitsForOthers, objVars, TypeInv, TypeOK
<1>5. CASE dec_call(t)
  <2>1. PICK o \in refs \ Busy :
          /\ user[o] = t
          /\ obj' = [obj EXCEPT ![t] = o]
          /\ arg' = [arg EXCEPT ![t] = home[o]]
          /\ ASSERT(t, this_ezcfg = home[o], "dec_lock")
    BY <1>5 DEF dec_call
  <2>2. /\ pc[t] = "idle" /\ pc' = [pc EXCEPT ![t] = "dec_lock"]
        /\ UNCHANGED <<ezcfg_ref_mutex, ezcfg_ref_counter, this_ezcfg, live, objVars, handle, retry>>
    BY <1>5, <2>1 DEF dec_call, At, ASSERT, Goto
  <2>3. MutexHeld'
    BY <2>2 DEF MutexHeld, Locked, Core, TypeInv, TypeOK
  <2>4. AddressOwned'
    BY <2>1, <2>2 DEF AddressOwned, Fresh, Held, Core, TypeInv, TypeOK
  <2>5. OneOwner'
    BY <2>1, <2>2 DEF OneOwner, Fresh, Held, Core, TypeInv, TypeOK
  <2>6. ObjectsOwned'
    BY <2>1, <2>2 DEF ObjectsOwned, Busy, objVars, Core, TypeInv, TypeOK
  <2>7. Entitled'
    BY <2>1, <2>2 DEF Entitled, objVars, Core, TypeInv, TypeOK
  <2>8. OwnReference' = OwnReference
    BY <2>2 DEF OwnReference, Held, TypeInv, TypeOK
  <2> QED
    BY <2>2, <2>3, <2>4, <2>5, <2>6, <2>7, <2>8 DEF Core, WaitsForOthers, objVars, TypeInv, TypeOK
<1>6. CASE dec_ref(t)
  <2>1. /\ pc[t] = "dec_lock" /\ pc' = [pc EXCEPT ![t] = "idle"]
        /\ ezcfg_ref_mutex = NoThread
        /\ refs' = refs \ {obj[t]}
        /\ obj' = [obj EXCEPT ![t] = NoObject]
        /\ UNCHANGED <<ezcfg_ref_mutex, this_ezcfg, live, home, user, borrowed, handle, arg, retry>>
    BY <1>6 DEF dec_ref, At, Goto, Unlocked
  <2>2. obj[t] \in refs /\ user[obj[t]] = t /\ this_ezcfg # NULL
    BY <2>1 DEF ObjectsOwned, Entitled, Core
  <2>3. /\ Cardinality(refs) >= 1
        /\ Cardinality(refs') = Cardinality(refs) - 1
    <3>1. Cardinality(refs') = Cardinality(refs) - 1
      BY <1>0, <2>1, <2>2, FS_RemoveElement
    <3>2. Cardinality(refs) # 0
      BY <1>0, <2>2
    <3> QED
      BY <1>0, <3>1, <3>2
  <2>4. OwnReference = 1 /\ OwnReference' = 1
    BY <2>1, <2>2 DEF OwnReference
  <2>5. ezcfg_ref_counter' = Cardinality(refs') + OwnReference'
    BY <1>0, <1>6, <2>3, <2>4 DEF dec_ref, Core
  <2>6. MutexHeld'
    BY <2>1 DEF MutexHeld, Locked, Core, TypeInv, TypeOK
  <2>7. AddressOwned'
    BY <2>1 DEF AddressOwned, Fresh, Held, Core, TypeInv, TypeOK
  <2>8. OneOwner'
    BY <2>1 DEF OneOwner, Fresh, Held, Core, TypeInv, TypeOK
  <2>9. ObjectsOwned'
    BY <2>1, <2>2 DEF ObjectsOwned, Core, TypeInv, TypeOK
  <2>10. Entitled'
    BY <2>1, <2>2 DEF Entitled, Core, TypeInv, TypeOK
  <2>11. \A u \in Threads : pc'[u] # "del_loop"
    BY <2>1, <2>6 DEF MutexHeld, Locked, TypeInv, TypeOK
  <2> QED
    BY <2>1, <2>5, <2>6, <2>7, <2>8, <2>9, <2>10, <2>11 DEF Core, WaitsForOthers, TypeInv, TypeOK
<1> QED
  BY <1>1, <1>2, <1>3, <1>4, <1>5, <1>6 DEF Ref

-----------------------------------------------------------------------------
(* The theorems *)

(* The last two parts of IndInv follow from Core while the process lives. *)
LEMMA CoreImplies ==
  ASSUME TypeInv, Core
  PROVE  NoUseAfterFree /\ RetryNeverHelps
BY DEF Core, Entitled, AddressOwned, NoUseAfterFree, RetryNeverHelps

(* IndInv holds initially. *)
LEMMA IndInit == Init => IndInv
BY TypeInit, CoreInit, CoreImplies DEF IndInv, Init

(* The step in which the process dies leaves the objects as they were, or  *)
(* there are none: a failed ASSERT, or the second free of a meta_nvram.    *)
LEMMA Dying ==
  ASSUME TypeInv, Core, Next, fault' # "none"
  PROVE  /\ this_ezcfg \in live => this_ezcfg \in live'
         /\ refs' = {} \/ UNCHANGED <<refs, home, this_ezcfg>>
         /\ UNCHANGED <<pc, retry>>
<1>1. PICK t \in Threads : New(t) \/ del_call(t) \/ Del(t) \/ Ref(t)
  BY DEF Next
<1>2. CASE New(t)
  <2>1. new_call(t)
    BY <1>2 DEF New, new_refused, new_counted, new_publish, new_fail_out, At
  <2> QED
    BY <2>1 DEF new_call, At, ASSERT, objVars
<1>3. ~del_call(t)
  BY DEF del_call, At
<1>4. CASE Del(t)
  <2>1. del_assert(t) \/ del_free(t)
    BY <1>4 DEF Del, del_lock, del_wait, del_fail, del_unlock, At
  <2>2. CASE del_assert(t)
    BY <2>2 DEF del_assert, At, ASSERT, objVars, callVars
  <2>3. CASE del_free(t)
    <3>1. ezcfg_ref_counter = 1 /\ pc[t] \in Held
      BY <2>3 DEF del_free, LastReference, At, Held
    <3>2. refs = {}
      BY <3>1, CountFacts DEF Core
    <3> QED
      BY <2>3, <3>2 DEF del_free, At, objVars, callVars
  <2> QED
    BY <2>1, <2>2, <2>3
<1>5. CASE Ref(t)
  <2>1. inc_call(t) \/ dec_call(t)
    BY <1>5 DEF Ref, borrow, inc_ref, inc_fail, dec_ref, At
  <2>2. CASE inc_call(t)
    BY <2>2 DEF inc_call, At, ASSERT, objVars
  <2>3. CASE dec_call(t)
    BY <2>3 DEF dec_call, At, ASSERT, objVars
  <2> QED
    BY <2>1, <2>2, <2>3
<1> QED
  BY <1>1, <1>2, <1>3, <1>4, <1>5

(* Every step keeps IndInv when no thread borrows a context. *)
LEMMA IndStep ==
  ASSUME Borrowers = {}
  PROVE  IndInv /\ [Next]_vars => IndInv'
<1> SUFFICES ASSUME IndInv, [Next]_vars
             PROVE  IndInv'
  OBVIOUS
<1>1. TypeInv'
  BY TypeStep DEF IndInv
<1>2. CASE UNCHANGED vars
  BY <1>1, <1>2 DEF IndInv, vars, objVars, callVars, Core, MutexHeld, AddressOwned, OneOwner,
     ObjectsOwned, Entitled, WaitsForOthers, OwnReference, NoUseAfterFree, RetryNeverHelps
<1>3. CASE Next
  <2>1. PICK t \in Threads : New(t) \/ del_call(t) \/ Del(t) \/ Ref(t)
    BY <1>3 DEF Next
  <2>2. fault = "none"
    BY <2>1 DEF New, new_call, new_refused, new_counted, new_publish, new_fail_out, del_call,
       Del, del_assert, del_lock, del_wait, del_free, del_fail, del_unlock,
       Ref, borrow, inc_call, inc_ref, inc_fail, dec_call, dec_ref, At
  <2>3. TypeInv /\ Core
    BY <2>2 DEF IndInv
  <2>4. CASE fault' = "none"
    <3>1. Core'
      BY <2>1, <2>3, <2>4, CoreNew, CoreDelCall, CoreDel, CoreRef
    <3>2. NoUseAfterFree' /\ RetryNeverHelps'
      BY <1>1, <3>1, CoreImplies DEF Core, Entitled, AddressOwned, NoUseAfterFree, RetryNeverHelps
    <3> QED
      BY <1>1, <3>1, <3>2 DEF IndInv
  <2>5. CASE fault' # "none"
    <3>1. NoUseAfterFree' /\ RetryNeverHelps'
      BY <1>3, <2>3, <2>5, Dying DEF IndInv, NoUseAfterFree, RetryNeverHelps
    <3> QED
      BY <1>1, <2>5, <3>1 DEF IndInv
  <2> QED
    BY <2>4, <2>5
<1> QED
  BY <1>2, <1>3

(* ezcfg.c: without borrowed pointers, ezcfg_ref_counter is always one for *)
(* the context plus one for every object alive, for any number of threads, *)
(* objects and contexts and in both builds.                                *)
THEOREM CounterConserved ==
  ASSUME Borrowers = {}
  PROVE  Spec => []RefConservation
<1>1. IndInv => RefConservation
  BY DEF IndInv, Core, RefConservation
<1> QED
  BY IndInit, IndStep, <1>1, PTL DEF Spec

(* ezcfg.c: without borrowed pointers, ezcfg_del() never frees the context *)
(* under an object.                                                        *)
THEOREM ObjectsKeepContext ==
  ASSUME Borrowers = {}
  PROVE  Spec => []NoUseAfterFree
<1>1. IndInv => NoUseAfterFree
  BY DEF IndInv
<1> QED
  BY IndInit, IndStep, <1>1, PTL DEF Spec

(* ezcfg.c: for every RetryMax, an ezcfg_del() that waited does not free. *)
THEOREM WaitIsUseless ==
  ASSUME Borrowers = {}
  PROVE  Spec => []RetryNeverHelps
<1>1. IndInv => RetryNeverHelps
  BY DEF IndInv
<1> QED
  BY IndInit, IndStep, <1>1, PTL DEF Spec

(* ezcfg.c: a published context is only ever replaced by NULL, although    *)
(* this_ezcfg is written outside the mutex.                                *)
THEOREM OneContext ==
  ASSUME Borrowers = {}
  PROVE  Spec => SingleContext
<1>1. IndInv /\ [Next]_vars => [this_ezcfg # NULL => this_ezcfg' \in {this_ezcfg, NULL}]_vars
  <2> SUFFICES ASSUME IndInv, Next, this_ezcfg # NULL
               PROVE  this_ezcfg' \in {this_ezcfg, NULL}
    OBVIOUS
  <2>1. PICK t \in Threads : New(t) \/ del_call(t) \/ Del(t) \/ Ref(t)
    BY DEF Next
  <2>2. ~new_publish(t)
    BY DEF IndInv, Core, OneOwner, new_publish, At
  <2> QED
    BY <2>1, <2>2 DEF New, new_call, new_refused, new_counted, new_fail_out, del_call,
       Del, del_assert, del_lock, del_wait, del_free, del_fail, del_unlock,
       Ref, borrow, inc_call, inc_ref, inc_fail, dec_call, dec_ref
<1> QED
  BY IndInit, IndStep, <1>1, PTL DEF Spec, SingleContext
=============================================================================
