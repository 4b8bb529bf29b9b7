---------------------------- MODULE EzcfgContext ----------------------------
(***************************************************************************)
(* The library context of libezcfg (src/common/ezcfg.c) and its reference  *)
(* counter.  A process has at most one published context, this_ezcfg;      *)
(* ezcfg_new() counts one reference for it, every library object (a linked *)
(* list, a socket, an auth, a thread) takes another with ezcfg_inc_ref()   *)
(* when it is made and gives it back with ezcfg_dec_ref() when it is       *)
(* deleted, and ezcfg_del() may only free the context when one is left.    *)
(* Objects need not be deleted: ezcfg_thread_del() never gives its         *)
(* reference back.                                                         *)
(*                                                                         *)
(* The counter is protected by ezcfg_ref_mutex; this_ezcfg is not, so the  *)
(* ASSERTs that read it are steps of their own.  Sections of the mutex     *)
(* that cannot wait are one step; ezcfg_del() sleeps inside its section,   *)
(* so it holds the mutex over several steps.                               *)
(*                                                                         *)
(* A thread calls with a context it may name: the one ezcfg_new() returned *)
(* to it, or the one an object it uses was made from.  A struct            *)
(* ezcfg_socket_agent and a struct ezcfg_process keep the pointer without  *)
(* a reference: the threads that work on those are the Borrowers, and they *)
(* may use the pointer after the context is gone.                          *)
(***************************************************************************)
EXTENDS Integers, FiniteSets

CONSTANTS
  Threads,    \* threads of the process
  NoThread,   \* ezcfg_ref_mutex is free
  Borrowers,  \* threads that keep a context pointer without a reference
  Objects,    \* library objects that hold a reference
  Contexts,   \* addresses malloc() may return for a struct ezcfg
  NULL,       \* no context
  NoObject,   \* the running call concerns no object
  RetryMax,   \* EZCFG_REF_COUNTER_RETRY_MAX
  Debug,      \* TRUE when ASSERT is assert(), FALSE when it is empty
  BuildFails  \* where ezcfg_new() may fail: before or after meta_nvram exists

ASSUME ContextAssumption ==
  /\ NoThread \notin Threads
  /\ Borrowers \subseteq Threads
  /\ IsFiniteSet(Objects)
  /\ NULL \notin Contexts
  /\ NoObject \notin Objects
  /\ RetryMax \in Nat \ {0}
  /\ Debug \in BOOLEAN
  /\ BuildFails \subseteq {"json", "entries"}

VARIABLES
  ezcfg_ref_mutex, ezcfg_ref_counter, this_ezcfg,
  live,     \* contexts malloc()ed and not freed
  dangling, \* contexts whose meta_nvram is already freed
  refs,     \* objects whose reference is counted
  home,     \* the context an object was made from
  user,     \* the thread that uses an object
  handle,   \* the context ezcfg_new() returned to a thread
  borrowed, \* the pointer a borrower keeps
  pc, arg, obj, retry, \* a thread's place in a call, its arguments and locals
  fault     \* the process has died: a failed ASSERT or a double free

objVars == <<refs, home, user, borrowed>>
callVars == <<arg, obj, retry>>
vars == <<ezcfg_ref_mutex, ezcfg_ref_counter, this_ezcfg, live, dangling,
          objVars, handle, pc, callVars, fault>>

Init ==
  /\ ezcfg_ref_mutex = NoThread
  /\ ezcfg_ref_counter = 0
  /\ this_ezcfg = NULL
  /\ live = {}
  /\ dangling = {}
  /\ refs = {}
  /\ home = [o \in Objects |-> NULL]
  /\ user = [o \in Objects |-> NoThread]
  /\ handle = [t \in Threads |-> NULL]
  /\ borrowed = [t \in Threads |-> NULL]
  /\ pc = [t \in Threads |-> "idle"]
  /\ arg = [t \in Threads |-> NULL]
  /\ obj = [t \in Threads |-> NoObject]
  /\ retry = [t \in Threads |-> 0]
  /\ fault = "none"

At(t, l) == fault = "none" /\ pc[t] = l
Goto(t, l) == pc' = [pc EXCEPT ![t] = l]
Unlocked == ezcfg_ref_mutex = NoThread

(* ASSERT(e): the call goes on, unless a debug build finds e false. *)
ASSERT(t, e, l) ==
  \/ /\ ~Debug \/ e
     /\ Goto(t, l)
     /\ UNCHANGED fault
  \/ /\ Debug /\ ~e
     /\ fault' = "assert"
     /\ UNCHANGED pc

-----------------------------------------------------------------------------
(* ezcfg_new() *)

(* ASSERT(this_ezcfg == NULL), then malloc() of any free address. *)
new_call(t) ==
  /\ At(t, "idle") /\ handle[t] = NULL
  /\ \E e \in Contexts \ live :
       /\ live' = live \union {e}
       /\ arg' = [arg EXCEPT ![t] = e]
  /\ ASSERT(t, this_ezcfg = NULL, "new_lock")
  /\ UNCHANGED <<ezcfg_ref_mutex, ezcfg_ref_counter, this_ezcfg, dangling, objVars, handle, obj, retry>>

(* Another context is counted: free the new one and return NULL. *)
new_refused(t) ==
  /\ At(t, "new_lock") /\ Unlocked
  /\ ezcfg_ref_counter # 0
  /\ live' = live \ {arg[t]}
  /\ Goto(t, "idle")
  /\ UNCHANGED <<ezcfg_ref_mutex, ezcfg_ref_counter, this_ezcfg, dangling, objVars, handle, callVars, fault>>

(* Fault: the counter is raised without looking at it. *)
new_unchecked(t) ==
  /\ At(t, "new_lock") /\ Unlocked
  /\ ezcfg_ref_counter' = ezcfg_ref_counter + 1
  /\ Goto(t, "new_body")
  /\ UNCHANGED <<ezcfg_ref_mutex, this_ezcfg, live, dangling, objVars, handle, callVars, fault>>

new_counted(t) ==
  /\ At(t, "new_lock") /\ Unlocked
  /\ ezcfg_ref_counter = 0
  /\ ezcfg_ref_counter' = ezcfg_ref_counter + 1
  /\ Goto(t, "new_body")
  /\ UNCHANGED <<ezcfg_ref_mutex, this_ezcfg, live, dangling, objVars, handle, callVars, fault>>

(* meta_nvram and nvram are set up and the context is published. *)
new_publish(t) ==
  /\ At(t, "new_body")
  /\ this_ezcfg' = arg[t]
  /\ handle' = [handle EXCEPT ![t] = arg[t]]
  /\ Goto(t, "idle")
  /\ UNCHANGED <<ezcfg_ref_mutex, ezcfg_ref_counter, live, dangling, objVars, callVars, fault>>

(* fail_out: meta_nvram is deleted if it exists, its pointer is kept, and  *)
(* the context goes to ezcfg_del() although this_ezcfg is still NULL.      *)
new_fail_out(t) ==
  /\ At(t, "new_body")
  /\ \E stage \in BuildFails :
       dangling' = IF stage = "entries" THEN dangling \union {arg[t]} ELSE dangling
  /\ Goto(t, "del_assert")
  /\ UNCHANGED <<ezcfg_ref_mutex, ezcfg_ref_counter, this_ezcfg, live, objVars, handle, callVars, fault>>

-----------------------------------------------------------------------------
(* ezcfg_del(), called by the thread ezcfg_new() returned to or by fail_out. *)
(* Every caller ignores the result and drops its pointer.                    *)

del_call(t) ==
  /\ At(t, "idle") /\ handle[t] # NULL
  /\ arg' = [arg EXCEPT ![t] = handle[t]]
  /\ handle' = [handle EXCEPT ![t] = NULL]
  /\ Goto(t, "del_assert")
  /\ UNCHANGED <<ezcfg_ref_mutex, ezcfg_ref_counter, this_ezcfg, live, dangling, objVars, obj, retry, fault>>

del_assert(t) ==
  /\ At(t, "del_assert")
  /\ ASSERT(t, this_ezcfg = arg[t], "del_lock")
  /\ UNCHANGED <<ezcfg_ref_mutex, ezcfg_ref_counter, this_ezcfg, live, dangling, objVars, handle, callVars>>

del_lock(t) ==
  /\ At(t, "del_lock") /\ Unlocked
  /\ Goto(t, "del_loop")
  /\ ezcfg_ref_mutex' = t
  /\ retry' = [retry EXCEPT ![t] = 0]
  /\ UNCHANGED <<ezcfg_ref_counter, this_ezcfg, live, dangling, objVars, handle, arg, obj, fault>>

(* Fault: one retry too many. *)
RetriesAndOne(t) == retry[t] <= RetryMax

RetriesLeft(t) == retry[t] < RetryMax

(* Fault: the mutex is released while the caller sleeps. *)
del_wait_unlocked(t) ==
  /\ At(t, "del_loop")
  /\ ezcfg_ref_counter > 1 /\ RetriesLeft(t)
  /\ retry' = [retry EXCEPT ![t] = @ + 1]
  /\ ezcfg_ref_mutex' = NoThread
  /\ UNCHANGED <<ezcfg_ref_counter, this_ezcfg, live, dangling, objVars, handle, pc, arg, obj, fault>>

(* Other references exist: sleep a second, with the mutex held. *)
del_wait(t) ==
  /\ At(t, "del_loop")
  /\ ezcfg_ref_counter > 1 /\ RetriesLeft(t)
  /\ retry' = [retry EXCEPT ![t] = @ + 1]
  /\ UNCHANGED <<ezcfg_ref_mutex, ezcfg_ref_counter, this_ezcfg, live, dangling, objVars, handle, pc, arg, obj, fault>>

(* Fault: the loop ends one reference too early. *)
LastTwo == ezcfg_ref_counter \in {1, 2}

LastReference == ezcfg_ref_counter = 1

(* Only the context's own reference is left: unpublish and free it. *)
del_free(t) ==
  /\ At(t, "del_loop")
  /\ LastReference /\ RetriesLeft(t)
  /\ ezcfg_ref_counter' = ezcfg_ref_counter - 1
  /\ this_ezcfg' = NULL
  /\ IF arg[t] \in dangling
     THEN /\ fault' = "double_free"
          /\ UNCHANGED <<live, pc>>
     ELSE /\ live' = live \ {arg[t]}
          /\ Goto(t, "del_freed")
          /\ UNCHANGED fault
  /\ UNCHANGED <<ezcfg_ref_mutex, dangling, objVars, handle, callVars>>

(* The retries are used up, or the counter makes no sense: EZCFG_RET_FAIL. *)
del_fail(t) ==
  /\ At(t, "del_loop")
  /\ ezcfg_ref_counter < 1 \/ ~RetriesLeft(t)
  /\ Goto(t, "del_failed")
  /\ UNCHANGED <<ezcfg_ref_mutex, ezcfg_ref_counter, this_ezcfg, live, dangling, objVars, handle, callVars, fault>>

(* Fault: the failing return forgets the mutex. *)
UnlockedOnSuccess(t) == IF pc[t] = "del_failed" THEN t ELSE NoThread

UnlockedBy(t) == NoThread

(* func_exit: one exit for success and failure. *)
del_unlock(t) ==
  /\ At(t, "del_freed") \/ At(t, "del_failed")
  /\ ezcfg_ref_mutex' = UnlockedBy(t)
  /\ Goto(t, "idle")
  /\ UNCHANGED <<ezcfg_ref_counter, this_ezcfg, live, dangling, objVars, handle, callVars, fault>>

-----------------------------------------------------------------------------
(* ezcfg_inc_ref() and ezcfg_dec_ref(), called when an object is made and  *)
(* deleted.                                                                *)

Busy == {obj[t] : t \in Threads}
CanName(t) ==
  ({handle[t], borrowed[t]} \union {home[o] : o \in {q \in refs : user[q] = t}}) \ {NULL}

(* ezcfg_socket_agent_new(), ezcfg_process_new(): the published context is *)
(* stored and not counted.                                                 *)
borrow(t) ==
  /\ At(t, "idle") /\ t \in Borrowers
  /\ this_ezcfg # NULL /\ borrowed[t] # this_ezcfg
  /\ borrowed' = [borrowed EXCEPT ![t] = this_ezcfg]
  /\ UNCHANGED <<ezcfg_ref_mutex, ezcfg_ref_counter, this_ezcfg, live, dangling, refs, home, user, handle, pc, callVars, fault>>

(* The constructor of an object: ezcfg_inc_ref(e) begins with its ASSERT. *)
inc_call(t) ==
  /\ At(t, "idle")
  /\ \E o \in Objects \ (refs \union Busy), e \in CanName(t) :
       /\ obj' = [obj EXCEPT ![t] = o]
       /\ arg' = [arg EXCEPT ![t] = e]
       /\ ASSERT(t, this_ezcfg = e, "inc_lock")
  /\ UNCHANGED <<ezcfg_ref_mutex, ezcfg_ref_counter, this_ezcfg, live, dangling, objVars, handle, retry>>

(* The reference is counted; the finished object is used by this thread or *)
(* handed to another one (an ezcfg_thread).                                *)
inc_ref(t) ==
  /\ At(t, "inc_lock") /\ Unlocked
  /\ ezcfg_ref_counter > 0
  /\ ezcfg_ref_counter' = ezcfg_ref_counter + 1
  /\ refs' = refs \union {obj[t]}
  /\ home' = [home EXCEPT ![obj[t]] = arg[t]]
  /\ \E u \in Threads : user' = [user EXCEPT ![obj[t]] = u]
  /\ obj' = [obj EXCEPT ![t] = NoObject]
  /\ Goto(t, "idle")
  /\ UNCHANGED <<ezcfg_ref_mutex, this_ezcfg, live, dangling, borrowed, handle, arg, retry, fault>>

(* No context is counted: the constructor gives up. *)
inc_fail(t) ==
  /\ At(t, "inc_lock") /\ Unlocked
  /\ ezcfg_ref_counter <= 0
  /\ obj' = [obj EXCEPT ![t] = NoObject]
  /\ Goto(t, "idle")
  /\ UNCHANGED <<ezcfg_ref_mutex, ezcfg_ref_counter, this_ezcfg, live, dangling, objVars, handle, arg, retry, fault>>

(* The destructor frees the object, then calls ezcfg_dec_ref(). *)
dec_call(t) ==
  /\ At(t, "idle")
  /\ \E o \in refs \ Busy :
       /\ user[o] = t
       /\ obj' = [obj EXCEPT ![t] = o]
       /\ arg' = [arg EXCEPT ![t] = home[o]]
       /\ ASSERT(t, this_ezcfg = home[o], "dec_lock")
  /\ UNCHANGED <<ezcfg_ref_mutex, ezcfg_ref_counter, this_ezcfg, live, dangling, objVars, handle, retry>>

dec_ref(t) ==
  /\ At(t, "dec_lock") /\ Unlocked
  /\ ezcfg_ref_counter' = IF ezcfg_ref_counter > 1 THEN ezcfg_ref_counter - 1
                           ELSE ezcfg_ref_counter
  /\ refs' = refs \ {obj[t]}
  /\ obj' = [obj EXCEPT ![t] = NoObject]
  /\ Goto(t, "idle")
  /\ UNCHANGED <<ezcfg_ref_mutex, this_ezcfg, live, dangling, home, user, borrowed, handle, arg, retry, fault>>

-----------------------------------------------------------------------------
New(t) == new_call(t) \/ new_refused(t) \/ new_counted(t) \/ new_publish(t) \/ new_fail_out(t)
Del(t) == del_assert(t) \/ del_lock(t) \/ del_wait(t) \/ del_free(t) \/ del_fail(t) \/ del_unlock(t)
Ref(t) == borrow(t) \/ inc_call(t) \/ inc_ref(t) \/ inc_fail(t) \/ dec_call(t) \/ dec_ref(t)

Next == \E t \in Threads : New(t) \/ del_call(t) \/ Del(t) \/ Ref(t)

Spec == Init /\ [][Next]_vars

(* A thread inside ezcfg_del() keeps running; objects are deleted in the end, *)
(* and a thread that waits for the mutex to do so gets it when it is free     *)
(* often enough.                                                              *)
FairSpec ==
  /\ Spec
  /\ \A t \in Threads : WF_vars(Del(t)) /\ WF_vars(dec_call(t)) /\ SF_vars(dec_ref(t))

-----------------------------------------------------------------------------
(* Properties *)

(* Types of the counters, of the context and object tables and of the calls. *)
TypeOK ==
  /\ ezcfg_ref_mutex \in Threads \union {NoThread}
  /\ ezcfg_ref_counter \in Int
  /\ this_ezcfg \in Contexts \union {NULL}
  /\ live \subseteq Contexts
  /\ dangling \subseteq Contexts
  /\ refs \subseteq Objects
  /\ home \in [Objects -> Contexts \union {NULL}]
  /\ user \in [Objects -> Threads \union {NoThread}]
  /\ handle \in [Threads -> Contexts \union {NULL}]
  /\ borrowed \in [Threads -> Contexts \union {NULL}]
  /\ pc \in [Threads -> {"idle", "new_lock", "new_body", "del_assert", "del_lock", "del_loop",
                        "del_freed", "del_failed", "inc_lock", "dec_lock"}]
  /\ arg \in [Threads -> Contexts \union {NULL}]
  /\ obj \in [Threads -> Objects \union {NoObject}]
  /\ retry \in [Threads -> 0 .. RetryMax]
  /\ fault \in {"none", "assert", "double_free"}

(* A context that is being built or taken down keeps its own reference. *)
Held == {"new_body", "del_assert", "del_lock", "del_loop"}
OwnReference == IF this_ezcfg # NULL \/ \E t \in Threads : pc[t] \in Held THEN 1 ELSE 0

(* ezcfg.c: ezcfg_ref_counter is one for the context plus one for every    *)
(* object that has been made and not deleted, over concurrent ezcfg_new(), *)
(* ezcfg_del() and failed constructions; so ezcfg_dec_ref() never refuses  *)
(* an object.  With borrowers it takes the debug build, whose ASSERTs stop *)
(* the process before a stale pointer is counted.                          *)
RefConservation ==
  fault = "none" => ezcfg_ref_counter = Cardinality(refs) + OwnReference

(* ezcfg.c: without borrowers, the context an object points to is the      *)
(* published one and is allocated: ezcfg_del() never frees it under an     *)
(* object, whatever other threads do.                                      *)
NoUseAfterFree ==
  \A o \in refs : home[o] = this_ezcfg /\ this_ezcfg \in live

(* ezcfg.c: a published context is never replaced by another one; it must  *)
(* be taken down first.                                                    *)
SingleContext ==
  [][this_ezcfg # NULL => this_ezcfg' \in {this_ezcfg, NULL}]_vars

(* ezcfg.c, ezcfg_del(): it sleeps with ezcfg_ref_mutex held, so nobody can *)
(* give a reference back meanwhile, and a call that had to wait never frees *)
(* the context.                                                             *)
RetryNeverHelps == \A t \in Threads : pc[t] = "del_freed" => retry[t] = 0

(* ezcfg.c: the mutex is always given back, even when ezcfg_del() waits. *)
MutexReleased ==
  (ezcfg_ref_mutex # NoThread) ~> (ezcfg_ref_mutex = NoThread \/ fault # "none")
=============================================================================
