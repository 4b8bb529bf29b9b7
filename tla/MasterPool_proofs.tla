------------------------- MODULE MasterPool_proofs -------------------------
(***************************************************************************)
(* Proofs about MasterPool for any number of workers and connections, any  *)
(* length of the queue and any order of signals, reloads and failures.     *)
(***************************************************************************)
EXTENDS MasterPool, FiniteSetTheorems, SequenceTheorems, TLAPS

(* The places where a thread holds a mutex. *)
MasterInThread == {"put_test", "finish_ls", "finish_wait"}
SignalInThread == {"reload_ls", "reload_wait"}
MasterInLs == {"accept", "unlock_ls", "put", "put_test", "put_sleep", "put_woken"}
SignalInLs == {"reload_wait", "reload_sleep", "reload_woken"}
Finishing == {"finish", "finish_ls", "finish_wait", "finish_sleep", "finish_woken"}

(* A mutex is held exactly by the thread that is inside its section; no    *)
(* worker keeps thread_mutex from one step to the next.                    *)
MutexesHeld ==
  /\ thread_mutex \in {Master, Signal, Nobody}
  /\ thread_mutex = Master <=> mpc \in MasterInThread
  /\ thread_mutex = Signal <=> spc \in SignalInThread
  /\ ls_mutex = Master <=> mpc \in MasterInLs
  /\ ls_mutex = Signal <=> spc \in SignalInLs

(* stop_flag tells how far the shutdown has come. *)
FlagInStep ==
  /\ stop_flag = 0 <=> spc \notin {"stopping", "deleted"}
  /\ mpc \in Finishing => stop_flag # 0
  /\ stop_flag = 2 <=> mpc = "done"
  /\ stop_flag = 2 => num_threads = 0
  /\ spc = "deleted" => stop_flag = 2
  /\ \A w \in Workers : wpc[w] = "leave" => stop_flag # 0

(* A wait set holds exactly the threads that sleep on its condition. *)
WaitSets ==
  /\ sq_empty_cond = {w \in Workers : wpc[w] = "waiting"}
  /\ Master \in sq_full_cond <=> mpc = "put_sleep"
  /\ Master \in thread_sync_cond <=> mpc = "finish_sleep"
  /\ Signal \in thread_sync_cond <=> spc = "reload_sleep"

(* The master has a connection in its hand exactly while it queues it, a   *)
(* worker exactly while it serves it.                                      *)
HandsFull ==
  /\ hand # NoConn <=> mpc \in {"put", "put_test", "put_sleep", "put_woken"}
  /\ \A w \in Workers : sp[w] # NoConn <=> wpc[w] = "serve"

(* No slot between the tail and the head is empty. *)
SlotsFilled == \A i \in DOMAIN Fifo : Fifo[i] \in Conns

Control == MutexesHeld /\ FlagInStep /\ WaitSets

(* The inductive invariant. *)
IndInv ==
  /\ TypeOK /\ QueueBounds /\ ThreadsCounted /\ IdleCounted
  /\ Control /\ HandsFull /\ SlotsFilled

(* The same as ConnConserved, place by place: no connection is in two      *)
(* places, and each is in one.                                             *)
Apart ==
  /\ unborn \cap backlog = {} /\ unborn \cap served = {} /\ backlog \cap served = {}
  /\ dropped \cap (unborn \union backlog \union served) = {}
  /\ hand \notin unborn \union backlog \union served \union dropped
  /\ \A i \in DOMAIN Fifo : /\ Fifo[i] \notin unborn \union backlog \union served \union dropped
                            /\ Fifo[i] # hand
  /\ \A i, j \in DOMAIN Fifo : Fifo[i] = Fifo[j] => i = j
  /\ \A w \in Workers : sp[w] # NoConn =>
       /\ sp[w] \notin unborn \union backlog \union served \union dropped
       /\ sp[w] # hand
       /\ \A i \in DOMAIN Fifo : Fifo[i] # sp[w]
  /\ \A v, w \in Workers : sp[v] # NoConn /\ sp[v] = sp[w] => v = w
Somewhere ==
  \A c \in Conns : \/ c \in unborn \union backlog \union served \union dropped
                   \/ c = hand
                   \/ \E i \in DOMAIN Fifo : Fifo[i] = c
                   \/ \E w \in Workers : sp[w] = c

-----------------------------------------------------------------------------
(* Types *)

(* master.c, the indices of the queue: the slot of an index is the index   *)
(* itself or, after one turn, the index less the length of the queue.      *)
LEMMA SlotOf ==
  /\ \A k \in 0 .. SqLen - 1 : k % SqLen = k
  /\ \A k \in SqLen .. 2 * SqLen - 1 : k % SqLen = k - SqLen
  /\ \A k \in Nat : k % SqLen \in 0 .. SqLen - 1
BY PoolAssumption, SMT

(* Two indices less than the length of the queue apart have two slots. *)
LEMMA SlotsApart ==
  ASSUME NEW j \in 0 .. 2 * SqLen - 1, NEW k \in 0 .. 2 * SqLen - 1, j < k, k - j < SqLen
  PROVE  j % SqLen # k % SqLen
<1> USE PoolAssumption
<1>1. CASE k < SqLen
  <2>1. j % SqLen = j /\ k % SqLen = k
    BY <1>1, SlotOf
  <2> QED
    BY <2>1
<1>2. CASE k >= SqLen
  <2>1. k % SqLen = k - SqLen
    BY <1>2, SlotOf
  <2>2. CASE j < SqLen
    <3>1. j % SqLen = j
      BY <2>2, SlotOf
    <3> QED
      BY <1>2, <2>1, <2>2, <3>1
  <2>3. CASE j >= SqLen
    <3>1. j % SqLen = j - SqLen
      BY <2>3, SlotOf
    <3> QED
      BY <2>1, <3>1
  <2> QED
    BY <2>2, <2>3
<1> QED
  BY <1>1, <1>2

(* put_socket() changes the place of a worker in two ways: it wakes one    *)
(* that waits, and it starts one that is not running, which it counts.     *)
LEMMA PutEffect ==
  ASSUME IndInv, put_socket
  PROVE  /\ wpc' \in [Workers -> WorkerPlaces]
         /\ \A w \in Workers : \/ wpc'[w] = wpc[w]
                               \/ wpc[w] = "waiting" /\ wpc'[w] = "woken"
                               \/ wpc[w] = "none" /\ wpc'[w] = "test"
         /\ sq_empty_cond' = {w \in Workers : wpc'[w] = "waiting"}
         /\ \/ num_threads' = num_threads /\ Alive' = Alive
            \/ /\ num_threads < threads_max /\ num_threads' = num_threads + 1
               /\ \E w \in Workers \ Alive : Alive' = Alive \union {w}
<1> USE PoolAssumption
<1>1. PICK woken \in SUBSET sq_empty_cond :
        /\ sq_empty_cond' = sq_empty_cond \ woken
        /\ StartWorker(woken)
  BY DEF put_socket
<1>2. /\ wpc \in [Workers -> WorkerPlaces]
      /\ sq_empty_cond = {w \in Workers : wpc[w] = "waiting"}
  BY DEF IndInv, TypeOK, Control, WaitSets
<1>3. \A w \in woken : w \in Workers /\ wpc[w] = "waiting"
  BY <1>2
<1>4. CASE /\ wpc' = [w \in Workers |-> IF w \in woken THEN "woken" ELSE wpc[w]]
           /\ num_threads' = num_threads
  <2>1. \A w \in Workers : wpc'[w] = IF w \in woken THEN "woken" ELSE wpc[w]
    BY <1>4
  <2>2. Alive' = Alive
    BY <1>3, <2>1 DEF Alive
  <2> QED
    BY <1>1, <1>2, <1>3, <1>4, <2>1, <2>2 DEF WorkerPlaces
<1>5. ASSUME NEW v \in Workers, wpc[v] = "none", NeedWorker,
             wpc' = [w \in Workers |-> IF w \in woken THEN "woken"
                                       ELSE [wpc EXCEPT ![v] = "test"][w]],
             num_threads' = num_threads + 1
      PROVE  /\ wpc' \in [Workers -> WorkerPlaces]
             /\ \A w \in Workers : \/ wpc'[w] = wpc[w]
                                   \/ wpc[w] = "waiting" /\ wpc'[w] = "woken"
                                   \/ wpc[w] = "none" /\ wpc'[w] = "test"
             /\ sq_empty_cond' = {w \in Workers : wpc'[w] = "waiting"}
             /\ num_threads < threads_max /\ num_threads' = num_threads + 1
             /\ \E w \in Workers \ Alive : Alive' = Alive \union {w}
  <2>1. \A w \in Workers : wpc'[w] = IF w \in woken THEN "woken"
                                     ELSE IF w = v THEN "test" ELSE wpc[w]
    BY <1>2, <1>5
  <2>2. v \in Workers \ Alive /\ Alive' = Alive \union {v}
    BY <1>3, <1>5, <2>1 DEF Alive
  <2>3. wpc' \in [Workers -> WorkerPlaces]
    BY <1>2, <1>5 DEF WorkerPlaces
  <2>4. sq_empty_cond' = {w \in Workers : wpc'[w] = "waiting"}
    BY <1>1, <1>2, <1>5, <2>1
  <2> QED
    BY <1>3, <1>5, <2>1, <2>2, <2>3, <2>4 DEF NeedWorker
<1> QED
  BY <1>1, <1>4, <1>5 DEF StartWorker

(* ezcfg_master_get_socket(): the indices after the oldest connection has  *)
(* been taken are lowered together or not at all, and stay indices.        *)
LEMMA TakeEffect ==
  ASSUME IndInv, NEW w \in Workers, ~QueueEmpty, Take(w)
  PROVE  /\ TakenSlot = sq_tail
         /\ sp' = [sp EXCEPT ![w] = queue[sq_tail]]
         /\ sq_head' \in Nat /\ sq_tail' \in Nat
         /\ QueueBounds'
         /\ sq_head' - sq_tail' = sq_head - sq_tail - 1
         /\ \/ sq_tail' = sq_tail + 1
            \/ sq_tail + 1 = SqLen /\ sq_tail' = 0
<1>0. /\ sq_head \in Nat /\ sq_tail \in 0 .. SqLen - 1 /\ sq_head - sq_tail \in 0 .. SqLen
      /\ SqLen \in Nat \ {0}
  BY PoolAssumption DEF IndInv, TypeOK, QueueBounds
<1>1. TakenSlot = sq_tail
  BY SlotOf, PoolAssumption DEF TakenSlot, IndInv, TypeOK, QueueBounds
<1>2. /\ sq_tail' = IF sq_tail + 1 >= SqLen THEN sq_tail + 1 - SqLen ELSE sq_tail + 1
      /\ sq_head' = IF sq_tail + 1 >= SqLen THEN sq_head - SqLen ELSE sq_head
  <2>1. sq_tail' = Wrapped(sq_tail + 1) /\ sq_head' = WrappedHead(sq_head)
    BY DEF Take
  <2> QED
    BY <1>0, <2>1 DEF Wrapped, WrappedHead
<1>3. sq_head - sq_tail \in 1 .. SqLen
  BY <1>0 DEF QueueEmpty
<1>4. sp' = [sp EXCEPT ![w] = queue[sq_tail]]
  BY <1>1 DEF Take
<1> QED
  BY <1>0, <1>1, <1>2, <1>3, <1>4 DEF QueueBounds

(* The worker threads that run are finitely many. *)
LEMMA AliveFinite ==
  ASSUME TypeOK
  PROVE  IsFiniteSet(Alive) /\ Cardinality(Alive) \in Nat /\ (Cardinality(Alive) = 0 <=> Alive = {})
<1>1. IsFiniteSet(Alive)
  BY PoolAssumption, FS_Subset DEF Alive
<1> QED
  BY <1>1, FS_CardinalityType, FS_EmptySet

(* ezcfg_master_stop_worker() counts the worker that leaves off. *)
LEMMA StopEffect ==
  ASSUME IndInv, NEW w \in Workers, stop_worker(w)
  PROVE  /\ w \in Alive /\ Alive' = Alive \ {w}
         /\ num_threads > 0 /\ num_threads' = num_threads - 1
<1>1. w \in Alive
  BY DEF stop_worker, Alive
<1>2. Alive' = Alive \ {w}
  BY DEF stop_worker, WGoto, Alive, IndInv, TypeOK
<1>3. num_threads > 0
  BY <1>1, AliveFinite DEF IndInv, ThreadsCounted
<1> QED
  BY <1>1, <1>2, <1>3 DEF stop_worker, ThreadsAfterStop

(* Every step keeps the types of the counters, of the queue and of the     *)
(* places of the threads.                                                  *)
LEMMA TypeStep == IndInv /\ [Next]_vars => TypeOK'
<1> USE PoolAssumption DEF queueVars, countVars, condVars, connVars, IndInv, TypeOK, MasterPlaces,
                           SignalPlaces, WorkerPlaces, Threads
<1> SUFFICES ASSUME IndInv, [Next]_vars
             PROVE  TypeOK'
  OBVIOUS
<1>1. ASSUME NEW c \in Conns, client_connect(c)
      PROVE  TypeOK'
  BY <1>1 DEF client_connect
<1>2. CASE ezcfg_master_set_threads_max
  BY <1>2 DEF ezcfg_master_set_threads_max
<1>3. CASE MasterStep
  <2>1. CASE master_test
    BY <2>1 DEF master_test, mVars
  <2>2. CASE master_fdset
    BY <2>2 DEF master_fdset, mVars
  <2>3. CASE master_select
    BY <2>3 DEF master_select, mVars
  <2>4. CASE master_lock_ls
    BY <2>4 DEF master_lock_ls
  <2>5. CASE accept_new_connection
    BY <2>5 DEF accept_new_connection
  <2>6. CASE accept_fail
    BY <2>6 DEF accept_fail, BacklogReset
  <2>7. CASE master_unlock_ls
    BY <2>7 DEF master_unlock_ls
  <2>8. CASE put_lock
    BY <2>8 DEF put_lock
  <2>9. CASE put_wait
    BY <2>9 DEF put_wait
  <2>10. CASE put_socket
    <3>1. wpc' \in [Workers -> WorkerPlaces] /\ num_threads' \in Nat /\ sq_empty_cond' \subseteq Workers
      BY <2>10, PutEffect DEF IndInv, TypeOK
    <3>2. queue' \in [0 .. SqLen - 1 -> Conns \union {NoConn}]
      BY <2>10, SlotOf DEF put_socket, IndInv, TypeOK
    <3>3. /\ sq_head' = sq_head + 1 /\ hand' = NoConn /\ thread_mutex' = Nobody /\ mpc' = "unlock_ls"
          /\ UNCHANGED <<stop_flag, threads_max, num_idle, ls_mutex, sq_tail, sq_full_cond,
                         thread_sync_cond, listening, unborn, backlog, served, dropped, spc, sp,
                         reloads>>
      BY <2>10 DEF put_socket
    <3>4. sq_head' \in Nat /\ hand' \in Conns \union {NoConn} /\ mpc' \in MasterPlaces
      BY <3>3
    <3>5. thread_mutex' \in Threads \union {Nobody} /\ sq_full_cond' \subseteq {Master}
      BY <3>3
    <3>6. /\ stop_flag' \in 0 .. 2 /\ threads_max' \in {0, ThreadsMax} /\ num_idle' \in Int
          /\ ls_mutex' \in {Master, Signal, Nobody} /\ sq_tail' \in Nat
          /\ thread_sync_cond' \subseteq {Master, Signal} /\ listening' \in BOOLEAN
      BY <3>3
    <3>7. /\ unborn' \subseteq Conns /\ backlog' \subseteq Conns /\ served' \subseteq Conns
          /\ dropped' \subseteq Conns /\ spc' \in SignalPlaces
          /\ sp' \in [Workers -> Conns \union {NoConn}] /\ reloads' \in Nat
      BY <3>3
    <3> HIDE DEF IndInv, Threads, MasterPlaces, SignalPlaces, WorkerPlaces
    <3> QED
      BY <3>1, <3>2, <3>4, <3>5, <3>6, <3>7
  <2>11. CASE finish_lock
    BY <2>11 DEF finish_lock
  <2>12. CASE finish_close
    <3>1. backlog' \subseteq Conns /\ dropped' \subseteq Conns
      BY <2>12 DEF finish_close, BacklogReset
    <3>2. /\ listening' \in BOOLEAN /\ mpc' = "finish_wait"
          /\ UNCHANGED <<stop_flag, countVars, thread_mutex, ls_mutex, queueVars, condVars,
                         unborn, hand, served, spc, wpc, sp, reloads>>
      BY <2>12 DEF finish_close
    <3> QED
      BY <3>1, <3>2
  <2>13. CASE finish_wait
    BY <2>13 DEF finish_wait
  <2>14. CASE finish_done
    BY <2>14 DEF finish_done
  <2> QED
    BY <1>3, <2>1, <2>2, <2>3, <2>4, <2>5, <2>6, <2>7, <2>8, <2>9, <2>10, <2>11, <2>12, <2>13,
        <2>14 DEF MasterStep
<1>4. ASSUME NEW w \in Workers, WorkerStep(w)
      PROVE  TypeOK'
  <2>1. CASE worker_test(w)
    BY <2>1 DEF worker_test, WGoto
  <2>2. CASE get_socket(w)
    <3>1. CASE QueueEmpty /\ Wait(w)
      BY <2>2, <3>1 DEF get_socket, Wait, QueueEmpty, WGoto
    <3>2. CASE ~QueueEmpty /\ Take(w)
      <4>1. sp' \in [Workers -> Conns \union {NoConn}] /\ sq_head' \in Nat /\ sq_tail' \in Nat
        BY <3>2, TakeEffect DEF IndInv, TypeOK, QueueBounds
      <4> QED
        BY <2>2, <3>2, <4>1 DEF get_socket, Take, WGoto
    <3> QED
      BY <2>2, <3>1, <3>2 DEF get_socket
  <2>3. CASE get_woken(w)
    <3>1. CASE QueueEmpty /\ Wait(w)
      BY <2>3, <3>1 DEF get_woken, Wait, QueueEmpty, WGoto
    <3>2. CASE ~QueueEmpty /\ Take(w)
      <4>1. sp' \in [Workers -> Conns \union {NoConn}] /\ sq_head' \in Nat /\ sq_tail' \in Nat
        BY <3>2, TakeEffect DEF IndInv, TypeOK, QueueBounds
      <4> QED
        BY <2>3, <3>2, <4>1 DEF get_woken, Take, WGoto
    <3> QED
      BY <2>3, <3>1, <3>2 DEF get_woken
  <2>4. CASE get_timeout(w)
    BY <2>4 DEF get_timeout, WGoto
  <2>5. CASE worker_serve(w)
    BY <2>5 DEF worker_serve, WGoto, HandsFull
  <2>6. CASE stop_worker(w)
    <3>1. num_threads' \in Nat
      BY <2>6, StopEffect DEF IndInv, TypeOK
    <3> QED
      BY <2>6, <3>1 DEF stop_worker, WGoto, IdleAfterStop
  <2> QED
    BY <1>4, <2>1, <2>2, <2>3, <2>4, <2>5, <2>6 DEF WorkerStep
<1>5. CASE reload_lock
  BY <1>5 DEF reload_lock
<1>6. CASE reload_lock_ls
  BY <1>6 DEF reload_lock_ls
<1>7. CASE reload_wait
  BY <1>7 DEF reload_wait
<1>8. CASE reload_done
  BY <1>8 DEF reload_done
<1>9. CASE stop_request
  BY <1>9 DEF stop_request
<1>10. CASE master_delete
  BY <1>10 DEF master_delete
<1>11. CASE UNCHANGED vars
  BY <1>11 DEF vars
<1> QED
  BY <1>1, <1>2, <1>3, <1>4, <1>5, <1>6, <1>7, <1>8, <1>9, <1>10, <1>11 DEF Next, Terminated

(* Every step keeps mutexes, wait sets and stop_flag in step with the      *)
(* places of the threads.                                                  *)
LEMMA ControlStep == IndInv /\ [Next]_vars => Control'
<1> USE PoolAssumption DEF queueVars, countVars, condVars, connVars, IndInv, TypeOK, Control,
                           MutexesHeld, FlagInStep, WaitSets, Free, MasterInThread,
                           SignalInThread, MasterInLs, SignalInLs, Finishing, Threads
<1> SUFFICES ASSUME IndInv, [Next]_vars
             PROVE  Control'
  OBVIOUS
<1>1. ASSUME NEW c \in Conns, client_connect(c)
      PROVE  Control'
  BY <1>1 DEF client_connect
<1>2. CASE ezcfg_master_set_threads_max
  BY <1>2 DEF ezcfg_master_set_threads_max
<1>3. CASE MasterStep
  <2>1. CASE master_test
    BY <2>1 DEF master_test, mVars
  <2>2. CASE master_fdset
    BY <2>2 DEF master_fdset, mVars
  <2>3. CASE master_select
    BY <2>3 DEF master_select, mVars
  <2>4. CASE master_lock_ls
    BY <2>4 DEF master_lock_ls
  <2>5. CASE accept_new_connection
    BY <2>5 DEF accept_new_connection
  <2>6. CASE accept_fail
    BY <2>6 DEF accept_fail, BacklogReset
  <2>7. CASE master_unlock_ls
    BY <2>7 DEF master_unlock_ls
  <2>8. CASE put_lock
    BY <2>8 DEF put_lock
  <2>9. CASE put_wait
    BY <2>9 DEF put_wait
  <2>10. CASE put_socket
    <3>1. /\ sq_empty_cond' = {w \in Workers : wpc'[w] = "waiting"}
          /\ \A w \in Workers : wpc'[w] = "leave" => wpc[w] = "leave"
      BY <2>10, PutEffect
    <3> QED
      BY <2>10, <3>1 DEF put_socket
  <2>11. CASE finish_lock
    BY <2>11 DEF finish_lock
  <2>12. CASE finish_close
    BY <2>12 DEF finish_close, BacklogReset
  <2>13. CASE finish_wait
    BY <2>13 DEF finish_wait
  <2>14. CASE finish_done
    <3>1. num_threads = 0
      BY <2>14 DEF finish_done, AllGone, IndInv, TypeOK
    <3> QED
      BY <2>14, <3>1 DEF finish_done
  <2> QED
    BY <1>3, <2>1, <2>2, <2>3, <2>4, <2>5, <2>6, <2>7, <2>8, <2>9, <2>10, <2>11, <2>12, <2>13,
        <2>14 DEF MasterStep
<1>4. ASSUME NEW w \in Workers, WorkerStep(w)
      PROVE  Control'
  <2>1. CASE worker_test(w)
    BY <2>1 DEF worker_test, WGoto
  <2>2. CASE get_socket(w)
    BY <2>2 DEF get_socket, Take, Wait, WGoto
  <2>3. CASE get_woken(w)
    BY <2>3 DEF get_woken, Take, Wait, WGoto
  <2>4. CASE get_timeout(w)
    BY <2>4 DEF get_timeout, WGoto
  <2>5. CASE worker_serve(w)
    BY <2>5 DEF worker_serve, WGoto
  <2>6. CASE stop_worker(w)
    <3>1. num_threads > 0
      BY <2>6, StopEffect
    <3>2. wpc' = [wpc EXCEPT ![w] = "none"] /\ wpc[w] # "waiting"
      BY <2>6 DEF stop_worker, WGoto
    <3>3. MutexesHeld'
      BY <2>6 DEF stop_worker, WakeOne, ToWake
    <3>4. FlagInStep'
      BY <2>6, <3>1, <3>2 DEF stop_worker, WakeOne, ToWake
    <3>5. WaitSets'
      BY <2>6, <3>2 DEF stop_worker, WakeOne, ToWake
    <3> QED
      BY <3>3, <3>4, <3>5 DEF Control
  <2> QED
    BY <1>4, <2>1, <2>2, <2>3, <2>4, <2>5, <2>6 DEF WorkerStep
<1>5. CASE reload_lock
  BY <1>5 DEF reload_lock
<1>6. CASE reload_lock_ls
  BY <1>6 DEF reload_lock_ls
<1>7. CASE reload_wait
  BY <1>7 DEF reload_wait
<1>8. CASE reload_done
  BY <1>8 DEF reload_done
<1>9. CASE stop_request
  BY <1>9 DEF stop_request
<1>10. CASE master_delete
  BY <1>10 DEF master_delete
<1>11. CASE UNCHANGED vars
  BY <1>11 DEF vars
<1> QED
  BY <1>1, <1>2, <1>3, <1>4, <1>5, <1>6, <1>7, <1>8, <1>9, <1>10, <1>11 DEF Next, Terminated

-----------------------------------------------------------------------------
(* The counters *)

(* A step that is neither put_socket() nor a step of a worker leaves the   *)
(* queue, the counters and the workers alone, and never takes a stop back. *)
LEMMA QuietSteps ==
  ASSUME IndInv, [Next]_vars
  PROVE  \/ put_socket
         \/ \E w \in Workers : WorkerStep(w)
         \/ /\ UNCHANGED <<queueVars, num_threads, num_idle, wpc, sp>>
            /\ stop_flag' = 0 => stop_flag = 0
            /\ \/ \E c \in Conns : client_connect(c)
               \/ accept_new_connection
               \/ /\ backlog' = {} /\ dropped' = dropped \union backlog
                  /\ UNCHANGED <<unborn, hand, served>>
               \/ UNCHANGED <<unborn, backlog, hand, served, dropped>>
            /\ threads_max' \in {0, threads_max, ThreadsMax}
<1> USE DEF queueVars, countVars, connVars
<1>1. ASSUME NEW c \in Conns, client_connect(c)
      PROVE  UNCHANGED <<queueVars, num_threads, num_idle, wpc, sp, stop_flag, threads_max>>
  BY <1>1 DEF client_connect
<1>2. CASE ezcfg_master_set_threads_max
  BY <1>2 DEF ezcfg_master_set_threads_max
<1>3. CASE MasterStep
  BY <1>3 DEF MasterStep, mVars, master_test, master_fdset, master_select, master_lock_ls,
              accept_new_connection, accept_fail, BacklogReset, master_unlock_ls, put_lock, put_wait,
              finish_lock, finish_close, finish_wait, finish_done
<1>4. CASE \/ reload_lock \/ reload_lock_ls \/ reload_wait \/ reload_done
           \/ stop_request \/ master_delete
  BY <1>4 DEF reload_lock, reload_lock_ls, reload_wait, reload_done, stop_request, master_delete
<1>5. CASE UNCHANGED vars
  BY <1>5 DEF vars
<1> QED
  BY <1>1, <1>2, <1>3, <1>4, <1>5 DEF Next, Terminated

(* How a step of a worker changes who runs and who is idle. *)
LEMMA WorkerEffect ==
  ASSUME IndInv, NEW w \in Workers, WorkerStep(w)
  PROVE  /\ \/ Alive' = Alive /\ num_threads' = num_threads
            \/ stop_worker(w)
         /\ \/ Idle' = Idle /\ num_idle' = num_idle
            \/ w \notin Idle /\ Idle' = Idle \union {w} /\ num_idle' = num_idle + 1
            \/ w \in Idle /\ Idle' = Idle \ {w} /\ num_idle' = num_idle - 1
            \/ stop_flag # 0
         /\ stop_flag' = stop_flag /\ threads_max' = threads_max
<1> USE DEF countVars
<1>0. wpc \in [Workers -> WorkerPlaces]
  BY DEF IndInv, TypeOK
<1>1. CASE worker_test(w)
  BY <1>0, <1>1 DEF worker_test, WGoto, Alive, Idle
<1>2. CASE get_socket(w)
  <2>1. CASE QueueEmpty /\ Wait(w) /\ num_idle' = num_idle + 1
    BY <1>0, <1>2, <2>1 DEF get_socket, Wait, WGoto, Alive, Idle
  <2>2. CASE ~QueueEmpty /\ Take(w) /\ UNCHANGED num_idle
    BY <1>0, <1>2, <2>2 DEF get_socket, Take, WGoto, Alive, Idle
  <2> QED
    BY <1>2, <2>1, <2>2 DEF get_socket
<1>3. CASE get_woken(w)
  <2>1. CASE QueueEmpty /\ Wait(w) /\ UNCHANGED num_idle
    BY <1>0, <1>3, <2>1 DEF get_woken, Wait, WGoto, Alive, Idle
  <2>2. CASE ~QueueEmpty /\ Take(w) /\ num_idle' = num_idle - 1
    BY <1>0, <1>3, <2>2 DEF get_woken, Take, WGoto, Alive, Idle
  <2> QED
    BY <1>3, <2>1, <2>2 DEF get_woken
<1>4. CASE get_timeout(w)
  BY <1>0, <1>4 DEF get_timeout, WGoto, Alive, Idle
<1>5. CASE worker_serve(w)
  BY <1>0, <1>5 DEF worker_serve, WGoto, Alive, Idle
<1>6. CASE stop_worker(w)
  BY <1>0, <1>6 DEF stop_worker, WGoto, IdleAfterStop, Idle, IndInv, Control, FlagInStep
<1> QED
  BY <1>1, <1>2, <1>3, <1>4, <1>5, <1>6 DEF WorkerStep

(* Every step keeps num_threads equal to the number of worker threads, and *)
(* below the number asked for.                                             *)
LEMMA ThreadsStep == IndInv /\ [Next]_vars => ThreadsCounted'
<1> USE PoolAssumption
<1> SUFFICES ASSUME IndInv, [Next]_vars
             PROVE  ThreadsCounted'
  OBVIOUS
<1>0. /\ num_threads = Cardinality(Alive) /\ num_threads <= ThreadsMax
      /\ threads_max \in {0, ThreadsMax} /\ num_threads \in Nat /\ IsFiniteSet(Alive)
  BY AliveFinite DEF IndInv, TypeOK, ThreadsCounted
<1>1. CASE put_socket
  <2>1. CASE num_threads' = num_threads /\ Alive' = Alive
    BY <1>0, <2>1 DEF ThreadsCounted
  <2>2. ASSUME num_threads < threads_max, num_threads' = num_threads + 1,
               NEW w \in Workers \ Alive, Alive' = Alive \union {w}
        PROVE  ThreadsCounted'
    <3>1. Cardinality(Alive') = Cardinality(Alive) + 1
      BY <1>0, <2>2, FS_AddElement
    <3> QED
      BY <1>0, <2>2, <3>1 DEF ThreadsCounted
  <2> QED
    BY <1>1, <2>1, <2>2, PutEffect
<1>2. ASSUME NEW w \in Workers, WorkerStep(w)
      PROVE  ThreadsCounted'
  <2>1. CASE Alive' = Alive /\ num_threads' = num_threads
    BY <1>0, <2>1 DEF ThreadsCounted
  <2>2. CASE stop_worker(w)
    <3>1. /\ w \in Alive /\ Alive' = Alive \ {w}
          /\ num_threads > 0 /\ num_threads' = num_threads - 1
      BY <2>2, StopEffect
    <3>2. Cardinality(Alive') = Cardinality(Alive) - 1
      BY <1>0, <3>1, FS_RemoveElement
    <3> QED
      BY <1>0, <3>1, <3>2 DEF ThreadsCounted
  <2> QED
    BY <1>2, <2>1, <2>2, WorkerEffect
<1>3. CASE UNCHANGED <<num_threads, wpc>>
  BY <1>0, <1>3 DEF ThreadsCounted, Alive
<1> QED
  BY <1>1, <1>2, <1>3, QuietSteps

(* Every step keeps num_idle equal to the number of idle workers, until    *)
(* the daemon is told to stop.                                             *)
LEMMA IdleStep == IndInv /\ [Next]_vars => IdleCounted'
<1> USE PoolAssumption
<1> SUFFICES ASSUME IndInv, [Next]_vars, stop_flag' = 0
             PROVE  num_idle' = Cardinality(Idle')
  BY DEF IdleCounted
<1>0. IsFiniteSet(Idle) /\ Cardinality(Idle) \in Nat
  BY FS_Subset, FS_CardinalityType DEF Idle
<1>1. CASE put_socket
  <2>1. stop_flag = 0 /\ num_idle' = num_idle
    BY <1>1 DEF put_socket
  <2>2. Idle' = Idle
    BY <1>1, PutEffect DEF Idle
  <2> QED
    BY <2>1, <2>2 DEF IndInv, IdleCounted
<1>2. ASSUME NEW w \in Workers, WorkerStep(w)
      PROVE  num_idle' = Cardinality(Idle')
  <2>0. num_idle = Cardinality(Idle)
    BY <1>2, WorkerEffect DEF IndInv, IdleCounted
  <2>1. CASE Idle' = Idle /\ num_idle' = num_idle
    BY <2>0, <2>1
  <2>2. CASE w \notin Idle /\ Idle' = Idle \union {w} /\ num_idle' = num_idle + 1
    BY <1>0, <2>0, <2>2, FS_AddElement
  <2>3. CASE w \in Idle /\ Idle' = Idle \ {w} /\ num_idle' = num_idle - 1
    BY <1>0, <2>0, <2>3, FS_RemoveElement
  <2> QED
    BY <1>2, <2>1, <2>2, <2>3, WorkerEffect
<1>3. CASE UNCHANGED <<num_idle, wpc>> /\ stop_flag = 0
  <2>1. Idle' = Idle
    BY <1>3 DEF Idle
  <2> QED
    BY <1>3, <2>1 DEF IndInv, IdleCounted
<1> QED
  BY <1>1, <1>2, <1>3, QuietSteps

-----------------------------------------------------------------------------
(* The queue *)

(* The connections between the tail and the head, as a sequence. *)
LEMMA FifoFacts ==
  ASSUME IndInv
  PROVE  /\ Fifo \in Seq(Conns)
         /\ Len(Fifo) = sq_head - sq_tail
         /\ DOMAIN Fifo = 1 .. sq_head - sq_tail
         /\ \A i \in 1 .. sq_head - sq_tail : Fifo[i] = queue[(sq_tail + i - 1) % SqLen]
<1>1. sq_head - sq_tail \in Nat
  BY PoolAssumption DEF IndInv, QueueBounds
<1>2. /\ DOMAIN Fifo = 1 .. sq_head - sq_tail
      /\ \A i \in 1 .. sq_head - sq_tail : Fifo[i] = queue[(sq_tail + i - 1) % SqLen]
  BY DEF Fifo
<1>3. Fifo \in [1 .. sq_head - sq_tail -> Conns]
  BY <1>2 DEF IndInv, SlotsFilled, Fifo
<1> QED
  BY <1>1, <1>2, <1>3

(* put_socket() appends the accepted connection to a queue that has room.  *)
LEMMA PutAppends ==
  ASSUME IndInv, put_socket
  PROVE  /\ hand \in Conns /\ Len(Fifo) < SqLen
         /\ QueueBounds'
         /\ Fifo' = Append(Fifo, hand)
         /\ sp' = sp
<1> USE PoolAssumption
<1> DEFINE n == sq_head - sq_tail
<1>1. /\ sq_tail \in 0 .. SqLen - 1 /\ sq_head \in Nat /\ n \in 0 .. SqLen - 1
      /\ sq_head' = sq_head + 1 /\ sq_tail' = sq_tail
      /\ queue' = [queue EXCEPT ![sq_head % SqLen] = hand]
  BY DEF IndInv, TypeOK, QueueBounds, put_socket, QueueFull
<1>2. hand \in Conns /\ sp' = sp
  BY DEF IndInv, TypeOK, HandsFull, put_socket
<1>3. QueueBounds'
  BY <1>1 DEF QueueBounds
<1>4. \A i \in 1 .. n : (sq_tail + i - 1) % SqLen # sq_head % SqLen
  <2> SUFFICES ASSUME NEW i \in 1 .. n
               PROVE  (sq_tail + i - 1) % SqLen # sq_head % SqLen
    OBVIOUS
  <2>1. sq_tail + i - 1 \in 0 .. 2 * SqLen - 1 /\ sq_head \in 0 .. 2 * SqLen - 1
    BY <1>1
  <2>2. sq_tail + i - 1 < sq_head /\ sq_head - (sq_tail + i - 1) < SqLen
    BY <1>1
  <2> HIDE DEF n
  <2> QED
    BY <2>1, <2>2, SlotsApart
<1>5. Fifo' = [i \in 1 .. n + 1 |-> queue'[(sq_tail + i - 1) % SqLen]]
  BY <1>1 DEF Fifo
<1>6. \A i \in 1 .. n + 1 : queue'[(sq_tail + i - 1) % SqLen] = Append(Fifo, hand)[i]
  <2> SUFFICES ASSUME NEW i \in 1 .. n + 1
               PROVE  queue'[(sq_tail + i - 1) % SqLen] = Append(Fifo, hand)[i]
    OBVIOUS
  <2>0. queue \in [0 .. SqLen - 1 -> Conns \union {NoConn}] /\ sq_head % SqLen \in 0 .. SqLen - 1
    BY <1>1, SlotOf DEF IndInv, TypeOK
  <2>1. CASE i = n + 1
    <3>1. sq_tail + i - 1 = sq_head
      BY <1>1, <2>1
    <3>2. Append(Fifo, hand)[i] = hand
      BY <1>2, <2>1, FifoFacts
    <3> QED
      BY <1>1, <2>0, <3>1, <3>2
  <2>2. CASE i \in 1 .. n
    <3>1. (sq_tail + i - 1) % SqLen \in 0 .. SqLen - 1
      BY <1>1, SlotOf
    <3>2. Append(Fifo, hand)[i] = Fifo[i]
      BY <1>2, <2>2, FifoFacts
    <3>3. queue'[(sq_tail + i - 1) % SqLen] = queue[(sq_tail + i - 1) % SqLen]
      BY <1>1, <1>4, <2>0, <2>2, <3>1
    <3> QED
      BY <2>2, <3>2, <3>3, FifoFacts
  <2>3. n \in Nat
    BY <1>1
  <2>4. i = n + 1 \/ i \in 1 .. n
    BY <2>3
  <2> QED
    BY <2>1, <2>2, <2>4
<1>7. Append(Fifo, hand) \in Seq(Conns) /\ Len(Append(Fifo, hand)) = n + 1
  BY <1>2, FifoFacts
<1>8. Append(Fifo, hand) \in [1 .. n + 1 -> Conns]
  BY <1>7, LenProperties
<1>9. Fifo' = Append(Fifo, hand)
  BY <1>5, <1>6, <1>8
<1> QED
  BY <1>1, <1>2, <1>3, <1>9, FifoFacts

(* After the tail has moved by one, around the end of the queue or not,    *)
(* the slot of the i-th connection is the one of the i+1-st before.        *)
LEMMA NextSlot ==
  ASSUME NEW t \in 0 .. SqLen - 1, NEW u, NEW i \in 1 .. SqLen - 1,
         u = t + 1 \/ (t + 1 = SqLen /\ u = 0)
  PROVE  (u + i - 1) % SqLen = (t + (i + 1) - 1) % SqLen
<1> USE PoolAssumption
<1>1. CASE u = t + 1
  BY <1>1
<1>2. CASE t + 1 = SqLen /\ u = 0
  BY <1>2
<1> QED
  BY <1>1, <1>2

(* ezcfg_master_get_socket() takes the oldest connection, whether or not   *)
(* it lowers the indices.                                                  *)
LEMMA TakeRemoves ==
  ASSUME IndInv, NEW w \in Workers, wpc[w] \in {"get", "woken"}, ~QueueEmpty, Take(w)
  PROVE  /\ Fifo # <<>> /\ sp[w] = NoConn
         /\ Fifo' = Tail(Fifo)
         /\ sp' = [sp EXCEPT ![w] = Head(Fifo)]
<1> USE PoolAssumption
<1> DEFINE n == sq_head - sq_tail
<1>1. /\ sq_tail \in 0 .. SqLen - 1 /\ sq_head \in Nat /\ n \in 1 .. SqLen
      /\ queue' = queue /\ sq_head' - sq_tail' = n - 1
      /\ \/ sq_tail' = sq_tail + 1
         \/ sq_tail + 1 = SqLen /\ sq_tail' = 0
  <2>1. /\ sq_head' - sq_tail' = n - 1
        /\ \/ sq_tail' = sq_tail + 1
           \/ sq_tail + 1 = SqLen /\ sq_tail' = 0
    BY TakeEffect
  <2>2. sq_tail \in 0 .. SqLen - 1 /\ sq_head \in Nat /\ sq_head - sq_tail \in 0 .. SqLen
    BY DEF IndInv, TypeOK, QueueBounds
  <2>3. sq_head # sq_tail /\ queue' = queue
    BY DEF QueueEmpty, Take
  <2> QED
    BY <2>1, <2>2, <2>3
<1>2. Fifo # <<>> /\ sp[w] = NoConn
  BY <1>1, FifoFacts DEF IndInv, HandsFull
<1>3. Head(Fifo) = queue[sq_tail]
  <2>1. Head(Fifo) = Fifo[1] /\ Fifo[1] = queue[(sq_tail + 1 - 1) % SqLen]
    BY <1>1, <1>2, FifoFacts
  <2>2. sq_tail + 1 - 1 = sq_tail
    BY <1>1
  <2>3. sq_tail % SqLen = sq_tail
    <3>1. sq_tail \in 0 .. SqLen - 1
      BY <1>1
    <3> HIDE DEF n
    <3> QED
      BY <3>1, SlotOf
  <2> QED
    BY <2>1, <2>2, <2>3
<1>4. sp' = [sp EXCEPT ![w] = Head(Fifo)]
  BY <1>3, TakeEffect
<1>5. \A i \in 1 .. n - 1 : (sq_tail' + i - 1) % SqLen = (sq_tail + (i + 1) - 1) % SqLen
  BY <1>1, NextSlot
<1>6. Fifo' = [i \in 1 .. n - 1 |-> queue[(sq_tail' + i - 1) % SqLen]]
  BY <1>1 DEF Fifo
<1>7. /\ Tail(Fifo) \in [1 .. n - 1 -> Conns]
      /\ \A i \in 1 .. n - 1 : Tail(Fifo)[i] = Fifo[i + 1]
  <2>1. /\ Tail(Fifo) \in Seq(Conns) /\ Len(Tail(Fifo)) = n - 1
        /\ \A i \in 1 .. n - 1 : Tail(Fifo)[i] = Fifo[i + 1]
    BY <1>2, FifoFacts, HeadTailProperties
  <2> QED
    BY <2>1, LenProperties
<1>8. \A i \in 1 .. n - 1 : Tail(Fifo)[i] = queue[(sq_tail' + i - 1) % SqLen]
  <2>1. ASSUME NEW i \in 1 .. n - 1
        PROVE  Fifo[i + 1] = queue[(sq_tail' + i - 1) % SqLen]
    <3>1. i + 1 \in 1 .. sq_head - sq_tail
      BY <1>1
    <3>2. Fifo[i + 1] = queue[(sq_tail + (i + 1) - 1) % SqLen]
      BY <3>1, FifoFacts
    <3> QED
      BY <1>5, <3>2
  <2> QED
    BY <1>7, <2>1
<1>9. Fifo' = Tail(Fifo)
  <2>1. Tail(Fifo) = [i \in 1 .. n - 1 |-> Tail(Fifo)[i]]
    BY <1>7
  <2> QED
    BY <1>6, <1>8, <2>1
<1> QED
  BY <1>2, <1>4, <1>9

(* A step changes the queue only by appending the connection the master    *)
(* has accepted or by taking the oldest one.                               *)
LEMMA FifoStep ==
  ASSUME IndInv, [Next]_vars
  PROVE  \/ put_socket
         \/ \E w \in Workers : /\ wpc[w] \in {"get", "woken"} /\ ~QueueEmpty /\ Take(w)
         \/ UNCHANGED queueVars
<1>1. ASSUME NEW w \in Workers, WorkerStep(w)
      PROVE  \/ wpc[w] \in {"get", "woken"} /\ ~QueueEmpty /\ Take(w)
             \/ UNCHANGED queueVars
  BY <1>1 DEF WorkerStep, worker_test, get_socket, get_woken, get_timeout, worker_serve,
              stop_worker, Wait, queueVars
<1> QED
  BY <1>1, QuietSteps

(* Every step keeps the head and the tail in bounds and the slots filled.  *)
LEMMA QueueStep == IndInv /\ [Next]_vars => QueueBounds' /\ SlotsFilled'
<1> SUFFICES ASSUME IndInv, [Next]_vars
             PROVE  QueueBounds' /\ SlotsFilled'
  OBVIOUS
<1>1. CASE put_socket
  <2>1. Fifo' \in Seq(Conns) /\ QueueBounds'
    BY <1>1, PutAppends, FifoFacts
  <2> QED
    BY <2>1, LenProperties DEF SlotsFilled
<1>2. ASSUME NEW w \in Workers, wpc[w] \in {"get", "woken"}, ~QueueEmpty, Take(w)
      PROVE  QueueBounds' /\ SlotsFilled'
  <2>1. Fifo' \in Seq(Conns)
    <3>1. Fifo # <<>> /\ Fifo' = Tail(Fifo)
      BY <1>2, TakeRemoves
    <3> QED
      BY <3>1, FifoFacts, HeadTailProperties
  <2>2. QueueBounds'
    BY <1>2, TakeEffect
  <2> QED
    BY <2>1, <2>2, LenProperties DEF SlotsFilled
<1>3. CASE UNCHANGED queueVars
  BY <1>3 DEF IndInv, QueueBounds, SlotsFilled, Fifo, queueVars
<1> QED
  BY <1>1, <1>2, <1>3, FifoStep

(* Every step keeps the hands of the master and of the workers in step     *)
(* with their places.                                                      *)
LEMMA HandsStep == IndInv /\ [Next]_vars => HandsFull'
<1> USE PoolAssumption DEF queueVars, countVars, condVars, connVars, IndInv, TypeOK, HandsFull,
                           Control, WaitSets
<1> SUFFICES ASSUME IndInv, [Next]_vars
             PROVE  HandsFull'
  OBVIOUS
<1>1. ASSUME NEW c \in Conns, client_connect(c)
      PROVE  HandsFull'
  BY <1>1 DEF client_connect
<1>2. CASE ezcfg_master_set_threads_max
  BY <1>2 DEF ezcfg_master_set_threads_max
<1>3. CASE MasterStep
  <2>1. CASE master_test
    BY <2>1 DEF master_test, mVars
  <2>2. CASE master_fdset
    BY <2>2 DEF master_fdset, mVars
  <2>3. CASE master_select
    BY <2>3 DEF master_select, mVars
  <2>4. CASE master_lock_ls
    BY <2>4 DEF master_lock_ls
  <2>5. CASE accept_new_connection
    BY <2>5 DEF accept_new_connection
  <2>6. CASE accept_fail
    BY <2>6 DEF accept_fail, BacklogReset
  <2>7. CASE master_unlock_ls
    BY <2>7 DEF master_unlock_ls
  <2>8. CASE put_lock
    BY <2>8 DEF put_lock
  <2>9. CASE put_wait
    BY <2>9 DEF put_wait
  <2>10. CASE put_socket
    <3>1. \A w \in Workers : wpc'[w] = "serve" <=> wpc[w] = "serve"
      BY <2>10, PutEffect
    <3> QED
      BY <2>10, <3>1 DEF put_socket
  <2>11. CASE finish_lock
    BY <2>11 DEF finish_lock
  <2>12. CASE finish_close
    BY <2>12 DEF finish_close, BacklogReset
  <2>13. CASE finish_wait
    BY <2>13 DEF finish_wait
  <2>14. CASE finish_done
    BY <2>14 DEF finish_done
  <2> QED
    BY <1>3, <2>1, <2>2, <2>3, <2>4, <2>5, <2>6, <2>7, <2>8, <2>9, <2>10, <2>11, <2>12, <2>13,
        <2>14 DEF MasterStep
<1>4. ASSUME NEW w \in Workers, WorkerStep(w)
      PROVE  HandsFull'
  <2>1. CASE worker_test(w)
    BY <2>1 DEF worker_test, WGoto
  <2>2. CASE get_socket(w)
    <3>1. CASE QueueEmpty /\ Wait(w)
      BY <2>2, <3>1 DEF get_socket, Wait, WGoto
    <3>2. CASE ~QueueEmpty /\ Take(w)
      <4>1. sp' = [sp EXCEPT ![w] = Head(Fifo)] /\ Head(Fifo) \in Conns
        BY <2>2, <3>2, TakeRemoves, FifoFacts, HeadTailProperties DEF get_socket
      <4> QED
        BY <2>2, <3>2, <4>1 DEF get_socket, Take, WGoto
    <3> QED
      BY <2>2, <3>1, <3>2 DEF get_socket
  <2>3. CASE get_woken(w)
    <3>1. CASE QueueEmpty /\ Wait(w)
      BY <2>3, <3>1 DEF get_woken, Wait, WGoto
    <3>2. CASE ~QueueEmpty /\ Take(w)
      <4>1. sp' = [sp EXCEPT ![w] = Head(Fifo)] /\ Head(Fifo) \in Conns
        BY <2>3, <3>2, TakeRemoves, FifoFacts, HeadTailProperties DEF get_woken
      <4> QED
        BY <2>3, <3>2, <4>1 DEF get_woken, Take, WGoto
    <3> QED
      BY <2>3, <3>1, <3>2 DEF get_woken
  <2>4. CASE get_timeout(w)
    BY <2>4 DEF get_timeout, WGoto
  <2>5. CASE worker_serve(w)
    BY <2>5 DEF worker_serve, WGoto
  <2>6. CASE stop_worker(w)
    BY <2>6 DEF stop_worker, WGoto
  <2> QED
    BY <1>4, <2>1, <2>2, <2>3, <2>4, <2>5, <2>6 DEF WorkerStep
<1>5. CASE reload_lock
  BY <1>5 DEF reload_lock
<1>6. CASE reload_lock_ls
  BY <1>6 DEF reload_lock_ls
<1>7. CASE reload_wait
  BY <1>7 DEF reload_wait
<1>8. CASE reload_done
  BY <1>8 DEF reload_done
<1>9. CASE stop_request
  BY <1>9 DEF stop_request
<1>10. CASE master_delete
  BY <1>10 DEF master_delete
<1>11. CASE UNCHANGED vars
  BY <1>11 DEF vars
<1> QED
  BY <1>1, <1>2, <1>3, <1>4, <1>5, <1>6, <1>7, <1>8, <1>9, <1>10, <1>11 DEF Next, Terminated

-----------------------------------------------------------------------------
(* The counters and the queue of the master *)

(* Initially no worker runs and the queue is empty. *)
LEMMA InitInv == Init => IndInv
<1> USE PoolAssumption
<1> SUFFICES ASSUME Init
             PROVE  IndInv
  OBVIOUS
<1>1. Alive = {} /\ Idle = {}
  BY DEF Init, Alive, Idle
<1>2. ThreadsCounted /\ IdleCounted
  BY <1>1, FS_EmptySet DEF Init, ThreadsCounted, IdleCounted
<1>3. TypeOK /\ QueueBounds
  BY DEF Init, TypeOK, QueueBounds, MasterPlaces, SignalPlaces, WorkerPlaces
<1>4. Control /\ HandsFull
  BY DEF Init, Control, MutexesHeld, FlagInStep, WaitSets, HandsFull, MasterInThread,
         SignalInThread, MasterInLs, SignalInLs, Finishing, Threads
<1>5. SlotsFilled
  BY DEF Init, SlotsFilled, Fifo
<1> QED
  BY <1>2, <1>3, <1>4, <1>5 DEF IndInv

(* Every step of every thread keeps the inductive invariant. *)
LEMMA StepInv == IndInv /\ [Next]_vars => IndInv'
BY TypeStep, ControlStep, ThreadsStep, IdleStep, QueueStep, HandsStep DEF IndInv

(* The inductive invariant holds throughout. *)
LEMMA Inductive == Spec => []IndInv
BY InitInv, StepInv, PTL DEF Spec

(* When the structure is freed, the master is done, no worker runs and     *)
(* both mutexes are free.                                                  *)
LEMMA DeletedLast == IndInv => DeletedUnused
<1> SUFFICES ASSUME IndInv, spc = "deleted"
             PROVE  mpc = "done" /\ Alive = {} /\ Free(thread_mutex) /\ Free(ls_mutex)
  BY DEF DeletedUnused
<1>1. mpc = "done" /\ num_threads = 0
  BY DEF IndInv, Control, FlagInStep
<1>2. Alive = {}
  BY <1>1, AliveFinite DEF IndInv, ThreadsCounted
<1> QED
  BY <1>1, <1>2 DEF IndInv, TypeOK, Control, MutexesHeld, Free, MasterInThread, SignalInThread,
                    MasterInLs, SignalInLs

(* master.c: for any number of workers, any length of the queue and any    *)
(* order of reloads, stops and failures, the indices of the queue stay in  *)
(* bounds, num_threads and num_idle count the threads there are, and the   *)
(* master structure is freed when no thread uses it.                       *)
THEOREM PoolIsSound == Spec => []PoolSound
<1>1. IndInv => PoolSound
  BY DeletedLast DEF IndInv, PoolSound
<1> QED
  BY Inductive, <1>1, PTL

-----------------------------------------------------------------------------
(* The queue implements a bounded FIFO *)

(* The queue is empty and no worker has a connection at first. *)
LEMMA QueueInit == Init => Queue!Init
BY DEF Init, Queue!Init, Fifo

(* Every step of the threads is a step of the FIFO or leaves it alone. *)
LEMMA QueueRefines == IndInv /\ [Next]_vars => [Queue!Next]_<<Fifo, sp>>
<1> SUFFICES ASSUME IndInv, [Next]_vars
             PROVE  [Queue!Next]_<<Fifo, sp>>
  OBVIOUS
<1>1. CASE put_socket
  <2>1. Queue!Put(hand) /\ hand \in Conns
    BY <1>1, PutAppends DEF Queue!Put
  <2> QED
    BY <2>1 DEF Queue!Next
<1>2. ASSUME NEW w \in Workers, wpc[w] \in {"get", "woken"}, ~QueueEmpty, Take(w)
      PROVE  [Queue!Next]_<<Fifo, sp>>
  <2>1. Queue!Get(w)
    BY <1>2, TakeRemoves DEF Queue!Get
  <2> QED
    BY <2>1 DEF Queue!Next
<1>3. ASSUME NEW w \in Workers, WorkerStep(w), UNCHANGED queueVars
      PROVE  [Queue!Next]_<<Fifo, sp>>
  <2>0. Fifo' = Fifo
    BY <1>3 DEF queueVars, Fifo
  <2>1. CASE worker_serve(w)
    <3>1. Queue!Close(w)
      BY <2>0, <2>1 DEF Queue!Close, worker_serve, IndInv, HandsFull
    <3> QED
      BY <3>1 DEF Queue!Next
  <2>2. CASE get_socket(w) \/ get_woken(w)
    <3>1. CASE Wait(w)
      BY <2>0, <3>1 DEF Wait
    <3> QED
      BY <1>2, <2>2, <3>1 DEF get_socket, get_woken
  <2>3. CASE worker_test(w) \/ get_timeout(w) \/ stop_worker(w)
    BY <2>0, <2>3 DEF worker_test, get_timeout, stop_worker
  <2> QED
    BY <1>3, <2>1, <2>2, <2>3 DEF WorkerStep
<1>4. CASE UNCHANGED <<queueVars, sp>>
  BY <1>4 DEF queueVars, Fifo
<1> QED
  BY <1>1, <1>2, <1>3, <1>4, FifoStep, QuietSteps

(* master.c and worker.c: the unwrapped indices, the slots and the sockets *)
(* of the workers implement a bounded FIFO that gives each connection to   *)
(* one worker, in the order of acceptance.                                 *)
THEOREM QueueImplementsFifo == Spec => QueueIsFifo
<1>1. Spec => Queue!Init /\ [][Queue!Next]_<<Fifo, sp>>
  BY Inductive, QueueInit, QueueRefines, PTL DEF Spec
<1> QED
  BY <1>1 DEF QueueIsFifo, Queue!Spec

-----------------------------------------------------------------------------
(* The connections *)

(* A step moves at most one connection, from one place to the next. *)
LEMMA Moves ==
  ASSUME IndInv, [Next]_vars
  PROVE  \/ \E c \in unborn : /\ unborn' = unborn \ {c} /\ backlog' = backlog \union {c}
                              /\ UNCHANGED <<hand, served, dropped, sp, Fifo>>
         \/ /\ hand = NoConn /\ hand' \in backlog /\ backlog' = backlog \ {hand'}
            /\ UNCHANGED <<unborn, served, dropped, sp, Fifo>>
         \/ /\ hand \in Conns /\ hand' = NoConn /\ Fifo' = Append(Fifo, hand)
            /\ UNCHANGED <<unborn, backlog, served, dropped, sp>>
         \/ \E w \in Workers : /\ sp[w] = NoConn /\ Fifo # <<>>
                               /\ sp' = [sp EXCEPT ![w] = Head(Fifo)] /\ Fifo' = Tail(Fifo)
                               /\ UNCHANGED <<unborn, backlog, hand, served, dropped>>
         \/ \E w \in Workers : /\ sp[w] # NoConn /\ served' = served \union {sp[w]}
                               /\ sp' = [sp EXCEPT ![w] = NoConn]
                               /\ UNCHANGED <<unborn, backlog, hand, dropped, Fifo>>
         \/ /\ backlog' = {} /\ dropped' = dropped \union backlog
            /\ UNCHANGED <<unborn, hand, served, sp, Fifo>>
         \/ UNCHANGED <<unborn, backlog, hand, served, dropped, sp, Fifo>>
<1> USE DEF connVars
<1>0. UNCHANGED queueVars => Fifo' = Fifo
  BY DEF queueVars, Fifo
<1>1. CASE put_socket
  <2>1. hand \in Conns /\ Fifo' = Append(Fifo, hand) /\ sp' = sp
    BY <1>1, PutAppends
  <2> QED
    BY <1>1, <2>1 DEF put_socket
<1>2. ASSUME NEW w \in Workers, wpc[w] \in {"get", "woken"}, ~QueueEmpty, Take(w)
      PROVE  /\ sp[w] = NoConn /\ Fifo # <<>>
             /\ sp' = [sp EXCEPT ![w] = Head(Fifo)] /\ Fifo' = Tail(Fifo)
             /\ UNCHANGED <<unborn, backlog, hand, served, dropped>>
  BY <1>2, TakeRemoves DEF Take
<1>3. ASSUME NEW w \in Workers, WorkerStep(w), UNCHANGED queueVars
      PROVE  \/ wpc[w] \in {"get", "woken"} /\ ~QueueEmpty /\ Take(w)
             \/ /\ sp[w] # NoConn /\ served' = served \union {sp[w]}
                /\ sp' = [sp EXCEPT ![w] = NoConn]
                /\ UNCHANGED <<unborn, backlog, hand, dropped, Fifo>>
             \/ UNCHANGED <<unborn, backlog, hand, served, dropped, sp, Fifo>>
  <2>1. CASE worker_serve(w)
    BY <1>0, <1>3, <2>1 DEF worker_serve, IndInv, HandsFull
  <2>2. CASE get_socket(w) \/ get_woken(w)
    BY <1>0, <1>3, <2>2 DEF get_socket, get_woken, Wait
  <2>3. CASE worker_test(w) \/ get_timeout(w) \/ stop_worker(w)
    BY <1>0, <1>3, <2>3 DEF worker_test, get_timeout, stop_worker
  <2> QED
    BY <1>3, <2>1, <2>2, <2>3 DEF WorkerStep
<1>4. ASSUME NEW c \in Conns, client_connect(c), UNCHANGED queueVars
      PROVE  /\ c \in unborn /\ unborn' = unborn \ {c} /\ backlog' = backlog \union {c}
             /\ UNCHANGED <<hand, served, dropped, sp, Fifo>>
  BY <1>0, <1>4 DEF client_connect
<1>5. CASE accept_new_connection /\ UNCHANGED queueVars
  BY <1>0, <1>5 DEF accept_new_connection, IndInv, HandsFull
<1>6. CASE UNCHANGED <<queueVars, sp, unborn, backlog, hand, served, dropped>>
  BY <1>0, <1>6
<1>7. CASE /\ backlog' = {} /\ dropped' = dropped \union backlog
           /\ UNCHANGED <<queueVars, sp, unborn, hand, served>>
  BY <1>0, <1>7
<1> QED
  BY <1>1, <1>2, <1>3, <1>4, <1>5, <1>6, <1>7, FifoStep, QuietSteps

(* Initially every connection is unborn and in no other place. *)
LEMMA ConnInit == Init => Apart /\ Somewhere
BY PoolAssumption DEF Init, Apart, Somewhere, Fifo

(* No step brings a connection to a second place. *)
LEMMA ApartStep ==
  ASSUME IndInv, Apart, [Next]_vars
  PROVE  Apart'
<1> USE PoolAssumption
<1>0. /\ unborn \subseteq Conns /\ backlog \subseteq Conns /\ served \subseteq Conns
      /\ dropped \subseteq Conns
      /\ sp \in [Workers -> Conns \union {NoConn}] /\ hand \in Conns \union {NoConn}
  BY DEF IndInv, TypeOK
<1>1. /\ Fifo \in Seq(Conns) /\ Len(Fifo) \in Nat /\ DOMAIN Fifo = 1 .. Len(Fifo)
      /\ \A i \in DOMAIN Fifo : Fifo[i] \in Conns
  BY FifoFacts, LenProperties
<1>2. ASSUME NEW c \in unborn, unborn' = unborn \ {c}, backlog' = backlog \union {c},
             UNCHANGED <<hand, served, dropped, sp, Fifo>>
      PROVE  Apart'
  BY <1>0, <1>1, <1>2 DEF Apart
<1>3. CASE /\ hand = NoConn /\ hand' \in backlog /\ backlog' = backlog \ {hand'}
           /\ UNCHANGED <<unborn, served, dropped, sp, Fifo>>
  BY <1>0, <1>1, <1>3 DEF Apart
<1>4. CASE /\ hand \in Conns /\ hand' = NoConn /\ Fifo' = Append(Fifo, hand)
           /\ UNCHANGED <<unborn, backlog, served, dropped, sp>>
  <2>1. /\ DOMAIN Fifo' = 1 .. Len(Fifo) + 1
        /\ \A i \in 1 .. Len(Fifo) : Fifo'[i] = Fifo[i]
        /\ Fifo'[Len(Fifo) + 1] = hand
    BY <1>1, <1>4
  <2>2. \A i \in DOMAIN Fifo' : (i \in DOMAIN Fifo /\ Fifo'[i] = Fifo[i])
                                \/ (i = Len(Fifo) + 1 /\ Fifo'[i] = hand)
    BY <1>1, <2>1
  <2> QED
    BY <1>0, <1>1, <1>4, <2>2 DEF Apart
<1>5. ASSUME NEW w \in Workers, sp[w] = NoConn, Fifo # <<>>,
             sp' = [sp EXCEPT ![w] = Head(Fifo)], Fifo' = Tail(Fifo),
             UNCHANGED <<unborn, backlog, hand, served, dropped>>
      PROVE  Apart'
  <2>1. /\ DOMAIN Fifo' = 1 .. Len(Fifo) - 1 /\ Head(Fifo) = Fifo[1] /\ 1 \in DOMAIN Fifo
        /\ \A i \in DOMAIN Fifo' : i + 1 \in DOMAIN Fifo /\ i + 1 # 1 /\ Fifo'[i] = Fifo[i + 1]
    BY <1>1, <1>5, HeadTailProperties, LenProperties
  <2>2. \A v \in Workers : sp'[v] = IF v = w THEN Fifo[1] ELSE sp[v]
    BY <1>0, <1>5, <2>1
  <2>3. \A i, j \in DOMAIN Fifo' : Fifo'[i] = Fifo'[j] => i = j
    BY <1>1, <2>1 DEF Apart
  <2> QED
    BY <1>0, <1>1, <1>5, <2>1, <2>2, <2>3 DEF Apart
<1>6. ASSUME NEW w \in Workers, sp[w] # NoConn, served' = served \union {sp[w]},
             sp' = [sp EXCEPT ![w] = NoConn], UNCHANGED <<unborn, backlog, hand, dropped, Fifo>>
      PROVE  Apart'
  BY <1>0, <1>1, <1>6 DEF Apart
<1>7. CASE UNCHANGED <<unborn, backlog, hand, served, dropped, sp, Fifo>>
  BY <1>7 DEF Apart
<1>8. CASE /\ backlog' = {} /\ dropped' = dropped \union backlog
           /\ UNCHANGED <<unborn, hand, served, sp, Fifo>>
  BY <1>0, <1>1, <1>8 DEF Apart
<1> QED
  BY <1>2, <1>3, <1>4, <1>5, <1>6, <1>7, <1>8, Moves

(* No step loses a connection. *)
LEMMA SomewhereStep ==
  ASSUME IndInv, Somewhere, [Next]_vars
  PROVE  Somewhere'
<1> USE PoolAssumption
<1>0. sp \in [Workers -> Conns \union {NoConn}]
  BY DEF IndInv, TypeOK
<1>1. Fifo \in Seq(Conns) /\ Len(Fifo) \in Nat /\ DOMAIN Fifo = 1 .. Len(Fifo)
  BY FifoFacts, LenProperties
<1>2. ASSUME NEW c \in unborn, unborn' = unborn \ {c}, backlog' = backlog \union {c},
             UNCHANGED <<hand, served, dropped, sp, Fifo>>
      PROVE  Somewhere'
  BY <1>2 DEF Somewhere
<1>3. CASE /\ hand = NoConn /\ hand' \in backlog /\ backlog' = backlog \ {hand'}
           /\ UNCHANGED <<unborn, served, dropped, sp, Fifo>>
  BY <1>3 DEF Somewhere
<1>4. CASE /\ hand \in Conns /\ hand' = NoConn /\ Fifo' = Append(Fifo, hand)
           /\ UNCHANGED <<unborn, backlog, served, dropped, sp>>
  <2>1. /\ DOMAIN Fifo' = 1 .. Len(Fifo) + 1
        /\ \A i \in 1 .. Len(Fifo) : Fifo'[i] = Fifo[i]
        /\ Fifo'[Len(Fifo) + 1] = hand
    BY <1>1, <1>4
  <2>2. /\ \A i \in DOMAIN Fifo : i \in DOMAIN Fifo' /\ Fifo'[i] = Fifo[i]
        /\ \E i \in DOMAIN Fifo' : Fifo'[i] = hand
    BY <1>1, <2>1
  <2> QED
    BY <1>4, <2>2 DEF Somewhere
<1>5. ASSUME NEW w \in Workers, sp[w] = NoConn, Fifo # <<>>,
             sp' = [sp EXCEPT ![w] = Head(Fifo)], Fifo' = Tail(Fifo),
             UNCHANGED <<unborn, backlog, hand, served, dropped>>
      PROVE  Somewhere'
  <2>1. /\ DOMAIN Fifo' = 1 .. Len(Fifo) - 1 /\ Head(Fifo) = Fifo[1]
        /\ \A i \in 1 .. Len(Fifo) - 1 : Fifo'[i] = Fifo[i + 1]
    BY <1>1, <1>5, HeadTailProperties, LenProperties
  <2>2. \A i \in DOMAIN Fifo : i = 1 \/ (i - 1 \in DOMAIN Fifo' /\ Fifo'[i - 1] = Fifo[i])
    BY <1>1, <2>1
  <2>3. sp'[w] = Fifo[1] /\ \A v \in Workers \ {w} : sp'[v] = sp[v]
    BY <1>0, <1>5, <2>1
  <2>4. ASSUME NEW c \in Conns, NEW i \in DOMAIN Fifo, Fifo[i] = c
        PROVE  (\E j \in DOMAIN Fifo' : Fifo'[j] = c) \/ (\E v \in Workers : sp'[v] = c)
    BY <2>2, <2>3, <2>4
  <2>5. ASSUME NEW c \in Conns, NEW v \in Workers, sp[v] = c
        PROVE  sp'[v] = c
    BY <1>5, <2>3, <2>5
  <2> QED
    BY <1>5, <2>4, <2>5 DEF Somewhere
<1>6. ASSUME NEW w \in Workers, sp[w] # NoConn, served' = served \union {sp[w]},
             sp' = [sp EXCEPT ![w] = NoConn], UNCHANGED <<unborn, backlog, hand, dropped, Fifo>>
      PROVE  Somewhere'
  BY <1>0, <1>6 DEF Somewhere
<1>7. CASE UNCHANGED <<unborn, backlog, hand, served, dropped, sp, Fifo>>
  BY <1>7 DEF Somewhere
<1>8. CASE /\ backlog' = {} /\ dropped' = dropped \union backlog
           /\ UNCHANGED <<unborn, hand, served, sp, Fifo>>
  BY <1>8 DEF Somewhere
<1> QED
  BY <1>2, <1>3, <1>4, <1>5, <1>6, <1>7, <1>8, Moves

(* A connection that is somewhere and nowhere else has one place. *)
LEMMA OnePlace ==
  ASSUME IndInv, Apart, Somewhere, NEW c \in Conns
  PROVE  Cardinality(Places(c)) = 1
<1> USE PoolAssumption
<1>1. CASE c \in unborn
  <2>1. Places(c) = {<<"unborn">>}
    BY <1>1 DEF Places, Apart
  <2> QED
    BY <2>1, FS_Singleton
<1>2. CASE c \in backlog
  <2>1. Places(c) = {<<"backlog">>}
    BY <1>2 DEF Places, Apart
  <2> QED
    BY <2>1, FS_Singleton
<1>3. CASE c \in served
  <2>1. Places(c) = {<<"served">>}
    BY <1>3 DEF Places, Apart
  <2> QED
    BY <2>1, FS_Singleton
<1>4. CASE c = hand
  <2>1. Places(c) = {<<"hand">>}
    BY <1>4 DEF Places, Apart
  <2> QED
    BY <2>1, FS_Singleton
<1>5. ASSUME NEW i \in DOMAIN Fifo, Fifo[i] = c
      PROVE  Cardinality(Places(c)) = 1
  <2>1. Places(c) = {<<"slot", i>>}
    BY <1>5 DEF Places, Apart
  <2> QED
    BY <2>1, FS_Singleton
<1>6. ASSUME NEW w \in Workers, sp[w] = c
      PROVE  Cardinality(Places(c)) = 1
  <2>1. Places(c) = {<<"worker", w>>}
    BY <1>6 DEF Places, Apart
  <2> QED
    BY <2>1, FS_Singleton
<1>7. CASE c \in dropped
  <2>1. Places(c) = {<<"dropped">>}
    BY <1>7 DEF Places, Apart
  <2> QED
    BY <2>1, FS_Singleton
<1> QED
  BY <1>1, <1>2, <1>3, <1>4, <1>5, <1>6, <1>7 DEF Somewhere

(* master.c and worker.c: for any number of workers and connections, every *)
(* connection is at any time in exactly one of the backlog, the master's   *)
(* hand, a slot of the queue, a worker's hand, the served ones and those   *)
(* that were reset with the listening socket before they were accepted:    *)
(* none is queued or served twice, and none that was accepted is lost.     *)
THEOREM ConnectionsConserved == Spec => []ConnConserved
<1> DEFINE Inv == IndInv /\ Apart /\ Somewhere
<1>1. Init => Inv
  BY InitInv, ConnInit
<1>2. Inv /\ [Next]_vars => Inv'
  BY StepInv, ApartStep, SomewhereStep
<1>3. Inv => ConnConserved
  BY OnePlace DEF ConnConserved
<1> QED
  BY <1>1, <1>2, <1>3, PTL DEF Spec
=============================================================================
