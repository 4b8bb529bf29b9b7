----------------------------- MODULE MasterPool -----------------------------
(***************************************************************************)
(* The threads of ezcd: the master thread that accepts connections, the    *)
(* workers that serve them and the signal thread that reloads and stops    *)
(* the daemon (libezcfg/src/bak/thread/master.c and worker.c,              *)
(* ezcd/src/ezcd.c).                                                       *)
(*                                                                         *)
(* thread_mutex protects the socket queue and the thread counters, and is  *)
(* the mutex of three condition variables; ls_mutex protects the list of   *)
(* listening sockets and is held by the master while it accepts.  A        *)
(* section of a mutex is one step when nothing in it can block, and is     *)
(* split where it waits for a condition or for the other mutex.  A thread  *)
(* that waits on a condition is in its wait set until a signal (or, for    *)
(* the timed wait, the timeout) takes it out; it then needs the mutex back.*)
(*                                                                         *)
(* One listening socket is modelled.  ezcfg_api_master_start() starts the  *)
(* master thread before it sets threads_max, which is 0 until then.        *)
(***************************************************************************)
EXTENDS Integers, FiniteSets, Sequences

CONSTANTS
  Conns,       \* connections clients may open
  NoConn,
  Workers,     \* worker structures
  ThreadsMax,  \* the threads_max ezcd asks for
  SqLen,       \* EZCFG_MASTER_SOCKET_QUEUE_LENGTH
  Master, Signal, Nobody, \* the two other threads; a free mutex
  Signals,     \* signals the daemon may get: "USR1" (reload), "TERM" (stop)
  MaxReload,   \* bound on the reloads
  CanFail      \* what may fail: "accept", "start" (of a worker thread)

Threads == Workers \union {Master, Signal}

ASSUME PoolAssumption ==
  /\ NoConn \notin Conns
  /\ Master # Signal /\ Nobody \notin Threads
  /\ Master \notin Workers /\ Signal \notin Workers
  /\ IsFiniteSet(Workers)
  /\ ThreadsMax \in Nat /\ ThreadsMax <= Cardinality(Workers)
  /\ SqLen \in Nat \ {0}
  /\ Signals \subseteq {"USR1", "TERM"}
  /\ MaxReload \in Nat
  /\ CanFail \subseteq {"accept", "start"}

VARIABLES
  stop_flag, threads_max, num_threads, num_idle,
  thread_mutex, ls_mutex, \* the thread that holds it, or Nobody
  queue, sq_head, sq_tail,
  sq_empty_cond, sq_full_cond, thread_sync_cond, \* wait sets
  listening,              \* the listening socket is open
  unborn, backlog, hand, served, dropped, \* connections: not opened, waiting
                          \* in the kernel, in the master's hand, served,
                          \* reset with the listening socket
  mpc, spc, wpc, sp,      \* places of the threads; a worker's connection
  reloads

queueVars == <<queue, sq_head, sq_tail>>
countVars == <<threads_max, num_threads, num_idle>>
condVars == <<sq_empty_cond, sq_full_cond, thread_sync_cond>>
connVars == <<listening, unborn, backlog, hand, served, dropped>>
vars == <<stop_flag, countVars, thread_mutex, ls_mutex, queueVars, condVars,
          connVars, mpc, spc, wpc, sp, reloads>>

Init ==
  /\ stop_flag = 0
  /\ threads_max = 0 /\ num_threads = 0 /\ num_idle = 0
  /\ thread_mutex = Nobody /\ ls_mutex = Nobody
  /\ queue = [i \in 0 .. SqLen - 1 |-> NoConn]
  /\ sq_head = 0 /\ sq_tail = 0
  /\ sq_empty_cond = {} /\ sq_full_cond = {} /\ thread_sync_cond = {}
  /\ listening = TRUE
  /\ unborn = Conns /\ backlog = {} /\ hand = NoConn /\ served = {}
  /\ dropped = {}
  /\ mpc = "top" /\ spc = "idle"
  /\ wpc = [w \in Workers |-> "none"]
  /\ sp = [w \in Workers |-> NoConn]
  /\ reloads = 0

Free(mutex) == mutex = Nobody
WGoto(w, l) == wpc' = [wpc EXCEPT ![w] = l]

(* pthread_cond_signal(): one of the threads in the wait set is woken. *)
WakeOne(cond, woken) ==
  IF cond = {} THEN woken = {} ELSE \E t \in cond : woken = {t}

-----------------------------------------------------------------------------
(* Clients and the thread that runs ezcfg_api_master_start() *)

client_connect(c) ==
  /\ c \in unborn /\ listening
  /\ unborn' = unborn \ {c}
  /\ backlog' = backlog \union {c}
  /\ UNCHANGED <<stop_flag, countVars, thread_mutex, ls_mutex, queueVars, condVars,
                 listening, hand, served, dropped, mpc, spc, wpc, sp, reloads>>

(* An unprotected write, after the master thread has been started. *)
ezcfg_master_set_threads_max ==
  /\ threads_max = 0 /\ stop_flag = 0
  /\ threads_max' = ThreadsMax
  /\ UNCHANGED <<stop_flag, num_threads, num_idle, thread_mutex, ls_mutex, queueVars, condVars,
                 connVars, mpc, spc, wpc, sp, reloads>>

-----------------------------------------------------------------------------
(* ezcfg_master_routine() *)

mVars == <<stop_flag, countVars, thread_mutex, ls_mutex, queueVars, condVars, connVars,
           spc, wpc, sp, reloads>>

master_test ==
  /\ mpc = "top"
  /\ mpc' = IF stop_flag = 0 THEN "fdset" ELSE "finish"
  /\ UNCHANGED mVars

(* The read set is built under ls_mutex. *)
master_fdset ==
  /\ mpc = "fdset" /\ Free(ls_mutex)
  /\ mpc' = "select"
  /\ UNCHANGED mVars

(* select() times out or fails, or the listening socket is ready. *)
master_select ==
  /\ mpc = "select"
  /\ mpc' \in {"top"} \union (IF listening /\ backlog # {} THEN {"ready"} ELSE {})
  /\ UNCHANGED mVars

master_lock_ls ==
  /\ mpc = "ready" /\ Free(ls_mutex)
  /\ ls_mutex' = Master
  /\ mpc' = "accept"
  /\ UNCHANGED <<stop_flag, countVars, thread_mutex, queueVars, condVars, connVars, spc, wpc, sp, reloads>>

accept_new_connection ==
  /\ mpc = "accept"
  /\ \E c \in backlog : hand' = c /\ backlog' = backlog \ {c}
  /\ mpc' = "put"
  /\ UNCHANGED <<stop_flag, countVars, thread_mutex, ls_mutex, queueVars, condVars,
                 listening, unborn, served, dropped, spc, wpc, sp, reloads>>

(* The listening socket is closed: the kernel resets the connections that  *)
(* wait to be accepted.                                                    *)
BacklogReset == /\ backlog' = {}
                /\ dropped' = dropped \union backlog

(* accept() fails: ezcfg_socket_enable_again() closes the socket and opens *)
(* it anew; the socket leaves the list if that fails.                      *)
accept_fail ==
  /\ mpc = "accept" /\ "accept" \in CanFail
  /\ BacklogReset
  /\ listening' \in BOOLEAN
  /\ mpc' = "unlock_ls"
  /\ UNCHANGED <<stop_flag, countVars, thread_mutex, ls_mutex, queueVars, condVars,
                 unborn, hand, served, spc, wpc, sp, reloads>>

master_unlock_ls ==
  /\ mpc = "unlock_ls"
  /\ ls_mutex' = Nobody
  /\ mpc' = "top"
  /\ UNCHANGED <<stop_flag, countVars, thread_mutex, queueVars, condVars, connVars, spc, wpc, sp, reloads>>

-----------------------------------------------------------------------------
(* put_socket() *)

(* Fault: the queue counts as full one element too late. *)
OverQueueFull == sq_head - sq_tail > SqLen

QueueFull == sq_head - sq_tail >= SqLen

put_lock ==
  /\ mpc \in {"put", "put_woken"} /\ Free(thread_mutex)
  /\ thread_mutex' = Master
  /\ mpc' = "put_test"
  /\ UNCHANGED <<stop_flag, countVars, ls_mutex, queueVars, condVars, connVars, spc, wpc, sp, reloads>>

(* The queue is full: wait, with ls_mutex still held. *)
put_wait ==
  /\ mpc = "put_test" /\ QueueFull
  /\ sq_full_cond' = sq_full_cond \union {Master}
  /\ thread_mutex' = Nobody
  /\ mpc' = "put_sleep"
  /\ UNCHANGED <<stop_flag, countVars, ls_mutex, queueVars, sq_empty_cond, thread_sync_cond,
                 connVars, spc, wpc, sp, reloads>>

NeedWorker == num_idle = 0 /\ num_threads < threads_max

(* A worker structure and its thread are made, or one of them fails. *)
StartWorker(woken) ==
  LET Woken(f) == [w \in Workers |-> IF w \in woken THEN "woken" ELSE f[w]]
  IN  \/ /\ NeedWorker
         /\ \E w \in Workers :
              /\ wpc[w] = "none"
              /\ wpc' = Woken([wpc EXCEPT ![w] = "test"])
         /\ num_threads' = num_threads + 1
      \/ /\ NeedWorker => "start" \in CanFail
         /\ wpc' = Woken(wpc)
         /\ UNCHANGED num_threads

(* The connection is queued, a worker is started if none is idle, and one  *)
(* that waits for a connection is woken.                                   *)
put_socket ==
  /\ mpc = "put_test" /\ ~QueueFull
  /\ queue' = [queue EXCEPT ![sq_head % SqLen] = hand]
  /\ sq_head' = sq_head + 1
  /\ hand' = NoConn
  /\ \E woken \in SUBSET sq_empty_cond :
       /\ WakeOne(sq_empty_cond, woken)
       /\ sq_empty_cond' = sq_empty_cond \ woken
       /\ StartWorker(woken)
  /\ thread_mutex' = Nobody
  /\ mpc' = "unlock_ls"
  /\ UNCHANGED <<stop_flag, threads_max, num_idle, ls_mutex, sq_tail, sq_full_cond, thread_sync_cond,
                 listening, unborn, backlog, served, dropped, spc, sp, reloads>>

-----------------------------------------------------------------------------
(* master_finish() *)

finish_lock ==
  /\ mpc \in {"finish", "finish_woken"} /\ Free(thread_mutex)
  /\ thread_mutex' = Master
  /\ mpc' = IF mpc = "finish" THEN "finish_ls" ELSE "finish_wait"
  /\ UNCHANGED <<stop_flag, countVars, ls_mutex, queueVars, condVars, connVars, spc, wpc, sp, reloads>>

(* The listening socket is closed under ls_mutex.  The sockets of the      *)
(* workers are closed too, which ends what they serve sooner.              *)
finish_close ==
  /\ mpc = "finish_ls" /\ Free(ls_mutex)
  /\ listening' = FALSE
  /\ BacklogReset
  /\ mpc' = "finish_wait"
  /\ UNCHANGED <<stop_flag, countVars, thread_mutex, ls_mutex, queueVars, condVars,
                 unborn, hand, served, spc, wpc, sp, reloads>>

AllGone == num_threads <= 0

finish_wait ==
  /\ mpc = "finish_wait" /\ ~AllGone
  /\ thread_sync_cond' = thread_sync_cond \union {Master}
  /\ thread_mutex' = Nobody
  /\ mpc' = "finish_sleep"
  /\ UNCHANGED <<stop_flag, countVars, ls_mutex, queueVars, sq_empty_cond, sq_full_cond,
                 connVars, spc, wpc, sp, reloads>>

finish_done ==
  /\ mpc = "finish_wait" /\ AllGone
  /\ threads_max' = 0
  /\ thread_mutex' = Nobody
  /\ stop_flag' = 2
  /\ mpc' = "done"
  /\ UNCHANGED <<num_threads, num_idle, ls_mutex, queueVars, condVars, connVars, spc, wpc, sp, reloads>>

-----------------------------------------------------------------------------
(* ezcfg_worker_routine(), ezcfg_master_get_socket() and                   *)
(* ezcfg_master_stop_worker()                                              *)

worker_test(w) ==
  /\ wpc[w] = "test"
  /\ WGoto(w, IF stop_flag # 0 THEN "leave" ELSE "get")
  /\ UNCHANGED <<stop_flag, countVars, thread_mutex, ls_mutex, queueVars, condVars, connVars,
                 mpc, spc, sp, reloads>>

QueueEmpty == sq_head = sq_tail

(* The indices after one element is taken: both are lowered by the length  *)
(* of the queue once the tail has reached it.                              *)
Wrapped(i) == IF sq_tail + 1 >= SqLen THEN i - SqLen ELSE i

WrappedHead(i) == Wrapped(i)

(* Fault: the newest connection is taken. *)
NewestSlot == (sq_head - 1) % SqLen

TakenSlot == sq_tail % SqLen

(* Take the oldest connection and wake the master if it waits for room. *)
Take(w) ==
  /\ sp' = [sp EXCEPT ![w] = queue[TakenSlot]]
  /\ sq_tail' = Wrapped(sq_tail + 1)
  /\ sq_head' = WrappedHead(sq_head)
  /\ sq_full_cond' = {}
  /\ mpc' = IF Master \in sq_full_cond THEN "put_woken" ELSE mpc
  /\ WGoto(w, "serve")
  /\ UNCHANGED <<stop_flag, threads_max, num_threads, thread_mutex, ls_mutex, queue,
                 sq_empty_cond, thread_sync_cond, connVars, spc, reloads>>

(* pthread_cond_timedwait() on sq_empty_cond gives the mutex up. *)
Wait(w) ==
  /\ sq_empty_cond' = sq_empty_cond \union {w}
  /\ WGoto(w, "waiting")
  /\ UNCHANGED <<stop_flag, threads_max, num_threads, thread_mutex, ls_mutex, queueVars,
                 sq_full_cond, thread_sync_cond, connVars, mpc, spc, sp, reloads>>

get_socket(w) ==
  /\ wpc[w] = "get" /\ Free(thread_mutex)
  /\ \/ QueueEmpty /\ Wait(w) /\ num_idle' = num_idle + 1
     \/ ~QueueEmpty /\ Take(w) /\ UNCHANGED num_idle

get_woken(w) ==
  /\ wpc[w] = "woken" /\ Free(thread_mutex)
  /\ \/ QueueEmpty /\ Wait(w) /\ UNCHANGED num_idle
     \/ ~QueueEmpty /\ Take(w) /\ num_idle' = num_idle - 1

(* The wait times out: get_socket returns false, the worker leaves without *)
(* looking at the queue again and still counts as idle.                    *)
get_timeout(w) ==
  /\ wpc[w] = "waiting"
  /\ sq_empty_cond' = sq_empty_cond \ {w}
  /\ WGoto(w, "leave_idle")
  /\ UNCHANGED <<stop_flag, countVars, thread_mutex, ls_mutex, queueVars, sq_full_cond,
                 thread_sync_cond, connVars, mpc, spc, sp, reloads>>

(* The connection is served and closed. *)
worker_serve(w) ==
  /\ wpc[w] = "serve"
  /\ served' = served \union {sp[w]}
  /\ sp' = [sp EXCEPT ![w] = NoConn]
  /\ WGoto(w, "test")
  /\ UNCHANGED <<stop_flag, countVars, thread_mutex, ls_mutex, queueVars, condVars,
                 listening, unborn, backlog, hand, dropped, mpc, spc, reloads>>

(* Fault: a worker that timed out stays counted as idle. *)
IdleKept == num_idle

IdleAfterStop == num_idle - 1

ThreadsAfterStop == num_threads - 1

(* Fault: nobody is told that a worker is gone. *)
NoneToWake == {}

ToWake == thread_sync_cond

(* Both counters go down, also for a worker that left on stop_flag and was *)
(* not counted as idle.                                                    *)
stop_worker(w) ==
  /\ wpc[w] \in {"leave", "leave_idle"} /\ Free(thread_mutex)
  /\ WGoto(w, "none")
  /\ num_threads' = ThreadsAfterStop
  /\ num_idle' = IdleAfterStop
  /\ \E woken \in SUBSET thread_sync_cond :
       /\ WakeOne(ToWake, woken)
       /\ thread_sync_cond' = thread_sync_cond \ woken
       /\ mpc' = IF Master \in woken THEN "finish_woken" ELSE mpc
       /\ spc' = IF Signal \in woken THEN "reload_woken" ELSE spc
  /\ UNCHANGED <<stop_flag, threads_max, thread_mutex, ls_mutex, queueVars, sq_empty_cond,
                 sq_full_cond, connVars, sp, reloads>>

-----------------------------------------------------------------------------
(* sig_thread_routine(): ezcfg_master_reload() and ezcfg_master_stop() *)

(* thread_mutex first, then ls_mutex. *)
reload_lock ==
  /\ \/ /\ spc = "idle" /\ "USR1" \in Signals /\ reloads < MaxReload
        /\ threads_max # 0
        /\ spc' = "reload_ls" /\ reloads' = reloads + 1
     \/ /\ spc = "reload_woken"
        /\ spc' = "reload_wait" /\ UNCHANGED reloads
  /\ Free(thread_mutex)
  /\ thread_mutex' = Signal
  /\ UNCHANGED <<stop_flag, countVars, ls_mutex, queueVars, condVars, connVars, mpc, wpc, sp>>

reload_lock_ls ==
  /\ spc = "reload_ls" /\ Free(ls_mutex)
  /\ ls_mutex' = Signal
  /\ spc' = "reload_wait"
  /\ UNCHANGED <<stop_flag, countVars, thread_mutex, queueVars, condVars, connVars, mpc, wpc, sp, reloads>>

(* Wait until all workers are gone, with ls_mutex held. *)
reload_wait ==
  /\ spc = "reload_wait" /\ ~AllGone
  /\ thread_sync_cond' = thread_sync_cond \union {Signal}
  /\ thread_mutex' = Nobody
  /\ spc' = "reload_sleep"
  /\ UNCHANGED <<stop_flag, countVars, ls_mutex, queueVars, sq_empty_cond, sq_full_cond,
                 connVars, mpc, wpc, sp, reloads>>

(* The configuration is loaded again and both mutexes are given back. *)
reload_done ==
  /\ spc = "reload_wait" /\ AllGone
  /\ thread_mutex' = Nobody
  /\ ls_mutex' = Nobody
  /\ spc' = "idle"
  /\ UNCHANGED <<stop_flag, countVars, queueVars, condVars, connVars, mpc, wpc, sp, reloads>>

(* SIGTERM: raise the flag, then poll for master_finish(). *)
stop_request ==
  /\ spc = "idle" /\ "TERM" \in Signals /\ threads_max # 0
  /\ stop_flag' = 1
  /\ spc' = "stopping"
  /\ UNCHANGED <<countVars, thread_mutex, ls_mutex, queueVars, condVars, connVars, mpc, wpc, sp, reloads>>

master_delete ==
  /\ spc = "stopping" /\ stop_flag = 2
  /\ spc' = "deleted"
  /\ UNCHANGED <<stop_flag, countVars, thread_mutex, ls_mutex, queueVars, condVars, connVars,
                 mpc, wpc, sp, reloads>>

(* The daemon has ended. *)
Terminated == spc = "deleted" /\ UNCHANGED vars

-----------------------------------------------------------------------------
MasterStep ==
  \/ master_test \/ master_fdset \/ master_select \/ master_lock_ls
  \/ accept_new_connection \/ accept_fail \/ master_unlock_ls
  \/ put_lock \/ put_wait \/ put_socket
  \/ finish_lock \/ finish_close \/ finish_wait \/ finish_done

WorkerStep(w) ==
  \/ worker_test(w) \/ get_socket(w) \/ get_woken(w)
  \/ get_timeout(w) \/ worker_serve(w) \/ stop_worker(w)

(* What the signal thread does on its own once it has a signal. *)
SignalStep ==
  \/ reload_lock_ls \/ reload_wait \/ reload_done \/ master_delete
  \/ spc = "reload_woken" /\ reload_lock

Next ==
  \/ \E c \in Conns : client_connect(c)
  \/ ezcfg_master_set_threads_max
  \/ MasterStep
  \/ \E w \in Workers : WorkerStep(w)
  \/ reload_lock \/ reload_lock_ls \/ reload_wait \/ reload_done
  \/ stop_request \/ master_delete
  \/ Terminated

Spec == Init /\ [][Next]_vars

(* Every thread keeps running, and one that asks for a mutex while others   *)
(* come and go gets it in the end; select() reports a connection that stays *)
(* pending; serving a connection ends.  Clients and signals need not come.  *)
Fairness ==
  /\ WF_vars(ezcfg_master_set_threads_max)
  /\ SF_vars(MasterStep) /\ SF_vars(master_select /\ mpc' = "ready")
  /\ \A w \in Workers : SF_vars(WorkerStep(w))
  /\ SF_vars(SignalStep)

FairSpec == Spec /\ Fairness

-----------------------------------------------------------------------------
(* Properties *)

MasterPlaces == {"top", "fdset", "select", "ready", "accept", "unlock_ls",
                 "put", "put_test", "put_sleep", "put_woken",
                 "finish", "finish_ls", "finish_wait", "finish_sleep", "finish_woken", "done"}
SignalPlaces == {"idle", "reload_ls", "reload_wait", "reload_sleep", "reload_woken",
                 "stopping", "deleted"}
WorkerPlaces == {"none", "test", "get", "waiting", "woken", "serve", "leave", "leave_idle"}

(* Types of the counters, of the queue and of the places of the threads. *)
TypeOK ==
  /\ stop_flag \in 0 .. 2
  /\ threads_max \in {0, ThreadsMax}
  /\ num_threads \in Nat /\ num_idle \in Int
  /\ thread_mutex \in Threads \union {Nobody}
  /\ ls_mutex \in {Master, Signal, Nobody}
  /\ queue \in [0 .. SqLen - 1 -> Conns \union {NoConn}]
  /\ sq_head \in Nat /\ sq_tail \in Nat
  /\ sq_empty_cond \subseteq Workers
  /\ sq_full_cond \subseteq {Master}
  /\ thread_sync_cond \subseteq {Master, Signal}
  /\ listening \in BOOLEAN
  /\ unborn \subseteq Conns /\ backlog \subseteq Conns /\ served \subseteq Conns
  /\ dropped \subseteq Conns
  /\ hand \in Conns \union {NoConn}
  /\ mpc \in MasterPlaces /\ spc \in SignalPlaces
  /\ wpc \in [Workers -> WorkerPlaces]
  /\ sp \in [Workers -> Conns \union {NoConn}]
  /\ reloads \in Nat

(* master.c: the unwrapped head and tail always delimit at most SqLen      *)
(* elements and the tail is an index, over any number of wraps: the        *)
(* ASSERTs of put_socket() and ezcfg_master_get_socket().                  *)
QueueBounds == sq_tail \in 0 .. SqLen - 1 /\ sq_head - sq_tail \in 0 .. SqLen

(* master.c: num_threads is the number of worker threads that run, and     *)
(* never more than was asked for; master_finish() and reload rely on it to *)
(* know that no worker is left.                                            *)
Alive == {w \in Workers : wpc[w] # "none"}
ThreadsCounted == num_threads = Cardinality(Alive) /\ num_threads <= ThreadsMax

(* master.c: until the daemon is told to stop, num_idle is the number of   *)
(* workers that wait for a connection or have given up waiting and are not *)
(* gone yet, so it is never negative and never misses a waiting worker.    *)
Idle == {w \in Workers : wpc[w] \in {"waiting", "woken", "leave_idle"}}
IdleCounted == stop_flag = 0 => num_idle = Cardinality(Idle)

(* The connections in the queue, oldest first. *)
Fifo == [i \in 1 .. sq_head - sq_tail |-> queue[(sq_tail + i - 1) % SqLen]]

(* Where a connection is: not opened, in the backlog, in the master's      *)
(* hand, in a slot of the queue, with a worker, served, or reset.          *)
Places(c) ==
  {<<"unborn">> : x \in unborn \cap {c}} \union {<<"backlog">> : x \in backlog \cap {c}}
  \union {<<"hand">> : x \in {hand} \cap {c}}
  \union {<<"slot", i>> : i \in {j \in DOMAIN Fifo : Fifo[j] = c}}
  \union {<<"worker", w>> : w \in {v \in Workers : sp[v] = c}}
  \union {<<"served">> : x \in served \cap {c}}
  \union {<<"dropped">> : x \in dropped \cap {c}}

(* master.c and worker.c: an opened connection is in exactly one place: in *)
(* the backlog, in the master's hand, in one slot of the queue, with one   *)
(* worker, served, or reset with the listening socket it waited on.  So    *)
(* none is served or queued twice, and one that was accepted is neither    *)
(* reset nor lost, across the reopening of the socket, reload and stop.    *)
ConnConserved == \A c \in Conns : Cardinality(Places(c)) = 1

(* master.c: the master structure is freed when no thread uses it any      *)
(* more, and the two mutexes it contains are free.                         *)
DeletedUnused ==
  spc = "deleted" => /\ mpc = "done" /\ Alive = {}
                     /\ Free(thread_mutex) /\ Free(ls_mutex)

(* The queue of the master and the sockets of the workers behave as the    *)
(* bounded FIFO of SocketQueue.                                            *)
Queue == INSTANCE SocketQueue WITH fifo <- Fifo, held <- sp, Capacity <- SqLen
QueueIsFifo == Queue!Spec

(* The master waits for room in a full queue and no worker is left to make *)
(* any: put_socket() does not look at stop_flag.                           *)
WaitsForNobody == mpc = "put_sleep" /\ QueueFull /\ Alive = {}

(* master.c: a stop request is carried out unless it comes when the queue  *)
(* is full and the workers leave before they have taken anything from it:  *)
(* there is no other way for a stop to hang.                               *)
StopEnds == (stop_flag = 1) ~> (spc = "deleted" \/ WaitsForNobody)

(* master.c:945, "wait all wokers stop first": a reload gets there.        *)
ReloadCompletes == (spc = "reload_ls") ~> (spc = "idle")

(* master.c:648, "If there are no idle threads, start one": a connection   *)
(* put once threads_max is set is served, unless the daemon is stopped.    *)
QueuedIsServed ==
  \A c \in Conns :
    (mpc = "put_test" /\ hand = c /\ threads_max # 0) ~> (c \in served \/ stop_flag # 0)

(* master.c: the indices of the queue and the two counters that decide     *)
(* whether a worker is started and whether one is left agree with the      *)
(* threads there are, and the structure is freed when none uses it.        *)
PoolSound ==
  TypeOK /\ QueueBounds /\ ThreadsCounted /\ IdleCounted /\ DeletedUnused
=============================================================================
