------------------------------ MODULE Session ------------------------------
(***************************************************************************)
(* Clients of the API and worker threads of the old daemon.  Workers serve *)
(* the connections of clients, or of peers outside the model whose         *)
(* requests may be anything; they share the mutexes of the master, and     *)
(* clients share the semaphores of the services.  Any allocation and any   *)
(* system call may fail.                                                   *)
(***************************************************************************)
EXTENDS ApiCall, TLC

CONSTANTS
  Clients, Workers,
  Accepting,  \* the workers that wait for the connections of clients
  Scenarios,  \* what is asked for at the same time: actors to their jobs
  MaxTrouble  \* how many resources may be refused in a scenario

VARIABLES
  act,     \* per actor: what it still has to do, and its variables
  refusals, \* resources refused in this scenario
  sem,     \* semaphores and mutexes that are taken
  semset   \* the daemon has made its semaphores

vars == <<act, sem, semset, refusals>>

None == ""
Pending == "pending"
Actors == Clients \union Workers

(* Clients and workers are different; a client makes calls, a worker       *)
(* speaks protocols.                                                       *)
ASSUME SessionAssumption ==
  /\ Clients \intersect Workers = {} /\ Accepting \subseteq Workers
  /\ None \notin Actors /\ Pending \notin Actors
  /\ MaxTrouble \in Nat
  /\ \A s \in Scenarios : \A a \in DOMAIN s :
       s[a] \in IF a \in Clients THEN Calls ELSE Protocols

(* failed: the result so far is negative.  trouble: a resource was refused *)
(* or the request could not be read.  unset: the realm was not set when it *)
(* was looked for.  ret: the bool of the current function.  own: objects   *)
(* allocated.  held: semaphores and mutexes.  answers: to this request.    *)
(* peer: the client a worker serves, and the worker of a client, whose     *)
(* protocol is called calls.  reply: what a client has got.  served: of a  *)
(* client, what it asked for was done; of a worker, the handler was called.*)
Idle == [job |-> None, todo |-> <<>>, failed |-> FALSE,
         trouble |-> FALSE, unset |-> FALSE, ret |-> FALSE, own |-> {}, held |-> {},
         answers |-> 0, calls |-> None, peer |-> None, reply |-> None, served |-> FALSE]

Init == act = [a \in Actors |-> Idle] /\ sem = {} /\ semset = FALSE
        /\ refusals = 0

Command(a) == Head(act[a].todo)
Busy(a) == act[a].todo # <<>>
Ended(a) == act[a].job # None /\ act[a].todo = <<>>
Is(a, op) == Busy(a) /\ Command(a).op = op

Script(job) ==
  IF job \in Protocols THEN ezcfg_worker_routine(job) ELSE ApiScript(job)
Begin(job) ==
  LET s == Script(job)
  IN  [Idle EXCEPT !.job = job,
         !.todo = [k \in DOMAIN s |-> [op |-> s[k].op, to |-> s[k].to,
                                        skip |-> s[k].skip]]]

(* A scenario begins when the last one is over, with a daemon that is      *)
(* still coming up.                                                        *)
Start(s) ==
  /\ \A a \in Actors : act[a].job = None
  /\ act' = [a \in Actors |-> IF a \in DOMAIN s THEN Begin(s[a]) ELSE Idle]
  /\ refusals' = 0 /\ semset' = FALSE
  /\ UNCHANGED sem

(* The daemon comes up: only those who wait for its semaphores notice.     *)
MakeSemaphores ==
  /\ ~semset /\ \E a \in Actors : Is(a, "semget")
  /\ semset' = TRUE
  /\ UNCHANGED <<act, sem, refusals>>

-----------------------------------------------------------------------------

(* The actor's record after the current command went well, after a         *)
(* condition that does not hold, and after the other side has refused.     *)
Onward(a)   == [act[a] EXCEPT !.todo = Tail(@)]
Skipping(a) ==
  LET k == Command(a).skip
  IN  [act[a] EXCEPT !.todo = IF k = 0 THEN <<>> ELSE SubSeq(@, k + 1, Len(@))]
Refused(a)  == [Skipping(a) EXCEPT !.failed = TRUE]

Becomes(a, r) == act' = [act EXCEPT ![a] = r]
Private == UNCHANGED <<sem, semset, refusals>>
(* A resource is refused.                                                  *)
Fails(a) ==
  /\ refusals < MaxTrouble /\ refusals' = refusals + 1
  /\ Becomes(a, [Refused(a) EXCEPT !.trouble = TRUE])
  /\ UNCHANGED <<sem, semset>>

Allocate(a) ==
  LET x == Command(a).to IN
  /\ Is(a, "alloc") \/ Is(a, "own")
  /\ \/ Becomes(a, [Onward(a) EXCEPT !.own = @ \union ({x} \ {None})]) /\ Private
     \/ Is(a, "alloc") /\ Fails(a)

FreeObject(a) ==
  /\ Is(a, "free")
  /\ Becomes(a, [Onward(a) EXCEPT !.own = @ \ {Command(a).to}])
  /\ Private

Decide(a) ==
  /\ Is(a, "test")
  /\ Becomes(a, Onward(a)) \/ Becomes(a, Skipping(a))
  /\ Private

(* AUTH_0_REALM is set in nvram, or not.                                   *)
LookForRealm(a) ==
  /\ Is(a, "realm")
  /\ \/ Becomes(a, Onward(a))
     \/ Becomes(a, [Skipping(a) EXCEPT !.unset = TRUE])
  /\ Private

Jump(a) ==
  /\ Is(a, "jump") \/ Is(a, "return")
  /\ Becomes(a, Skipping(a))
  /\ Private

Forgiving(a) ==
  /\ Is(a, "forgive")
  /\ Becomes(a, [Onward(a) EXCEPT !.failed = FALSE])
  /\ Private

UseText(a) == Is(a, "use") /\ Becomes(a, Onward(a)) /\ Private
LookForText(a) ==
  /\ Is(a, "have")
  /\ Becomes(a, IF Command(a).to \in act[a].own THEN Onward(a) ELSE Skipping(a))
  /\ Private

AssignRet(a) ==
  /\ \/ /\ Is(a, "setret")
        /\ \E b \in (IF Command(a).to = "any" THEN BOOLEAN ELSE {FALSE}) :
             Becomes(a, [Onward(a) EXCEPT !.ret = b])
     \/ /\ Is(a, "callret")
        /\ \/ Becomes(a, [Onward(a) EXCEPT !.ret = TRUE])
           \/ Becomes(a, [Skipping(a) EXCEPT !.ret = FALSE])
  /\ Private

TestRet(a) ==
  /\ Is(a, "needret")
  /\ Becomes(a, IF act[a].ret THEN Onward(a) ELSE Skipping(a))
  /\ Private

(* pthread_mutex_lock() and semop(): they wait; semop() may be refused.    *)
Acquire(a) ==
  LET s == Command(a).to IN
  /\ Is(a, "lock") \/ Is(a, "take")
  /\ \/ /\ s \notin sem
        /\ sem' = sem \union {s}
        /\ Becomes(a, [Onward(a) EXCEPT !.held = @ \union {s}])
        /\ UNCHANGED <<semset, refusals>>
     \/ Is(a, "take") /\ Fails(a)

Release(a) ==
  LET s == Command(a).to IN
  /\ Is(a, "unlock") \/ Is(a, "give")
  /\ sem' = sem \ {s}
  /\ Becomes(a, [Onward(a) EXCEPT !.held = @ \ {s}])
  /\ UNCHANGED <<semset, refusals>>

FindSemaphores(a) == Is(a, "semget") /\ semset /\ Becomes(a, Onward(a)) /\ Private

-----------------------------------------------------------------------------

(* The connection of a client: to nobody yet, to a worker, or closed.      *)
ConnectDaemon(a) ==
  /\ Is(a, "connect")
  /\ \/ Becomes(a, [Onward(a) EXCEPT !.peer = Pending, !.calls = Command(a).to])
        /\ Private
     \/ Fails(a)

(* The master hands the connection to an idle worker, or closes it when    *)
(* the client is not allowed or the daemon stops.                          *)
Accept(w, c) ==
  /\ act[w].job = None /\ act[c].peer = Pending
  /\ act' = [act EXCEPT ![w] = [Begin(act[c].calls) EXCEPT !.peer = c],
                         ![c].peer = w]
  /\ Private
Drop(c) ==
  /\ act[c].peer = Pending
  /\ Becomes(c, [act[c] EXCEPT !.peer = None, !.reply = "closed"])
  /\ Private

(* To the peer goes the first answer; it reads only one.                   *)
Deliverable(a, what) ==
  LET c == act[a].peer IN
  IF c # None /\ act[c].reply = None
  THEN [act EXCEPT ![c].reply = what] ELSE act

SendAnswer(a) ==
  /\ Is(a, "answer")
  /\ act' = [Deliverable(a, Command(a).to) EXCEPT
               ![a] = [Onward(a) EXCEPT !.answers = @ + 1]]
  /\ Private

CloseConnection(a) ==
  /\ Is(a, "close")
  /\ act' = [Deliverable(a, "closed") EXCEPT ![a] = Onward(a)]
  /\ Private

(* The handlers that look at what their work on nvram returned: all but    *)
(* that of an unset, which answers OK for any name that had a value.       *)
Looks(c) == c # None => act[c].job # "soap_unset"

(* The handler does what it is asked, or cannot; it may also have done it  *)
(* and fail to build the answer.                                           *)
ServeRequest(a) ==
  /\ Is(a, "serve")
  /\ \E ok \in BOOLEAN, served \in BOOLEAN :
       /\ ok /\ Looks(act[a].peer) => served
       /\ LET c == act[a].peer
              r == [Onward(a) EXCEPT !.ret = ok, !.served = TRUE]
          IN  act' = IF c = None THEN [act EXCEPT ![a] = r]
                     ELSE [act EXCEPT ![a] = r, ![c].served = @ \/ served]
  /\ Private

ReceiveAnswer(a) ==
  /\ Is(a, "receive") /\ act[a].reply # None
  /\ Becomes(a, IF act[a].reply = "closed" THEN Refused(a) ELSE Onward(a))
  /\ Private

ExpectAnswer(a) ==
  /\ Is(a, "expect")
  /\ Becomes(a, IF act[a].reply = Command(a).to THEN Onward(a) ELSE Refused(a))
  /\ Private

AlwaysFails(a) == Is(a, "never") /\ Becomes(a, Refused(a)) /\ Private

(* Mutant: the same connection is processed again.                         *)
FinishAgain(a) == Ended(a) /\ Becomes(a, Begin(act[a].job)) /\ Private
(* The worker waits for the next connection, the call has returned.        *)
Finish(a) ==
  /\ Ended(a)
  /\ Becomes(a, Idle)
  /\ Private

Step(a) ==
  \/ Allocate(a) \/ FreeObject(a) \/ Decide(a) \/ LookForRealm(a) \/ Jump(a)
  \/ Forgiving(a)
  \/ UseText(a) \/ LookForText(a) \/ AssignRet(a) \/ TestRet(a) \/ Acquire(a) \/ Release(a)
  \/ FindSemaphores(a) \/ ConnectDaemon(a) \/ SendAnswer(a)
  \/ CloseConnection(a) \/ ServeRequest(a) \/ ReceiveAnswer(a)
  \/ ExpectAnswer(a) \/ AlwaysFails(a) \/ Finish(a)

Dispatch == \E c \in Clients : Drop(c) \/ \E w \in Accepting : Accept(w, c)

Next ==
  \/ \E s \in Scenarios : Start(s)
  \/ MakeSemaphores
  \/ Dispatch
  \/ \E a \in Actors : Step(a)

(* Threads and processes run; the daemon comes up and its master attends   *)
(* to the queue.                                                           *)
Spec ==
  /\ Init /\ [][Next]_vars
  /\ \A a \in Actors : WF_vars(Step(a))
  /\ WF_vars(MakeSemaphores) /\ WF_vars(Dispatch)

-----------------------------------------------------------------------------

(* Type invariant.                                                         *)
TypeOK ==
  /\ sem \subseteq {"auth", "upnp", "nvram", "ctrl", "ezctp"}
  /\ \A a \in Actors :
       /\ \A k \in DOMAIN act[a].todo : act[a].todo[k].skip <= Len(act[a].todo)
       /\ act[a].failed \in BOOLEAN /\ act[a].ret \in BOOLEAN /\ act[a].unset \in BOOLEAN
       /\ act[a].answers \in Nat
       /\ act[a].peer \in Actors \union {None, Pending}
       /\ act[a].held \subseteq sem

(* The requests that have been through is_authorized().                    *)
AskedAuth(w) == "auth" \in act[w].own

(* A connection carries at most one answer to its request: nothing is sent *)
(* after an error, by no path.  A request that is not authorised gets the  *)
(* 401 twice, from is_authorized() and from handle_auth_request(), and one *)
(* whose domain is not configured gets it before its document.             *)
OneAnswer ==
  \A w \in Workers : act[w].answers <= IF AskedAuth(w) THEN 2 ELSE 1

(* A request that could be read is answered before the connection is       *)
(* closed, unless the worker ran out of something.  A soap request to an   *)
(* address that is not nvram's and a search of another device are not, and *)
(* neither is a request that is not authorised while AUTH_0_REALM is unset.*)
RequestAnswered ==
  \A w \in Workers :
    (Ended(w) /\ ~act[w].trouble /\ act[w].answers = 0) =>
      \/ act[w].unset
      \/ act[w].job = "upnp_ssdp"
      \/ act[w].job \in {"soap_http", "agent_soap_http"} /\ ~act[w].served

(* Every object a request or a call has allocated is freed when it ends,   *)
(* whatever failed on the way.  The exception is the auth structure of     *)
(* is_authorized().                                                        *)
AllFreed ==
  \A a \in Actors : Ended(a) => act[a].own \subseteq {"auth"}

(* The request line is not used after a reset of http has freed it.  The   *)
(* exception: is_authorized() returns TRUE after it has sent the 401, when *)
(* the realm was found and the domain was not.                             *)
RequestLineAlive ==
  \A w \in Workers :
    Is(w, "use") => \/ Command(w).to \in act[w].own
                    \/ AskedAuth(w) /\ act[w].ret

(* A thread or a call that has ended holds no mutex and no semaphore, and  *)
(* no two hold the same one.                                               *)
LocksReturned ==
  /\ \A a \in Actors : (Ended(a) \/ act[a].job = None) => act[a].held = {}
  /\ \A a, b \in Actors : a # b => act[a].held \intersect act[b].held = {}

(* A call that reports success was served by the daemon.  An unset is      *)
(* answered OK whatever became of it, ctrl_exec() reports any line it got, *)
(* the calls without a connection report their own work.                   *)
Remote == {"soap_get", "soap_set", "nvram_change", "ipc_shm_id"}
SuccessIsServed ==
  \A c \in Clients :
    (Ended(c) /\ act[c].job \in Remote /\ ~act[c].failed) => act[c].served

(* Every call returns and every request is over at some time: nobody waits *)
(* for a lock that is not given back, or for an answer that never comes.   *)
CallsReturn == \A a \in Actors : act[a].job # None ~> act[a].job = None

(* A request that could be read gets an answer, and not two.               *)
AnsweredOnce == OneAnswer /\ RequestAnswered

(* What a request or a call allocates is freed when it ends, and its       *)
(* request line not before it is last used.                                *)
MemoryOwned == TypeOK /\ AllFreed /\ RequestLineAlive
=============================================================================
