------------------------------- MODULE ApiCall -------------------------------
(***************************************************************************)
(* The calls of libezcfg/api that talk to the daemon, as scripts: a client *)
(* takes the semaphore of the service, connects to the daemon's local      *)
(* socket, sends one request, waits for one answer, and gives the          *)
(* semaphore back.  The module Session executes them.                      *)
(***************************************************************************)
EXTENDS WorkerScript

(* semget() in a loop until the daemon has made the set.                   *)
AwaitSemaphores == <<Cmd("semget", "", "", "")>>
Take(s) == <<Cmd("take", s, "", "")>>
Give(s) == <<Cmd("give", s, "", "")>>
(* connect() and write(), to a worker of protocol p; read(); what the      *)
(* answer must be for the call to go on.                                   *)
Connect(p) == <<Cmd("connect", p, "", "")>>
Receive    == <<Cmd("receive", "", "", "")>>
Expect(what) == <<Cmd("expect", what, "", "")>>
(* A call that always fails.                                               *)
Never == <<Cmd("never", "", "", "")>>

ApiOps == Exits \union {"take", "connect", "receive", "expect", "never"}

(* A call with its exit t, where the objects are freed.                    *)
Call(s, t) == ToEnd(s, ApiOps) \o t
(* Mutant: a failure inside leaves the semaphore taken.                    *)
ExchangeLeaks(sem, s) ==
  May \o AwaitSemaphores \o Take(sem) \o s \o Give(sem)
(* ftok(), semget(), the exchange s with the semaphore taken, sem_exit.    *)
Exchange(sem, s) ==
  May \o AwaitSemaphores \o Take(sem) \o ToEnd(s, ApiOps) \o Give(sem)

(* A soap request to the nvram service.  A refusal has no soap body, so    *)
(* that it does not parse; the answer must hold the expected elements.     *)
Soap ==
  Alloc("ctrl") \o Connect("soap_http") \o Receive
  \o May \o May \o Expect("done") \o May
SoapExit == Free("msg") \o Free("sh") \o Free("ctrl") \o Free("ezcfg")

SoapGet ==
  Call(Alloc("ezcfg") \o Alloc("sh") \o Alloc("msg") \o Exchange("nvram", Soap),
       SoapExit)
(* The body is written into a buffer that grows for the whole message.     *)
SoapSet ==
  Call(Alloc("ezcfg") \o Alloc("sh") \o Alloc("msg") \o May
         \o Exchange("nvram", Soap),
       SoapExit)
SoapUnset ==
  Call(Alloc("ezcfg") \o Alloc("sh") \o Alloc("msg") \o Exchange("nvram", Soap),
       SoapExit)

(* These three exchanges are the bodies of the calls for nvram, which this *)
(* commit compiles out: the calls return 0 at once.                        *)
ezcfg_api_nvram_get   == <<>>
ezcfg_api_nvram_set   == <<>>
ezcfg_api_nvram_unset == <<>>

(* The text is written into a buffer one byte longer than the writer is    *)
(* told, and the writer wants more than it needs: it refuses every text.   *)
ezcfg_api_nvram_change ==
  Call(Alloc("ezcfg") \o Alloc("jh") \o May \o Alloc("msg") \o Never
         \o Connect("json_http") \o Receive \o May \o Expect("done"),
       Free("msg") \o Free("jh") \o Free("ezcfg"))

(* One line each way; ctrl_exec() hands any answer to its caller.          *)
Line == Alloc("ctrl") \o Connect("ctrl") \o Receive
LineExit == Free("ctrl") \o Free("ezcfg")
ezcfg_api_ctrl_exec ==
  Call(Alloc("ezcfg") \o Exchange("ctrl", Line), LineExit)
ezcfg_api_ipc_get_ezcfg_shm_id ==
  Call(Alloc("ezcfg") \o Exchange("ctrl", Line \o Expect("done")), LineExit)

(* The market data in shared memory, under its own semaphore.              *)
Market == May \o Take("ezctp") \o ToEnd(May, ApiOps) \o Give("ezctp")
ezcfg_api_ezctp_insert_market_data == Call(Market, <<>>)
ezcfg_api_ezctp_remove_market_data == Call(Market, <<>>)
ezcfg_api_ezctp_save_market_data   == Call(Market, <<>>)

ezcfg_api_uuid1_string ==
  Call(Alloc("ezcfg") \o Alloc("uuid") \o May \o May, Free("uuid") \o Free("ezcfg"))
ezcfg_api_agent_start ==
  Call(Alloc("ezcfg") \o May \o Alloc("agent") \o May, Free("agent") \o Free("ezcfg"))

Calls == {"soap_get", "soap_set", "soap_unset", "nvram_get", "nvram_set",
          "nvram_unset", "nvram_change", "ctrl_exec", "ipc_shm_id",
          "ezctp_insert", "ezctp_remove", "ezctp_save", "uuid", "agent_start"}
ApiScript(c) ==
  CASE c = "soap_get"     -> SoapGet
    [] c = "soap_set"     -> SoapSet
    [] c = "soap_unset"   -> SoapUnset
    [] c = "nvram_get"    -> ezcfg_api_nvram_get
    [] c = "nvram_set"    -> ezcfg_api_nvram_set
    [] c = "nvram_unset"  -> ezcfg_api_nvram_unset
    [] c = "nvram_change" -> ezcfg_api_nvram_change
    [] c = "ctrl_exec"    -> ezcfg_api_ctrl_exec
    [] c = "ipc_shm_id"   -> ezcfg_api_ipc_get_ezcfg_shm_id
    [] c = "ezctp_insert" -> ezcfg_api_ezctp_insert_market_data
    [] c = "ezctp_remove" -> ezcfg_api_ezctp_remove_market_data
    [] c = "ezctp_save"   -> ezcfg_api_ezctp_save_market_data
    [] c = "uuid"         -> ezcfg_api_uuid1_string
    [] c = "agent_start"  -> ezcfg_api_agent_start
=============================================================================
