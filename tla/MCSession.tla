----------------------------- MODULE MCSession -----------------------------
(* Every protocol alone, two workers that need the same mutex, every call  *)
(* with the worker that serves it, two clients of the same semaphore; and  *)
(* the two calls that write to flash, which share no state with them and   *)
(* are made while nobody has begun.                                        *)
EXTENDS Session, Flash

MCScenarios ==
  {"w1" :> p : p \in Protocols}
  \union {"c1" :> c : c \in {"soap_get", "soap_set", "soap_unset", "nvram_get",
                             "nvram_set", "nvram_unset", "nvram_change", "uuid",
                             "agent_start"}}
  \union {"w1" :> "admin" @@ "w2" :> "admin",
          "w1" :> "upnp_ssdp" @@ "w2" :> "upnp_ssdp",
          "c1" :> "ctrl_exec" @@ "c2" :> "ipc_shm_id",
          "c1" :> "ezctp_insert" @@ "c2" :> "ezctp_remove",
          "c1" :> "ezctp_save" @@ "c2" :> "ezctp_insert"}

(* Images of up to two parts, shorter and longer than a partition.         *)
MCParts == [name : Partitions \union {"unknown"}, blocks : 1..PartBlocks + 1]
MCImages == {<<>>} \union {<<p>> : p \in MCParts} \union (MCParts \X MCParts)

MCInit == Init /\ FlashInit
Serving == FlashInit /\ Next /\ UNCHANGED flashvars
Writing == Init /\ FlashNext /\ UNCHANGED vars
MCSpec ==
  /\ MCInit /\ [][Serving \/ Writing]_<<vars, flashvars>>
  /\ \A a \in Actors : WF_vars(Step(a))
  /\ WF_vars(MakeSemaphores) /\ WF_vars(Dispatch)
=============================================================================
