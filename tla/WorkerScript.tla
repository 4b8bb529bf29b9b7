---------------------------- MODULE WorkerScript ----------------------------
(***************************************************************************)
(* What a worker thread of the old daemon does with a connection, for      *)
(* every protocol: libezcfg/src/bak/thread/worker*.c and bak/agent/agent_  *)
(* worker*.c.  The module Session executes these scripts.                  *)
(*                                                                         *)
(* The handlers return nothing: a failure leads to the function's exit,    *)
(* with or without an answer on the connection, and the caller goes on.    *)
(***************************************************************************)
EXTENDS DocCommand

(* An answer on the connection: what the request asked for, or a refusal.  *)
Answer(what) == <<Cmd("answer", what, "", "")>>
(* A pointer to the text x is used, or compared with NULL; the text is     *)
(* freed by a reset of http.                                               *)
Use(x) == <<Cmd("use", x, "", "")>>
Have(x) == <<Cmd("have", x, "", "")>>
(* The mutexes of the master.                                              *)
Lock(m)   == <<Cmd("lock", m, "", "")>>
Unlock(m) == <<Cmd("unlock", m, "", "")>>
(* The bool variable ret of a function: set, set from a call that may fail *)
(* with a jump when it is false, and looked at.                            *)
SetRet(v) == <<Cmd("setret", v, "", "")>>
CallRet   == <<Cmd("callret", "", "", "")>>
NeedRet   == <<Cmd("needret", "", "", "")>>
(* The look at nvram for the realm of the 401.                             *)
Realm == <<Cmd("realm", "", "", "")>>
(* Work on nvram or on the daemon for a client, see ApiCall.               *)
Serve == <<Cmd("serve", "", "", "")>>

Goto(k) == <<[Cmd("jump", "", "", "") EXCEPT !.skip = k]>>
Exits == FailingOps \union {"return"}

(* void f(): s with its failures leading to the clean-up t.                *)
Void(s, t) == ToEnd(s, Exits) \o t \o Forgive("")
(* Mutant: the function goes on after the error.                           *)
OrElseGoesOn(c, e) == <<[c[1] EXCEPT !.skip = 2]>> \o Goto(Len(e) + 1) \o e
(* if (!c) { e; goto func_exit; }                                          *)
OrElse(c, e) == <<[c[1] EXCEPT !.skip = 2]>> \o Goto(Len(e) + 2) \o e \o Return

-----------------------------------------------------------------------------

(* The message is measured, written into a buffer and sent; the line of    *)
(* ezcfg_worker_printf() goes through a buffer of its own.                 *)
ezcfg_http_get_message_length == May
ezcfg_http_add_header == May
Deliver(what) == ezcfg_http_get_message_length \o Alloc("msg") \o Answer(what)
ezcfg_worker_printf(what) == Void(Alloc("line") \o Answer(what), Free("line"))
ezcfg_agent_worker_printf(what) == Void(Alloc("line") \o Answer(what), Free("line"))

ezcfg_http_reset_attributes == Free("uri")

send_http_error  == ezcfg_worker_printf("refused")
send_http_bad_request ==
  Void(ezcfg_http_reset_attributes \o Deliver("refused"), Free("msg"))

-----------------------------------------------------------------------------

(* Authorisation.  The structure auth is made and never freed; when the    *)
(* realm was set and the domain is not configured, ret is still TRUE when  *)
(* the 401 goes out.  Without a realm nothing is sent.                     *)
TryAuth ==
  ezcfg_http_reset_attributes
  \o If(Realm, ezcfg_http_add_header \o Deliver("refused"))

(* What is_authorized() cannot find out, or finds to be untrue, goes on    *)
(* with the 401.                                                           *)
Lookup == Test \o Test \o CallRet \o Test \o CallRet
CheckAuth ==
  ToEnd(Lookup \o Lock("auth") \o SetRet("any") \o Unlock("auth") \o NeedRet
        \o Return,
        {"test", "callret", "needret"})

is_authorized ==
  Void(SetRet("false") \o Alloc("auth") \o CheckAuth \o TryAuth, Free("msg"))
handle_auth_request == Void(TryAuth, Free("msg"))

(* The same pair for upnp: there the header is added unseen.               *)
UpnpTryAuth == ezcfg_http_reset_attributes \o If(Realm, Deliver("refused"))
upnp_is_authorized ==
  Void(SetRet("false") \o Alloc("auth") \o CheckAuth \o UpnpTryAuth, Free("msg"))
upnp_handle_auth_request == Void(UpnpTryAuth, Free("msg"))

(* if (need_authorization(uri) && !is_authorized()) { 401; return; }       *)
Authorized(check, auth, s) ==
  SetRet("false") \o If(Test, check \o <<[NeedRet[1] EXCEPT !.skip = 2]>>
                         \o Goto(Len(auth) + 2) \o auth \o Return) \o s

-----------------------------------------------------------------------------

(* http: one handler per kind of document.                                 *)

(* n headers, one after the other.                                         *)
Headers(n) == [k \in 1..n |-> ezcfg_http_add_header[1]]

handle_websocket_request ==
  Void(OrElse(Alloc("ws"), send_http_error) \o OrElse(Alloc("hws"), send_http_error)
       \o OrElse(Test, send_http_bad_request)
       \o Headers(4) \o Deliver("done"),
       Free("msg") \o Free("hws") \o Free("ws"))

(* Mutant: the response is begun before the name of the file is taken.     *)
SsiPathReset ==
  ezcfg_http_reset_attributes \o OrElse(May, send_http_error) \o Use("uri")
  \o OrElse(Test, send_http_error) \o OrElse(May, send_http_error)
(* The name of the file: too long is 505, no memory for it 500.            *)
SsiPath ==
  OrElse(May, send_http_error) \o Use("uri")
  \o OrElse(Test, send_http_error)
  \o If(Test, OrElse(Test, send_http_error)) \o OrElse(May, send_http_error)
handle_ssi_request ==
  Void(OrElse(Alloc("ssi"), send_http_error) \o SsiPath
       \o OrElse(Test, send_http_error) \o OrElse(Test, send_http_bad_request)
       \o Headers(4) \o Deliver("done"),
       Free("msg") \o Free("ssi"))

(* Only the js type is known.                                              *)
handle_nvram_request ==
  Void(Use("uri") \o OrElse(Alloc("hn"), send_http_error)
       \o OrElse(Test, send_http_error) \o OrElse(May, send_http_error)
       \o OrElse(Test, send_http_error) \o OrElse(May, send_http_error)
       \o OrElse(Test, send_http_bad_request) \o Deliver("done"),
       Free("msg") \o Free("hn"))

(* The handlers of AdminPage and Document build the answer in http.        *)
handle_apply_request ==
  Void(OrElse(Test, send_http_bad_request) \o Deliver("done"), Free("msg"))
handle_admin_request ==
  Void(OrElse(Test, send_http_bad_request) \o Deliver("done"), Free("msg"))
handle_index_request ==
  Void(OrElse(Test, send_http_bad_request) \o Deliver("done"), Free("msg"))

handle_http_request ==
  Void(OrElse(Have("uri"), send_http_bad_request) \o Use("uri")
       \o Authorized(is_authorized, handle_auth_request,
            IfElse(Test, handle_websocket_request,
              Use("uri")
              \o IfElse(Test, handle_ssi_request,
                   IfElse(Test, handle_nvram_request,
                     IfElse(Test, handle_apply_request,
                       IfElse(Test, handle_admin_request,
                              handle_index_request)))))),
       <<>>)

(* Reading a request: the header must be complete and parse, the version   *)
(* must be the one that is spoken, the body must be there.                 *)
Request(error, handle) ==
  Void(Alloc("buf") \o May
       \o OrElse(Test, error) \o OrElse(Alloc("uri"), error)
       \o OrElse(Test, error) \o OrElse(May, error)
       \o handle,
       Free("buf"))

ezcfg_worker_process_http_new_connection ==
  Request(send_http_error, handle_http_request)

-----------------------------------------------------------------------------

(* upnp over http: files only, written line by line into a growing buffer. *)
upnp_send_http_error == ezcfg_worker_printf("refused")
upnp_send_http_bad_request ==
  Void(ezcfg_http_reset_attributes \o Deliver("refused"), Free("msg"))
UpnpSsiBody ==
  Loop(Alloc("msg")) \o May \o Free("msg")
UpnpSsiHeaders ==
  If(Test, ezcfg_http_add_header) \o Headers(2) \o May \o May \o Headers(1)
upnp_handle_ssi_request ==
  Void(If(Test, Alloc("language"))
       \o OrElse(Alloc("ssi"), upnp_send_http_error)
       \o Use("uri") \o OrElse(May, upnp_send_http_error)
       \o OrElse(Test, upnp_send_http_error)
       \o OrElse(May, upnp_send_http_error) \o OrElse(Test, upnp_send_http_error)
       \o OrElse(Test, upnp_send_http_bad_request)
       \o UpnpSsiBody \o UpnpSsiHeaders \o Deliver("done"),
       Free("language") \o Free("msg") \o Free("ssi"))
handle_upnp_http_request ==
  Void(OrElse(Have("uri"), upnp_send_http_bad_request) \o Use("uri")
       \o Authorized(upnp_is_authorized, upnp_handle_auth_request,
                     upnp_handle_ssi_request),
       <<>>)
ezcfg_worker_process_upnp_http_new_connection ==
  Request(upnp_send_http_error, handle_upnp_http_request)

(* soap over http: an address that is not nvram's gets no answer.          *)
send_soap_http_error == ezcfg_worker_printf("refused")
SoapRefusal == ezcfg_http_reset_attributes \o Deliver("refused")
(* Mutant: a request that cannot be served is answered as if it was.       *)
SoapAlwaysDone ==
  Void(OrElse(Have("uri"), SoapRefusal) \o Use("uri")
       \o If(Test, Serve \o Deliver("done")),
       Free("msg"))
handle_soap_http_request ==
  Void(OrElse(Have("uri"), SoapRefusal) \o Use("uri")
       \o If(Test, Serve \o OrElse(NeedRet, SoapRefusal) \o Deliver("done")),
       Free("msg"))
ezcfg_worker_process_soap_http_new_connection ==
  Request(send_soap_http_error, handle_soap_http_request)

agent_send_soap_http_error == ezcfg_agent_worker_printf("refused")
agent_handle_soap_http_request ==
  Void(OrElse(Have("uri"), SoapRefusal) \o Use("uri")
       \o If(Test, Serve \o OrElse(NeedRet, SoapRefusal) \o Deliver("done")),
       Free("msg"))
ezcfg_agent_worker_process_soap_http_new_connection ==
  Request(agent_send_soap_http_error, agent_handle_soap_http_request)

(* igrs: the message is handled and its answer built.                      *)
send_igrs_error == ezcfg_worker_printf("refused")
handle_igrs_request ==
  Void(OrElse(Have("uri"), SoapRefusal) \o Use("uri")
       \o OrElse(Test, SoapRefusal) \o Deliver("done"),
       Free("msg"))
ezcfg_worker_process_igrs_new_connection ==
  Request(send_igrs_error, handle_igrs_request)

(* json over http, the agent's protocols.                                  *)
send_json_http_error == ezcfg_agent_worker_printf("refused")
handle_json_http_request ==
  Void(OrElse(Have("uri"), SoapRefusal) \o Use("uri") \o OrElse(Test, SoapRefusal)
       \o Serve \o OrElse(NeedRet, SoapRefusal) \o Deliver("done"),
       Free("msg"))
ezcfg_agent_worker_process_json_http_new_connection ==
  Request(send_json_http_error, handle_json_http_request)

send_nv_json_http_error == ezcfg_agent_worker_printf("refused")
handle_nv_json_http_request ==
  Void(OrElse(Have("uri"), SoapRefusal) \o Use("uri") \o OrElse(Test, SoapRefusal)
       \o Serve \o OrElse(NeedRet, SoapRefusal) \o Deliver("done"),
       Free("msg"))
ezcfg_agent_worker_process_nv_json_http_new_connection ==
  Request(send_nv_json_http_error, handle_nv_json_http_request)

(* ctrl: one line in, one line out.                                        *)
send_ctrl_error == ezcfg_worker_printf("refused")
ezcfg_worker_process_ctrl_new_connection ==
  Void(OrElse(May, send_ctrl_error) \o OrElse(May, send_ctrl_error)
       \o Serve \o OrElse(NeedRet, send_ctrl_error) \o ezcfg_worker_printf("done"),
       <<>>)

(* upnp discovery: only a valid search of a root device is answered, if    *)
(* there is one.  The event protocol only logs.                            *)
ezcfg_worker_process_upnp_ssdp_new_connection ==
  Void(If(Test, If(Test, If(Test,
         Lock("upnp") \o If(Test, Answer("done")) \o Unlock("upnp")))),
       <<>>)

-----------------------------------------------------------------------------

(* worker.c: the protocol's data is made from the accepted socket, the     *)
(* connection is processed if there is any, then closed, then the data is  *)
(* freed.  A https connection whose ssl session is not in the list has no  *)
(* data.  (The switch of process_new_connection() is compiled out in this  *)
(* commit, and the one of agent_worker.c knows another protocol than       *)
(* init_protocol_data(); the model connects every protocol to its          *)
(* handler.)                                                               *)
process_new_connection(p) ==
  CASE p \in {"http", "https"} -> ezcfg_worker_process_http_new_connection
    [] p = "upnp_http" -> ezcfg_worker_process_upnp_http_new_connection
    [] p = "soap_http" -> ezcfg_worker_process_soap_http_new_connection
    [] p = "igrs"      -> ezcfg_worker_process_igrs_new_connection
    [] p = "ctrl"      -> ezcfg_worker_process_ctrl_new_connection
    [] p = "upnp_ssdp" -> ezcfg_worker_process_upnp_ssdp_new_connection
    [] p = "agent_soap_http" -> ezcfg_agent_worker_process_soap_http_new_connection
    [] p = "json_http" -> ezcfg_agent_worker_process_json_http_new_connection
    [] p = "nv_json_http" -> ezcfg_agent_worker_process_nv_json_http_new_connection
    \* the part of http that two workers compete for
    [] p = "admin" -> Void(Own("uri")
                           \o Authorized(is_authorized, handle_auth_request,
                                         handle_admin_request), <<>>)

Protocols == {"http", "https", "upnp_http", "soap_http", "igrs", "ctrl",
              "upnp_ssdp", "agent_soap_http", "json_http", "nv_json_http",
              "admin"}

init_protocol_data(p, process) ==
  If(Alloc("proto"),
     IF p = "https" THEN IfElse(May, process, Free("proto")) ELSE process)
close_connection == <<Cmd("close", "", "", "")>>
release_protocol_data ==
  close_connection \o ezcfg_http_reset_attributes \o Free("proto")
ezcfg_worker_routine(p) ==
  init_protocol_data(p, process_new_connection(p)) \o release_protocol_data
=============================================================================
