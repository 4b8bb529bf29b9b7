---------------------------- MODULE SoapMessage ----------------------------
(***************************************************************************)
(* The soap messages of libezcfg/src/bak/soap/soap_http_nvram.c (nvram     *)
(* over soap) and libezcfg/src/bak/igrs (sessions and services of IGRS).   *)
(* The request lies in the same soap structure the answer is built in, and *)
(* in the same http structure it is sent with: what the answer needs of    *)
(* the request is read before the structure is reset.                      *)
(***************************************************************************)
EXTENDS DocCommand

(* The results of the envelope, of its attribute and of the body are not   *)
(* looked at; a body that is not there makes the first child fail.         *)
Envelope ==
  Reset("soap") \o ResetDoc
  \o Swallow(ezcfg_soap_set_envelope, "page") \o Swallow(May, "attribute")
  \o Swallow(ezcfg_soap_set_body, "page")

(* Length and text of the message; http is reset only then.  Nobody looks  *)
(* whether the text was written.                                           *)
WriteMessage ==
  May \o Alloc("msg") \o Swallow(May, "text") \o Reset("request")
(* The headers of a message; nobody looks whether they were added.         *)
Headers == Swallow(May, "header") \o Swallow(May, "header")
(* Mutant: as PutBody, which ignores that the body was not taken.          *)
BodyUnchecked == Swallow(May, "body")
(* ezcfg_http_set_message_body(), its result looked at or not.             *)
SetBody == May
PutBody == Swallow(May, "body")

(* Children of one parent that are all added without a sibling.            *)
Children(parent, n) == Each([k \in 1..n |-> SoapChild("child", parent, "")])

Fault ==
  Envelope \o SoapChild("fault", "body", "")
  \o SoapChild("code", "fault", "") \o Children("code", 1)
  \o SoapChild("reason", "fault", "") \o Children("reason", 1)
  \o WriteMessage

-----------------------------------------------------------------------------

(* nvram over soap.  The name of a get or an unset points into the request *)
(* line, name and value of a set into the soap document.                   *)

build_nvram_get_response ==
  Finally(Read("request")
    \o IfElse(Test,
         Own("value") \o Envelope
           \o SoapChild("getnv", "body", "") \o Read("request") \o Children("getnv", 2)
           \o WriteMessage \o SetBody \o Headers,
         Fault \o SetBody \o Headers),
    Free("value") \o Free("msg"))

(* The answers that only carry a result.                                   *)
ResultMessage == Envelope \o SoapChild("result", "body", "") \o Children("result", 1)
                   \o WriteMessage \o PutBody \o Headers
FaultMessage == Fault \o PutBody \o Headers

build_nvram_set_response ==
  Finally(IfElse(Test, Read("soap") \o ResultMessage, FaultMessage), Free("msg"))
(* The entry may not be unset although it was found; the answer is OK.     *)
build_nvram_unset_response ==
  Finally(Read("request")
            \o IfElse(Test,
                 Read("request") \o Swallow(May, "effect") \o ResultMessage,
                 Read("request") \o FaultMessage),
          Free("msg"))
build_nvram_set_multi_response ==
  Finally(IfElse(Test, ResultMessage, FaultMessage), Free("msg"))
build_nvram_commit_response ==
  Finally(IfElse(Test, ResultMessage, FaultMessage), Free("msg"))

(* The list copies names and values out of the soap document; a node that  *)
(* lacks one, or cannot be inserted, deletes the list.  Without a list the *)
(* answer is a fault.                                                      *)
build_nvram_node_list ==
  ToEnd(If(Test, Try("list")
          \o Loop(Read("soap") \o If(Test, Free("list") \o Return))),
        {"return"})

handle_nvram_set_multi ==
  Finally(build_nvram_node_list \o build_nvram_set_multi_response, Free("list"))

-----------------------------------------------------------------------------

(* IGRS.  A message that fits the buffer on the stack is not allocated;    *)
(* the answer to an invocation swaps source and target after it has read   *)
(* the session of the request.                                             *)
IgrsWrite ==
  May \o If(Test, Alloc("msg")) \o May \o Reset("request") \o PutBody \o Headers
Session == Envelope \o SoapChild("session", "body", "")
Chain(parent, n) ==
  SoapChild("child", parent, "")
  \o Each([k \in 1..n - 1 |-> SoapChild("child", parent, "child")])

build_create_session_request ==
  Finally(Session \o Chain("session", 3) \o SoapChild("userinfo", "session", "child")
            \o Chain("userinfo", 3) \o IgrsWrite,
          Free("msg"))
build_invoke_service_request ==
  Finally(Session \o Chain("session", 3)
            \o If(Test, SoapChild("child", "session", "child")) \o IgrsWrite,
          Free("msg"))
(* A session without a client, a service or a sequence number is refused.  *)
handle_invoke_service_request == Each([k \in 1..5 |-> Read("soap") \o May])
build_invoke_service_response ==
  Finally(Session \o Chain("session", 4)
            \o If(Test, SoapChild("child", "session", "child")) \o IgrsWrite,
          Free("msg"))

NvramRequests == {"nvram_get", "nvram_set", "nvram_unset", "nvram_set_multi",
                  "nvram_commit"}
SoapRequests == NvramRequests \union
                {"create_session", "invoke_service", "invoked_service"}

(* What an answer of these that reports success may lack: attributes and   *)
(* headers in every case, the text where nvram is asked, the whole body    *)
(* unless it is a get, and what it says was done for an unset.             *)
SoapMayLack(r) ==
  {"attribute", "header"}
  \union (IF r \in NvramRequests THEN {"text"} ELSE {})
  \union (IF r # "nvram_get" THEN {"body"} ELSE {})
  \union (IF r = "nvram_unset" THEN {"effect"} ELSE {})

SoapMessageOf(r) ==
  CASE r = "nvram_get"       -> build_nvram_get_response
    [] r = "nvram_set"       -> build_nvram_set_response
    [] r = "nvram_unset"     -> build_nvram_unset_response
    [] r = "nvram_set_multi" -> handle_nvram_set_multi
    [] r = "nvram_commit"    -> build_nvram_commit_response
    [] r = "create_session"  -> build_create_session_request
    [] r = "invoke_service"  -> build_invoke_service_request
    [] r = "invoked_service" -> handle_invoke_service_request
                                  \o build_invoke_service_response
=============================================================================
