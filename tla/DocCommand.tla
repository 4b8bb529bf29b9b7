----------------------------- MODULE DocCommand -----------------------------
(***************************************************************************)
(* The steps a document builder is made of: the functions of libezcfg/src/ *)
(* bak that build a html page, a style sheet or a soap message, as         *)
(* sequences of commands.  The module Document executes them.              *)
(*                                                                         *)
(* Every builder has one way out for all its failures, func_exit: a        *)
(* command that fails notes the failure and goes there, frees what the     *)
(* function owns, and the caller sees the failure.                         *)
(***************************************************************************)
EXTENDS Script, SequencesExt

Cmd(op, to, pi, si) == [op |-> op, to |-> to, pi |-> pi, si |-> si, skip |-> 0]

(* to = ezcfg_html_add_body_child(html, pi, si, ...): an index variable    *)
(* gets the index of the new element; si = "" is the index -1.  The soap   *)
(* and head variants differ in the section they want to exist, which is    *)
(* the first element of the chain pi leads to.                             *)
Add(to, pi, si) == <<Cmd("add", to, pi, si)>>
(* The section itself: ezcfg_html_set_head(), ezcfg_soap_set_body()...     *)
Section(to, pi, si) == <<Cmd("section", to, pi, si)>>

ezcfg_html_set_root == Section("root", "", "")
ezcfg_html_set_head == Section("head", "root", "")
ezcfg_html_set_body == Section("body", "root", "head")
ezcfg_html_add_head_child(si) == Add("meta", "head", si)
ezcfg_soap_set_envelope == Section("envelope", "", "")
ezcfg_soap_set_body == Section("body", "envelope", "")
SoapChild(to, pi, si) == Add(to, pi, si)

(* An allocation without which the function fails, one it can do without,  *)
(* one a test has found done, and free().  to names the object.            *)
Alloc(x) == <<Cmd("alloc", x, "", "")>>
Try(x)   == <<Cmd("try", x, "", "")>>
Own(x)   == <<Cmd("own", x, "", "")>>
Free(x)  == <<Cmd("free", x, "", "")>>
(* Something else that may fail.                                           *)
May == <<Cmd("alloc", "", "", "")>>

(* A new document, made or reset, and the admin structure that owns it.    *)
NewDoc(x)  == <<Cmd("newdoc", x, "", "")>>
ResetDoc   == <<Cmd("resetdoc", "", "", "")>>
SetHtml(x) == <<Cmd("sethtml", x, "", "")>>
DeleteAdmin == <<Cmd("deladmin", "", "", "")>>

(* ezcfg_css_add_rule_set(css, selector, ...)                              *)
Rule(selector) == <<Cmd("rule", selector, "", "")>>

(* A look at text that belongs to another structure, and the call that     *)
(* frees that text.                                                        *)
Read(x)  == <<Cmd("read", x, "", "")>>
Reset(x) == <<Cmd("reset", x, "", "")>>

(* A condition on nvram, on the list of posted values or on the system.    *)
Test == <<Cmd("test", "", "", "")>>

(* The caller's look at the result, and its ignoring of it: the document   *)
(* then lacks a part of that kind.                                         *)
Check == <<Cmd("check", "", "", "")>>
Forgive(kind) == <<Cmd("forgive", kind, "", "")>>
(* return, without a failure.                                              *)
Return == <<Cmd("return", "", "", "")>>

-----------------------------------------------------------------------------

FailingOps == {"add", "inside", "section", "alloc", "newdoc", "rule", "check"}

(* s, with its failures leading to the clean-up t, after which the caller  *)
(* looks at the result.                                                    *)
Finally(s, t) == ToEnd(s, FailingOps \union {"return"}) \o t \o Check
WithLocale(l, s) == Finally(Try(l) \o s, Free(l))

(* s, whose failure the function does not report.                          *)
Swallow(s, kind) == ToEnd(s, FailingOps) \o Forgive(kind)
(* s and then t.  A failure of s ends the function too, but with the       *)
(* result it began with, which is success.                                 *)
Quietly(s, t) == ToEnd(s, FailingOps) \o If(Check, t) \o Forgive("page")

(* The commands of several callees in a row.                               *)
Each(ss) == FlattenSeq(ss)
(* Mutant: the loop does not move on to the next node.                     *)
LoopStays(s) ==
  If(Test, s \o <<[Cmd("jump", "", "", "") EXCEPT !.skip = -Len(s)]>>)
(* A loop whose body runs up to twice: once is the first round, twice has  *)
(* a previous one.                                                         *)
Loop(s) == If(Test, s \o If(Test, s))
=============================================================================
