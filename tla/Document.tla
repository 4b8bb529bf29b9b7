------------------------------ MODULE Document ------------------------------
(***************************************************************************)
(* A worker thread of the old daemon answers requests one at a time: it    *)
(* builds the page, the style sheet or the soap message of the request     *)
(* with the functions of AdminPage and SoapMessage, writes it into the     *)
(* http structure and frees what it has allocated.  Any allocation may     *)
(* fail, at any point.                                                     *)
(***************************************************************************)
EXTENDS XmlTree, AdminPage, SoapMessage, TLC

CONSTANT Requests \* what may be asked for

VARIABLES
  request,  \* the request being answered, "" when there is none
  script,   \* its commands
  i,        \* the next one
  failed,   \* the result so far is -1
  missing,  \* kinds of parts the document lacks by a failure nobody saw
  xml,      \* the tree of the document
  idx,      \* index variables: the slot and, as it was then, its element
  heap,     \* objects allocated and not yet freed
  doc,      \* the document being built
  html,     \* admin->html
  rules,    \* selectors of the style sheet
  lost,     \* elements and selectors nobody points at any more
  intact    \* structures whose text has not been freed

vars == <<request, script, i, failed, missing, xml, idx, heap, doc, html,
          rules, lost, intact>>

None == ""
Command == script[i]
Busy == request # None /\ i <= Len(script)

(* The requests that arrive as a soap document, in the structure the       *)
(* answer will be built in: an envelope, a body and a child.               *)
Posted == {"nvram_set", "nvram_set_multi", "invoked_service"}
PostedTree == [ezcfg_xml_new EXCEPT !.root = <<1, 2, 3, 3, 2, 1>>,
                                    !.etag = <<6, 5, 4>>]

BuilderOf(r) == IF r \in SoapRequests THEN SoapMessageOf(r) ELSE PageOf(r)

Init ==
  /\ request = None /\ script = <<>> /\ i = 1
  /\ failed = FALSE /\ missing = {}
  /\ xml = ezcfg_xml_new /\ idx = <<>>
  /\ heap = {} /\ doc = None /\ html = None
  /\ rules = {} /\ lost = 0 /\ intact = {}

Receive(r) ==
  /\ request = None
  /\ request' = r /\ script' = BuilderOf(r) /\ i' = 1
  /\ xml' = (IF r \in Posted THEN PostedTree ELSE xml)
  /\ intact' = {"request", "soap"}
  /\ UNCHANGED <<failed, missing, idx, heap, doc, html, rules, lost>>

-----------------------------------------------------------------------------

(* The way on after a command: to the next one, or to where a command that *)
(* failed goes.                                                            *)
GoOn == i' = i + 1 /\ UNCHANGED failed
JumpBy(k) == i' = (IF k = 0 THEN Len(script) + 1 ELSE i + k)
FailOver == failed' = TRUE /\ JumpBy(Command.skip)

Document == <<xml, idx, doc, html>>
Memory   == <<heap, lost>>
Input    == <<request, script, intact>>

Is(op) == Busy /\ Command.op = op
Adding == Is("add") \/ Is("inside")

IndexOf(v) == IF v \in DOMAIN idx THEN idx[v].at ELSE 0
ElementOf(v) == IF v \in DOMAIN idx THEN idx[v].el ELSE 0

(* An element is created and put into the tree, or there is no memory for  *)
(* it or for the larger array.  When the element that is to hold it does   *)
(* not exist the new one is forgotten; when the tree refuses it, it is     *)
(* deleted.  The attributes that are then added to it may fail unnoticed.   *)
SetIndex(v, at, el) == idx' = (v :> [at |-> at, el |-> el]) @@ idx

PutElement ==
  LET c == Command
      orphan == c.pi # None /\ IndexOf(c.pi) = 0
      r == ezcfg_xml_add_element(xml, IndexOf(c.pi), IndexOf(c.si))
  IN
  /\ Adding \/ Is("section")
  /\ \/ /\ SetIndex(c.to, 0, 0) /\ FailOver /\ UNCHANGED <<xml, lost, missing>>
     \/ /\ orphan
        /\ lost' = lost + 1 /\ SetIndex(c.to, 0, 0) /\ FailOver
        /\ UNCHANGED <<xml, missing>>
     \/ /\ ~orphan
        /\ xml' = r.xml
        /\ IF r.index = 0
           THEN SetIndex(c.to, 0, 0) /\ FailOver /\ UNCHANGED missing
           ELSE /\ SetIndex(c.to, r.index, NextElement(xml)) /\ GoOn
                /\ \/ UNCHANGED missing
                   \/ Adding /\ missing' = missing \union {"attribute"}
        /\ UNCHANGED lost
  /\ UNCHANGED <<Input, doc, html, heap, rules>>

Allocate ==
  LET x == Command.to IN
  /\ Is("alloc") \/ Is("try") \/ Is("own") \/ Is("newdoc")
  /\ \/ /\ heap' = heap \union ({x} \ {None})
        /\ GoOn
        /\ IF Is("newdoc") THEN xml' = ezcfg_xml_new /\ doc' = x
                                /\ idx' = <<>>
           ELSE UNCHANGED <<xml, doc, idx>>
     \/ /\ ~Is("own")
        /\ IF Is("try") THEN GoOn ELSE FailOver
        /\ UNCHANGED <<heap, xml, doc, idx>>
  /\ UNCHANGED <<Input, missing, html, lost, rules>>

FreeObject ==
  /\ Is("free")
  /\ heap' = heap \ {Command.to}
  /\ GoOn
  /\ UNCHANGED <<Input, Document, missing, lost, rules>>

ResetDocument ==
  /\ Is("resetdoc")
  /\ xml' = ezcfg_xml_reset_attributes(xml) /\ idx' = <<>>
  /\ GoOn
  /\ UNCHANGED <<Input, missing, doc, html, Memory, rules>>

(* ezcfg_http_html_admin_set_html(): when the admin structure has a        *)
(* document already, it is the new one that is deleted.                    *)
SetAdminHtml ==
  /\ Is("sethtml")
  /\ heap' = IF html = None THEN heap ELSE heap \ {Command.to}
  /\ html' = Command.to
  /\ GoOn
  /\ UNCHANGED <<Input, missing, xml, idx, doc, lost, rules>>

DeleteAdminObject ==
  /\ Is("deladmin")
  /\ heap' = heap \ {html, "admin"}
  /\ html' = None
  /\ GoOn
  /\ UNCHANGED <<Input, missing, xml, idx, doc, lost, rules>>

(* ezcfg_css_add_rule_set(): a property of a selector the sheet has, or of *)
(* a new rule.  A new rule whose property cannot be added is freed without *)
(* its selector.                                                           *)
AddRule ==
  LET s == Command.to IN
  /\ Is("rule")
  /\ \/ rules' = rules \union {s} /\ GoOn /\ UNCHANGED lost
     \/ FailOver /\ UNCHANGED <<rules, lost>>
     \/ s \notin rules /\ lost' = lost + 1 /\ FailOver /\ UNCHANGED rules
  /\ UNCHANGED <<Input, Document, missing, heap>>

ReadText ==
  /\ Is("read")
  /\ GoOn
  /\ UNCHANGED <<Input, Document, missing, Memory, rules>>

ResetText ==
  /\ Is("reset")
  /\ intact' = intact \ {Command.to}
  /\ GoOn
  /\ UNCHANGED <<request, script, Document, missing, Memory, rules>>

Decide ==
  /\ Is("test")
  /\ UNCHANGED failed
  /\ i' = i + 1 \/ JumpBy(Command.skip)
  /\ UNCHANGED <<Input, Document, missing, Memory, rules>>

Jump ==
  /\ Is("jump") \/ Is("return")
  /\ JumpBy(Command.skip)
  /\ UNCHANGED <<Input, Document, failed, missing, Memory, rules>>

CheckResult ==
  /\ Is("check")
  /\ IF failed THEN FailOver ELSE GoOn
  /\ UNCHANGED <<Input, Document, missing, Memory, rules>>

ForgiveFailure ==
  /\ Is("forgive")
  /\ failed' = FALSE
  /\ missing' = IF failed THEN missing \union {Command.to} ELSE missing
  /\ i' = i + 1
  /\ UNCHANGED <<Input, Document, Memory, rules>>

(* The answer is sent, or the worker closes the connection.                *)
Answered == request # None /\ i > Len(script)
Send ==
  /\ Answered
  /\ request' = None /\ script' = <<>> /\ i' = 1
  /\ failed' = FALSE /\ missing' = {}
  /\ xml' = ezcfg_xml_new /\ idx' = <<>> /\ doc' = None /\ html' = None
  /\ rules' = {} /\ lost' = 0 /\ intact' = {}
  /\ UNCHANGED heap

BuildStep ==
  \/ PutElement \/ Allocate \/ FreeObject \/ ResetDocument \/ SetAdminHtml
  \/ DeleteAdminObject \/ AddRule \/ ReadText \/ ResetText
  \/ Decide \/ Jump \/ CheckResult \/ ForgiveFailure

Next == (\E r \in Requests : Receive(r)) \/ BuildStep \/ Send

(* The worker runs until it waits for the next request.                    *)
Spec == Init /\ [][Next]_vars /\ WF_vars(BuildStep \/ Send)

-----------------------------------------------------------------------------

Elements == DOMAIN xml.etag

(* Type invariant.                                                         *)
TypeOK ==
  /\ request \in Requests \union {None} /\ i \in 1..Len(script) + 1
  /\ failed \in BOOLEAN /\ lost \in Nat
  /\ missing \subseteq {"attribute", "element", "header", "text", "body", "page",
                        "effect"}
  /\ \A k \in DOMAIN xml.root : xml.root[k] \in Elements
  /\ \A v \in DOMAIN idx : idx[v].at \in 0..Len(xml.root)

(* xml.c: the slots in use never exceed the array, however many elements a *)
(* page has and wherever the array was enlarged.                           *)
SlotsFit == Len(xml.root) <= xml.max

(* xml.c: every element has exactly its start tag and its end tag in the   *)
(* array, knows where the latter is, and elements nest.  delete_elements() *)
(* frees an element twice, or the wrong one, if not.                       *)
WellNested ==
  /\ Len(xml.root) = 2 * Len(xml.etag)
  /\ \A e \in Elements :
       /\ \E k \in 1..xml.etag[e] - 1 : xml.root[k] = e
       /\ xml.root[xml.etag[e]] = e
       /\ \A k \in Start(xml, e) + 1 .. xml.etag[e] - 1 :
            xml.etag[xml.root[k]] < xml.etag[e]

(* The builders keep indices of elements in variables while other elements *)
(* are inserted.  An index that is used still names the element it was     *)
(* taken for, and a sibling is a child of the parent it is used with.      *)
IndicesFresh ==
  (Adding \/ Is("section")) =>
    LET p == Command.pi
        s == Command.si
        fresh(v) == IndexOf(v) # 0 => Start(xml, ElementOf(v)) = IndexOf(v)
    IN  /\ fresh(p) /\ fresh(s)
        /\ (IndexOf(p) # 0 /\ IndexOf(s) # 0) =>
             ChildOf(xml, ElementOf(s), ElementOf(p))

(* A document reads in the order in which its builder added the elements,  *)
(* whether they were added after a sibling or without one.                 *)
InOrder ==
  Answered => \A e \in Elements : e > 1 => Start(xml, e - 1) < Start(xml, e)

(* Nothing is used after it was freed: the document elements are added to, *)
(* the document the admin structure deletes, and the text of the request   *)
(* that names the section, the nvram entry or the value.                   *)
NoUseAfterFree ==
  /\ (Adding /\ doc # None) => doc \in heap
  /\ Is("deladmin") => html \in heap \union {None}
  /\ Is("read") => Command.to \in intact

(* Whatever fails, the objects a request allocated are freed when it is    *)
(* answered.  The exceptions: the next element is lost by a builder that   *)
(* ignored the failure of its root, envelope or body, and the selector of  *)
(* a style rule whose first property could not be added.                   *)
NothingLeft ==
  Answered =>
    /\ heap = {}
    /\ lost > 0 =>
         \/ failed /\ request \in SoapRequests \union {"layout_css"}
         \/ "page" \in missing /\ request \in {"index", "redirect"}

MayLack(r) == IF r \in SoapRequests THEN SoapMayLack(r) ELSE PageMayLack(r)

(* An answer that reports success lacks at most what the builder of that   *)
(* request does not look at: whatever else fails is reported, through all  *)
(* levels of the callers.                                                  *)
HonestAnswer == (Answered /\ ~failed) => missing \subseteq MayLack(request)

(* Every request is answered: no builder loops or waits.                   *)
RequestEnds == request # None ~> request = None

(* xml.c and its callers: the array of tags fits its slots, nests and      *)
(* reads in the order of the builder, and the indices the builders keep    *)
(* still name what they were taken for.                                    *)
TreeSound == TypeOK /\ SlotsFit /\ WellNested /\ IndicesFresh /\ InOrder

(* Whatever fails, nothing is used after it was freed and nothing is left  *)
(* when a request is answered.                                             *)
MemoryOwned == NoUseAfterFree /\ NothingLeft
=============================================================================
