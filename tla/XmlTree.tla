------------------------------ MODULE XmlTree ------------------------------
(***************************************************************************)
(* The element tree of libezcfg/src/bak/xml/xml.c.  A document is one      *)
(* array of slots, xml->root: an element holds the slot of its start tag   *)
(* and the slot of its end tag, and remembers the latter as etag_index.    *)
(* Its children lie between the two.  Slots are counted from 1 here, so    *)
(* that 0 stands for the index -1 of the code.                             *)
(*                                                                         *)
(* An element is the number of its creation.  A tree is a record of the    *)
(* slots in use, the end tag indices and the size of the array.            *)
(***************************************************************************)
EXTENDS Integers, Sequences, FiniteSets, FiniteSetsExt

CONSTANTS
  MaxElements, \* slots of a new array, EZCFG_XML_MAX_ELEMENTS * 2
  EnlargeSize  \* slots an enlarged array gains, EZCFG_XML_ENLARGE_SIZE

ASSUME XmlAssumption ==
  /\ MaxElements \in Nat \ {0} /\ EnlargeSize \in Nat
  /\ EnlargeSize >= 2

ezcfg_xml_new == [root |-> <<>>, etag |-> <<>>, max |-> MaxElements]

(* delete_elements(): the array keeps the size it has grown to.            *)
ezcfg_xml_reset_attributes(xml) == [xml EXCEPT !.root = <<>>, !.etag = <<>>]

NextElement(xml) == Len(xml.etag) + 1
SlotsOf(xml, e) == {i \in DOMAIN xml.root : xml.root[i] = e}

(* An element needs two slots; a full array is enlarged first.             *)
MustEnlarge(xml) == Len(xml.root) + 2 > xml.max
Enlarge(xml) == [xml EXCEPT !.max = @ + EnlargeSize]

(* Mutant: the end tags that moved are not told.                           *)
InsertKeepingTags(xml, at) ==
  LET e == NextElement(xml) IN
  [xml EXCEPT
     !.root = SubSeq(@, 1, at - 1) \o <<e, e>> \o SubSeq(@, at, Len(@)),
     !.etag = Append(@, at + 1)]

(* The slots from at on move two places up, their end tags with them, and  *)
(* the new element takes the two that are free.                            *)
InsertElement(xml, at) ==
  LET e == NextElement(xml) IN
  [xml EXCEPT
     !.root = SubSeq(@, 1, at - 1) \o <<e, e>> \o SubSeq(@, at, Len(@)),
     !.etag = Append([x \in DOMAIN @ |-> IF @[x] >= at /\ xml.root[@[x]] = x
                                         THEN @[x] + 2 ELSE @[x]],
                     at + 1)]

(* Where ezcfg_xml_add_element() puts an element: the root into slot 1;    *)
(* without a sibling, before the end tag of its parent, which the loop     *)
(* from the end of the array meets first; else after the end tag of its    *)
(* sibling.                                                                *)
InsertSlot(xml, pi, si) ==
  CASE pi = 0 -> 1
    [] pi # 0 /\ si = 0 -> Max(SlotsOf(xml, xml.root[pi]))
    [] OTHER -> xml.etag[xml.root[si]] + 1

(* A second root element is refused.                                       *)
Refused(xml, pi) == pi = 0 /\ xml.root # <<>>

(* The tree a call leaves and the index it returns, when there is memory.  *)
ezcfg_xml_add_element(xml, pi, si) ==
  LET roomy == IF MustEnlarge(xml) THEN Enlarge(xml) ELSE xml
      at    == InsertSlot(roomy, pi, si)
  IN  IF Refused(xml, pi) THEN [xml |-> roomy, index |-> 0]
      ELSE [xml |-> InsertElement(roomy, at), index |-> at]

-----------------------------------------------------------------------------

(* An element's start tag is the slot of it that is not its end tag.       *)
Start(xml, e) ==
  CHOOSE k \in DOMAIN xml.root : xml.root[k] = e /\ k # xml.etag[e]

(* The tags of s lie between those of p, and no other element's around s   *)
(* do.                                                                     *)
ChildOf(xml, s, p) ==
  /\ Start(xml, p) < Start(xml, s) /\ xml.etag[s] < xml.etag[p]
  /\ \A k \in Start(xml, p) + 1 .. Start(xml, s) - 1 :
       xml.etag[xml.root[k]] < Start(xml, s)
=============================================================================
