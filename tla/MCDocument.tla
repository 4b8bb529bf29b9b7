----------------------------- MODULE MCDocument -----------------------------
(* The worker that answers every request there is, one after the other,    *)
(* the rc program that writes the device description, and the texts that   *)
(* are parsed and written as json.  They share no state, so each is run    *)
(* while the others have not begun.                                        *)
EXTENDS Document, IgdDescription, MCJsonText

VARIABLES pc, text, cur, node, jroot, stack, msg_len, result, nomem, out,
          np, freed, pairs, twice
jsonvars == <<pc, text, cur, node, jroot, stack, msg_len, result, nomem, out,
              np, freed, pairs, twice>>

Json == INSTANCE JsonText WITH root <- jroot, Texts <- MCTexts

MCRequests == PageRequests \union SoapRequests

MCInit == Init /\ IgdInit /\ Json!Init
NoPage == request = None
NoDescription == todo = <<>> /\ root = <<>> /\ trouble = 0
NoText == Json!Init

Answering  == NoDescription /\ NoText /\ Next /\ UNCHANGED <<igdvars, jsonvars>>
Populating == NoPage /\ NoText /\ IgdNext /\ UNCHANGED <<vars, jsonvars>>
Reading    == NoPage /\ NoDescription /\ Json!Next /\ UNCHANGED <<vars, igdvars>>
MCSpec ==
  /\ MCInit
  /\ [][Answering \/ Populating \/ Reading]_<<vars, igdvars, jsonvars>>
  /\ WF_vars(BuildStep \/ Send) /\ WF_igdvars(PopStep)
  /\ Json!Fairness

(* Every request is answered and every description written to its end: no  *)
(* builder loops or waits, whatever fails.                                 *)
EveryJobEnds == RequestEnds /\ PopulationEnds

(* The parser accepts what the grammar of json.c generates, and no more.   *)
AcceptsJson == Json!AcceptsJson
(* What is written is what was read, in the length that was counted.       *)
WrittenAsRead == Json!WrittenAsRead
(* Nodes, marks and pairs of the structure, wherever an allocation fails.  *)
TreeOwned == Json!TreeOwned
(* Every call of json.c returns.                                           *)
CallsEnd == Json!CallsEnd
=============================================================================
