------------------------------- MODULE Script -------------------------------
(***************************************************************************)
(* Straight-line code as data.  A C function without loops over changing   *)
(* state is the sequence of its commands; a command is a record with the   *)
(* fields op (what it does) and skip (where it goes when it cannot go on). *)
(* skip = 0 leaves the enclosing function with its failure, skip = k > 0   *)
(* is the command k places further down.  RunControl, Document and Session *)
(* execute such sequences.                                                 *)
(***************************************************************************)
EXTENDS Naturals, Sequences

(* s as a part of a caller: the commands in ops that would leave the       *)
(* function go on with the first command after s.                          *)
ToEnd(s, ops) == [i \in DOMAIN s |->
  IF s[i].skip = 0 /\ s[i].op \in ops
  THEN [s[i] EXCEPT !.skip = Len(s) - i + 1]
  ELSE s[i]]

(* if (c) { s }, for a condition c of one command.                         *)
If(c, s) == <<[c[1] EXCEPT !.skip = Len(s) + 1]>> \o s

(* if (c) { s } else { t }                                                 *)
IfElse(c, s, t) ==
  If(c, s \o <<[c[1] EXCEPT !.op = "jump", !.skip = Len(t) + 1]>>) \o t
=============================================================================
