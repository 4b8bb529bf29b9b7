------------------------------ MODULE MCNvram ------------------------------
(* Small instances of Nvram: two or three names, a short and a long value. *)
EXTENDS Nvram

TwoNames == {1, 2}
ThreeNames == {1, 2, 3}
OneValue == {11}
TwoValues == {11, 12}
MCStrLen == [s \in Names \union Values |-> IF s = 12 THEN 2 ELSE 1]
EveryOp == AllOps
ChangeOps == {"set", "unset", "get", "del"}
=============================================================================
