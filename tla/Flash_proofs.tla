---------------------------- MODULE Flash_proofs ----------------------------
(***************************************************************************)
(* Proofs about Flash for any size of the environment, any erase block,    *)
(* any variables and any partitions.                                       *)
(*                                                                         *)
(* The environment: after every call that was not cut short, the text in   *)
(* flash has a matching checksum and an end, and holds for every variable  *)
(* what was last set; and at every moment, also after power was lost       *)
(* between two blocks, what can be read is one of the two texts the last   *)
(* call was between.  The firmware: every part is in the partition it is   *)
(* named for.                                                              *)
(***************************************************************************)
EXTENDS Flash, FiniteSetTheorems, WellFoundedInduction, SequenceTheorems, TLAPS

-----------------------------------------------------------------------------
(* Texts *)

(* The least of some natural numbers. *)
LEMMA MinFacts ==
  ASSUME NEW S \in SUBSET Nat, S # {}
  PROVE  Min(S) \in S /\ \A x \in S : Min(S) <= x
<1>1. PICK x \in S : \A y \in S : ~ (<<y, x>> \in OpToRel(<, Nat))
  BY NatLessThanWellFounded, WFMin, Zenon
<1>2. \A y \in S : x <= y
  <2> SUFFICES ASSUME NEW y \in S, ~(x <= y)
               PROVE  FALSE
    OBVIOUS
  <2>1. x \in Nat /\ y \in Nat /\ y < x
    OBVIOUS
  <2>2. <<y, x>> \in OpToRel(<, Nat)
    BY <2>1, Zenon DEF OpToRel
  <2> QED
    BY <1>1, <2>2, Zenon
<1> QED
  BY <1>2 DEF Min

(* A value has a length. *)
LEMMA ValueNat == \A v \in Values : v \in Nat /\ v >= 1
BY FlashAssumption

(* The cells that begin no entry. *)
LEMMA CellFacts ==
  /\ Nul \in Cells /\ Nul.name \notin Names
  /\ Fill \in Cells /\ Fill.name \notin Names /\ Fill # Nul
  /\ Erased \in Cells
  /\ \A n \in Names : \A v \in Nat :
       Cell(n, v) \in Cells /\ Cell(n, v).name = n /\ Cell(n, v).value = v /\ Cell(n, v) # Nul
BY FlashAssumption DEF Nul, Fill, Erased, Cell, Cells, Other

(* An entry: its name and value, its other cells, and a NUL. *)
LEMMA EntryFacts ==
  ASSUME NEW n \in Names, NEW v \in Values
  PROVE  /\ Entry(n, v) \in Seq(Cells) /\ Len(Entry(n, v)) = v + 1
         /\ Entry(n, v)[1] = Cell(n, v) /\ Entry(n, v)[v + 1] = Nul
         /\ \A j \in 2..v : Entry(n, v)[j] = Fill
<1> DEFINE fills == [k \in 1..v - 1 |-> Fill]
<1>1. v \in Nat /\ v >= 1 /\ v - 1 \in Nat
  BY FlashAssumption
<1>2. <<Cell(n, v)>> \in Seq(Cells) /\ <<Nul>> \in Seq(Cells)
      /\ Len(<<Cell(n, v)>>) = 1 /\ Len(<<Nul>>) = 1
      /\ <<Cell(n, v)>>[1] = Cell(n, v) /\ <<Nul>>[1] = Nul
  BY <1>1, CellFacts
<1>3. fills \in Seq(Cells) /\ Len(fills) = v - 1 /\ \A j \in 1..v - 1 : fills[j] = Fill
  <2>1. fills \in [1..v - 1 -> Cells]
    BY CellFacts
  <2>2. fills \in Seq(Cells)
    BY <1>1, <2>1, SeqDef
  <2> QED
    BY <1>1, <2>1, <2>2, LenProperties
<1>4. Entry(n, v) = (<<Cell(n, v)>> \o fills) \o <<Nul>>
  BY DEF Entry
<1> HIDE DEF fills
<1>5. /\ <<Cell(n, v)>> \o fills \in Seq(Cells) /\ Len(<<Cell(n, v)>> \o fills) = v
      /\ (<<Cell(n, v)>> \o fills)[1] = Cell(n, v)
      /\ \A j \in 2..v : (<<Cell(n, v)>> \o fills)[j] = Fill
  BY <1>1, <1>2, <1>3, ConcatProperties
<1> QED
  BY <1>1, <1>2, <1>4, <1>5, ConcatProperties

(* Where the code finds entries, and the end of them. *)
LEMMA LaidFacts ==
  ASSUME NEW d \in Text, NEW e \in 2..EnvSize + 1, Laid(d, e), e <= EnvSize => d[e] = Nul
  PROVE  /\ EntryCells(d) = {k \in 1..e - 1 : d[k].name \in Names}
         /\ e <= EnvSize => EndCells(d) # {} /\ Min(EndCells(d)) = e
         /\ e = EnvSize + 1 => EndCells(d) = {}
<1>0. EnvSize \in Nat /\ e \in Nat /\ e - 1 \in 1..EnvSize
  BY FlashAssumption
<1>1. \A k \in 1..e - 1 : d[k].name \in Names => d[k] # Nul
  BY CellFacts
<1>2. \A k \in 2..e - 1 : ~(d[k] = Nul /\ d[k - 1] = Nul)
  BY <1>0, <1>1 DEF Laid
<1>3. d[1] # Nul
  BY <1>0, <1>1 DEF Laid
<1>4. d[e - 1] = Nul
  BY <1>0 DEF Laid
<1>5. ASSUME NEW p \in EntryCells(d)
      PROVE  p \in 1..e - 1 /\ d[p].name \in Names
  <2>1. /\ p \in 1..EnvSize /\ d[p] # Nul /\ (p = 1 \/ d[p - 1] = Nul)
        /\ \A q \in 1..p - 1 : d[q] = Nul => q > 1 /\ d[q - 1] # Nul
    BY DEF EntryCells
  <2>2. p < e
    BY <1>0, <1>4, <2>1
  <2> QED
    BY <1>0, <2>1, <2>2 DEF Laid
<1>6. ASSUME NEW p \in 1..e - 1, d[p].name \in Names
      PROVE  p \in EntryCells(d)
  <2>1. d[p] # Nul /\ (p = 1 \/ d[p - 1] = Nul)
    BY <1>1, <1>6 DEF Laid
  <2>2. \A q \in 1..p - 1 : d[q] = Nul => q > 1 /\ d[q - 1] # Nul
    BY <1>0, <1>2, <1>3
  <2> QED
    BY <1>0, <2>1, <2>2 DEF EntryCells
<1>7. EndCells(d) \in SUBSET Nat /\ \A x \in EndCells(d) : x >= e
  BY <1>0, <1>2 DEF EndCells
<1>8. e <= EnvSize => e \in EndCells(d)
  BY <1>0, <1>4 DEF EndCells
<1>9. e = EnvSize + 1 => EndCells(d) = {}
  BY <1>0, <1>7 DEF EndCells
<1>10. ASSUME e <= EnvSize
       PROVE  EndCells(d) # {} /\ Min(EndCells(d)) = e
  <2>1. EndCells(d) # {} /\ e \in EndCells(d)
    BY <1>8, <1>10
  <2>2. Min(EndCells(d)) \in EndCells(d) /\ Min(EndCells(d)) <= e
    BY <1>7, <2>1, MinFacts
  <2> QED
    BY <1>0, <1>7, <2>1, <2>2
<1> QED
  BY <1>5, <1>6, <1>9, <1>10

(* The one entry of a variable, if it has one, holds its value. *)
LEMMA ValueFacts ==
  ASSUME NEW d \in Text, NEW e \in 2..EnvSize + 1, NEW w, Laid(d, e), Stored(d, e, w),
         e <= EnvSize => d[e] = Nul, NEW n \in Names
  PROVE  /\ ValueOf(d, n) = w[n]
         /\ find_entry_position(d, n) = {} => \A k \in 1..e - 1 : d[k].name # n
         /\ find_entry_position(d, n) # {} =>
              LET p == Min(find_entry_position(d, n))
              IN  p \in 1..e - 1 /\ d[p].name = n /\ d[p].value = w[n] /\ w[n] \in Values
<1> DEFINE at == find_entry_position(d, n)
<1>0. EnvSize \in Nat
  BY FlashAssumption
<1>1. at = {k \in 1..e - 1 : d[k].name = n}
  BY LaidFacts DEF find_entry_position
<1> HIDE DEF at
<1>2. CASE at = {}
  <2>1. ValueOf(d, n) = Unset
    BY <1>2 DEF ValueOf, at
  <2>2. w[n] = Unset
    BY <1>1, <1>2 DEF Stored
  <2> QED
    BY <1>1, <1>2, <2>1, <2>2 DEF at
<1>3. CASE at # {}
  <2> DEFINE p == Min(at)
  <2>1. at \in SUBSET Nat
    BY <1>0, <1>1
  <2>2. p \in at
    BY <1>3, <2>1, MinFacts
  <2> HIDE DEF p
  <2>3. p \in 1..e - 1 /\ d[p].name = n /\ d[p].value = w[n] /\ w[n] \in Values
    BY <1>1, <2>2 DEF Laid, Stored
  <2>4. ValueOf(d, n) = d[p].value
    BY <1>3 DEF ValueOf, at, p
  <2> QED
    BY <1>3, <2>3, <2>4 DEF at, p
<1> QED
  BY <1>2, <1>3

(* Only the cells below e matter to what they hold. *)
LEMMA Copied ==
  ASSUME NEW d, NEW b, NEW e \in Nat, NEW w, Laid(d, e), Stored(d, e, w),
         \A k \in 1..e - 1 : b[k] = d[k]
  PROVE  Laid(b, e) /\ Stored(b, e, w)
<1>2. Stored(b, e, w)
  BY DEF Stored
<1>3. e > 1 => b[e - 1] = Nul
  BY DEF Laid
<1>4. ASSUME NEW k \in 1..e - 1
      PROVE  (k = 1 \/ b[k - 1] = Nul) <=> b[k].name \in Names
  BY DEF Laid
<1>5. ASSUME NEW k \in 1..e - 1, b[k].name \in Names
      PROVE  /\ b[k].value \in Values /\ k + b[k].value < e
             /\ b[k + b[k].value] = Nul
             /\ \A j \in k + 1..k + b[k].value - 1 : b[j] = Fill
  <2>1. b[k] = d[k]
    OBVIOUS
  <2>2. /\ d[k].value \in Values /\ k + d[k].value < e
        /\ d[k + d[k].value] = Nul
        /\ \A j \in k + 1..k + d[k].value - 1 : d[j] = Fill
    BY <1>5, <2>1 DEF Laid
  <2>3. d[k].value \in Nat /\ d[k].value >= 1
    BY <2>2, ValueNat
  <2> QED
    BY <2>1, <2>2, <2>3
<1> QED
  BY <1>2, <1>3, <1>4, <1>5 DEF Laid

(* A new entry behind the others. *)
LEMMA Appended ==
  ASSUME NEW d, NEW b, NEW e \in Nat, NEW w \in [Names -> Nat], Laid(d, e), Stored(d, e, w),
         NEW n \in Names, NEW v \in Values, e + v <= EnvSize,
         \A k \in 1..e - 1 : b[k] = d[k] /\ d[k].name # n,
         b[e] = Cell(n, v), b[e + v] = Nul,
         \A j \in e + 1..e + v - 1 : b[j] = Fill
  PROVE  Laid(b, e + v + 1) /\ Stored(b, e + v + 1, [w EXCEPT ![n] = v])
<1>0. EnvSize \in Nat /\ v \in Nat /\ v >= 1 /\ e >= 1
  BY FlashAssumption DEF Laid
<1>1. Laid(b, e) /\ Stored(b, e, w) /\ \A k \in 1..e - 1 : b[k].name # n
  BY Copied
<1>2. b[e].name = n /\ b[e].value = v /\ b[e] # Nul
  BY <1>0, CellFacts
<1>3. \A k \in e + 1..e + v : b[k].name \notin Names /\ b[k - 1] # Nul
  <2> SUFFICES ASSUME NEW k \in e + 1..e + v
               PROVE  b[k].name \notin Names /\ b[k - 1] # Nul
    OBVIOUS
  <2>1. k = e + v \/ k \in e + 1..e + v - 1
    BY <1>0
  <2>2. k - 1 = e \/ k - 1 \in e + 1..e + v - 1
    BY <1>0
  <2>3. b[k] = Nul \/ b[k] = Fill
    BY <2>1
  <2>4. b[k - 1] = b[e] \/ b[k - 1] = Fill
    BY <2>2
  <2> QED
    BY <1>2, <2>3, <2>4, CellFacts
<1>4. Laid(b, e + v + 1)
  <2>1. ASSUME NEW k \in 1..e + v
        PROVE  /\ (k = 1 \/ b[k - 1] = Nul) <=> b[k].name \in Names
               /\ b[k].name \in Names =>
                    /\ b[k].value \in Values /\ k + b[k].value < e + v + 1
                    /\ b[k + b[k].value] = Nul
                    /\ \A j \in k + 1..k + b[k].value - 1 : b[j] = Fill
    <3>1. CASE k < e
      <4>1. k \in 1..e - 1
        BY <1>0, <3>1
      <4>2. /\ (k = 1 \/ b[k - 1] = Nul) <=> b[k].name \in Names
            /\ b[k].name \in Names =>
                 /\ b[k].value \in Values /\ k + b[k].value < e
                 /\ b[k + b[k].value] = Nul
                 /\ \A j \in k + 1..k + b[k].value - 1 : b[j] = Fill
        BY <1>1, <4>1 DEF Laid
      <4>3. b[k].name \in Names => b[k].value \in Nat
        BY <4>2, ValueNat
      <4>4. b[k].name \in Names => k + b[k].value < e + v + 1
        BY <1>0, <4>2, <4>3
      <4> QED
        BY <4>2, <4>4
    <3>2. CASE k = e
      BY <1>0, <1>1, <1>2, <3>2 DEF Laid
    <3>3. CASE k > e
      BY <1>0, <1>3, <3>3
    <3> QED
      BY <1>0, <3>1, <3>2, <3>3
  <2> QED
    BY <1>0, <2>1 DEF Laid
<1>5. Stored(b, e + v + 1, [w EXCEPT ![n] = v])
  <2> DEFINE u == [w EXCEPT ![n] = v]
  <2>1. u[n] = v /\ \A m \in Names : m # n => u[m] = w[m]
    OBVIOUS
  <2> HIDE DEF u
  <2>2. ASSUME NEW k \in 1..e + v, b[k].name \in Names
        PROVE  b[k].value = u[b[k].name] /\ (k = e \/ k \in 1..e - 1)
    <3>1. CASE k < e
      BY <1>0, <1>1, <2>1, <2>2, <3>1 DEF Stored
    <3>2. CASE k = e
      BY <1>2, <2>1, <3>2
    <3>3. CASE k > e
      BY <1>0, <1>3, <2>2, <3>3
    <3> QED
      BY <1>0, <3>1, <3>2, <3>3
  <2>3. ASSUME NEW m \in Names, u[m] # Unset
        PROVE  \E k \in 1..e + v : b[k].name = m
    <3>1. CASE m = n
      BY <1>0, <1>2, <3>1
    <3>2. CASE m # n
      <4>1. PICK k \in 1..e - 1 : b[k].name = m
        BY <1>1, <2>1, <2>3, <3>2 DEF Stored
      <4> QED
        BY <1>0, <4>1
    <3> QED
      BY <3>1, <3>2
  <2>4. ASSUME NEW j \in 1..e + v, NEW k \in 1..e + v,
               b[j].name \in Names, b[j].name = b[k].name
        PROVE  j = k
    <3>1. (j = e \/ j \in 1..e - 1) /\ (k = e \/ k \in 1..e - 1)
      BY <2>2, <2>4
    <3> QED
      BY <1>1, <1>2, <2>4, <3>1 DEF Stored
  <2> QED
    BY <1>0, <2>2, <2>3, <2>4 DEF Stored, u
<1> QED
  BY <1>4, <1>5

(* Text b is the entries of d without the one at p, up to f instead of e;  *)
(* values u are w without that of n.                                       *)
Closed(d, e, p, b, f) ==
  LET l == d[p].value + 1
  IN  /\ p \in 1..e - 1 /\ f = e - l
      /\ \A k \in 1..p - 1 : b[k] = d[k]
      /\ \A k \in p..f - 1 : b[k] = d[k + l]
Dropped(w, n, u) == u[n] = Unset /\ \A m \in Names : m # n => u[m] = w[m]

(* An entry taken out, and those behind it moved up. *)
LEMMA Removed ==
  ASSUME NEW d, NEW e \in Nat, NEW w, Laid(d, e), Stored(d, e, w),
         NEW p, NEW b, NEW f, Closed(d, e, p, b, f),
         NEW n \in Names, d[p].name = n, NEW u, Dropped(w, n, u)
  PROVE  /\ Laid(b, f) /\ Stored(b, f, u)
         /\ \A k \in 1..f - 1 : b[k].name # n
<1> DEFINE l == d[p].value + 1
<1>10. /\ p \in 1..e - 1 /\ l = d[p].value + 1 /\ f = e - l
       /\ \A k \in 1..p - 1 : b[k] = d[k]
       /\ \A k \in p..f - 1 : b[k] = d[k + l]
       /\ u[n] = Unset /\ \A m \in Names : m # n => u[m] = w[m]
  BY DEF Closed, Dropped
<1> HIDE DEF l
<1> USE <1>10
<1>0. EnvSize \in Nat /\ Values \subseteq Nat \ {0}
  BY FlashAssumption
<1>1. /\ d[p].value \in Nat /\ d[p].value >= 1 /\ p + d[p].value < e
      /\ d[p + d[p].value] = Nul /\ (p = 1 \/ d[p - 1] = Nul)
      /\ e \in 1..EnvSize + 1
  <2>1. /\ d[p].value \in Values /\ p + d[p].value < e
        /\ d[p + d[p].value] = Nul /\ (p = 1 \/ d[p - 1] = Nul)
        /\ e \in 1..EnvSize + 1
    BY DEF Laid
  <2> QED
    BY <2>1, ValueNat
<1>2. /\ l \in Nat /\ l >= 2 /\ p + l <= e /\ d[p + l - 1] = Nul
      /\ f = e - l /\ f \in Nat
  BY <1>1
<1> DEFINE g(k) == IF k < p THEN k ELSE k + l
<1>3. ASSUME NEW k \in 1..f - 1
      PROVE  /\ g(k) \in 1..e - 1 /\ b[k] = d[g(k)] /\ g(k) # p
             /\ (k = 1 \/ b[k - 1] = Nul) <=> (g(k) = 1 \/ d[g(k) - 1] = Nul)
  <2>1. CASE k < p
    BY <1>2, <2>1
  <2>2. CASE k = p
    BY <1>1, <1>2, <2>2
  <2>3. CASE k > p
    BY <1>2, <2>3
  <2> QED
    BY <1>2, <2>1, <2>2, <2>3
<1>4. ASSUME NEW k \in 1..f - 1
      PROVE  d[g(k)].name # n
  <2>1. g(k) \in 1..e - 1 /\ g(k) # p
    BY <1>3
  <2> HIDE DEF g
  <2> QED
    BY <2>1 DEF Stored
<1>5. \A k \in 1..f - 1 : b[k].name # n
  BY <1>3, <1>4
<1>6. ASSUME NEW k \in 1..f - 1, b[k].name \in Names
      PROVE  /\ b[k].value \in Values /\ k + b[k].value < f
             /\ b[k + b[k].value] = Nul
             /\ \A j \in k + 1..k + b[k].value - 1 : b[j] = Fill
  <2> DEFINE v == d[g(k)].value
  <2>1. g(k) \in 1..e - 1 /\ b[k] = d[g(k)] /\ d[g(k)].name \in Names
    BY <1>3, <1>6
  <2>2. /\ v \in Values /\ v \in Nat /\ v >= 1 /\ g(k) + v < e
        /\ d[g(k) + v] = Nul
        /\ \A j \in g(k) + 1..g(k) + v - 1 : d[j] = Fill
    <3> HIDE DEF g
    <3>1. /\ v \in Values /\ g(k) + v < e /\ d[g(k) + v] = Nul
          /\ \A j \in g(k) + 1..g(k) + v - 1 : d[j] = Fill
      BY <2>1 DEF Laid
    <3> QED
      BY <3>1, ValueNat
  <2> HIDE DEF v
  <2>3. CASE k < p
    <3>1. k + v < p
      <4> SUFFICES ASSUME p <= k + v
                   PROVE  FALSE
        BY <2>2
      <4>1. p = k + v \/ p \in k + 1..k + v - 1
        BY <2>2, <2>3
      <4> QED
        BY <2>2, <2>3, <4>1, CellFacts
    <3> QED
      BY <1>2, <2>1, <2>2, <2>3, <3>1 DEF v
  <2>4. CASE k >= p
    <3>1. g(k) = k + l /\ \A j \in k..f - 1 : b[j] = d[j + l]
      BY <1>2, <2>4
    <3>2. v \in Nat /\ v >= 1 /\ k + v < f
      BY <1>2, <2>2, <3>1
    <3>3. \A j \in k + 1..k + v - 1 : j + l \in g(k) + 1..g(k) + v - 1 /\ j \in k..f - 1
      BY <1>2, <3>1, <3>2
    <3>4. b[k].value = v
      BY <2>1 DEF v
    <3>5. k + v \in k..f - 1 /\ k + v + l = g(k) + v
      BY <1>2, <3>1, <3>2
    <3>6. b[k + v] = Nul
      BY <2>2, <3>1, <3>5
    <3>7. \A j \in k + 1..k + v - 1 : b[j] = Fill
      BY <2>2, <3>1, <3>3
    <3> QED
      BY <2>2, <3>2, <3>4, <3>6, <3>7
  <2> QED
    BY <2>3, <2>4
<1>7. f > 1 => b[f - 1] = Nul
  <2> SUFFICES ASSUME f > 1
               PROVE  b[f - 1] = Nul
    OBVIOUS
  <2>1. CASE p < f
    <3>1. b[f - 1] = d[f - 1 + l] /\ f - 1 + l = e - 1
      BY <1>2, <2>1
    <3>2. e > 1 => d[e - 1] = Nul
      BY DEF Laid
    <3> QED
      BY <1>1, <1>2, <3>1, <3>2
  <2>2. CASE p = f
    <3>1. p = 1 \/ d[p - 1] = Nul
      BY <1>1
    <3>2. p \in Nat /\ p > 1
      <4>1. p \in 1..e - 1
        BY <1>10
      <4>2. p \in Nat
        BY <4>1
      <4> QED
        BY <2>2, <4>2
    <3>4. p - 1 \in 1..p - 1
      BY <3>2
    <3>3. b[p - 1] = d[p - 1] /\ d[p - 1] = Nul
      BY <3>1, <3>2, <3>4
    <3> QED
      BY <2>2, <3>3
  <2> QED
    BY <1>2, <2>1, <2>2
<1>8. Laid(b, f)
  <2>1. ASSUME NEW k \in 1..f - 1
        PROVE  (k = 1 \/ b[k - 1] = Nul) <=> b[k].name \in Names
    <3>1. /\ g(k) \in 1..e - 1 /\ b[k] = d[g(k)]
          /\ (k = 1 \/ b[k - 1] = Nul) <=> (g(k) = 1 \/ d[g(k) - 1] = Nul)
      BY <1>3
    <3> HIDE DEF g
    <3>2. (g(k) = 1 \/ d[g(k) - 1] = Nul) <=> d[g(k)].name \in Names
      BY <3>1 DEF Laid
    <3> QED
      BY <3>1, <3>2
  <2>2. f \in 1..EnvSize + 1
    BY <1>0, <1>1, <1>2
  <2> QED
    BY <1>6, <1>7, <2>1, <2>2 DEF Laid
<1>9. Stored(b, f, u)
  <2>1. u[n] = Unset /\ \A m \in Names : m # n => u[m] = w[m]
    OBVIOUS
  <2>2. ASSUME NEW k \in 1..f - 1, b[k].name \in Names
        PROVE  b[k].value = u[b[k].name]
    <3>1. g(k) \in 1..e - 1 /\ b[k] = d[g(k)] /\ d[g(k)].name # n
      BY <1>3, <1>4
    <3> HIDE DEF g
    <3> QED
      BY <2>1, <2>2, <3>1 DEF Stored
  <2>3. ASSUME NEW m \in Names, u[m] # Unset
        PROVE  \E k \in 1..f - 1 : b[k].name = m
    <3>1. m # n /\ w[m] # Unset
      BY <2>1, <2>3
    <3>2. PICK q \in 1..e - 1 : d[q].name = m
      BY <3>1 DEF Stored
    <3>3. CASE q < p
      BY <1>2, <3>2, <3>3
    <3>4. CASE q >= p
      <4>1. q >= p + l
        <5> SUFFICES ASSUME q < p + l
                     PROVE  FALSE
          BY <1>2, <3>4
        <5> DEFINE x == d[p].value
        <5>0. q \in Nat /\ p \in Nat /\ x \in Nat /\ q >= p /\ q < p + (x + 1)
          BY <1>1, <3>4
        <5>1. q = p \/ q = p + x \/ q \in p + 1..p + x - 1
          <6> HIDE <1>10 DEF x
          <6> QED
            BY <5>0
        <5>2. \A j \in p + 1..p + d[p].value - 1 : d[j] = Fill
          BY DEF Laid
        <5> QED
          BY <1>1, <3>1, <3>2, <5>1, <5>2, CellFacts
      <4>2. q - l \in p..f - 1 /\ q - l \in 1..f - 1 /\ (q - l) + l = q
        BY <1>2, <4>1
      <4> QED
        BY <3>2, <4>2
    <3> QED
      BY <3>3, <3>4
  <2>4. ASSUME NEW j \in 1..f - 1, NEW k \in 1..f - 1,
               b[j].name \in Names, b[j].name = b[k].name
        PROVE  j = k
    <3>1. g(j) \in 1..e - 1 /\ b[j] = d[g(j)] /\ g(k) \in 1..e - 1 /\ b[k] = d[g(k)]
      BY <1>3
    <3>2. g(j) = g(k)
      <4> HIDE DEF g
      <4> QED
        BY <2>4, <3>1 DEF Stored
    <3> QED
      BY <1>2, <3>2
  <2> QED
    BY <2>2, <2>3, <2>4 DEF Stored
<1> QED
  BY <1>2, <1>5, <1>8, <1>9

-----------------------------------------------------------------------------
(* The edit of ezcfg_api_ubootenv_set() *)

(* The parts of an edit. *)
At(d, n) == find_entry_position(d, n)
End(d) == Min(EndCells(d))
Place(d, n) == IF At(d, n) = {} THEN End(d) ELSE End(d) - EntryLen(ValueOf(d, n))
Rest(d, n) == IF At(d, n) = {} THEN d ELSE TakeOut(d, Min(At(d, n)), End(d))
New(n, v) == IF v = Unset THEN <<>> ELSE Entry(n, v)

(* What an edit makes of every cell. *)
LEMMA EditCells ==
  ASSUME NEW d, NEW n, NEW v
  PROVE  /\ Edit(d, n, v).room <=> v = Unset \/ EnvSize + 1 - Place(d, n) >= v + 1
         /\ Edit(d, n, v).data =
              [k \in 1..EnvSize |->
                 IF k < Place(d, n) THEN Rest(d, n)[k]
                 ELSE IF k < Place(d, n) + Len(New(n, v)) THEN New(n, v)[k - Place(d, n) + 1]
                 ELSE Nul]
BY DEF Edit, Room, EntryLen, At, End, Place, Rest, New

(* The end of a text, the new entry and the entries that are kept. *)
LEMMA EditParts ==
  ASSUME NEW d \in Text, EndCells(d) # {}, NEW n \in Names, NEW v \in Values \union {Unset}
  PROVE  /\ End(d) \in 2..EnvSize /\ d[End(d)] = Nul /\ d[End(d) - 1] = Nul
         /\ Place(d, n) \in Int /\ Place(d, n) <= End(d)
         /\ New(n, v) \in Seq(Cells)
         /\ Len(New(n, v)) = IF v = Unset THEN 0 ELSE v + 1
         /\ \A k \in 1..EnvSize : k < Place(d, n) => Rest(d, n)[k] \in Cells
<1>0. EnvSize \in Nat
  BY FlashAssumption
<1>1. EndCells(d) \in SUBSET Nat
  BY <1>0 DEF EndCells
<1>2. End(d) \in EndCells(d)
  BY <1>1, MinFacts DEF End
<1>3. End(d) \in 2..EnvSize /\ d[End(d)] = Nul /\ d[End(d) - 1] = Nul
  BY <1>2 DEF EndCells
<1>4. ASSUME At(d, n) # {}
      PROVE  Min(At(d, n)) \in 1..EnvSize /\ ValueOf(d, n) = d[Min(At(d, n))].value
             /\ ValueOf(d, n) \in Nat
  <2>1. At(d, n) \in SUBSET Nat /\ At(d, n) \subseteq 1..EnvSize
    BY <1>0 DEF At, find_entry_position, EntryCells
  <2>2. Min(At(d, n)) \in At(d, n)
    BY <1>4, <2>1, MinFacts
  <2>3. ValueOf(d, n) = d[Min(At(d, n))].value
    BY <1>4 DEF ValueOf, At
  <2> QED
    BY <2>1, <2>2, <2>3 DEF Text, Cells
<1>5. Place(d, n) \in Int /\ Place(d, n) <= End(d)
  BY <1>0, <1>3, <1>4 DEF Place, EntryLen
<1>6. New(n, v) \in Seq(Cells) /\ Len(New(n, v)) = IF v = Unset THEN 0 ELSE v + 1
  <2>1. CASE v = Unset
    BY <2>1, EmptySeq DEF New
  <2>2. CASE v # Unset
    BY <2>2, EntryFacts DEF New
  <2> QED
    BY <2>1, <2>2
<1>7. ASSUME NEW k \in 1..EnvSize, k < Place(d, n)
      PROVE  Rest(d, n)[k] \in Cells
  <2>1. CASE At(d, n) = {}
    BY <2>1 DEF Rest, Text
  <2>2. CASE At(d, n) # {}
    <3> DEFINE p == Min(At(d, n))
               l == EntryLen(d[p].value)
    <3>1. l \in Nat /\ p \in 1..EnvSize
      BY <1>4, <2>2 DEF EntryLen
    <3>2. Rest(d, n)[k] = IF k \in p..End(d) - l THEN d[k + l] ELSE d[k]
      BY <2>2 DEF Rest, TakeOut
    <3> HIDE DEF p, l
    <3>3. k \in p..End(d) - l => k + l \in 1..EnvSize
      BY <1>0, <1>3, <3>1
    <3> QED
      BY <3>2, <3>3 DEF Text
  <2> QED
    BY <2>1, <2>2
<1> QED
  BY <1>3, <1>5, <1>6, <1>7

(* An edited text is a text. *)
LEMMA EditText ==
  ASSUME NEW d \in Text, EndCells(d) # {}, NEW n \in Names, NEW v \in Values \union {Unset}
  PROVE  Edit(d, n, v).data \in Text
<1> DEFINE e == Place(d, n)
           new == New(n, v)
<1>0. EnvSize \in Nat
  BY FlashAssumption
<1>1. /\ e \in Int /\ new \in Seq(Cells) /\ Len(new) \in Nat
      /\ \A k \in 1..EnvSize : k < e => Rest(d, n)[k] \in Cells
  BY EditParts, LenProperties
<1>2. Edit(d, n, v).data =
        [k \in 1..EnvSize |-> IF k < e THEN Rest(d, n)[k]
                              ELSE IF k < e + Len(new) THEN new[k - e + 1] ELSE Nul]
  BY EditCells
<1> HIDE DEF e, new
<1>3. ASSUME NEW k \in 1..EnvSize, ~(k < e), k < e + Len(new)
      PROVE  new[k - e + 1] \in Cells
  <2>1. k - e + 1 \in 1..Len(new)
    BY <1>0, <1>1, <1>3
  <2> QED
    BY <1>1, <2>1, ElementOfSeq
<1> QED
  BY <1>0, <1>1, <1>2, <1>3, CellFacts DEF Text

(* The end of the environment can be found, unless the last entry fills it *)
(* to the last cell.                                                       *)
EndsWell(d) == EndCells(d) # {} \/ d[EnvSize] = Nul

(* An edit with room keeps the text in order: what it holds is what it     *)
(* held, with the new value for the one variable.                          *)
LEMMA EditSound ==
  ASSUME NEW d \in Text, EndCells(d) # {}, NEW n \in Names, NEW v \in Values \union {Unset},
         NEW w \in [Names -> Nat], Whole(d, w), Edit(d, n, v).room
  PROVE  Whole(Edit(d, n, v).data, [w EXCEPT ![n] = v]) /\ EndsWell(Edit(d, n, v).data)
<1> DEFINE e == Place(d, n)
           new == New(n, v)
           b == Edit(d, n, v).data
           r == Rest(d, n)
<1>0. EnvSize \in Nat /\ v \in Nat /\ (v # Unset => v \in Values /\ v >= 1)
  BY FlashAssumption DEF Unset
<1>1. /\ End(d) \in 2..EnvSize /\ d[End(d)] = Nul /\ d[End(d) - 1] = Nul
      /\ e \in Int /\ e <= End(d) /\ (v = Unset \/ e + v <= EnvSize)
      /\ Len(new) = IF v = Unset THEN 0 ELSE v + 1
  <2>1. v = Unset \/ EnvSize + 1 - e >= v + 1
    BY EditCells
  <2>2. /\ End(d) \in 2..EnvSize /\ d[End(d)] = Nul /\ d[End(d) - 1] = Nul
        /\ e \in Int /\ e <= End(d)
        /\ Len(new) = IF v = Unset THEN 0 ELSE v + 1
    BY EditParts
  <2> HIDE DEF e, new
  <2> QED
    BY <1>0, <2>1, <2>2
<1>2. \A k \in 1..EnvSize :
        b[k] = IF k < e THEN r[k]
               ELSE IF k < e + Len(new) THEN new[k - e + 1] ELSE Nul
  <2>1. b = [k \in 1..EnvSize |->
               IF k < e THEN r[k]
               ELSE IF k < e + Len(new) THEN new[k - e + 1] ELSE Nul]
    BY EditCells
  <2> HIDE DEF b, e, new, r
  <2> QED
    BY <2>1
<1>3. v # Unset => /\ new[1] = Cell(n, v) /\ new[v + 1] = Nul
                   /\ \A j \in 2..v : new[j] = Fill
  BY <1>0, EntryFacts DEF New
<1>4. At(d, n) = {} => e = End(d) /\ r = d
  BY DEF Place, Rest
<1> HIDE DEF e, new, b, r
(* The new entry and what follows it. *)
<1>5. ASSUME e >= 1
      PROVE  /\ v # Unset => /\ b[e] = Cell(n, v) /\ b[e + v] = Nul
                             /\ \A j \in e + 1..e + v - 1 : b[j] = Fill
             /\ v # Unset /\ e + v + 1 <= EnvSize => b[e + v + 1] = Nul
             /\ v = Unset => \A k \in e..EnvSize : b[k] = Nul
             /\ \A k \in 1..e - 1 : b[k] = r[k]
  <2>1. ASSUME v # Unset
        PROVE  b[e] = Cell(n, v) /\ b[e + v] = Nul
    <3>1. e \in 1..EnvSize /\ e + v \in 1..EnvSize /\ Len(new) = v + 1
      BY <1>0, <1>1, <1>5, <2>1
    <3>2. b[e] = new[1] /\ b[e + v] = new[v + 1]
      BY <1>0, <1>2, <3>1
    <3> QED
      BY <1>3, <2>1, <3>2
  <2>2. ASSUME v # Unset, NEW j \in e + 1..e + v - 1
        PROVE  b[j] = Fill
    <3>1. j \in 1..EnvSize /\ Len(new) = v + 1 /\ j - e + 1 \in 2..v
      BY <1>0, <1>1, <1>5, <2>2
    <3>2. b[j] = new[j - e + 1]
      BY <1>0, <1>1, <1>2, <3>1
    <3> QED
      BY <1>3, <2>2, <3>1, <3>2
  <2>3. v # Unset /\ e + v + 1 <= EnvSize => b[e + v + 1] = Nul
    BY <1>0, <1>1, <1>2, <1>5
  <2>4. v = Unset => \A k \in e..EnvSize : b[k] = Nul
    BY <1>0, <1>1, <1>2, <1>5
  <2>5. \A k \in 1..e - 1 : b[k] = r[k]
    BY <1>0, <1>1, <1>2, <1>5
  <2> QED
    BY <2>1, <2>2, <2>3, <2>4, <2>5
(* A new entry ends with a NUL, which another one follows if there is room. *)
<1>6. ASSUME e >= 1, v # Unset
      PROVE  EndsWell(b)
  <2>1. e + v \in 2..EnvSize /\ b[e + v] = Nul
    BY <1>0, <1>1, <1>5, <1>6
  <2>2. CASE e + v = EnvSize
    BY <2>1, <2>2 DEF EndsWell
  <2>3. CASE e + v # EnvSize
    <3>1. e + v + 1 \in 2..EnvSize /\ b[e + v + 1] = Nul /\ (e + v + 1) - 1 = e + v
      BY <1>0, <1>1, <1>5, <1>6, <2>1, <2>3
    <3>2. e + v + 1 \in EndCells(b)
      BY <2>1, <3>1 DEF EndCells
    <3> QED
      BY <3>2 DEF EndsWell
  <2> QED
    BY <2>2, <2>3
(* The text has lost its entries: nothing is found in it. *)
<1>7. CASE d[1] = Nul
  <2>1. At(d, n) = {}
    BY <1>0, <1>7 DEF At, find_entry_position, EntryCells
  <2>2. e = End(d) /\ r = d /\ e >= 2
    BY <1>1, <1>4, <2>1
  <2>3. b[1] = Nul
    <3>1. 1 \in 1..e - 1 /\ e >= 1
      BY <1>1, <2>2
    <3> QED
      BY <1>5, <1>7, <2>2, <3>1
  <2>4. EndsWell(b)
    <3>1. CASE v = Unset
      <4>1. b[e] = Nul /\ b[e - 1] = Nul
        BY <1>0, <1>1, <1>5, <2>2, <3>1
      <4>2. e \in EndCells(b)
        BY <1>1, <2>2, <4>1 DEF EndCells
      <4> QED
        BY <4>2 DEF EndsWell
    <3>2. CASE v # Unset
      BY <1>1, <1>6, <2>2, <3>2
    <3> QED
      BY <3>1, <3>2
  <2> QED
    BY <2>3, <2>4 DEF Whole, b
(* The text is entries up to its end. *)
<1>8. ASSUME NEW z \in 2..EnvSize + 1, Laid(d, z), Stored(d, z, w), z <= EnvSize => d[z] = Nul
      PROVE  Whole(b, [w EXCEPT ![n] = v]) /\ EndsWell(b)
  <2>1. z = End(d) /\ z <= EnvSize
    BY <1>0, <1>8, LaidFacts DEF End
  (* An entry put behind whole ones. *)
  <2>2. ASSUME NEW u \in [Names -> Nat], v # Unset, e >= 1, Laid(b, e), Stored(b, e, u),
               \A k \in 1..e - 1 : b[k].name # n
        PROVE  Whole(b, [u EXCEPT ![n] = v])
    <3>1. e \in Nat /\ e + v <= EnvSize
      BY <1>1, <2>2
    <3>2. /\ b[e] = Cell(n, v) /\ b[e + v] = Nul
          /\ \A j \in e + 1..e + v - 1 : b[j] = Fill
          /\ e + v + 1 <= EnvSize => b[e + v + 1] = Nul
      BY <1>5, <2>2
    <3>3. Laid(b, e + v + 1) /\ Stored(b, e + v + 1, [u EXCEPT ![n] = v])
      BY <1>0, <2>2, <3>1, <3>2, Appended
    <3>4. e + v + 1 \in 2..EnvSize + 1
      BY <1>0, <2>2, <3>1
    <3> QED
      BY <3>2, <3>3, <3>4 DEF Whole
  <2>3. CASE At(d, n) = {}
    <3>1. e = z /\ r = d
      BY <1>4, <2>1, <2>3
    <3>2. \A k \in 1..e - 1 : b[k] = d[k] /\ d[k].name # n
      BY <1>0, <1>5, <1>8, <2>3, <3>1, ValueFacts DEF At
    <3>3. Laid(b, e) /\ Stored(b, e, w)
      BY <1>0, <1>8, <3>1, <3>2, Copied
    <3>4. CASE v # Unset
      <4>1. e >= 1 /\ \A k \in 1..e - 1 : b[k].name # n
        BY <3>1, <3>2
      <4> QED
        BY <1>6, <2>2, <3>3, <3>4, <4>1
    <3>5. CASE v = Unset
      <4>1. w[n] = Unset
        BY <1>8, <2>3, ValueFacts DEF At, ValueOf
      <4>2. [w EXCEPT ![n] = v] = w
        BY <3>5, <4>1
      <4>3. b[e] = Nul /\ b[e - 1] = Nul /\ e \in 2..EnvSize
        BY <1>0, <1>5, <2>1, <3>1, <3>3, <3>5 DEF Laid
      <4>4. e \in EndCells(b)
        BY <4>3 DEF EndCells
      <4>5. Whole(b, w)
        BY <1>0, <3>3, <4>3 DEF Whole
      <4> QED
        BY <4>2, <4>4, <4>5 DEF EndsWell
    <3> QED
      BY <3>4, <3>5
  <2>4. CASE At(d, n) # {}
    <3> DEFINE p == Min(At(d, n))
               l == EntryLen(d[p].value)
               u == [w EXCEPT ![n] = Unset]
    <3>1. p \in 1..z - 1 /\ d[p].name = n /\ d[p].value = w[n] /\ ValueOf(d, n) = w[n]
      BY <1>8, <2>4, ValueFacts DEF At
    <3>2. l = d[p].value + 1 /\ l \in Nat /\ e = z - l
      BY <2>1, <2>4, <3>1 DEF EntryLen, e, Place
    <3>3. r = [k \in 1..EnvSize |-> IF k \in p..z - l THEN d[k + l] ELSE d[k]]
      BY <2>1, <2>4 DEF r, Rest, TakeOut
    <3>4. u \in [Names -> Nat] /\ [u EXCEPT ![n] = v] = [w EXCEPT ![n] = v]
      BY DEF Unset
    <3> HIDE DEF p, l, u
    <3>5. z \in Nat /\ l >= 2 /\ p + l <= z
      BY <1>0, <1>8, <3>1, <3>2, ValueNat DEF Laid
    <3>6. e >= 1
      BY <3>1, <3>2, <3>5
    <3>7. /\ \A k \in 1..p - 1 : b[k] = d[k]
          /\ \A k \in p..z - l - 1 : b[k] = d[k + l]
      <4>1. \A k \in 1..p - 1 : k \in 1..e - 1 /\ k \in 1..EnvSize /\ k \notin p..z - l
        BY <1>0, <2>1, <3>1, <3>2, <3>5
      <4>2. \A k \in p..z - l - 1 : k \in 1..e - 1 /\ k \in 1..EnvSize /\ k \in p..z - l
        BY <1>0, <2>1, <3>1, <3>2, <3>5
      <4>3. \A k \in 1..p - 1 : r[k] = d[k]
        BY <3>3, <4>1
      <4>4. \A k \in p..z - l - 1 : r[k] = d[k + l]
        BY <3>3, <4>2
      <4> QED
        BY <1>5, <3>6, <4>1, <4>2, <4>3, <4>4
    <3>8. Laid(b, e) /\ Stored(b, e, u) /\ \A k \in 1..e - 1 : b[k].name # n
      <4>1. Closed(d, z, p, b, e)
        BY <3>1, <3>2, <3>7 DEF Closed
      <4>2. Dropped(w, n, u)
        BY DEF Dropped, u, Unset
      <4> QED
        BY <1>8, <3>1, <3>5, <4>1, <4>2, Removed
    <3>9. CASE v # Unset
      BY <1>6, <2>2, <3>4, <3>6, <3>8, <3>9
    <3>10. CASE v = Unset
      <4>1. \A k \in e..EnvSize : b[k] = Nul
        BY <1>5, <3>6, <3>10
      <4>2. e + 1 \in 2..EnvSize /\ b[e] = Nul /\ b[e + 1] = Nul
        BY <1>0, <2>1, <3>2, <3>5, <3>6, <4>1
      <4>3. e + 1 \in EndCells(b)
        BY <1>1, <4>2 DEF EndCells
      <4>4. Whole(b, u)
        <5>1. CASE e = 1
          BY <4>2, <5>1 DEF Whole
        <5>2. CASE e # 1
          <6>1. e \in 2..EnvSize + 1
            BY <1>0, <1>1, <3>6, <4>2, <5>2
          <6> QED
            BY <3>8, <4>2, <6>1 DEF Whole
        <5> QED
          BY <5>1, <5>2
      <4>5. u = [w EXCEPT ![n] = v]
        BY <3>10 DEF u
      <4> QED
        BY <4>3, <4>4, <4>5 DEF EndsWell
    <3> QED
      BY <3>9, <3>10
  <2> QED
    BY <2>3, <2>4
<1> QED
  BY <1>7, <1>8 DEF Whole, b

-----------------------------------------------------------------------------
(* The environment in flash *)

Busy == setter.step # "idle"
Call == [name : Names, value : Values \union {Unset}, buf : Text, block : Blocks,
         step : {"erase", "write"}]

EnvTypes ==
  /\ env.data \in Text /\ torn \in BOOLEAN /\ wanted \in [Names -> Nat]
  /\ IF Busy THEN setter \in Call ELSE setter = NoCall

(* The checksum, which is at the head of the first block, is gone before   *)
(* anything else is, and is that of the new text before anything else is:  *)
(* a mixture of the two texts never has the checksum that is there.        *)
CrcFirst ==
  /\ env.crc = env.data => env.data \in images
  /\ Busy => setter.buf \in images
  /\ Busy /\ setter.block > 1 => env.crc = setter.buf
  /\ setter.step = "write" /\ setter.block = 1 => env.crc = <<>>

(* The blocks before the current one are written. *)
Written ==
  Busy => \A k \in 1..EnvSize :
            k <= (setter.block - 1) * BlockSize => env.data[k] = setter.buf[k]

(* Unless a write was cut short, the text in flash holds what the calls    *)
(* have left, and the one being written what they will have left.          *)
Sound(d, w) == Whole(d, w) /\ EndsWell(d)
InOrder ==
  ~torn => IF Busy
           THEN Sound(setter.buf, [wanted EXCEPT ![setter.name] = setter.value])
           ELSE env.crc = env.data /\ Sound(env.data, wanted)

EnvInv == EnvTypes /\ CrcFirst /\ Written /\ InOrder

(* Erase blocks cover the environment. *)
LEMMA BlockFacts ==
  /\ 1 \in Blocks
  /\ \A b \in Blocks :
       /\ b \in Nat /\ b >= 1
       /\ b = Cardinality(Blocks) => b * BlockSize = EnvSize
       /\ b # Cardinality(Blocks) => b + 1 \in Blocks
<1> DEFINE q == EnvSize \div BlockSize
<1>1. EnvSize \in Nat \ {0} /\ BlockSize \in Nat \ {0} /\ EnvSize % BlockSize = 0
  BY FlashAssumption
<1>2. q \in Nat /\ q * BlockSize = EnvSize
  BY <1>1
<1> HIDE DEF q
<1>3. q >= 1
  BY <1>1, <1>2
<1>4. Blocks = 1..q /\ Cardinality(Blocks) = q
  BY <1>2, <1>3, FS_Interval DEF Blocks, q
<1> QED
  BY <1>2, <1>3, <1>4

(* A text is not empty and has as many cells as the environment. *)
LEMMA TextFacts ==
  ASSUME NEW d \in Text
  PROVE  d # <<>> /\ Len(d) = EnvSize /\ Last(d) = d[EnvSize]
<1>1. EnvSize \in Nat \ {0} /\ d \in [1..EnvSize -> Cells]
  BY FlashAssumption DEF Text
<1>2. d \in Seq(Cells)
  BY <1>1, SeqDef
<1>3. Len(d) = EnvSize
  BY <1>1, <1>2, LenProperties
<1> QED
  BY <1>1, <1>2, <1>3, EmptySeq DEF Last

(* The factory's environment is in order. *)
LEMMA EnvInit == FlashInit => EnvInv
<1> SUFFICES ASSUME FlashInit
             PROVE  EnvInv
  OBVIOUS
<1>1. env.crc = FactoryEnv /\ env.data = FactoryEnv /\ images = {FactoryEnv}
      /\ wanted = FactoryValues /\ setter = NoCall /\ torn = FALSE
  BY DEF FlashInit
<1>2. ~Busy /\ setter.step # "write"
  BY <1>1 DEF Busy, NoCall
<1>3. FactoryValues \in [Names -> Nat]
  <2>1. Factory \in Nat
    BY FlashAssumption, MinFacts DEF Factory
  <2> QED
    BY <2>1 DEF FactoryValues, Unset
<1>4. EnvTypes
  BY <1>1, <1>2, <1>3, FactoryAssumption DEF EnvTypes
<1>5. CrcFirst /\ Written
  BY <1>1, <1>2 DEF CrcFirst, Written
<1>6. InOrder
  BY <1>1, <1>2, FactoryAssumption DEF InOrder, Sound, EndsWell
<1> QED
  BY <1>4, <1>5, <1>6 DEF EnvInv

(* A call that is refused, or that has its buffer ready. *)
LEMMA SetStep ==
  ASSUME EnvInv, NEW n \in Names, NEW v \in Values \union {Unset},
         ezcfg_api_ubootenv_set(n, v)
  PROVE  EnvInv'
<1> DEFINE new == Edit(env.data, n, v).data
<1>1. /\ setter.step = "idle" /\ env' = env /\ wanted' = wanted /\ torn' = torn
  BY DEF ezcfg_api_ubootenv_set
<1>2. CASE ~Allowed(n, v)
  <2>1. UNCHANGED envvars
    BY <1>1, <1>2 DEF ezcfg_api_ubootenv_set, envvars
  <2> QED
    BY <2>1 DEF envvars, EnvInv, EnvTypes, CrcFirst, Written, InOrder, Busy
<1>3. CASE Allowed(n, v)
  <2>1. /\ setter' = [name |-> n, value |-> v, buf |-> new, block |-> 1, step |-> "erase"]
        /\ images' = {env.data, new}
    BY <1>3 DEF ezcfg_api_ubootenv_set
  <2>2. env.data \in Text /\ EndCells(env.data) # {} /\ Edit(env.data, n, v).room
    BY <1>3 DEF Allowed, Readable, EnvInv, EnvTypes
  <2>3. new \in Text
    BY <2>2, EditText
  <2>4. ~torn => Sound(new, [wanted EXCEPT ![n] = v])
    <3> SUFFICES ASSUME ~torn
                 PROVE  Sound(new, [wanted EXCEPT ![n] = v])
      OBVIOUS
    <3>1. Whole(env.data, wanted) /\ wanted \in [Names -> Nat]
      BY <1>1 DEF EnvInv, EnvTypes, InOrder, Busy, Sound
    <3> QED
      BY <2>2, <3>1, EditSound DEF Sound
  <2> HIDE DEF new
  <2>5. setter' \in Call /\ Busy'
    BY <2>1, <2>3, BlockFacts DEF Call, Busy
  <2>6. /\ setter'.buf = new /\ setter'.block = 1 /\ setter'.step = "erase"
        /\ setter'.name = n /\ setter'.value = v
    BY <2>1
  <2>7. EnvTypes'
    BY <1>1, <2>5 DEF EnvInv, EnvTypes
  <2>8. CrcFirst'
    BY <1>1, <2>1, <2>6 DEF CrcFirst
  <2>9. Written'
    <3>1. BlockSize \in Nat /\ (1 - 1) * BlockSize = 0
      BY FlashAssumption
    <3> QED
      BY <2>6, <3>1 DEF Written
  <2>10. InOrder'
    BY <1>1, <2>4, <2>5, <2>6 DEF InOrder
  <2> QED
    BY <2>7, <2>8, <2>9, <2>10 DEF EnvInv
<1> QED
  BY <1>2, <1>3

(* A block is erased, the first one with the checksum. *)
LEMMA EraseStep ==
  ASSUME EnvInv, EraseEnvBlock
  PROVE  EnvInv'
<1> DEFINE b == setter.block
<1>1. /\ setter.step = "erase" /\ Busy /\ setter \in Call
      /\ wanted' = wanted /\ images' = images /\ torn' = torn
  BY DEF EraseEnvBlock, EnvInv, EnvTypes, Busy
<1>2. /\ env'.crc = IF b = 1 THEN <<>> ELSE env.crc
      /\ env'.data = [k \in 1..EnvSize |-> IF k \in CellsOf(b) THEN Erased ELSE env.data[k]]
      /\ setter' = [setter EXCEPT !.step = "write"]
  BY DEF EraseEnvBlock
<1>3. /\ setter' \in Call /\ setter'.step = "write" /\ Busy'
      /\ setter'.buf = setter.buf /\ setter'.block = b
      /\ setter'.name = setter.name /\ setter'.value = setter.value
  BY <1>1, <1>2 DEF Call, Busy
<1>4. b \in Nat /\ b >= 1 /\ setter.buf \in Text /\ BlockSize \in Nat
  BY <1>1, BlockFacts, FlashAssumption DEF Call
<1> HIDE DEF b
<1>5. env'.data \in Text
  <2>1. env.data \in Text
    BY DEF EnvInv, EnvTypes
  <2>2. \A k \in 1..EnvSize : env.data[k] \in Cells /\ Erased \in Cells
    BY <2>1, CellFacts DEF Text
  <2> QED
    BY <1>2, <2>2 DEF Text
<1>6. EnvTypes'
  BY <1>1, <1>3, <1>5 DEF EnvInv, EnvTypes
<1>7. CrcFirst'
  <2>1. CASE b = 1
    <3>1. env'.crc = <<>> /\ env'.crc # env'.data
      BY <1>2, <1>5, <2>1, TextFacts
    <3> QED
      BY <1>1, <1>3, <2>1, <3>1 DEF EnvInv, CrcFirst
  <2>2. CASE b # 1
    <3>1. env'.crc = setter.buf /\ setter.buf \in images
      BY <1>1, <1>2, <1>4, <2>2 DEF EnvInv, CrcFirst, b
    <3> QED
      BY <1>1, <1>3, <2>2, <3>1 DEF CrcFirst
  <2> QED
    BY <2>1, <2>2
<1>8. Written'
  <2> SUFFICES ASSUME NEW k \in 1..EnvSize, k <= (b - 1) * BlockSize
               PROVE  env'.data[k] = setter.buf[k]
    BY <1>3 DEF Written
  <2>1. k \notin CellsOf(b)
    BY <1>4, FlashAssumption DEF CellsOf
  <2> QED
    BY <1>1, <1>2, <2>1 DEF EnvInv, Written, b
<1>9. InOrder'
  BY <1>1, <1>3 DEF EnvInv, InOrder
<1> QED
  BY <1>6, <1>7, <1>8, <1>9 DEF EnvInv

(* A block is written, the first one with the checksum; the last one       *)
(* completes the call.                                                     *)
LEMMA WriteStep ==
  ASSUME EnvInv, WriteEnvBlock
  PROVE  EnvInv'
<1> DEFINE b == setter.block
           s == setter
<1>1. setter.step = "write" /\ Busy /\ setter \in Call /\ torn' = torn
  BY DEF WriteEnvBlock, EnvInv, EnvTypes, Busy
<1>2. /\ env'.crc = IF b = 1 THEN s.buf ELSE env.crc
      /\ env'.data = [k \in 1..EnvSize |-> IF k \in CellsOf(b) THEN s.buf[k] ELSE env.data[k]]
  BY DEF WriteEnvBlock
<1>3. b \in Blocks /\ b \in Nat /\ b >= 1 /\ s.buf \in Text /\ BlockSize \in Nat
      /\ s.name \in Names /\ s.value \in Values \union {Unset} /\ EnvSize \in Nat
  BY <1>1, BlockFacts, FlashAssumption DEF Call
<1>4. env'.crc = s.buf /\ s.buf \in images
  BY <1>1, <1>2, <1>3 DEF EnvInv, CrcFirst
<1>5. env'.data \in Text
  BY <1>2, <1>3 DEF EnvInv, EnvTypes, Text
<1>6. \A k \in 1..EnvSize : k <= b * BlockSize => env'.data[k] = s.buf[k]
  <2> SUFFICES ASSUME NEW k \in 1..EnvSize, k <= b * BlockSize
               PROVE  env'.data[k] = s.buf[k]
    OBVIOUS
  <2>1. CASE k <= (b - 1) * BlockSize
    BY <1>1, <1>2, <2>1 DEF EnvInv, Written
  <2>2. CASE k > (b - 1) * BlockSize
    <3>1. k \in CellsOf(b)
      BY <1>3, <2>2 DEF CellsOf
    <3> QED
      BY <1>2, <3>1
  <2> QED
    BY <1>3, <2>1, <2>2
<1>7. CASE LastBlock
  <2>1. /\ setter' = NoCall /\ wanted' = [wanted EXCEPT ![s.name] = s.value]
        /\ images' = {s.buf}
    BY <1>7 DEF WriteEnvBlock, LastBlock
  <2>2. ~Busy' /\ setter'.step # "write"
    BY <2>1 DEF NoCall, Busy
  <2>3. env'.data = s.buf
    <3>1. b * BlockSize = EnvSize
      BY <1>3, <1>7, BlockFacts DEF LastBlock
    <3>2. \A k \in 1..EnvSize : env'.data[k] = s.buf[k]
      BY <1>6, <3>1
    <3> QED
      BY <1>3, <1>5, <3>2 DEF Text
  <2>4. EnvTypes'
    <3>1. s.value \in Nat
      <4>1. s.value \in Values \/ s.value = 0
        BY <1>3 DEF Unset
      <4> QED
        BY <4>1, ValueNat
    <3>2. wanted' \in [Names -> Nat]
      BY <2>1, <3>1 DEF EnvInv, EnvTypes
    <3> QED
      BY <1>1, <1>5, <2>1, <2>2, <3>2 DEF EnvInv, EnvTypes
  <2>5. CrcFirst' /\ Written'
    BY <1>4, <2>1, <2>2, <2>3 DEF CrcFirst, Written
  <2>6. InOrder'
    BY <1>1, <1>4, <2>1, <2>2, <2>3 DEF EnvInv, InOrder
  <2> QED
    BY <2>4, <2>5, <2>6 DEF EnvInv
<1>8. CASE ~LastBlock
  <2>1. /\ setter' = [s EXCEPT !.block = @ + 1, !.step = "erase"]
        /\ wanted' = wanted /\ images' = images
    BY <1>8 DEF WriteEnvBlock, LastBlock
  <2>2. b + 1 \in Blocks
    BY <1>3, <1>8, BlockFacts DEF LastBlock
  <2>3. /\ setter' \in Call /\ setter'.step = "erase" /\ Busy'
        /\ setter'.buf = s.buf /\ setter'.block = b + 1
        /\ setter'.name = s.name /\ setter'.value = s.value
    BY <1>1, <2>1, <2>2 DEF Call, Busy
  <2>4. EnvTypes'
    BY <1>1, <1>5, <2>1, <2>3 DEF EnvInv, EnvTypes
  <2>5. CrcFirst'
    BY <1>3, <1>4, <2>1, <2>3 DEF CrcFirst
  <2>6. Written'
    <3>1. (b + 1) - 1 = b
      BY <1>3
    <3> QED
      BY <1>6, <2>3, <3>1 DEF Written
  <2>7. InOrder'
    BY <1>1, <2>1, <2>3 DEF EnvInv, InOrder
  <2> QED
    BY <2>4, <2>5, <2>6, <2>7 DEF EnvInv
<1> QED
  BY <1>7, <1>8

(* A call that is cut short leaves what is there. *)
LEMMA StopStep ==
  ASSUME EnvInv, StopWriting
  PROVE  EnvInv'
<1>1. setter' = NoCall /\ torn' = TRUE /\ env' = env /\ wanted' = wanted /\ images' = images
  BY DEF StopWriting
<1>2. ~Busy' /\ setter'.step # "write"
  BY <1>1 DEF NoCall, Busy
<1> QED
  BY <1>1, <1>2 DEF EnvInv, EnvTypes, CrcFirst, Written, InOrder

(* Every step keeps the environment in order. *)
LEMMA EnvStep ==
  ASSUME EnvInv, [FlashNext]_flashvars
  PROVE  EnvInv'
<1>1. CASE UNCHANGED envvars
  BY <1>1 DEF envvars, EnvInv, EnvTypes, CrcFirst, Written, InOrder, Busy
<1>2. \/ UNCHANGED envvars \/ EraseEnvBlock \/ WriteEnvBlock \/ StopWriting
      \/ \E n \in Names, v \in Values \union {Unset} : ezcfg_api_ubootenv_set(n, v)
  BY DEF FlashNext, FlashStep, ezcfg_api_firmware_upgrade, get_part_device_path,
         ErasePartBlock, WritePartBlock, PartFails, UpgradeEnds, flashvars, envvars
<1> QED
  BY <1>1, <1>2, SetStep, EraseStep, WriteStep, StopStep

-----------------------------------------------------------------------------
(* The firmware *)

Contents == [kind : {"part", "old", "erased", "garbage"}, part : Nat, block : Nat]
Steps == {"idle", "find", "erase", "write", "done"}
Upgrade == [parts : Seq(Parts), k : Nat, raw : BOOLEAN, path : Partitions \union {""},
            block : 0..PartBlocks, step : Steps, ok : BOOLEAN]
Writes == fw.step \in {"erase", "write"}
Runs == Writes \/ fw.step = "find"

FwTypes ==
  /\ mtd \in [Partitions -> [1..PartBlocks -> Contents]]
  /\ fw \in Upgrade
  /\ fw.k \in 1..Len(fw.parts) + 1
  /\ Runs => fw.k \in 1..Len(fw.parts)
  /\ Writes => fw.path \in Partitions /\ fw.block \in 1..PartBlocks
  /\ fw.raw => fw.parts[1].name = "firmware" /\ Len(fw.parts) = 1

(* The path is that of a part before this one, or of this one once its     *)
(* partition was looked for.                                               *)
PathOf(j) == fw.parts[j].name = fw.path /\ j <= fw.k /\ (fw.step = "find" => j # fw.k)
PathFound == (Runs /\ fw.path # "") => \E j \in DOMAIN fw.parts : PathOf(j)

(* The part that is being written goes where it may be, the blocks before  *)
(* the current one are in place, and the current one is erased first.      *)
Placed(k, b) == IF b <= fw.parts[k].blocks THEN Content(k, b) ELSE Blanked
PartSoFar ==
  Writes =>
    /\ Goes(fw.k, fw.path)
    /\ ~fw.raw => \A b \in 1..fw.block - 1 : mtd[fw.path][b] = Placed(fw.k, b)
    /\ fw.step = "write" => mtd[fw.path][fw.block] = Blanked

FwInv == FwTypes /\ PathFound /\ PartSoFar /\ FirmwareInPlace

(* Indices. *)
LEMMA Within ==
  /\ 1 \in 1..PartBlocks /\ 1 \in 0..PartBlocks
  /\ \A n \in Nat : \A k \in 1..n : k \in Nat /\ k \in 1..n + 1
  /\ \A j, k \in Nat : j <= k => j <= k + 1 /\ j # k + 1
BY FlashAssumption

(* What is in a block. *)
LEMMA ContentFacts ==
  /\ Old \in Contents /\ Blanked \in Contents /\ Garbage \in Contents
  /\ \A k \in Nat : \A b \in Nat : Content(k, b) \in Contents
BY DEF Old, Blanked, Garbage, Without, Content, Contents

(* No upgrade has begun. *)
LEMMA NoUpgradeFacts ==
  /\ NoUpgrade \in Upgrade /\ NoUpgrade.parts = <<>> /\ NoUpgrade.k = 1
  /\ NoUpgrade.step = "idle" /\ NoUpgrade.raw = FALSE /\ Len(NoUpgrade.parts) = 0
BY FlashAssumption, EmptySeq DEF NoUpgrade, Upgrade, Steps

(* What the partitions hold before an upgrade. *)
LEMMA OldFacts ==
  /\ OldParts \in [Partitions -> [1..PartBlocks -> Contents]]
  /\ \A p \in Partitions, b \in 1..PartBlocks : OldParts[p][b] = Old
BY ContentFacts DEF OldParts

(* The partitions after one block was erased or written. *)
LEMMA BlockWritten ==
  ASSUME FwTypes, Writes, NEW c \in Contents, mtd' = [mtd EXCEPT ![fw.path][fw.block] = c]
  PROVE  /\ mtd' \in [Partitions -> [1..PartBlocks -> Contents]]
         /\ \A p \in Partitions, b \in 1..PartBlocks :
              mtd'[p][b] = IF p = fw.path /\ b = fw.block THEN c ELSE mtd[p][b]
<1>1. /\ mtd \in [Partitions -> [1..PartBlocks -> Contents]]
      /\ fw.path \in Partitions /\ fw.block \in 1..PartBlocks
  BY DEF FwTypes
<1>2. mtd' = [mtd EXCEPT ![fw.path] = [@ EXCEPT ![fw.block] = c]]
  BY <1>1
<1>3. [mtd[fw.path] EXCEPT ![fw.block] = c] \in [1..PartBlocks -> Contents]
  BY <1>1
<1>4. mtd' \in [Partitions -> [1..PartBlocks -> Contents]]
  BY <1>1, <1>2, <1>3
<1>5. mtd'[fw.path] = [mtd[fw.path] EXCEPT ![fw.block] = c]
  BY <1>1, <1>2
<1>6. \A p \in Partitions : p # fw.path => mtd'[p] = mtd[p]
  BY <1>1, <1>2
<1>7. \A b \in 1..PartBlocks : mtd[fw.path] \in [1..PartBlocks -> Contents] =>
        [mtd[fw.path] EXCEPT ![fw.block] = c][b] = IF b = fw.block THEN c ELSE mtd[fw.path][b]
  OBVIOUS
<1> QED
  BY <1>1, <1>4, <1>5, <1>6, <1>7

(* The parts of the image are counted from 1. *)
LEMMA PartsCounted ==
  ASSUME fw \in Upgrade
  PROVE  Len(fw.parts) \in Nat /\ DOMAIN fw.parts = 1..Len(fw.parts)
BY LenProperties DEF Upgrade

(* The image stays what it is. *)
SameImage == fw'.parts = fw.parts /\ fw'.raw = fw.raw

(* What is in place stays there when the partitions are left alone. *)
LEMMA StaysInPlace ==
  ASSUME PartInPlace, SameImage, mtd' = mtd
  PROVE  PartInPlace'
BY DEF PartInPlace, SameImage, Goes

(* The next part, or the end. *)
LEMMA NextFacts ==
  ASSUME FwTypes, Runs, NEW ok \in BOOLEAN, fw' = NextPart(ok)
  PROVE  /\ fw' \in Upgrade /\ fw'.k \in 1..Len(fw'.parts) /\ fw'.ok = ok /\ SameImage
         /\ fw'.path = fw.path /\ fw'.step \in {"find", "done"}
         /\ fw'.step = "done" => fw.k = Len(fw.parts)
         /\ fw'.step = "find" => fw'.k = fw.k + 1
<1>1. fw \in Upgrade /\ fw.k \in 1..Len(fw.parts)
  BY DEF FwTypes
<1>2. Len(fw.parts) \in Nat
  BY <1>1, LenProperties DEF Upgrade
<1>3. CASE fw.k = Len(fw.parts)
  <2>1. fw' = [fw EXCEPT !.step = "done", !.ok = ok]
    BY <1>3 DEF NextPart
  <2> QED
    BY <1>1, <1>2, <1>3, <2>1 DEF Upgrade, Steps, SameImage
<1>4. CASE fw.k # Len(fw.parts)
  <2>1. fw' = [fw EXCEPT !.step = "find", !.ok = ok, !.k = fw.k + 1]
    BY <1>1, <1>4 DEF NextPart, Upgrade
  <2>2. fw.k + 1 \in Nat /\ fw.k + 1 \in 1..Len(fw.parts)
    BY <1>1, <1>2, <1>4
  <2> QED
    BY <1>1, <2>1, <2>2 DEF Upgrade, Steps, SameImage
<1> QED
  BY <1>3, <1>4

(* What is known of the call when it takes the next part, or has ended. *)
LEMMA NextKept ==
  ASSUME FwTypes, PathFound, Runs, NEW ok \in BOOLEAN, fw' = NextPart(ok),
         mtd' \in [Partitions -> [1..PartBlocks -> Contents]]
  PROVE  FwTypes' /\ PathFound' /\ PartSoFar'
<1>1. /\ fw' \in Upgrade /\ fw'.k \in 1..Len(fw'.parts) /\ SameImage
      /\ fw'.path = fw.path /\ fw'.step \in {"find", "done"}
      /\ fw'.step = "find" => fw'.k = fw.k + 1
  BY NextFacts
<1>2. Len(fw'.parts) \in Nat /\ fw.k \in Nat
  BY <1>1, LenProperties DEF Upgrade, FwTypes
<1>3. FwTypes'
  <2>1. fw'.k \in 1..Len(fw'.parts) + 1
    BY <1>1, <1>2, Within, Zenon
  <2>2. fw'.raw => fw'.parts[1].name = "firmware" /\ Len(fw'.parts) = 1
    BY <1>1 DEF FwTypes, SameImage
  <2>3. fw'.step \notin {"erase", "write"}
    BY <1>1
  <2> QED
    BY <1>1, <2>1, <2>2, <2>3 DEF FwTypes, Writes
<1>4. PathFound'
  <2> SUFFICES ASSUME fw'.step = "find", fw.path # ""
               PROVE  \E j \in DOMAIN fw.parts :
                        /\ fw.parts[j].name = fw.path
                        /\ j <= fw'.k /\ j # fw'.k
    BY <1>1 DEF PathFound, PathOf, Runs, Writes, SameImage
  <2>1. PICK j \in DOMAIN fw.parts : fw.parts[j].name = fw.path /\ j <= fw.k
    BY DEF PathFound, PathOf
  <2>2. j \in 1..Len(fw.parts) /\ Len(fw.parts) \in Nat
    BY <2>1, PartsCounted DEF FwTypes
  <2>3. fw'.k = fw.k + 1
    BY <1>1
  <2>4. j \in Nat
    BY <2>2, Within, Zenon
  <2>5. j <= fw.k + 1 /\ j # fw.k + 1
    BY <1>2, <2>1, <2>4, Within, Zenon
  <2> QED
    BY <2>1, <2>3, <2>5, Zenon
<1>5. PartSoFar'
  BY <1>1 DEF PartSoFar, Writes
<1> QED
  BY <1>3, <1>4, <1>5

(* Nothing has been written in the factory. *)
LEMMA FwInit == FlashInit => FwInv
<1> SUFFICES ASSUME FlashInit
             PROVE  FwInv
  OBVIOUS
<1>1. mtd = OldParts /\ fw = NoUpgrade
  BY DEF FlashInit
<1>2. fw.step = "idle" /\ fw.raw = FALSE
  BY <1>1, NoUpgradeFacts
<1>3. FwTypes
  <2>1. fw \in Upgrade /\ mtd \in [Partitions -> [1..PartBlocks -> Contents]]
    BY <1>1, NoUpgradeFacts, OldFacts
  <2>2. fw.k \in 1..Len(fw.parts) + 1
    BY <1>1, NoUpgradeFacts
  <2> QED
    BY <1>2, <2>1, <2>2 DEF FwTypes, Writes, Runs
<1>4. PathFound /\ PartSoFar
  BY <1>2 DEF PathFound, PartSoFar, Writes, Runs
<1>5. FirmwareInPlace
  BY <1>1, <1>2, OldFacts DEF FirmwareInPlace, PartInPlace, LastPartWritten
<1> QED
  BY <1>3, <1>4, <1>5 DEF FwInv

(* A call begins. *)
LEMMA UpgradeStep ==
  ASSUME FwInv, NEW parts \in Images, NEW raw \in BOOLEAN,
         ezcfg_api_firmware_upgrade(parts, raw)
  PROVE  FwInv'
<1>1. /\ fw' = [NoUpgrade EXCEPT !.parts = parts, !.raw = raw, !.ok = parts = <<>>,
                                 !.step = IF parts = <<>> THEN "done" ELSE "find"]
      /\ mtd' = OldParts /\ (raw => Copyable(parts))
  BY DEF ezcfg_api_firmware_upgrade
<1>2. PICK b \in BOOLEAN : b = (parts = <<>>)
  OBVIOUS
<1>3. PICK s \in {"done", "find"} : s = IF parts = <<>> THEN "done" ELSE "find"
  OBVIOUS
<1>4. parts \in Seq(Parts) /\ Len(parts) \in Nat
  BY FlashAssumption, LenProperties
<1>5. fw' = [NoUpgrade EXCEPT !.parts = parts, !.raw = raw, !.ok = b, !.step = s]
  BY <1>1, <1>2, <1>3
<1>6. /\ fw' \in Upgrade /\ fw'.parts = parts /\ fw'.raw = raw /\ fw'.step = s
      /\ fw'.k = 1 /\ fw'.path = ""
  <2>1. NoUpgrade.path = ""
    BY DEF NoUpgrade
  <2> QED
    BY <1>4, <1>5, <2>1, NoUpgradeFacts DEF Upgrade, Steps
<1>7. s = "find" => Len(parts) >= 1
  BY <1>3, <1>4, EmptySeq
<1>8. s = "done" => ~(Len(parts) > 0)
  <2>1. s = "done" => Len(parts) = 0
    BY <1>3, <1>4, EmptySeq
  <2>2. Len(parts) = 0 => ~(Len(parts) > 0)
    BY <1>4
  <2> QED
    BY <2>1, <2>2, Zenon
<1>9. FwTypes'
  <2>1. 1 \in 1..Len(parts) + 1 /\ (s = "find" => 1 \in 1..Len(parts))
    BY <1>4, <1>7
  <2>2. raw => parts[1].name = "firmware" /\ Len(parts) = 1
    BY <1>1 DEF Copyable
  <2> QED
    BY <1>1, <1>6, <2>1, <2>2, OldFacts DEF FwTypes, Writes, Runs
<1>10. PathFound' /\ PartSoFar'
  BY <1>6 DEF PathFound, PartSoFar, Writes
<1>11. FirmwareInPlace'
  <2>1. PartInPlace'
    BY <1>1, OldFacts DEF PartInPlace
  <2>2. LastPartWritten'
    <3>1. fw'.step = "done" => ~(Len(fw'.parts) > 0)
      BY <1>6, <1>8, Zenon
    <3> QED
      BY <3>1 DEF LastPartWritten
  <2> QED
    BY <2>1, <2>2 DEF FirmwareInPlace
<1> QED
  BY <1>9, <1>10, <1>11 DEF FwInv

(* A part is given up. *)
LEMMA GiveUp ==
  ASSUME FwInv, Runs, fw' = NextPart(FALSE), mtd' = mtd
  PROVE  FwInv'
<1>1. FwTypes' /\ PathFound' /\ PartSoFar'
  BY NextKept DEF FwInv, FwTypes
<1>2. fw'.ok = FALSE /\ SameImage
  BY NextFacts DEF FwInv
<1>3. PartInPlace'
  BY <1>2, StaysInPlace DEF FwInv, FirmwareInPlace
<1>4. LastPartWritten'
  BY <1>2 DEF LastPartWritten
<1> QED
  BY <1>1, <1>3, <1>4 DEF FwInv, FirmwareInPlace

(* The partition of a part is looked for. *)
LEMMA FindStep ==
  ASSUME FwInv, get_part_device_path
  PROVE  FwInv'
<1>1. /\ fw.step = "find" /\ Runs /\ mtd' = mtd /\ FwTypes /\ fw \in Upgrade
      /\ fw.k \in DOMAIN fw.parts /\ fw.k \in 1..Len(fw.parts) /\ fw.k \in Nat
  <2>1. fw.step = "find" /\ Runs /\ mtd' = mtd /\ FwTypes
    BY DEF get_part_device_path, FwInv, Runs
  <2>2. fw \in Upgrade /\ fw.k \in 1..Len(fw.parts)
    BY <2>1 DEF FwTypes
  <2> QED
    BY <2>1, <2>2, PartsCounted
<1>2. ASSUME NEW p \in Partitions, fw' = [fw EXCEPT !.path = p, !.block = 1, !.step = "erase"],
             Goes(fw.k, p),
             NEW j \in DOMAIN fw.parts, fw.parts[j].name = p, j <= fw.k
      PROVE  FwInv'
  <2>1. /\ fw' \in Upgrade /\ fw'.path = p /\ fw'.block = 1 /\ fw'.step = "erase"
        /\ fw'.k = fw.k /\ SameImage
    <3>1. "erase" \in Steps /\ p \in Partitions \union {""}
      BY Zenon DEF Steps
    <3>2. fw' \in Upgrade
      BY <1>1, <1>2, <3>1, Within DEF Upgrade
    <3> QED
      BY <1>1, <1>2, <3>2 DEF Upgrade, SameImage
  <2>2. FwTypes'
    <3>1. fw'.k \in 1..Len(fw'.parts) + 1 /\ fw'.k \in 1..Len(fw'.parts)
      BY <1>1, <2>1 DEF FwTypes, SameImage
    <3>2. fw'.path \in Partitions /\ fw'.block \in 1..PartBlocks
      BY <2>1, Within
    <3>3. fw'.raw => fw'.parts[1].name = "firmware" /\ Len(fw'.parts) = 1
      BY <1>1, <2>1 DEF FwTypes, SameImage
    <3> QED
      BY <1>1, <2>1, <3>1, <3>2, <3>3 DEF FwTypes
  <2>3. PathFound'
    <3>1. j \in DOMAIN fw'.parts /\ fw'.parts[j].name = fw'.path /\ j <= fw'.k
      BY <1>2, <2>1 DEF SameImage
    <3> QED
      BY <2>1, <3>1 DEF PathFound, PathOf
  <2>4. PartSoFar'
    <3>1. Goes(fw.k, p)'
      BY <1>2, <2>1 DEF Goes, SameImage
    <3>2. 1..fw'.block - 1 = {}
      BY <2>1
    <3> QED
      BY <2>1, <3>2, <1>2 DEF PartSoFar, Goes, SameImage
  <2>5. FirmwareInPlace'
    <3>1. PartInPlace'
      BY <1>1, <2>1, StaysInPlace DEF FwInv, FirmwareInPlace
    <3>2. LastPartWritten'
      BY <2>1 DEF LastPartWritten
    <3> QED
      BY <3>1, <3>2 DEF FirmwareInPlace
  <2> QED
    BY <2>2, <2>3, <2>4, <2>5 DEF FwInv
<1>3. CASE fw' = NextPart(FALSE)
  BY <1>1, <1>3, GiveUp
<1>4. CASE /\ Part.name \in Partitions
           /\ fw' = [fw EXCEPT !.path = Part.name, !.block = 1, !.step = "erase"]
  <2>1. Goes(fw.k, Part.name)
    BY DEF Goes, Part
  <2>2. fw.parts[fw.k].name = Part.name /\ fw.k <= fw.k
    BY <1>1 DEF Part
  <2> QED
    BY <1>1, <1>2, <1>4, <2>1, <2>2
<1>5. CASE /\ Part.name \notin Partitions /\ fw.path # ""
           /\ fw' = [fw EXCEPT !.block = 1, !.step = "erase"]
  <2>1. fw.path \in Partitions
    BY <1>1, <1>5 DEF Upgrade
  <2>2. fw' = [fw EXCEPT !.path = fw.path, !.block = 1, !.step = "erase"]
    BY <1>1, <1>5 DEF Upgrade
  <2>3. PICK j \in DOMAIN fw.parts : fw.parts[j].name = fw.path /\ j <= fw.k /\ j # fw.k
    BY <1>1, <1>5 DEF FwInv, PathFound, PathOf
  <2>4. j \in 1..fw.k - 1
    <3>1. j \in 1..Len(fw.parts)
      BY <1>1, <2>3, PartsCounted
    <3> QED
      BY <1>1, <2>3, <3>1
  <2>5. Goes(fw.k, fw.path)
    BY <1>5, <2>3, <2>4 DEF Goes, Part
  <2> QED
    BY <1>2, <2>1, <2>2, <2>3, <2>5
<1> QED
  BY <1>3, <1>4, <1>5 DEF get_part_device_path

(* Some part is named for the partition that is written. *)
LEMMA PathNamed ==
  ASSUME FwInv, Writes
  PROVE  \E k \in DOMAIN fw.parts : fw.parts[k].name = fw.path
<1>1. fw.path \in Partitions \/ fw.path = ""
  BY DEF FwInv, FwTypes
<1>2. CASE fw.path # ""
  BY <1>2 DEF FwInv, PathFound, PathOf, Runs
<1>3. CASE fw.path = ""
  <2>1. Goes(fw.k, fw.path) /\ fw.k \in 1..Len(fw.parts) /\ fw \in Upgrade
    BY DEF FwInv, PartSoFar, FwTypes, Runs
  <2>2. DOMAIN fw.parts = 1..Len(fw.parts) /\ Len(fw.parts) \in Nat
    BY <2>1, PartsCounted
  <2> QED
    BY <2>1, <2>2 DEF Goes
<1> QED
  BY <1>2, <1>3

(* A block of a partition is erased. *)
LEMMA ErasePartStep ==
  ASSUME FwInv, ErasePartBlock
  PROVE  FwInv'
<1>1. fw.step = "erase" /\ Writes /\ fw' = [fw EXCEPT !.step = "write"]
      /\ mtd' = [mtd EXCEPT ![fw.path][fw.block] = Blanked] /\ FwTypes /\ fw \in Upgrade
  BY DEF ErasePartBlock, Writes, FwInv, FwTypes
<1>2. /\ fw' \in Upgrade /\ fw'.path = fw.path /\ fw'.block = fw.block /\ fw'.step = "write"
      /\ fw'.k = fw.k /\ SameImage
  BY <1>1 DEF Upgrade, Steps, SameImage
<1>3. /\ mtd' \in [Partitions -> [1..PartBlocks -> Contents]]
      /\ \A p \in Partitions, b \in 1..PartBlocks :
           mtd'[p][b] = IF p = fw.path /\ b = fw.block THEN Blanked ELSE mtd[p][b]
  BY <1>1, BlockWritten, ContentFacts
<1>4. FwTypes'
  BY <1>1, <1>2, <1>3 DEF FwTypes, Writes, Runs, SameImage
<1>5. PathFound'
  BY <1>1, <1>2 DEF FwInv, PathFound, PathOf, Runs, Writes, SameImage
<1>6. fw.path \in Partitions /\ fw.block \in 1..PartBlocks
  BY <1>1 DEF FwTypes
<1>7. PartSoFar'
  <2>1. Goes(fw.k, fw.path)
    BY <1>1 DEF FwInv, PartSoFar
  <2>2. (fw'.path = fw.path /\ fw'.k = fw.k) /\ (fw'.parts = fw.parts /\ fw'.raw = fw.raw)
    BY <1>2 DEF SameImage
  <2>3. ~fw.raw => \A b \in 1..fw.block - 1 : mtd[fw.path][b] = Placed(fw.k, b)
    BY <1>1 DEF FwInv, PartSoFar
  <2>4. \A b \in 1..fw.block - 1 : b \in 1..PartBlocks /\ b # fw.block
    BY <1>6, FlashAssumption
  <2>5. ~fw.raw => \A b \in 1..fw.block - 1 : mtd'[fw.path][b] = Placed(fw.k, b)
    BY <1>3, <1>6, <2>3, <2>4
  <2>6. mtd'[fw.path][fw.block] = Blanked
    BY <1>3, <1>6
  <2> QED
    BY <1>2, <2>1, <2>2, <2>5, <2>6 DEF PartSoFar, Goes, Placed
<1>8. PartInPlace'
  <2>1. \E k \in DOMAIN fw.parts : fw.parts[k].name = fw.path
    BY <1>1, PathNamed
  <2>2. ASSUME NEW p \in Partitions, NEW b \in 1..PartBlocks
        PROVE  \/ mtd'[p][b] = mtd[p][b]
               \/ mtd'[p][b] = Blanked /\ \E k \in DOMAIN fw'.parts : fw'.parts[k].name = p
    BY <1>2, <1>3, <2>1 DEF SameImage
  <2> QED
    BY <1>2, <2>2 DEF FwInv, FirmwareInPlace, PartInPlace, Goes, SameImage
<1>9. LastPartWritten'
  BY <1>2 DEF LastPartWritten
<1> QED
  BY <1>4, <1>5, <1>7, <1>8, <1>9 DEF FwInv, FirmwareInPlace

(* A block of a partition is written; the last one completes the part. *)
LEMMA WritePartStep ==
  ASSUME FwInv, WritePartBlock
  PROVE  FwInv'
<1> DEFINE c == IF fw.block > Part.blocks THEN mtd[fw.path][fw.block]
                ELSE IF fw.raw /\ fw.block > 1 THEN Garbage ELSE Content(fw.k, fw.block)
<1>1. fw.step = "write" /\ Writes /\ Runs /\ FwTypes /\ fw \in Upgrade
  BY DEF WritePartBlock, Writes, Runs, FwInv, FwTypes
<1>2. /\ fw.path \in Partitions /\ fw.block \in 1..PartBlocks /\ PartBlocks \in Nat
      /\ fw.k \in 1..Len(fw.parts) /\ fw.k \in Nat /\ fw.k \in DOMAIN fw.parts
      /\ Part.blocks \in Nat /\ fw.block \in Nat
      /\ mtd \in [Partitions -> [1..PartBlocks -> Contents]]
  <2>1. /\ fw.path \in Partitions /\ fw.block \in 1..PartBlocks
        /\ fw.k \in 1..Len(fw.parts)
        /\ mtd \in [Partitions -> [1..PartBlocks -> Contents]]
    BY <1>1 DEF FwTypes
  <2>2. Part \in Parts
    BY <1>1, <2>1, ElementOfSeq DEF Part, Upgrade
  <2>3. Part.blocks \in Nat
    BY <2>2 DEF Parts
  <2> QED
    BY <1>1, <2>1, <2>3, FlashAssumption, PartsCounted
<1>3. mtd' = [mtd EXCEPT ![fw.path][fw.block] = c]
  BY <1>2 DEF WritePartBlock
<1>4. c \in Contents
  BY <1>2, ContentFacts
<1>5. Goes(fw.k, fw.path) /\ mtd[fw.path][fw.block] = Blanked
  BY <1>1 DEF FwInv, PartSoFar
<1>6. ~fw.raw => /\ c = Placed(fw.k, fw.block)
                 /\ \A b \in 1..fw.block - 1 : mtd[fw.path][b] = Placed(fw.k, b)
  <2>1. ~fw.raw => \A b \in 1..fw.block - 1 : mtd[fw.path][b] = Placed(fw.k, b)
    BY <1>1 DEF FwInv, PartSoFar
  <2> QED
    BY <1>2, <1>5, <2>1 DEF Placed, Part
<1>7. \/ c = Blanked
      \/ c = Garbage /\ fw.raw /\ fw.path = "firmware" /\ fw.block > 1
      \/ c = Content(fw.k, fw.block) /\ fw.block <= fw.parts[fw.k].blocks
  <2>1. fw.raw => fw.path = "firmware"
    <3> SUFFICES ASSUME fw.raw PROVE fw.path = "firmware"
      OBVIOUS
    <3>1. fw.parts[1].name = "firmware" /\ Len(fw.parts) = 1
      BY <1>1 DEF FwTypes
    <3>2. fw.k = 1
      BY <1>2, <3>1
    <3> QED
      BY <1>5, <3>1, <3>2 DEF Goes
  <2> QED
    BY <1>2, <1>5, <2>1 DEF Part
<1> HIDE DEF c
<1>8. /\ mtd' \in [Partitions -> [1..PartBlocks -> Contents]]
      /\ \A p \in Partitions, b \in 1..PartBlocks :
           mtd'[p][b] = IF p = fw.path /\ b = fw.block THEN c ELSE mtd[p][b]
  BY <1>1, <1>3, <1>4, BlockWritten
<1>9. ASSUME SameImage PROVE PartInPlace'
  <2>1. \E k \in DOMAIN fw.parts : fw.parts[k].name = fw.path
    BY <1>1, PathNamed
  <2>2. PartInPlace
    BY DEF FwInv, FirmwareInPlace
  <2> SUFFICES ASSUME NEW p \in Partitions, NEW b \in 1..PartBlocks
               PROVE  \/ mtd'[p][b] = Old
                      \/ mtd'[p][b] = Blanked /\ \E k \in DOMAIN fw.parts : fw.parts[k].name = p
                      \/ mtd'[p][b] = Garbage /\ fw.raw /\ p = "firmware" /\ b > 1
                      \/ \E k \in DOMAIN fw.parts :
                           mtd'[p][b] = Content(k, b) /\ b <= fw.parts[k].blocks /\ Goes(k, p)
    BY <1>9 DEF PartInPlace, Goes, SameImage
  <2>3. CASE p = fw.path /\ b = fw.block
    <3>1. mtd'[p][b] = c
      BY <1>8, <2>3
    <3> QED
      BY <1>2, <1>5, <1>7, <2>1, <2>3, <3>1
  <2>4. CASE ~(p = fw.path /\ b = fw.block)
    <3>1. mtd'[p][b] = mtd[p][b]
      BY <1>8, <2>4
    <3> QED
      BY <2>2, <3>1 DEF PartInPlace
  <2> QED
    BY <2>3, <2>4
<1>10. ~fw.raw => \A b \in 1..fw.block : mtd'[fw.path][b] = Placed(fw.k, b)
  <2> SUFFICES ASSUME ~fw.raw, NEW b \in 1..fw.block
               PROVE  mtd'[fw.path][b] = Placed(fw.k, b)
    OBVIOUS
  <2>1. b \in 1..PartBlocks /\ (b = fw.block \/ b \in 1..fw.block - 1)
    BY <1>2
  <2> QED
    BY <1>2, <1>6, <1>8, <2>1
<1>11. CASE fw' = NextPart(~fw.raw) /\ (fw.block = PartBlocks \/ fw.raw)
  <2>0. PICK ok \in BOOLEAN : ok = ~fw.raw
    OBVIOUS
  <2>1. /\ fw'.ok = ok /\ SameImage /\ fw'.path = fw.path /\ fw'.k \in 1..Len(fw'.parts)
        /\ fw'.step = "done" => fw.k = Len(fw.parts)
    BY <1>1, <1>11, <2>0, NextFacts
  <2>2. FwTypes' /\ PathFound' /\ PartSoFar'
    BY <1>1, <1>8, <1>11, <2>0, NextKept DEF FwInv
  <2>3. LastPartWritten'
    <3> SUFFICES ASSUME fw'.step = "done", fw'.ok
                 PROVE  LET k == Len(fw.parts) IN
                        /\ Goes(k, fw.path)
                        /\ \A b \in 1..PartBlocks :
                             mtd'[fw.path][b] = IF b <= fw.parts[k].blocks THEN Content(k, b)
                                                ELSE Blanked
      BY <1>2, <2>1 DEF LastPartWritten, Goes, SameImage
    <3>1. ~fw.raw /\ fw.block = PartBlocks /\ fw.k = Len(fw.parts)
      BY <1>11, <2>0, <2>1
    <3> QED
      BY <1>5, <1>10, <3>1 DEF Placed
  <2> QED
    BY <1>9, <2>1, <2>2, <2>3 DEF FwInv, FirmwareInPlace
<1>12. CASE fw' = [fw EXCEPT !.block = fw.block + 1, !.step = "erase"] /\ fw.block # PartBlocks
  <2>1. fw.block + 1 \in 1..PartBlocks /\ fw.block + 1 \in 0..PartBlocks
    BY <1>2, <1>12
  <2>2. /\ fw' \in Upgrade /\ fw'.path = fw.path /\ fw'.block = fw.block + 1
        /\ fw'.step = "erase" /\ fw'.k = fw.k /\ SameImage
    BY <1>1, <1>12, <2>1 DEF Upgrade, Steps, SameImage
  <2>3. FwTypes'
    BY <1>1, <1>2, <1>8, <2>1, <2>2 DEF FwTypes, Writes, Runs, SameImage
  <2>4. PathFound'
    BY <1>1, <2>2 DEF FwInv, PathFound, PathOf, Runs, Writes, SameImage
  <2>5. PartSoFar'
    <3>1. (fw.block + 1) - 1 = fw.block
      BY <1>2
    <3>2. \A b \in 1..fw.block : Placed(fw.k, b)' = Placed(fw.k, b)
      BY <2>2 DEF Placed, SameImage
    <3>3. ~fw'.raw => \A b \in 1..fw'.block - 1 : mtd'[fw'.path][b] = Placed(fw.k, b)
      BY <1>10, <2>2, <3>1 DEF SameImage
    <3> QED
      BY <1>5, <2>2, <3>3 DEF PartSoFar, Goes, Placed, SameImage
  <2>6. LastPartWritten'
    BY <2>2 DEF LastPartWritten
  <2> QED
    BY <1>9, <2>2, <2>3, <2>4, <2>5, <2>6 DEF FwInv, FirmwareInPlace
<1>13. \/ fw' = NextPart(~fw.raw) /\ (fw.block = PartBlocks \/ fw.raw)
       \/ fw' = [fw EXCEPT !.block = fw.block + 1, !.step = "erase"] /\ fw.block # PartBlocks
  BY <1>1 DEF WritePartBlock, Upgrade
<1> QED
  BY <1>11, <1>12, <1>13

(* The call returns, or power is lost. *)
LEMMA EndStep ==
  ASSUME FwInv, UpgradeEnds
  PROVE  FwInv'
<1>1. fw' = [NoUpgrade EXCEPT !.parts = fw.parts, !.raw = fw.raw] /\ mtd' = mtd
      /\ FwTypes /\ fw \in Upgrade
  BY DEF UpgradeEnds, FwInv, FwTypes
<1>2. fw' \in Upgrade /\ SameImage /\ fw'.step = "idle" /\ fw'.k = 1
  BY <1>1, NoUpgradeFacts DEF Upgrade, SameImage
<1>3. Len(fw.parts) \in Nat
  BY <1>1, LenProperties DEF Upgrade
<1>4. FwTypes'
  <2>1. 1 \in 1..Len(fw.parts) + 1
    BY <1>3
  <2> QED
    BY <1>1, <1>2, <2>1 DEF FwTypes, Writes, Runs, SameImage
<1>5. PathFound' /\ PartSoFar'
  BY <1>2 DEF PathFound, PartSoFar, Writes, Runs
<1>6. PartInPlace'
  BY <1>1, <1>2, StaysInPlace DEF FwInv, FirmwareInPlace
<1>7. LastPartWritten'
  BY <1>2 DEF LastPartWritten
<1> QED
  BY <1>4, <1>5, <1>6, <1>7 DEF FwInv, FirmwareInPlace

(* Every step keeps the firmware in place. *)
LEMMA FwStep ==
  ASSUME FwInv, [FlashNext]_flashvars
  PROVE  FwInv'
<1>1. CASE UNCHANGED fwvars
  <2>1. fw' = fw /\ mtd' = mtd
    BY <1>1 DEF fwvars
  <2>2. FwTypes'
    BY <2>1 DEF FwInv, FwTypes, Writes, Runs
  <2>3. PathFound' /\ PartSoFar'
    BY <2>1 DEF FwInv, PathFound, PathOf, PartSoFar, Placed, Goes, Writes, Runs
  <2>4. PartInPlace'
    BY <2>1, StaysInPlace DEF FwInv, FirmwareInPlace, SameImage
  <2>5. LastPartWritten'
    BY <2>1 DEF FwInv, FirmwareInPlace, LastPartWritten, Goes
  <2> QED
    BY <2>2, <2>3, <2>4, <2>5 DEF FwInv, FirmwareInPlace
<1>2. CASE PartFails
  <2>1. Runs /\ fw' = NextPart(FALSE) /\ mtd' = mtd
    BY <1>2 DEF PartFails, Runs, Writes
  <2> QED
    BY <2>1, GiveUp
<1>3. \/ UNCHANGED fwvars \/ get_part_device_path \/ ErasePartBlock \/ WritePartBlock
      \/ PartFails \/ UpgradeEnds
      \/ \E parts \in Images, raw \in BOOLEAN : ezcfg_api_firmware_upgrade(parts, raw)
  BY DEF FlashNext, FlashStep, ezcfg_api_ubootenv_set, EraseEnvBlock, WriteEnvBlock,
         StopWriting, flashvars, fwvars
<1> QED
  BY <1>1, <1>2, <1>3, FindStep, ErasePartStep, WritePartStep, EndStep, UpgradeStep

-----------------------------------------------------------------------------
(* The theorems *)

(* ezcfg_api_ubootenv_set(): through any number of calls that complete,    *)
(* the environment can be read, unless an entry has filled it to its last  *)
(* cell, and holds for every variable what was last set, unless the last   *)
(* entry was unset; and whichever call was cut short at whichever block,   *)
(* what can be read is the environment before it or after it.              *)
THEOREM EnvironmentSound == FlashSpec => []EnvSound
<1>1. EnvInv /\ FwInv => EnvSound
  <2> SUFFICES ASSUME EnvInv, FwInv
               PROVE  EnvSound
    OBVIOUS
  <2>1. env.data \in Text /\ Len(env.data) = EnvSize /\ Last(env.data) = env.data[EnvSize]
    BY TextFacts DEF EnvInv, EnvTypes
  <2>2. setter.block \in Blocks \union {0}
    <3>1. setter \in Call \/ setter = NoCall
      BY DEF EnvInv, EnvTypes
    <3>2. setter \in Call => setter.block \in Blocks
      BY DEF Call
    <3>3. NoCall.block = 0
      BY DEF NoCall
    <3> QED
      BY <3>1, <3>2, <3>3
  <2>3. FlashTypeOK
    BY <2>1, <2>2 DEF FlashTypeOK, EnvInv, EnvTypes, FwInv, FwTypes, Upgrade
  <2>4. ASSUME setter = NoCall, ~torn
        PROVE  env.crc = env.data /\ Whole(env.data, wanted) /\ EndsWell(env.data)
    <3>1. ~Busy
      BY <2>4 DEF Busy, NoCall
    <3> QED
      BY <2>4, <3>1 DEF EnvInv, InOrder, Sound
  <2>5. EnvReadable
    BY <2>1, <2>4 DEF EnvReadable, Readable, FilledUp, EndsWell
  <2>6. EnvFaithful
    <3> SUFFICES ASSUME setter = NoCall, ~torn, env.data[1] # Nul, NEW n \in Names
                 PROVE  ValueOf(env.data, n) = wanted[n]
      BY DEF EnvFaithful
    <3>1. PICK e \in 2..EnvSize + 1 : /\ Laid(env.data, e) /\ Stored(env.data, e, wanted)
                                      /\ e <= EnvSize => env.data[e] = Nul
      BY <2>4 DEF Whole
    <3> QED
      BY <2>1, <3>1, ValueFacts
  <2>7. NoMixture
    BY DEF NoMixture, Readable, EnvInv, CrcFirst
  <2> QED
    BY <2>3, <2>5, <2>6, <2>7 DEF EnvSound
<1>2. FlashInit => EnvInv /\ FwInv
  BY EnvInit, FwInit
<1>3. EnvInv /\ FwInv /\ [FlashNext]_flashvars => EnvInv' /\ FwInv'
  BY EnvStep, FwStep
<1> QED
  BY <1>1, <1>2, <1>3, PTL DEF FlashSpec

(* ezcfg_api_firmware_upgrade(): for images of any parts, shorter or       *)
(* longer than their partitions, known or not, and whichever blocks and    *)
(* parts fail, what is written of a part is in the partition it is named   *)
(* for, or in that of a part before it when there is none; and a call that *)
(* reports success has left there what fits of its last part, and nothing  *)
(* behind it.                                                              *)
THEOREM UpgradeInPlace == FlashSpec => []FirmwareInPlace
<1>1. FwInv => FirmwareInPlace
  BY DEF FwInv
<1>2. FwInv /\ [FlashNext]_flashvars => FwInv'
  BY FwStep
<1> QED
  BY <1>1, <1>2, FwInit, PTL DEF FlashSpec
=============================================================================
