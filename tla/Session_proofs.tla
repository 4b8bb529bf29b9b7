--------------------------- MODULE Session_proofs ---------------------------
(***************************************************************************)
(* Proofs about Session for any number of clients and workers, any         *)
(* scenario and any number of refused resources: locks are given back and  *)
(* never shared, what is allocated is freed, a request is answered once,   *)
(* and a call that reports success was served.                             *)
(*                                                                         *)
(* All four follow from what every script does to the actor that runs it,  *)
(* which SessionScripts_proofs has worked out.  The inductive invariant is *)
(* that every actor is somewhere in a script whose assertions fit, in a    *)
(* state the next assertion allows.                                        *)
(***************************************************************************)
EXTENDS SessionScripts_proofs

-----------------------------------------------------------------------------
(* Scripts in progress *)

(* What an actor still has to do is stored without the parts of a command  *)
(* that only documents use.                                                *)
Steps == [op : Ops, to : Words, skip : Nat]
Stored(s) == [k \in DOMAIN s |-> [op |-> s[k].op, to |-> s[k].to, skip |-> s[k].skip]]

(* From v, what is left to do, s, ends in F.                               *)
Runs(s, v, F) ==
  \E A : Fits(s, A, Nowhere) /\ v \in A[1] /\ A[Len(s) + 1] \subseteq F

(* Where the scripts begin, and how they end.                              *)
First(p) ==
  IF p \in Protocols THEN Before(p, {"auth", "uri", "proto"}, {}, {"mute", "fresh"})
  ELSE Calling(p, {}, {}, {"new"})
Final(p) == IF p \in Protocols THEN After(p, {"auth"}, {}) ELSE Over(p, {}, {})

(* What a command does depends on its operation and its word.              *)
LEMMA SameCommand ==
  ASSUME NEW c, NEW d, c.op = d.op, c.to = d.to
  PROVE  \A P, Q, S : Leads(c, P, Q, S) => Leads(d, P, Q, S)
<1>1. \A v : Fit(c, v) => Fit(d, v)
  BY DEF Fit
<1>2. \A v : Onwards(c, v) = Onwards(d, v)
  BY DEF Onwards
<1>3. \A v : Skips(c, v) = Skips(d, v)
  BY DEF Skips
<1> QED
  BY <1>1, <1>2, <1>3 DEF Leads

(* A stored script fits the assertions of the script.                      *)
LEMMA StoredFits ==
  ASSUME NEW s \in Seq(Commands), NEW A, NEW E, Fits(s, A, E)
  PROVE  /\ Stored(s) \in Seq(Steps) /\ Len(Stored(s)) = Len(s)
         /\ Fits(Stored(s), A, E)
<1>1. PICK n \in Nat : n = Len(s)
  OBVIOUS
<1>2. DOMAIN s = 1 .. n /\ \A i \in 1 .. n : s[i].op \in Ops /\ s[i].to \in Words /\ s[i].skip \in Nat
  BY <1>1, CommandOf
<1>3. PICK t : t = Stored(s)
  OBVIOUS
<1>4. t = [k \in 1 .. n |-> [op |-> s[k].op, to |-> s[k].to, skip |-> s[k].skip]]
  BY <1>2, <1>3 DEF Stored
<1>5. \A i \in 1 .. n : t[i] \in Steps /\ t[i].op = s[i].op /\ t[i].to = s[i].to /\ t[i].skip = s[i].skip
  BY <1>2, <1>4 DEF Steps
<1>6. t \in [1 .. n -> Steps]
  BY <1>4, <1>5
<1>7. t \in Seq(Steps) /\ Len(t) = n
  BY <1>6
<1>8. A \in [1 .. n + 1 -> Assertions]
  BY <1>1 DEF Fits
<1>9. ASSUME NEW i \in 1 .. n
      PROVE  /\ i + t[i].skip <= n + 1
             /\ Leads(t[i], A[i], A[i + 1], IF t[i].skip = 0 THEN E[t[i].op] ELSE A[i + t[i].skip])
  <2>1. /\ i + s[i].skip <= n + 1
        /\ Leads(s[i], A[i], A[i + 1], IF s[i].skip = 0 THEN E[s[i].op] ELSE A[i + s[i].skip])
    BY <1>1 DEF Fits
  <2>2. Leads(t[i], A[i], A[i + 1], IF s[i].skip = 0 THEN E[s[i].op] ELSE A[i + s[i].skip])
    BY <2>1, <1>5, SameCommand
  <2> QED
    BY <2>1, <2>2, <1>5
<1>10. Fits(t, A, E)
  BY <1>7, <1>8, <1>9 DEF Fits
<1> QED
  BY <1>1, <1>3, <1>7, <1>10

(* The last commands of a script run from the assertion before them.       *)
LEMMA RunsDropped ==
  ASSUME NEW s \in Seq(Steps), NEW A, Fits(s, A, Nowhere), NEW k \in 0 .. Len(s),
         NEW t, t = SubSeq(s, k + 1, Len(s)),
         NEW v \in A[k + 1], NEW F, A[Len(s) + 1] \subseteq F
  PROVE  t \in Seq(Steps) /\ Runs(t, v, F)
<1> DEFINE E == Nowhere
<1> HIDE DEF E
<1>e. E = Nowhere
  BY DEF E
<1>1. PICK n \in Nat : n = Len(s)
  OBVIOUS
<1>k. k \in 0 .. n /\ n - k \in Nat
  BY <1>1
<1>2. PICK m \in Nat : m = n - k
  BY <1>k
<1>3. t = SubSeq(s, k + 1, n) /\ k \in Nat /\ k <= n /\ n = m + k
  BY <1>1, <1>2, <1>k
<1>4. Len(t) = m /\ \A i \in 1 .. m : t[i] = s[i + k]
  BY <1>1, <1>3
<1>5. t \in Seq(Steps)
  <2>0. \A i \in 1 .. n : s[i] \in Steps
    BY <1>1
  <2>1. k + 1 \in Int /\ n \in Int /\ \A i \in k + 1 .. n : s[i] \in Steps
    BY <2>0, <1>3
  <2>2. SubSeq(s, k + 1, n) \in Seq(Steps)
    BY <2>1, SubSeqProperties
  <2> QED
    BY <2>2, <1>3
<1> DEFINE B == [i \in 1 .. m + 1 |-> A[i + k]]
<1>6. \A i \in 1 .. m + 1 : B[i] = A[i + k]
  OBVIOUS
<1>7. A \in [1 .. n + 1 -> Assertions]
  BY <1>1 DEF Fits
<1>8. B \in [1 .. m + 1 -> Assertions]
  BY <1>3, <1>7
<1> HIDE DEF B
<1>9. ASSUME NEW i \in 1 .. m
      PROVE  /\ i + t[i].skip <= m + 1
             /\ Leads(t[i], B[i], B[i + 1], IF t[i].skip = 0 THEN E[t[i].op] ELSE B[i + t[i].skip])
  <2>1. i + k \in 1 .. n
    BY <1>3
  <2>2. s[i + k] \in Steps
    BY <1>1, <2>1
  <2>3. PICK j \in Nat : j = s[i + k].skip
    BY <2>2 DEF Steps
  <2>4. /\ (i + k) + j <= n + 1
        /\ Leads(s[i + k], A[i + k], A[(i + k) + 1], IF j = 0 THEN E[s[i + k].op] ELSE A[(i + k) + j])
    <3>1. PICK l \in 1 .. n : l = i + k
      BY <2>1
    <3>2. /\ l + s[l].skip <= n + 1
          /\ Leads(s[l], A[l], A[l + 1], IF s[l].skip = 0 THEN E[s[l].op] ELSE A[l + s[l].skip])
      BY <1>1, <1>e DEF Fits
    <3> QED
      BY <2>3, <3>1, <3>2
  <2>5. i + j <= m + 1 /\ i \in 1 .. m + 1 /\ i + 1 \in 1 .. m + 1 /\ i + j \in 1 .. m + 1
    <3>1. (i + k) + j <= n + 1 /\ n = m + k /\ k \in Nat
      BY <1>3, <2>4
    <3> QED
      BY <3>1
  <2>6. B[i] = A[i + k] /\ B[i + 1] = A[(i + k) + 1] /\ B[i + j] = A[(i + k) + j]
    <3>1. (i + 1) + k = (i + k) + 1 /\ (i + j) + k = (i + k) + j
      BY <1>3
    <3> QED
      BY <3>1, <2>5, <1>6
  <2>7. t[i] = s[i + k]
    BY <1>4
  <2>8. t[i].skip = j
    BY <2>3, <2>7
  <2>9. Leads(t[i], A[i + k], A[(i + k) + 1], IF j = 0 THEN E[t[i].op] ELSE A[(i + k) + j])
    BY <2>4, <2>7
  <2>10. Leads(t[i], B[i], B[i + 1], IF j = 0 THEN E[t[i].op] ELSE B[i + j])
    BY <2>6, <2>9
  <2>11. i + t[i].skip <= m + 1
    BY <2>5, <2>8
  <2>12. Leads(t[i], B[i], B[i + 1], IF t[i].skip = 0 THEN E[t[i].op] ELSE B[i + t[i].skip])
    BY <2>8, <2>10
  <2> QED
    BY <2>11, <2>12
<1>10. Fits(t, B, E)
  BY <1>4, <1>8, <1>9 DEF Fits
<1>11. B[1] = A[k + 1] /\ B[m + 1] = A[n + 1]
  BY <1>3, <1>6
<1> QED
  BY <1>1, <1>4, <1>5, <1>10, <1>11 DEF Runs, E

(* A step of a script: what it asks for is so, and what is left to do      *)
(* after it runs from the view it leads to.                                *)
LEMMA Moves ==
  ASSUME NEW s \in Seq(Steps), s # <<>>, NEW v, NEW F, Runs(s, v, F),
         NEW c, c = Head(s)
  PROVE  /\ c \in Steps /\ Fit(c, v) /\ v \in Views
         /\ Tail(s) \in Seq(Steps)
         /\ \A w \in Onwards(c, v) : Runs(Tail(s), w, F)
         /\ \A w \in Skips(c, v) :
              /\ c.skip # 0
              /\ SubSeq(s, c.skip + 1, Len(s)) \in Seq(Steps)
              /\ Runs(SubSeq(s, c.skip + 1, Len(s)), w, F)
<1>1. PICK A : Fits(s, A, Nowhere) /\ v \in A[1] /\ A[Len(s) + 1] \subseteq F
  BY DEF Runs
<1>2. PICK n \in Nat : n = Len(s)
  OBVIOUS
<1>3. n >= 1 /\ c = s[1] /\ c \in Steps
  BY <1>2
<1>4. PICK k \in Nat : k = c.skip
  BY <1>3 DEF Steps
<1>5. /\ 1 + k <= n + 1
      /\ Leads(c, A[1], A[2], IF k = 0 THEN Nowhere[c.op] ELSE A[1 + k])
  BY <1>1, <1>2, <1>3, <1>4 DEF Fits
<1>6. /\ Fit(c, v) /\ Onwards(c, v) \subseteq A[2]
      /\ Skips(c, v) \subseteq IF k = 0 THEN Nowhere[c.op] ELSE A[1 + k]
  BY <1>1, <1>5 DEF Leads
<1>7. v \in Views
  BY <1>1, <1>2 DEF Fits, Assertions
<1>8. ASSUME NEW j \in 0 .. n, NEW w \in A[j + 1]
      PROVE  SubSeq(s, j + 1, n) \in Seq(Steps) /\ Runs(SubSeq(s, j + 1, n), w, F)
  <2>1. PICK t : t = SubSeq(s, j + 1, Len(s))
    OBVIOUS
  <2>2. j \in 0 .. Len(s)
    BY <1>2
  <2>3. t \in Seq(Steps) /\ Runs(t, w, F)
    BY <2>1, <2>2, <1>1, RunsDropped
  <2> QED
    BY <1>2, <2>1, <2>3
<1>9. Tail(s) = SubSeq(s, 1 + 1, n)
  BY <1>2, <1>3
<1>10. ASSUME NEW w \in Onwards(c, v) PROVE Runs(Tail(s), w, F)
  <2>1. w \in A[1 + 1] /\ 1 \in 0 .. n
    BY <1>6, <1>3
  <2> QED
    BY <2>1, <1>8, <1>9
<1>11. ASSUME NEW w \in Skips(c, v)
       PROVE  /\ k # 0 /\ SubSeq(s, k + 1, n) \in Seq(Steps)
              /\ Runs(SubSeq(s, k + 1, n), w, F)
  <2>1. k # 0
    BY <1>6, <1>3 DEF Nowhere, Via, Steps
  <2>2. w \in A[k + 1] /\ k \in 0 .. n
    BY <2>1, <1>5, <1>6
  <2> QED
    BY <2>1, <2>2, <1>8
<1> QED
  BY <1>2, <1>3, <1>4, <1>6, <1>7, <1>10, <1>11

(* Nothing is left to do.                                                  *)
LEMMA RunsEnds ==
  ASSUME NEW v, NEW F, Runs(<<>>, v, F)
  PROVE  v \in F
<1>1. Len(<<>>) + 1 = 1
  OBVIOUS
<1> QED
  BY <1>1 DEF Runs

(* What the others do to a view.                                           *)
LEMMA RunsDisturbed ==
  ASSUME NEW s \in Seq(Steps), NEW v, NEW F, Runs(s, v, F), NEW w \in Disturbed(v)
  PROVE  Runs(s, w, F) /\ v \in Views
<1>1. PICK A : Fits(s, A, Nowhere) /\ v \in A[1] /\ A[Len(s) + 1] \subseteq F
  BY DEF Runs
<1>2. PICK n \in Nat : n = Len(s)
  OBVIOUS
<1>3. A[1] \in Assertions
  BY <1>1, <1>2 DEF Fits
<1>4. w \in A[1] /\ v \in Views
  BY <1>1, <1>3 DEF Assertions
<1> QED
  BY <1>1, <1>4 DEF Runs

(* No jump goes beyond the end of what is left to do.                      *)
LEMMA RunsInside ==
  ASSUME NEW s \in Seq(Steps), NEW v, NEW F, Runs(s, v, F), NEW i \in DOMAIN s
  PROVE  s[i].skip <= Len(s)
<1>1. PICK n \in Nat : n = Len(s)
  OBVIOUS
<1>2. i \in 1 .. n /\ s[i].skip \in Nat
  <2>1. i \in 1 .. n /\ s[i] \in Steps
    BY <1>1
  <2> QED
    BY <2>1 DEF Steps
<1>3. i + s[i].skip <= n + 1
  BY <1>1, <1>2 DEF Runs, Fits
<1> QED
  BY <1>1, <1>2, <1>3

(* Every job runs its script to the end.                                   *)
LEMMA ScriptRuns ==
  ASSUME NEW p \in Protocols \union Calls
  PROVE  /\ Stored(Script(p)) \in Seq(Steps)
         /\ \A v \in First(p) : Runs(Stored(Script(p)), v, Final(p))
<1>1. Does(First(p), Script(p), Final(p), Nowhere)
  <2>1. CASE p \in Protocols
    BY <2>1, RoutineDoes DEF First, Final, Script
  <2>2. CASE p \in Calls /\ p \notin Protocols
    BY <2>2, ApiReturns DEF First, Final, Script, Returns
  <2> QED
    BY <2>1, <2>2
<1>2. PICK s : s = Script(p)
  OBVIOUS
<1>3. /\ s \in Seq(Commands)
      /\ \E A : Fits(s, A, Nowhere) /\ First(p) \subseteq A[1] /\ A[Len(s) + 1] = Final(p)
  BY <1>1, <1>2 DEF Does
<1>4. PICK A : Fits(s, A, Nowhere) /\ First(p) \subseteq A[1] /\ A[Len(s) + 1] = Final(p)
  BY <1>3
<1>5. Stored(s) \in Seq(Steps) /\ Len(Stored(s)) = Len(s) /\ Fits(Stored(s), A, Nowhere)
  BY <1>3, <1>4, StoredFits
<1> QED
  BY <1>2, <1>4, <1>5 DEF Runs

-----------------------------------------------------------------------------
(* What an actor knows *)

(* The flags of an actor's own record: an unset realm counts as trouble.   *)
Raised(r) ==
  {x \in {"ret", "failed", "trouble"} : \/ x = "ret" /\ r.ret
                                        \/ x = "failed" /\ r.failed
                                        \/ x = "trouble" /\ (r.trouble \/ r.unset)}
(* What a client asked for was done, when that is what an answer means.    *)
Served(r) == r.job \in Remote => r.served
(* An answer to the client of worker w, if it has one, would be true.      *)
Earned(f, w) == f[w].peer # None => Served(f[f[w].peer])
(* The flags that depend on the peer, in the states f of the actors.       *)
Around(f, a) ==
  {x \in {"served", "good", "linked"} :
     \/ x = "served" /\ a \in Workers /\ f[a].served
     \/ x = "good" /\ (a \in Clients \/ Earned(f, a))
     \/ x = "linked" /\ a \in Clients /\ (f[a].peer # None \/ f[a].reply # None)}
Seen(r, around) ==
  [own |-> r.own, held |-> r.held, is |-> Raised(r) \union around,
   answers |-> r.answers, job |-> r.job, reply |-> r.reply]
View(f, a) == Seen(f[a], Around(f, a))

Jobs == Protocols \union Calls
Records ==
  [job : Jobs \union {None}, todo : Seq(Steps), failed : BOOLEAN, trouble : BOOLEAN,
   unset : BOOLEAN, ret : BOOLEAN, own : SUBSET Words, held : SUBSET Locks, answers : Nat,
   calls : Asked \union {None}, peer : Actors \union {None, Pending},
   reply : Replies \union {None}, served : BOOLEAN]

-----------------------------------------------------------------------------
(* The inductive invariant, of the states f of the actors and the taken    *)
(* locks S *)

(* An actor without a job has nothing.                                     *)
Resting(f) ==
  \A a \in Actors : f[a].job = None =>
    /\ f[a].todo = <<>> /\ f[a].held = {} /\ f[a].own = {}
    /\ f[a].answers = 0 /\ f[a].peer = None
(* Workers speak protocols, with a client that asked for one of them; the  *)
(* client, while it is in the call, is connected to that worker.           *)
Linked(f) ==
  /\ \A w \in Workers :
       /\ f[w].job \in Protocols \union {None}
       /\ f[w].peer \in Clients \union {None}
       /\ f[w].peer # None => /\ f[w].job \in Asked
                              /\ f[f[w].peer].job = None \/ f[f[w].peer].peer = w
  /\ \A c \in Clients :
       /\ f[c].job \in Calls \union {None}
       /\ f[c].peer \in Workers \union {None, Pending}
       /\ f[c].peer = Pending => f[c].calls \in Asked /\ f[c].reply = None
       /\ f[c].reply = "done" => Served(f[c])
(* Every lock that is held is taken, by one.                               *)
Holding(f, S) ==
  /\ S \subseteq Locks
  /\ \A a \in Actors : f[a].held \subseteq S
  /\ \A a, b \in Actors : a # b => f[a].held \intersect f[b].held = {}
(* Every actor is somewhere in the script of its job.                      *)
Follows(f, a) ==
  f[a].job # None => Runs(f[a].todo, View(f, a), Final(f[a].job))

Sound(f, S) ==
  /\ f \in [Actors -> Records]
  /\ Resting(f) /\ Linked(f) /\ Holding(f, S)
  /\ \A a \in Actors : Follows(f, a)

Inv == Sound(act, sem)

-----------------------------------------------------------------------------
(* Steps *)

(* The fields of a record.                                                 *)
LEMMA RecordOf ==
  ASSUME NEW r \in Records
  PROVE  /\ r.job \in Jobs \union {None} /\ r.todo \in Seq(Steps)
         /\ r.failed \in BOOLEAN /\ r.trouble \in BOOLEAN /\ r.unset \in BOOLEAN /\ r.ret \in BOOLEAN
         /\ r.own \in SUBSET Words /\ r.held \in SUBSET Locks /\ r.answers \in Nat
         /\ r.calls \in Asked \union {None} /\ r.peer \in Actors \union {None, Pending}
         /\ r.reply \in Replies \union {None} /\ r.served \in BOOLEAN
BY DEF Records

(* Names that are different, and none.                                     *)
LEMMA Distinct ==
  /\ Clients \intersect Workers = {}
  /\ Actors = Clients \union Workers
  /\ None \notin Actors /\ Pending \notin Actors /\ None # Pending
  /\ None \notin Jobs /\ None \notin Replies /\ None \notin Asked
  /\ Asked \subseteq Protocols /\ Protocols \intersect Calls = {}
  /\ Jobs = Protocols \union Calls
<1>1. None \notin Jobs /\ None \notin Replies /\ None \notin Asked /\ None # Pending
  BY DEF None, Pending, Jobs, Protocols, Calls, Replies, Asked
<1>2. Asked \subseteq Protocols /\ Protocols \intersect Calls = {}
  BY DEF Asked, Protocols, Calls
<1>3. /\ Clients \intersect Workers = {}
      /\ None \notin Actors /\ Pending \notin Actors
  BY SessionAssumption
<1> QED
  BY <1>1, <1>2, <1>3 DEF Jobs, Actors

(* The view that is left when one part of it changes.                      *)
LEMMA SeenParts ==
  ASSUME NEW r, NEW X
  PROVE  /\ Seen(r, X).own = r.own /\ Seen(r, X).held = r.held /\ Seen(r, X).answers = r.answers
         /\ Seen(r, X).job = r.job /\ Seen(r, X).reply = r.reply
         /\ Seen(r, X).is = Raised(r) \union X
BY DEF Seen

(* Views of two records that differ in one part.                           *)
LEMMA SeenChanges ==
  ASSUME NEW r, NEW s, NEW X, s.job = r.job, s.reply = r.reply
  PROVE  /\ s.own = r.own /\ s.held = r.held /\ s.answers = r.answers
              => \A Y : Seen(s, Y) = [Seen(r, X) EXCEPT !.is = Raised(s) \union Y]
         /\ Raised(s) = Raised(r) /\ s.held = r.held /\ s.answers = r.answers
              => Seen(s, X) = [Seen(r, X) EXCEPT !.own = s.own]
         /\ Raised(s) = Raised(r) /\ s.own = r.own /\ s.answers = r.answers
              => Seen(s, X) = [Seen(r, X) EXCEPT !.held = s.held]
         /\ Raised(s) = Raised(r) /\ s.own = r.own /\ s.held = r.held
              => Seen(s, X) = [Seen(r, X) EXCEPT !.answers = s.answers]
<1>1. ASSUME s.own = r.own, s.held = r.held, s.answers = r.answers
      PROVE  \A Y : Seen(s, Y) = [Seen(r, X) EXCEPT !.is = Raised(s) \union Y]
  BY <1>1 DEF Seen
<1>2. ASSUME Raised(s) = Raised(r), s.held = r.held, s.answers = r.answers
      PROVE  Seen(s, X) = [Seen(r, X) EXCEPT !.own = s.own]
  <2>1. PICK Z : Z = Raised(r) \union X
    OBVIOUS
  <2>2. Seen(r, X) = [own |-> r.own, held |-> r.held, is |-> Z, answers |-> r.answers,
                      job |-> r.job, reply |-> r.reply]
    BY <2>1, Zenon DEF Seen
  <2>3. Seen(s, X) = [own |-> s.own, held |-> s.held, is |-> Z, answers |-> s.answers,
                      job |-> s.job, reply |-> s.reply]
    BY <2>1, <1>2, Zenon DEF Seen
  <2> QED
    BY <1>2, <2>2, <2>3
<1>3. ASSUME Raised(s) = Raised(r), s.own = r.own, s.answers = r.answers
      PROVE  Seen(s, X) = [Seen(r, X) EXCEPT !.held = s.held]
  <2>1. PICK Z : Z = Raised(r) \union X
    OBVIOUS
  <2>2. Seen(r, X) = [own |-> r.own, held |-> r.held, is |-> Z, answers |-> r.answers,
                      job |-> r.job, reply |-> r.reply]
    BY <2>1, Zenon DEF Seen
  <2>3. Seen(s, X) = [own |-> s.own, held |-> s.held, is |-> Z, answers |-> s.answers,
                      job |-> s.job, reply |-> s.reply]
    BY <2>1, <1>3, Zenon DEF Seen
  <2> QED
    BY <1>3, <2>2, <2>3
<1>4. ASSUME Raised(s) = Raised(r), s.own = r.own, s.held = r.held
      PROVE  Seen(s, X) = [Seen(r, X) EXCEPT !.answers = s.answers]
  <2>1. PICK Z : Z = Raised(r) \union X
    OBVIOUS
  <2>2. Seen(r, X) = [own |-> r.own, held |-> r.held, is |-> Z, answers |-> r.answers,
                      job |-> r.job, reply |-> r.reply]
    BY <2>1, Zenon DEF Seen
  <2>3. Seen(s, X) = [own |-> s.own, held |-> s.held, is |-> Z, answers |-> s.answers,
                      job |-> s.job, reply |-> s.reply]
    BY <2>1, <1>4, Zenon DEF Seen
  <2> QED
    BY <1>4, <2>2, <2>3
<1> QED
  BY <1>1, <1>2, <1>3, <1>4

(* The surroundings of an actor whose record becomes r, when its links     *)
(* stay.                                                                   *)
LEMMA OwnView ==
  ASSUME NEW f \in [Actors -> Records], NEW a \in Actors, NEW r \in Records,
         NEW g, g = [f EXCEPT ![a] = r], Linked(f),
         r.job = f[a].job, r.peer = f[a].peer, r.reply = f[a].reply, r.served = f[a].served
  PROVE  Around(g, a) = Around(f, a) /\ View(g, a) = Seen(r, Around(f, a))
<1>1. g[a] = r /\ \A b \in Actors : b # a => g[b] = f[b]
  OBVIOUS
<1>2. Earned(g, a) = Earned(f, a)
  BY <1>1 DEF Earned, Served
<1>3. Around(g, a) = Around(f, a)
  BY <1>1, <1>2 DEF Around
<1> QED
  BY <1>1, <1>3 DEF View

(* The view of an actor that is not disturbed.                             *)
LEMMA SameView ==
  ASSUME NEW f \in [Actors -> Records], NEW g \in [Actors -> Records], NEW b \in Actors,
         Linked(f), g[b] = f[b],
         \A c \in Clients : g[c].job = f[c].job /\ g[c].served = f[c].served
  PROVE  View(g, b) = View(f, b)
<1>1. CASE b \in Clients
  <2>1. Around(g, b) = Around(f, b)
    BY <1>1, Distinct DEF Around
  <2> QED
    BY <2>1 DEF View
<1>2. CASE b \in Workers
  <2>1. f[b].peer \in Clients \union {None}
    BY <1>2 DEF Linked
  <2>2. Earned(g, b) <=> Earned(f, b)
    BY <2>1 DEF Earned, Served
  <2>3. Around(g, b) = Around(f, b)
    BY <2>2 DEF Around
  <2> QED
    BY <2>3 DEF View
<1> QED
  BY <1>1, <1>2, Distinct

(* What links an actor to others stays.                                    *)
SameLinks(r, q) ==
  /\ r.job = q.job /\ r.calls = q.calls /\ r.peer = q.peer
  /\ r.reply = q.reply /\ r.served = q.served

(* A step of one actor that leaves its links alone.                        *)
LEMMA Alone ==
  ASSUME NEW f, NEW S, Sound(f, S), NEW a \in Actors, f[a].job # None,
         NEW r \in Records, SameLinks(r, f[a]), NEW g, g = [f EXCEPT ![a] = r],
         NEW T, Holding(g, T),
         Runs(r.todo, Seen(r, Around(f, a)), Final(f[a].job))
  PROVE  Sound(g, T)
<1>1. /\ f \in [Actors -> Records] /\ Resting(f) /\ Linked(f)
      /\ \A b \in Actors : Follows(f, b)
  BY DEF Sound
<1>2. g \in [Actors -> Records] /\ g[a] = r /\ \A b \in Actors : b # a => g[b] = f[b]
  BY <1>1
<1>3. \A b \in Actors : SameLinks(g[b], f[b])
  BY <1>2 DEF SameLinks
<1>4. Resting(g)
  BY <1>1, <1>2 DEF Resting, SameLinks
<1>5. Linked(g)
  <2>1. \A b \in Clients \union Workers :
          /\ g[b].job = f[b].job /\ g[b].calls = f[b].calls /\ g[b].peer = f[b].peer
          /\ g[b].reply = f[b].reply /\ g[b].served = f[b].served
    BY <1>3, Distinct DEF SameLinks
  <2>2. ASSUME NEW w \in Workers
        PROVE  /\ g[w].job \in Protocols \union {None}
               /\ g[w].peer \in Clients \union {None}
               /\ g[w].peer # None => /\ g[w].job \in Asked
                                      /\ g[g[w].peer].job = None \/ g[g[w].peer].peer = w
    <3>1. /\ f[w].job \in Protocols \union {None}
          /\ f[w].peer \in Clients \union {None}
          /\ f[w].peer # None => /\ f[w].job \in Asked
                                 /\ f[f[w].peer].job = None \/ f[f[w].peer].peer = w
      BY <1>1 DEF Linked
    <3>2. PICK b : b = f[w].peer /\ b = g[w].peer
      BY <2>1
    <3>3. b # None => g[b].job = f[b].job /\ g[b].peer = f[b].peer
      BY <2>1, <3>1, <3>2
    <3> QED
      BY <2>1, <3>1, <3>2, <3>3
  <2>3. ASSUME NEW c \in Clients
        PROVE  /\ g[c].job \in Calls \union {None}
               /\ g[c].peer \in Workers \union {None, Pending}
               /\ g[c].peer = Pending => g[c].calls \in Asked /\ g[c].reply = None
               /\ g[c].reply = "done" => Served(g[c])
    BY <2>1, <1>1 DEF Linked, Served
  <2> QED
    BY <2>2, <2>3 DEF Linked
<1>6. ASSUME NEW b \in Actors PROVE Follows(g, b)
  <2>1. CASE b = a
    <3>1. View(g, a) = Seen(r, Around(f, a))
      BY <1>1, OwnView DEF SameLinks
    <3>2. g[a].todo = r.todo /\ g[a].job = f[a].job
      BY <1>2 DEF SameLinks
    <3> QED
      BY <2>1, <3>1, <3>2 DEF Follows
  <2>2. CASE b # a
    <3>1. g[b] = f[b] /\ \A c \in Clients : g[c].job = f[c].job /\ g[c].served = f[c].served
      BY <2>2, <1>2, <1>3, Distinct DEF SameLinks
    <3>2. View(g, b) = View(f, b)
      BY <3>1, <1>1, <1>2, SameView
    <3> QED
      BY <3>1, <3>2, <1>1 DEF Follows
  <2> QED
    BY <2>1, <2>2
<1> QED
  BY <1>2, <1>4, <1>5, <1>6 DEF Sound

(* It takes no lock and gives none back.                                   *)
LEMMA HeldSame ==
  ASSUME NEW f \in [Actors -> Records], NEW S, Holding(f, S), NEW a \in Actors,
         NEW r, r.held = f[a].held, NEW g, g = [f EXCEPT ![a] = r]
  PROVE  Holding(g, S)
<1>1. \A b \in Actors : g[b].held = f[b].held
  OBVIOUS
<1> QED
  BY <1>1 DEF Holding

(* The actor a is about to run a command.                                  *)
LEMMA CommandNext ==
  ASSUME NEW f, NEW S, Sound(f, S), NEW a \in Actors, f[a].todo # <<>>,
         NEW c, c = Head(f[a].todo)
  PROVE  /\ f[a] \in Records /\ f[a].job \in Jobs
         /\ c \in Steps /\ c.to \in Words
         /\ View(f, a) \in Views /\ Fit(c, View(f, a))
         /\ Tail(f[a].todo) \in Seq(Steps)
         /\ \A w \in Onwards(c, View(f, a)) : Runs(Tail(f[a].todo), w, Final(f[a].job))
         /\ \A w \in Skips(c, View(f, a)) :
              /\ c.skip # 0
              /\ SubSeq(f[a].todo, c.skip + 1, Len(f[a].todo)) \in Seq(Steps)
              /\ Runs(SubSeq(f[a].todo, c.skip + 1, Len(f[a].todo)), w, Final(f[a].job))
<1>1. f[a] \in Records
  BY DEF Sound
<1>2. f[a].job # None
  BY DEF Sound, Resting
<1>3. f[a].job \in Jobs /\ f[a].todo \in Seq(Steps)
  BY <1>1, <1>2, RecordOf
<1>4. Runs(f[a].todo, View(f, a), Final(f[a].job))
  BY <1>2 DEF Sound, Follows
<1>5. PICK s : s = f[a].todo
  OBVIOUS
<1>6. PICK v, F : v = View(f, a) /\ F = Final(f[a].job)
  OBVIOUS
<1>7. s \in Seq(Steps) /\ s # <<>> /\ Runs(s, v, F) /\ c = Head(s)
  BY <1>3, <1>4, <1>5, <1>6
<1>8. /\ c \in Steps /\ Fit(c, v) /\ v \in Views
      /\ Tail(s) \in Seq(Steps)
      /\ \A w \in Onwards(c, v) : Runs(Tail(s), w, F)
      /\ \A w \in Skips(c, v) :
           /\ c.skip # 0
           /\ SubSeq(s, c.skip + 1, Len(s)) \in Seq(Steps)
           /\ Runs(SubSeq(s, c.skip + 1, Len(s)), w, F)
  BY <1>7, Moves
<1>9. c.to \in Words
  BY <1>8 DEF Steps
<1> QED
  BY <1>1, <1>3, <1>5, <1>6, <1>8, <1>9

-----------------------------------------------------------------------------
(* The steps of Session keep the invariant: those of one actor alone *)

(* What is left to do after a condition that does not hold.                *)
Beyond(a) ==
  IF Command(a).skip = 0 THEN <<>>
  ELSE SubSeq(act[a].todo, Command(a).skip + 1, Len(act[a].todo))

(* A record with something else to do.                                     *)
LEMMA OtherTodo ==
  ASSUME NEW q \in Records, NEW s \in Seq(Steps), NEW r, r = [q EXCEPT !.todo = s]
  PROVE  /\ r \in Records /\ SameLinks(r, q) /\ r.todo = s
         /\ r.own = q.own /\ r.held = q.held /\ r.answers = q.answers
         /\ r.failed = q.failed /\ r.trouble = q.trouble /\ r.unset = q.unset /\ r.ret = q.ret
BY DEF Records, SameLinks

(* The actor runs its command, to where it may lead.                       *)
LEMMA Stepped ==
  ASSUME Inv, NEW a \in Actors, Busy(a), NEW r \in Records, SameLinks(r, act[a]),
         act' = [act EXCEPT ![a] = r], Holding(act', sem'),
         \/ /\ r.todo = Tail(act[a].todo)
            /\ Seen(r, Around(act, a)) \in Onwards(Command(a), View(act, a))
         \/ /\ r.todo = Beyond(a)
            /\ Seen(r, Around(act, a)) \in Skips(Command(a), View(act, a))
  PROVE  Inv'
<1>1. /\ Sound(act, sem) /\ act[a].todo # <<>>
  BY DEF Inv, Busy
<1>2. PICK c : c = Head(act[a].todo)
  OBVIOUS
<1>3. /\ act[a].job \in Jobs
      /\ \A w \in Onwards(c, View(act, a)) : Runs(Tail(act[a].todo), w, Final(act[a].job))
      /\ \A w \in Skips(c, View(act, a)) :
           /\ c.skip # 0
           /\ Runs(SubSeq(act[a].todo, c.skip + 1, Len(act[a].todo)), w, Final(act[a].job))
  BY <1>1, <1>2, CommandNext
<1>4. Runs(r.todo, Seen(r, Around(act, a)), Final(act[a].job))
  BY <1>2, <1>3 DEF Command, Beyond
<1>5. act[a].job # None
  BY <1>3, Distinct
<1>6. Sound(act', sem')
  BY <1>1, <1>4, <1>5, Alone
<1> QED
  BY <1>6 DEF Inv

(* The same, for commands that are not about locks.                        *)
LEMMA SteppedPrivate ==
  ASSUME Inv, NEW a \in Actors, Busy(a), NEW r \in Records, SameLinks(r, act[a]),
         act' = [act EXCEPT ![a] = r], sem' = sem, r.held = act[a].held,
         \/ /\ r.todo = Tail(act[a].todo)
            /\ Seen(r, Around(act, a)) \in Onwards(Command(a), View(act, a))
         \/ /\ r.todo = Beyond(a)
            /\ Seen(r, Around(act, a)) \in Skips(Command(a), View(act, a))
  PROVE  Inv'
<1>1. act \in [Actors -> Records] /\ Holding(act, sem)
  BY DEF Inv, Sound
<1>2. Holding(act', sem)
  BY <1>1, HeldSame
<1> QED
  BY <1>2, Stepped

(* The record after a command that only moves on.                          *)
LEMMA OnwardIs ==
  ASSUME Inv, NEW a \in Actors, Busy(a), NEW r, r = Onward(a)
  PROVE  /\ r \in Records /\ SameLinks(r, act[a]) /\ r.todo = Tail(act[a].todo)
         /\ r.own = act[a].own /\ r.held = act[a].held /\ r.answers = act[a].answers
         /\ r.failed = act[a].failed /\ r.trouble = act[a].trouble /\ r.unset = act[a].unset /\ r.ret = act[a].ret
         /\ Raised(r) = Raised(act[a]) /\ \A X : Seen(r, X) = Seen(act[a], X)
<1>1. PICK c : c = Head(act[a].todo)
  OBVIOUS
<1>2. Sound(act, sem) /\ act[a].todo # <<>>
  BY DEF Inv, Busy
<1>3. act[a] \in Records /\ Tail(act[a].todo) \in Seq(Steps)
  BY <1>1, <1>2, CommandNext
<1>4. PICK s \in Seq(Steps) : s = Tail(act[a].todo)
  BY <1>3
<1>5. r = [act[a] EXCEPT !.todo = s]
  BY <1>4 DEF Onward
<1>6. /\ r \in Records /\ SameLinks(r, act[a]) /\ r.todo = s
      /\ r.own = act[a].own /\ r.held = act[a].held /\ r.answers = act[a].answers
      /\ r.failed = act[a].failed /\ r.trouble = act[a].trouble /\ r.unset = act[a].unset /\ r.ret = act[a].ret
  BY <1>3, <1>5, OtherTodo
<1>7. Raised(r) = Raised(act[a])
  BY <1>6 DEF Raised
<1>8. \A X : Seen(r, X) = Seen(act[a], X)
  BY <1>6, <1>7 DEF Seen, SameLinks
<1> QED
  BY <1>4, <1>6, <1>7, <1>8

(* The record after a jump.                                                *)
LEMMA SkippingIs ==
  ASSUME Inv, NEW a \in Actors, Busy(a), NEW r, r = Skipping(a),
         NEW w \in Skips(Command(a), View(act, a))
  PROVE  /\ r \in Records /\ SameLinks(r, act[a]) /\ r.todo = Beyond(a)
         /\ r.own = act[a].own /\ r.held = act[a].held /\ r.answers = act[a].answers
         /\ r.failed = act[a].failed /\ r.trouble = act[a].trouble /\ r.unset = act[a].unset /\ r.ret = act[a].ret
         /\ Raised(r) = Raised(act[a]) /\ \A X : Seen(r, X) = Seen(act[a], X)
<1>1. PICK c : c = Head(act[a].todo)
  OBVIOUS
<1>2. Sound(act, sem) /\ act[a].todo # <<>>
  BY DEF Inv, Busy
<1>3. /\ act[a] \in Records /\ c.skip # 0
      /\ SubSeq(act[a].todo, c.skip + 1, Len(act[a].todo)) \in Seq(Steps)
  BY <1>1, <1>2, CommandNext DEF Command
<1>4. PICK s \in Seq(Steps) : s = SubSeq(act[a].todo, c.skip + 1, Len(act[a].todo))
  BY <1>3
<1>5. r = [act[a] EXCEPT !.todo = s]
  BY <1>1, <1>3, <1>4 DEF Skipping, Command
<1>6. /\ r \in Records /\ SameLinks(r, act[a]) /\ r.todo = s
      /\ r.own = act[a].own /\ r.held = act[a].held /\ r.answers = act[a].answers
      /\ r.failed = act[a].failed /\ r.trouble = act[a].trouble /\ r.unset = act[a].unset /\ r.ret = act[a].ret
  BY <1>3, <1>5, OtherTodo
<1>7. Raised(r) = Raised(act[a])
  BY <1>6 DEF Raised
<1>8. \A X : Seen(r, X) = Seen(act[a], X)
  BY <1>6, <1>7 DEF Seen, SameLinks
<1>9. s = Beyond(a)
  BY <1>1, <1>3, <1>4 DEF Beyond, Command
<1> QED
  BY <1>6, <1>7, <1>8, <1>9

(* A step that only moves on, or only jumps.                               *)
LEMMA MovesOn ==
  ASSUME Inv, NEW a \in Actors, Busy(a), Private,
         \/ Becomes(a, Onward(a)) /\ View(act, a) \in Onwards(Command(a), View(act, a))
         \/ Becomes(a, Skipping(a)) /\ View(act, a) \in Skips(Command(a), View(act, a))
  PROVE  Inv'
<1>1. sem' = sem
  BY DEF Private
<1>2. CASE /\ Becomes(a, Onward(a)) /\ View(act, a) \in Onwards(Command(a), View(act, a))
  <2>1. PICK r : r = Onward(a)
    OBVIOUS
  <2>2. /\ r \in Records /\ SameLinks(r, act[a]) /\ r.todo = Tail(act[a].todo)
        /\ r.held = act[a].held /\ Seen(r, Around(act, a)) = View(act, a)
    BY <2>1, OnwardIs DEF View
  <2> QED
    BY <1>1, <1>2, <2>1, <2>2, SteppedPrivate DEF Becomes
<1>3. CASE /\ Becomes(a, Skipping(a)) /\ View(act, a) \in Skips(Command(a), View(act, a))
  <2>1. PICK r : r = Skipping(a)
    OBVIOUS
  <2>2. /\ r \in Records /\ SameLinks(r, act[a]) /\ r.todo = Beyond(a)
        /\ r.held = act[a].held /\ Seen(r, Around(act, a)) = View(act, a)
    BY <1>3, <2>1, SkippingIs DEF View
  <2> QED
    BY <1>1, <1>3, <2>1, <2>2, SteppedPrivate DEF Becomes
<1> QED
  BY <1>2, <1>3

(* The next command of an actor.                                           *)
LEMMA CommandFits ==
  ASSUME Inv, NEW a \in Actors, Busy(a)
  PROVE  /\ act[a] \in Records /\ act[a].job \in Jobs /\ Command(a).to \in Words
         /\ View(act, a) \in Views /\ Fit(Command(a), View(act, a))
<1>1. Sound(act, sem) /\ act[a].todo # <<>>
  BY DEF Inv, Busy
<1> QED
  BY <1>1, CommandNext DEF Command

(* Conditions that the script leaves open, jumps, and reads.               *)
LEMMA DecideKeeps == ASSUME Inv, NEW a \in Actors, Decide(a) PROVE Inv'
<1>1. Busy(a) /\ Command(a).op = "test" /\ Private /\ (Becomes(a, Onward(a)) \/ Becomes(a, Skipping(a)))
  BY DEF Decide, Is
<1>2. \A v : v \in Onwards(Command(a), v) /\ v \in Skips(Command(a), v)
  BY <1>1 DEF Onwards, Skips
<1> QED
  BY <1>1, <1>2, MovesOn

(* A jump to the end of a function, or out of it.                          *)
LEMMA JumpKeeps == ASSUME Inv, NEW a \in Actors, Jump(a) PROVE Inv'
<1>1. Busy(a) /\ Command(a).op \in {"jump", "return"} /\ Private /\ Becomes(a, Skipping(a))
  BY DEF Jump, Is
<1>2. \A v : v \in Skips(Command(a), v)
  BY <1>1 DEF Skips
<1> QED
  BY <1>1, <1>2, MovesOn

(* The request line is used.                                               *)
LEMMA UseTextKeeps == ASSUME Inv, NEW a \in Actors, UseText(a) PROVE Inv'
<1>1. Busy(a) /\ Command(a).op = "use" /\ Private /\ Becomes(a, Onward(a))
  BY DEF UseText, Is
<1>2. \A v : v \in Onwards(Command(a), v)
  BY <1>1 DEF Onwards
<1> QED
  BY <1>1, <1>2, MovesOn

(* The daemon's semaphores are there.                                      *)
LEMMA FindSemaphoresKeeps == ASSUME Inv, NEW a \in Actors, FindSemaphores(a) PROVE Inv'
<1>1. Busy(a) /\ Command(a).op = "semget" /\ Private /\ Becomes(a, Onward(a))
  BY DEF FindSemaphores, Is
<1>2. \A v : v \in Onwards(Command(a), v)
  BY <1>1 DEF Onwards
<1> QED
  BY <1>1, <1>2, MovesOn

(* Is there an object?                                                     *)
LEMMA LookForTextKeeps == ASSUME Inv, NEW a \in Actors, LookForText(a) PROVE Inv'
<1>1. /\ Busy(a) /\ Command(a).op = "have" /\ Private
      /\ Becomes(a, IF Command(a).to \in act[a].own THEN Onward(a) ELSE Skipping(a))
  BY DEF LookForText, Is
<1>2. View(act, a).own = act[a].own
  BY SeenParts DEF View
<1>3. \A v : /\ Command(a).to \in v.own => v \in Onwards(Command(a), v)
             /\ Command(a).to \notin v.own => v \in Skips(Command(a), v)
  BY <1>1 DEF Onwards, Skips
<1> QED
  BY <1>1, <1>2, <1>3, MovesOn

(* The result of a function is tested.                                     *)
LEMMA TestRetKeeps == ASSUME Inv, NEW a \in Actors, TestRet(a) PROVE Inv'
<1>1. /\ Busy(a) /\ Command(a).op = "needret" /\ Private
      /\ Becomes(a, IF act[a].ret THEN Onward(a) ELSE Skipping(a))
  BY DEF TestRet, Is
<1>2. "ret" \in View(act, a).is <=> act[a].ret
  <2>1. View(act, a).is = Raised(act[a]) \union Around(act, a)
    BY SeenParts DEF View
  <2>2. "ret" \in Raised(act[a]) <=> act[a].ret
    BY DEF Raised
  <2>3. "ret" \notin Around(act, a)
    BY DEF Around
  <2> QED
    BY <2>1, <2>2, <2>3
<1>3. \A v : /\ "ret" \in v.is => v \in Onwards(Command(a), v)
             /\ "ret" \notin v.is => v \in Skips(Command(a), v)
  BY <1>1 DEF Onwards, Skips
<1> QED
  BY <1>1, <1>2, <1>3, MovesOn

(* A record with another flag.                                             *)
LEMMA OtherFlag ==
  ASSUME NEW q \in Records, NEW b \in BOOLEAN, NEW r,
         r \in {[q EXCEPT !.failed = b], [q EXCEPT !.trouble = b],
                [q EXCEPT !.unset = b], [q EXCEPT !.ret = b]}
  PROVE  /\ r \in Records /\ SameLinks(r, q) /\ r.todo = q.todo
         /\ r.own = q.own /\ r.held = q.held /\ r.answers = q.answers
BY DEF Records, SameLinks

(* The flags of such a record.                                             *)
LEMMA FlagsRaised ==
  ASSUME NEW q \in Records
  PROVE  /\ Raised([q EXCEPT !.failed = TRUE]) = Raised(q) \union {"failed"}
         /\ Raised([q EXCEPT !.trouble = TRUE]) = Raised(q) \union {"trouble"}
         /\ Raised([q EXCEPT !.unset = TRUE]) = Raised(q) \union {"trouble"}
         /\ Raised([q EXCEPT !.ret = TRUE]) = Raised(q) \union {"ret"}
         /\ Raised([q EXCEPT !.failed = FALSE]) = Raised(q) \ {"failed"}
         /\ Raised([q EXCEPT !.ret = FALSE]) = Raised(q) \ {"ret"}
<1>1. Raised([q EXCEPT !.failed = TRUE]) = Raised(q) \union {"failed"}
  BY DEF Raised, Records
<1>2. Raised([q EXCEPT !.trouble = TRUE]) = Raised(q) \union {"trouble"}
  BY DEF Raised, Records
<1>3. Raised([q EXCEPT !.ret = TRUE]) = Raised(q) \union {"ret"}
  BY DEF Raised, Records
<1>4. Raised([q EXCEPT !.failed = FALSE]) = Raised(q) \ {"failed"}
  BY DEF Raised, Records
<1>5. Raised([q EXCEPT !.ret = FALSE]) = Raised(q) \ {"ret"}
  BY DEF Raised, Records
<1>6. Raised([q EXCEPT !.unset = TRUE]) = Raised(q) \union {"trouble"}
  BY DEF Raised, Records
<1> QED
  BY <1>1, <1>2, <1>3, <1>4, <1>5, <1>6

(* A step that changes flags.                                              *)
LEMMA FlagStep ==
  ASSUME Inv, NEW a \in Actors, Busy(a), NEW r \in Records, SameLinks(r, act[a]),
         r.own = act[a].own, r.held = act[a].held, r.answers = act[a].answers,
         act' = [act EXCEPT ![a] = r], sem' = sem,
         NEW F, F = Raised(r) \union Around(act, a),
         \/ /\ r.todo = Tail(act[a].todo)
            /\ [View(act, a) EXCEPT !.is = F] \in Onwards(Command(a), View(act, a))
         \/ /\ r.todo = Beyond(a)
            /\ [View(act, a) EXCEPT !.is = F] \in Skips(Command(a), View(act, a))
  PROVE  Inv'
<1>0. PICK q : q = act[a]
  OBVIOUS
<1>1. PICK X : q = act[a] /\ X = Around(act, a)
  BY <1>0
<1>2. r.job = q.job /\ r.reply = q.reply /\ r.own = q.own /\ r.held = q.held /\ r.answers = q.answers
  BY <1>1 DEF SameLinks
<1>3. Seen(r, X) = [Seen(q, X) EXCEPT !.is = Raised(r) \union X]
  BY <1>2, SeenChanges
<1>4. Seen(r, Around(act, a)) = [View(act, a) EXCEPT !.is = F]
  BY <1>1, <1>3 DEF View
<1> QED
  BY <1>4, SteppedPrivate

(* The flags of a view.                                                    *)
LEMMA FlagsSeen ==
  ASSUME NEW f, NEW a
  PROVE  /\ View(f, a).is = Raised(f[a]) \union Around(f, a)
         /\ \A x \in {"ret", "failed", "trouble"} : x \notin Around(f, a)
         /\ "ret" \in View(f, a).is <=> "ret" \in Raised(f[a])
<1>1. View(f, a).is = Raised(f[a]) \union Around(f, a)
  BY SeenParts DEF View
<1>2. \A x \in {"ret", "failed", "trouble"} : x \notin Around(f, a)
  BY DEF Around
<1> QED
  BY <1>1, <1>2

(* The failure of a call inside is forgiven.                               *)
LEMMA ForgivingKeeps == ASSUME Inv, NEW a \in Actors, Forgiving(a) PROVE Inv'
<1>1. PICK q : q = Onward(a)
  OBVIOUS
<1>2. PICK r : r = [q EXCEPT !.failed = FALSE]
  OBVIOUS
<1>3. /\ Busy(a) /\ Command(a).op = "forgive" /\ sem' = sem
      /\ act' = [act EXCEPT ![a] = r]
  BY <1>1, <1>2 DEF Forgiving, Is, Private, Becomes
<1>4. /\ q \in Records /\ SameLinks(q, act[a]) /\ q.todo = Tail(act[a].todo)
      /\ q.own = act[a].own /\ q.held = act[a].held /\ q.answers = act[a].answers
      /\ Raised(q) = Raised(act[a])
  BY <1>1, <1>3, OnwardIs
<1>5. /\ r \in Records /\ SameLinks(r, q) /\ r.todo = q.todo
      /\ r.own = q.own /\ r.held = q.held /\ r.answers = q.answers
  BY <1>2, <1>4, OtherFlag
<1>6. PICK F : F = Raised(r) \union Around(act, a)
  OBVIOUS
<1>7. F = View(act, a).is \ {"failed"}
  <2>1. Raised(r) = Raised(act[a]) \ {"failed"}
    BY <1>2, <1>4, FlagsRaised
  <2>2. View(act, a).is = Raised(act[a]) \union Around(act, a) /\ "failed" \notin Around(act, a)
    BY FlagsSeen
  <2> QED
    BY <1>6, <2>1, <2>2
<1>8. [View(act, a) EXCEPT !.is = F] \in Onwards(Command(a), View(act, a))
  BY <1>3, <1>7 DEF Onwards
<1>9. SameLinks(r, act[a])
  BY <1>4, <1>5 DEF SameLinks
<1> QED
  BY <1>3, <1>4, <1>5, <1>6, <1>8, <1>9, FlagStep

(* The result of a function is set, at random or by a call.                *)
LEMMA AssignRetKeeps == ASSUME Inv, NEW a \in Actors, AssignRet(a) PROVE Inv'
<1>1. Busy(a) /\ sem' = sem
  BY DEF AssignRet, Is, Private
<1>2. ASSUME NEW q, NEW b \in BOOLEAN, Becomes(a, [q EXCEPT !.ret = b]),
             q \in Records, SameLinks(q, act[a]),
             q.own = act[a].own, q.held = act[a].held, q.answers = act[a].answers,
             Raised(q) = Raised(act[a]),
             NEW F, F = (IF b THEN View(act, a).is \union {"ret"} ELSE View(act, a).is \ {"ret"}),
             \/ /\ q.todo = Tail(act[a].todo)
                /\ [View(act, a) EXCEPT !.is = F] \in Onwards(Command(a), View(act, a))
             \/ /\ q.todo = Beyond(a)
                /\ [View(act, a) EXCEPT !.is = F] \in Skips(Command(a), View(act, a))
      PROVE  Inv'
  <2>1. PICK r : r = [q EXCEPT !.ret = b]
    OBVIOUS
  <2>2. /\ r \in Records /\ SameLinks(r, q) /\ r.todo = q.todo
        /\ r.own = q.own /\ r.held = q.held /\ r.answers = q.answers
    BY <1>2, <2>1, OtherFlag
  <2>3. F = Raised(r) \union Around(act, a)
    <3>1. Raised(r) = IF b THEN Raised(act[a]) \union {"ret"} ELSE Raised(act[a]) \ {"ret"}
      BY <1>2, <2>1, FlagsRaised
    <3>2. View(act, a).is = Raised(act[a]) \union Around(act, a) /\ "ret" \notin Around(act, a)
      BY FlagsSeen
    <3>3. CASE b
      BY <1>2, <3>1, <3>2, <3>3
    <3>4. CASE ~b
      BY <1>2, <3>1, <3>2, <3>4
    <3> QED
      BY <3>3, <3>4
  <2>4. SameLinks(r, act[a])
    BY <1>2, <2>2 DEF SameLinks
  <2> QED
    BY <1>1, <1>2, <2>1, <2>2, <2>3, <2>4, FlagStep DEF Becomes
<1>3. CASE Command(a).op = "setret"
  <2>1. PICK b \in BOOLEAN : /\ Becomes(a, [Onward(a) EXCEPT !.ret = b])
                             /\ b => Command(a).to = "any"
    BY <1>3 DEF AssignRet, Is
  <2>2. PICK F : F = (IF b THEN View(act, a).is \union {"ret"} ELSE View(act, a).is \ {"ret"})
    OBVIOUS
  <2>3. [View(act, a) EXCEPT !.is = F] \in Onwards(Command(a), View(act, a))
    BY <1>3, <2>1, <2>2 DEF Onwards
  <2>4. PICK q : q = Onward(a)
    OBVIOUS
  <2>5. /\ q \in Records /\ SameLinks(q, act[a]) /\ q.todo = Tail(act[a].todo)
        /\ q.own = act[a].own /\ q.held = act[a].held /\ q.answers = act[a].answers
        /\ Raised(q) = Raised(act[a])
    BY <1>1, <2>4, OnwardIs
  <2> QED
    BY <1>2, <2>1, <2>2, <2>3, <2>4, <2>5
<1>4. CASE Command(a).op = "callret" /\ Becomes(a, [Onward(a) EXCEPT !.ret = TRUE])
  <2>1. PICK F : F = View(act, a).is \union {"ret"}
    OBVIOUS
  <2>2. [View(act, a) EXCEPT !.is = F] \in Onwards(Command(a), View(act, a))
    BY <1>4, <2>1 DEF Onwards
  <2>3. PICK q : q = Onward(a)
    OBVIOUS
  <2>4. /\ q \in Records /\ SameLinks(q, act[a]) /\ q.todo = Tail(act[a].todo)
        /\ q.own = act[a].own /\ q.held = act[a].held /\ q.answers = act[a].answers
        /\ Raised(q) = Raised(act[a])
    BY <1>1, <2>3, OnwardIs
  <2> QED
    BY <1>2, <1>4, <2>1, <2>2, <2>3, <2>4
<1>5. CASE Command(a).op = "callret" /\ Becomes(a, [Skipping(a) EXCEPT !.ret = FALSE])
  <2>1. PICK F : F = View(act, a).is \ {"ret"}
    OBVIOUS
  <2>2. [View(act, a) EXCEPT !.is = F] \in Skips(Command(a), View(act, a))
    BY <1>5, <2>1 DEF Skips
  <2>3. PICK q : q = Skipping(a)
    OBVIOUS
  <2>4. /\ q \in Records /\ SameLinks(q, act[a]) /\ q.todo = Beyond(a)
        /\ q.own = act[a].own /\ q.held = act[a].held /\ q.answers = act[a].answers
        /\ Raised(q) = Raised(act[a])
    BY <1>1, <2>2, <2>3, SkippingIs
  <2> QED
    BY <1>2, <1>5, <2>1, <2>2, <2>3, <2>4
<1>6. \/ Command(a).op = "setret"
      \/ Command(a).op = "callret" /\ \/ Becomes(a, [Onward(a) EXCEPT !.ret = TRUE])
                                      \/ Becomes(a, [Skipping(a) EXCEPT !.ret = FALSE])
  BY DEF AssignRet, Is
<1> QED
  BY <1>3, <1>4, <1>5, <1>6

(* The other side has refused.                                             *)
LEMMA RefusedKeeps ==
  ASSUME Inv, NEW a \in Actors, Busy(a), Command(a).op \in {"receive", "expect", "never"},
         sem' = sem, Becomes(a, Refused(a))
  PROVE  Inv'
<1>1. PICK F : F = View(act, a).is \union {"failed"}
  OBVIOUS
<1>2. [View(act, a) EXCEPT !.is = F] \in Skips(Command(a), View(act, a))
  BY <1>1 DEF Skips
<1>3. PICK q : q = Skipping(a)
  OBVIOUS
<1>4. /\ q \in Records /\ SameLinks(q, act[a]) /\ q.todo = Beyond(a)
      /\ q.own = act[a].own /\ q.held = act[a].held /\ q.answers = act[a].answers
      /\ Raised(q) = Raised(act[a])
  BY <1>2, <1>3, SkippingIs
<1>5. PICK r : r = [q EXCEPT !.failed = TRUE]
  OBVIOUS
<1>6. /\ r \in Records /\ SameLinks(r, q) /\ r.todo = q.todo
      /\ r.own = q.own /\ r.held = q.held /\ r.answers = q.answers
  BY <1>4, <1>5, OtherFlag
<1>7. F = Raised(r) \union Around(act, a)
  <2>1. Raised(r) = Raised(act[a]) \union {"failed"}
    BY <1>4, <1>5, FlagsRaised
  <2>2. View(act, a).is = Raised(act[a]) \union Around(act, a)
    BY FlagsSeen
  <2> QED
    BY <1>1, <2>1, <2>2
<1>8. SameLinks(r, act[a])
  BY <1>4, <1>6 DEF SameLinks
<1>9. act' = [act EXCEPT ![a] = r]
  BY <1>3, <1>5 DEF Becomes, Refused
<1> QED
  BY <1>2, <1>4, <1>6, <1>7, <1>8, <1>9, FlagStep

(* A resource is refused.                                                  *)
LEMMA FailsKeeps ==
  ASSUME Inv, NEW a \in Actors, Busy(a), Command(a).op \in {"alloc", "take", "connect"}, Fails(a)
  PROVE  Inv'
<1>1. PICK F : F = View(act, a).is \union {"failed", "trouble"}
  OBVIOUS
<1>2. [View(act, a) EXCEPT !.is = F] \in Skips(Command(a), View(act, a))
  BY <1>1 DEF Skips
<1>3. PICK q : q = Skipping(a)
  OBVIOUS
<1>4. /\ q \in Records /\ SameLinks(q, act[a]) /\ q.todo = Beyond(a)
      /\ q.own = act[a].own /\ q.held = act[a].held /\ q.answers = act[a].answers
      /\ Raised(q) = Raised(act[a])
  BY <1>2, <1>3, SkippingIs
<1>5. PICK p : p = [q EXCEPT !.failed = TRUE]
  OBVIOUS
<1>6. /\ p \in Records /\ SameLinks(p, q) /\ p.todo = q.todo
      /\ p.own = q.own /\ p.held = q.held /\ p.answers = q.answers
  BY <1>4, <1>5, OtherFlag
<1>7. PICK r : r = [p EXCEPT !.trouble = TRUE]
  OBVIOUS
<1>8. /\ r \in Records /\ SameLinks(r, p) /\ r.todo = p.todo
      /\ r.own = p.own /\ r.held = p.held /\ r.answers = p.answers
  BY <1>6, <1>7, OtherFlag
<1>9. F = Raised(r) \union Around(act, a)
  <2>1. Raised(p) = Raised(act[a]) \union {"failed"} /\ Raised(r) = Raised(p) \union {"trouble"}
    BY <1>4, <1>5, <1>6, <1>7, FlagsRaised
  <2>2. View(act, a).is = Raised(act[a]) \union Around(act, a)
    BY FlagsSeen
  <2> QED
    BY <1>1, <2>1, <2>2
<1>10. SameLinks(r, act[a])
  BY <1>4, <1>6, <1>8 DEF SameLinks
<1>11. act' = [act EXCEPT ![a] = r] /\ sem' = sem
  BY <1>3, <1>5, <1>7 DEF Becomes, Refused, Fails
<1> QED
  BY <1>2, <1>4, <1>6, <1>8, <1>9, <1>10, <1>11, FlagStep

(* The realm is looked for.                                                *)
LEMMA LookForRealmKeeps == ASSUME Inv, NEW a \in Actors, LookForRealm(a) PROVE Inv'
<1>1. /\ Busy(a) /\ Command(a).op = "realm" /\ Private
      /\ Becomes(a, Onward(a)) \/ Becomes(a, [Skipping(a) EXCEPT !.unset = TRUE])
  BY DEF LookForRealm, Is
<1>2. CASE Becomes(a, Onward(a))
  <2>1. \A v : v \in Onwards(Command(a), v)
    BY <1>1 DEF Onwards
  <2> QED
    BY <1>1, <1>2, <2>1, MovesOn
<1>3. CASE Becomes(a, [Skipping(a) EXCEPT !.unset = TRUE])
  <2>1. PICK F : F = View(act, a).is \union {"trouble"}
    OBVIOUS
  <2>2. [View(act, a) EXCEPT !.is = F] \in Skips(Command(a), View(act, a))
    BY <1>1, <2>1 DEF Skips
  <2>3. PICK q : q = Skipping(a)
    OBVIOUS
  <2>4. /\ q \in Records /\ SameLinks(q, act[a]) /\ q.todo = Beyond(a)
        /\ q.own = act[a].own /\ q.held = act[a].held /\ q.answers = act[a].answers
        /\ Raised(q) = Raised(act[a])
    BY <1>1, <2>2, <2>3, SkippingIs
  <2>5. PICK r : r = [q EXCEPT !.unset = TRUE]
    OBVIOUS
  <2>6. /\ r \in Records /\ SameLinks(r, q) /\ r.todo = q.todo
        /\ r.own = q.own /\ r.held = q.held /\ r.answers = q.answers
    BY <2>4, <2>5, OtherFlag
  <2>7. F = Raised(r) \union Around(act, a)
    <3>1. Raised(r) = Raised(act[a]) \union {"trouble"}
      BY <2>4, <2>5, FlagsRaised
    <3>2. View(act, a).is = Raised(act[a]) \union Around(act, a)
      BY FlagsSeen
    <3> QED
      BY <2>1, <3>1, <3>2
  <2>8. SameLinks(r, act[a])
    BY <2>4, <2>6 DEF SameLinks
  <2>9. act' = [act EXCEPT ![a] = r] /\ sem' = sem
    BY <1>1, <1>3, <2>3, <2>5 DEF Becomes, Private
  <2> QED
    BY <1>1, <2>2, <2>4, <2>6, <2>7, <2>8, <2>9, FlagStep
<1> QED
  BY <1>1, <1>2, <1>3

(* What always fails.                                                      *)
LEMMA AlwaysFailsKeeps == ASSUME Inv, NEW a \in Actors, AlwaysFails(a) PROVE Inv'
BY RefusedKeeps DEF AlwaysFails, Is, Private

(* A record with other objects, or other locks.                            *)
LEMMA OtherOwn ==
  ASSUME NEW q \in Records, NEW O, O \subseteq Words, NEW r, r = [q EXCEPT !.own = O]
  PROVE  /\ r \in Records /\ SameLinks(r, q) /\ r.todo = q.todo /\ r.own = O
         /\ r.held = q.held /\ r.answers = q.answers /\ Raised(r) = Raised(q)
<1>1. /\ r \in Records /\ SameLinks(r, q) /\ r.todo = q.todo /\ r.own = O
      /\ r.held = q.held /\ r.answers = q.answers
  BY DEF Records, SameLinks
<1>2. r.ret = q.ret /\ r.failed = q.failed /\ r.trouble = q.trouble /\ r.unset = q.unset
  BY DEF Records
<1> QED
  BY <1>1, <1>2 DEF Raised

(* The same for the locks.                                                 *)
LEMMA OtherHeld ==
  ASSUME NEW q \in Records, NEW H, H \subseteq Locks, NEW r, r = [q EXCEPT !.held = H]
  PROVE  /\ r \in Records /\ SameLinks(r, q) /\ r.todo = q.todo /\ r.held = H
         /\ r.own = q.own /\ r.answers = q.answers /\ Raised(r) = Raised(q)
<1>1. /\ r \in Records /\ SameLinks(r, q) /\ r.todo = q.todo /\ r.held = H
      /\ r.own = q.own /\ r.answers = q.answers
  BY DEF Records, SameLinks
<1>2. r.ret = q.ret /\ r.failed = q.failed /\ r.trouble = q.trouble /\ r.unset = q.unset
  BY DEF Records
<1> QED
  BY <1>1, <1>2 DEF Raised

(* A command that changes the objects.                                     *)
LEMMA OwnStep ==
  ASSUME Inv, NEW a \in Actors, Busy(a), NEW O \in SUBSET Words,
         Becomes(a, [Onward(a) EXCEPT !.own = O]), sem' = sem,
         [View(act, a) EXCEPT !.own = O] \in Onwards(Command(a), View(act, a))
  PROVE  Inv'
<1>1. PICK q : q = Onward(a)
  OBVIOUS
<1>2. /\ q \in Records /\ SameLinks(q, act[a]) /\ q.todo = Tail(act[a].todo)
      /\ q.held = act[a].held /\ q.answers = act[a].answers
      /\ Raised(q) = Raised(act[a])
  BY <1>1, OnwardIs
<1>3. PICK r : r = [q EXCEPT !.own = O]
  OBVIOUS
<1>4. /\ r \in Records /\ SameLinks(r, q) /\ r.todo = q.todo /\ r.own = O
      /\ r.held = q.held /\ r.answers = q.answers /\ Raised(r) = Raised(q)
  <2>1. q \in Records /\ O \subseteq Words
    BY <1>2
  <2> QED
    BY ONLY <2>1, <1>3, OtherOwn
<1>5. SameLinks(r, act[a]) /\ r.job = act[a].job /\ r.reply = act[a].reply
  BY <1>2, <1>4 DEF SameLinks
<1>6. Seen(r, Around(act, a)) = [Seen(act[a], Around(act, a)) EXCEPT !.own = r.own]
  BY <1>2, <1>4, <1>5, SeenChanges
<1>7. Seen(r, Around(act, a)) \in Onwards(Command(a), View(act, a))
  BY <1>4, <1>6 DEF View
<1>8. act' = [act EXCEPT ![a] = r]
  BY <1>1, <1>3 DEF Becomes
<1> QED
  BY <1>2, <1>4, <1>5, <1>7, <1>8, SteppedPrivate

(* An object is allocated.                                                 *)
LEMMA AllocateKeeps == ASSUME Inv, NEW a \in Actors, Allocate(a) PROVE Inv'
<1>1. Busy(a) /\ Command(a).op \in {"alloc", "own"}
  BY DEF Allocate, Is
<1>2. act[a] \in Records /\ Command(a).to \in Words
  BY <1>1, CommandFits
<1>3. CASE /\ Becomes(a, [Onward(a) EXCEPT !.own = @ \union ({Command(a).to} \ {None})])
           /\ Private
  <2>1. Onward(a).own = act[a].own
    BY <1>1, OnwardIs
  <2>2. PICK O : O = act[a].own \union ({Command(a).to} \ {None})
    OBVIOUS
  <2>3. O \in SUBSET Words
    BY <1>2, <2>2, RecordOf
  <2>4. Becomes(a, [Onward(a) EXCEPT !.own = O])
    BY <1>3, <2>1, <2>2
  <2>5. View(act, a).own = act[a].own
    BY SeenParts DEF View
  <2>6. [View(act, a) EXCEPT !.own = O] \in Onwards(Command(a), View(act, a))
    BY <1>1, <2>2, <2>5 DEF Onwards
  <2>7. sem' = sem
    BY <1>3 DEF Private
  <2> QED
    BY <1>1, <2>3, <2>4, <2>6, <2>7, OwnStep
<1>4. CASE Command(a).op = "alloc" /\ Fails(a)
  BY <1>1, <1>4, FailsKeeps
<1> QED
  BY <1>3, <1>4 DEF Allocate, Is

(* An object is freed.                                                     *)
LEMMA FreeObjectKeeps == ASSUME Inv, NEW a \in Actors, FreeObject(a) PROVE Inv'
<1>1. /\ Busy(a) /\ Command(a).op = "free" /\ sem' = sem
      /\ Becomes(a, [Onward(a) EXCEPT !.own = @ \ {Command(a).to}])
  BY DEF FreeObject, Is, Private
<1>2. act[a] \in Records
  BY <1>1, CommandFits
<1>3. Onward(a).own = act[a].own
  BY <1>1, OnwardIs
<1>4. PICK O : O = act[a].own \ {Command(a).to}
  OBVIOUS
<1>5. O \in SUBSET Words
  BY <1>2, <1>4, RecordOf
<1>6. Becomes(a, [Onward(a) EXCEPT !.own = O])
  BY <1>1, <1>3, <1>4
<1>7. View(act, a).own = act[a].own
  BY SeenParts DEF View
<1>8. [View(act, a) EXCEPT !.own = O] \in Onwards(Command(a), View(act, a))
  BY <1>1, <1>4, <1>7 DEF Onwards
<1> QED
  BY <1>1, <1>5, <1>6, <1>8, OwnStep

(* A command that changes the locks.                                       *)
LEMMA HeldStep ==
  ASSUME Inv, NEW a \in Actors, Busy(a), NEW H \in SUBSET Locks,
         Becomes(a, [Onward(a) EXCEPT !.held = H]),
         sem' \subseteq Locks, H \subseteq sem',
         \A b \in Actors : b # a => act[b].held \subseteq sem' /\ act[b].held \intersect H = {},
         [View(act, a) EXCEPT !.held = H] \in Onwards(Command(a), View(act, a))
  PROVE  Inv'
<1>1. PICK q : q = Onward(a)
  OBVIOUS
<1>2. /\ q \in Records /\ SameLinks(q, act[a]) /\ q.todo = Tail(act[a].todo)
      /\ q.own = act[a].own /\ q.answers = act[a].answers
      /\ Raised(q) = Raised(act[a])
  BY <1>1, OnwardIs
<1>3. PICK r : r = [q EXCEPT !.held = H]
  OBVIOUS
<1>4. /\ r \in Records /\ SameLinks(r, q) /\ r.todo = q.todo /\ r.held = H
      /\ r.own = q.own /\ r.answers = q.answers /\ Raised(r) = Raised(q)
  <2>1. q \in Records /\ H \subseteq Locks
    BY <1>2
  <2> QED
    BY ONLY <2>1, <1>3, OtherHeld
<1>5. SameLinks(r, act[a]) /\ r.job = act[a].job /\ r.reply = act[a].reply
  BY <1>2, <1>4 DEF SameLinks
<1>6. Seen(r, Around(act, a)) = [Seen(act[a], Around(act, a)) EXCEPT !.held = r.held]
  BY <1>2, <1>4, <1>5, SeenChanges
<1>7. Seen(r, Around(act, a)) \in Onwards(Command(a), View(act, a))
  BY <1>4, <1>6 DEF View
<1>8. act' = [act EXCEPT ![a] = r]
  BY <1>1, <1>3 DEF Becomes
<1>9. Holding(act', sem')
  <2>1. act \in [Actors -> Records] /\ Holding(act, sem)
    BY DEF Inv, Sound
  <2>2. \A b \in Actors : act'[b].held = IF b = a THEN H ELSE act[b].held
    BY <1>4, <1>8, <2>1
  <2> QED
    BY <2>1, <2>2 DEF Holding
<1> QED
  BY <1>2, <1>4, <1>5, <1>7, <1>8, <1>9, Stepped

(* A mutex or a semaphore is taken.                                        *)
LEMMA AcquireKeeps == ASSUME Inv, NEW a \in Actors, Acquire(a) PROVE Inv'
<1>1. Busy(a) /\ Command(a).op \in {"lock", "take"}
  BY DEF Acquire, Is
<1>2. PICK s : s = Command(a).to
  OBVIOUS
<1>3. act[a] \in Records /\ s \in Locks
  BY <1>1, <1>2, CommandFits DEF Fit
<1>4. Holding(act, sem)
  BY DEF Inv, Sound
<1>5. CASE /\ s \notin sem /\ sem' = sem \union {s}
           /\ Becomes(a, [Onward(a) EXCEPT !.held = @ \union {s}])
  <2>1. Onward(a).held = act[a].held
    BY <1>1, OnwardIs
  <2>2. PICK H : H = act[a].held \union {s}
    OBVIOUS
  <2>3. H \in SUBSET Locks
    BY <1>3, <2>2, RecordOf
  <2>4. Becomes(a, [Onward(a) EXCEPT !.held = H])
    BY <1>5, <2>1, <2>2
  <2>5. View(act, a).held = act[a].held
    BY SeenParts DEF View
  <2>6. [View(act, a) EXCEPT !.held = H] \in Onwards(Command(a), View(act, a))
    BY <1>1, <1>2, <2>2, <2>5 DEF Onwards
  <2>7. sem' \subseteq Locks /\ H \subseteq sem'
    BY <1>3, <1>4, <1>5, <2>2 DEF Holding
  <2>8. \A b \in Actors : b # a => act[b].held \subseteq sem' /\ act[b].held \intersect H = {}
    BY <1>4, <1>5, <2>2 DEF Holding
  <2> QED
    BY <1>1, <2>3, <2>4, <2>6, <2>7, <2>8, HeldStep
<1>6. CASE Command(a).op = "take" /\ Fails(a)
  BY <1>1, <1>6, FailsKeeps
<1> QED
  BY <1>2, <1>5, <1>6 DEF Acquire, Is

(* It is given back.                                                       *)
LEMMA ReleaseKeeps == ASSUME Inv, NEW a \in Actors, Release(a) PROVE Inv'
<1>1. PICK s : s = Command(a).to
  OBVIOUS
<1>2. /\ Busy(a) /\ Command(a).op \in {"unlock", "give"} /\ sem' = sem \ {s}
      /\ Becomes(a, [Onward(a) EXCEPT !.held = @ \ {s}])
  BY <1>1 DEF Release, Is
<1>3. View(act, a).held = act[a].held
  BY SeenParts DEF View
<1>4. act[a] \in Records /\ s \in act[a].held
  BY <1>1, <1>2, <1>3, CommandFits DEF Fit
<1>5. Holding(act, sem)
  BY DEF Inv, Sound
<1>6. Onward(a).held = act[a].held
  BY <1>2, OnwardIs
<1>7. PICK H : H = act[a].held \ {s}
  OBVIOUS
<1>8. H \in SUBSET Locks
  BY <1>4, <1>7, RecordOf
<1>9. Becomes(a, [Onward(a) EXCEPT !.held = H])
  BY <1>2, <1>6, <1>7
<1>10. [View(act, a) EXCEPT !.held = H] \in Onwards(Command(a), View(act, a))
  BY <1>1, <1>2, <1>3, <1>7 DEF Onwards
<1>11. sem' \subseteq Locks /\ H \subseteq sem'
  BY <1>2, <1>5, <1>7 DEF Holding
<1>12. \A b \in Actors : b # a => act[b].held \subseteq sem' /\ act[b].held \intersect H = {}
  BY <1>2, <1>4, <1>5, <1>7 DEF Holding
<1> QED
  BY <1>2, <1>8, <1>9, <1>10, <1>11, <1>12, HeldStep

(* The client reads its answer.                                            *)
LEMMA ReceiveAnswerKeeps == ASSUME Inv, NEW a \in Actors, ReceiveAnswer(a) PROVE Inv'
<1>1. /\ Busy(a) /\ Command(a).op = "receive" /\ act[a].reply # None /\ Private
      /\ Becomes(a, IF act[a].reply = "closed" THEN Refused(a) ELSE Onward(a))
  BY DEF ReceiveAnswer, Is
<1>2. CASE act[a].reply = "closed"
  BY <1>1, <1>2, RefusedKeeps DEF Private
<1>3. CASE act[a].reply # "closed"
  <2>1. View(act, a).reply = act[a].reply
    BY SeenParts DEF View
  <2>2. act[a].reply \in Replies
    BY <1>1, CommandFits, RecordOf
  <2>3. View(act, a) \in Onwards(Command(a), View(act, a))
    BY <1>1, <1>3, <2>1, <2>2 DEF Onwards
  <2> QED
    BY <1>1, <1>3, <2>3, MovesOn
<1> QED
  BY <1>2, <1>3

(* It compares the answer with what it expects.                            *)
LEMMA ExpectAnswerKeeps == ASSUME Inv, NEW a \in Actors, ExpectAnswer(a) PROVE Inv'
<1>1. /\ Busy(a) /\ Command(a).op = "expect" /\ Private
      /\ Becomes(a, IF act[a].reply = Command(a).to THEN Onward(a) ELSE Refused(a))
  BY DEF ExpectAnswer, Is
<1>2. CASE act[a].reply # Command(a).to
  BY <1>1, <1>2, RefusedKeeps DEF Private
<1>3. CASE act[a].reply = Command(a).to
  <2>1. View(act, a).reply = act[a].reply
    BY SeenParts DEF View
  <2>2. View(act, a) \in Onwards(Command(a), View(act, a))
    BY <1>1, <1>3, <2>1 DEF Onwards
  <2> QED
    BY <1>1, <1>3, <2>2, MovesOn
<1> QED
  BY <1>2, <1>3

-----------------------------------------------------------------------------
(* The steps of Session keep the invariant: those of two actors *)

(* An actor that others may disturb.                                       *)
LEMMA FollowsOn ==
  ASSUME NEW f \in [Actors -> Records], NEW g \in [Actors -> Records], NEW b \in Actors,
         Follows(f, b), g[b].job = f[b].job, g[b].todo = f[b].todo,
         g[b].job # None => View(g, b) \in Disturbed(View(f, b))
  PROVE  Follows(g, b)
<1> SUFFICES ASSUME g[b].job # None
             PROVE  Runs(g[b].todo, View(g, b), Final(g[b].job))
  BY DEF Follows
<1>1. PICK s : s = f[b].todo
  OBVIOUS
<1>2. s \in Seq(Steps)
  BY <1>1, RecordOf
<1>3. PICK v : v = View(f, b)
  OBVIOUS
<1>4. PICK w : w = View(g, b)
  OBVIOUS
<1>5. PICK F : F = Final(f[b].job)
  OBVIOUS
<1>6. Runs(s, v, F) /\ w \in Disturbed(v)
  BY <1>1, <1>3, <1>4, <1>5 DEF Follows
<1>7. Runs(s, w, F)
  BY <1>2, <1>6, RunsDisturbed
<1> QED
  BY <1>1, <1>4, <1>5, <1>7

(* A worker whose client may have been served.                             *)
LEMMA WorkerView ==
  ASSUME NEW f, NEW g, NEW w \in Workers, g[w] = f[w], Earned(f, w) => Earned(g, w)
  PROVE  View(g, w) \in Disturbed(View(f, w))
<1>1. PICK X : X = Around(f, w)
  OBVIOUS
<1>2. PICK Y : Y = Around(g, w)
  OBVIOUS
<1>3. Y = X \/ Y = X \union {"good"}
  BY <1>1, <1>2 DEF Around
<1>4. PICK q : q = f[w]
  OBVIOUS
<1>5. Seen(q, Y) = [Seen(q, X) EXCEPT !.is = Raised(q) \union Y]
  BY SeenChanges
<1>6. CASE Y = X
  BY <1>1, <1>2, <1>6 DEF View, Disturbed
<1>7. CASE Y = X \union {"good"}
  <2>1. Raised(q) \union Y = Seen(q, X).is \union {"good"}
    BY <1>7, SeenParts
  <2>2. Seen(q, Y) = [Seen(q, X) EXCEPT !.is = @ \union {"good"}]
    BY <1>5, <2>1
  <2>3. Seen(q, Y) \in Disturbed(Seen(q, X))
    BY <2>2 DEF Disturbed
  <2> QED
    BY <1>1, <1>2, <1>4, <2>3 DEF View
<1> QED
  BY <1>3, <1>6, <1>7

(* What others may do to a client that waits for its answer: it is served, *)
(* and is told so.                                                         *)
Told(f, g, c) ==
  /\ g[c].job = f[c].job /\ g[c].todo = f[c].todo /\ g[c].ret = f[c].ret
  /\ g[c].failed = f[c].failed /\ g[c].trouble = f[c].trouble /\ g[c].unset = f[c].unset
  /\ g[c].own = f[c].own /\ g[c].held = f[c].held /\ g[c].answers = f[c].answers
  /\ g[c].calls = f[c].calls /\ g[c].peer = f[c].peer
  /\ f[c].served => g[c].served
  /\ \/ g[c].reply = f[c].reply
     \/ /\ f[c].reply = None /\ g[c].reply \in Replies
        /\ f[c].job # None => f[c].peer \notin {None, Pending}
        /\ f[c].job = None => f[c].peer = None
        /\ g[c].reply = "done" => Served(g[c])

(* Its view changes no more than that, when it stays linked.               *)
Heard(f, g, c) ==
  /\ g[c].job = f[c].job /\ g[c].ret = f[c].ret
  /\ g[c].failed = f[c].failed /\ g[c].trouble = f[c].trouble /\ g[c].unset = f[c].unset
  /\ g[c].own = f[c].own /\ g[c].held = f[c].held /\ g[c].answers = f[c].answers
  /\ (g[c].peer # None \/ g[c].reply # None) <=> (f[c].peer # None \/ f[c].reply # None)
  /\ g[c].reply = f[c].reply \/ (f[c].reply = None /\ g[c].reply \in Replies)

(* The view of a client that is told.                                      *)
LEMMA ClientView ==
  ASSUME NEW f \in [Actors -> Records], NEW g \in [Actors -> Records], NEW c \in Clients,
         Heard(f, g, c)
  PROVE  View(g, c) \in Disturbed(View(f, c))
<1>1. Around(g, c) = Around(f, c)
  <2>1. c \notin Workers
    BY Distinct
  <2> QED
    BY <2>1 DEF Around, Heard
<1>2. Raised(g[c]) = Raised(f[c])
  BY DEF Heard, Raised
<1>3. PICK Z : Z = Raised(f[c]) \union Around(f, c)
  OBVIOUS
<1>4. View(f, c) = [own |-> f[c].own, held |-> f[c].held, is |-> Z, answers |-> f[c].answers,
                    job |-> f[c].job, reply |-> f[c].reply]
  BY <1>3, Zenon DEF View, Seen
<1>5. View(g, c) = [own |-> f[c].own, held |-> f[c].held, is |-> Z, answers |-> f[c].answers,
                    job |-> f[c].job, reply |-> g[c].reply]
  <2>1. View(g, c) = [own |-> g[c].own, held |-> g[c].held, is |-> Z, answers |-> g[c].answers,
                      job |-> g[c].job, reply |-> g[c].reply]
    BY <1>1, <1>2, <1>3, Zenon DEF View, Seen
  <2> QED
    BY <2>1, Zenon DEF Heard
<1>6. CASE g[c].reply = f[c].reply
  BY <1>4, <1>5, <1>6 DEF Disturbed
<1>7. CASE f[c].reply = None /\ g[c].reply \in Replies
  <2>1. View(g, c) = [View(f, c) EXCEPT !.reply = g[c].reply] /\ View(f, c).reply = None
    BY <1>4, <1>5, <1>7
  <2> QED
    BY <1>7, <2>1 DEF Disturbed
<1> QED
  BY <1>6, <1>7 DEF Heard

(* A step of a worker that tells clients.                                  *)
LEMMA Together ==
  ASSUME NEW f, NEW S, Sound(f, S), NEW a \in Workers, f[a].todo # <<>>,
         NEW g \in [Actors -> Records],
         g[a].job = f[a].job, g[a].peer = f[a].peer, g[a].held = f[a].held,
         g[a].todo = Tail(f[a].todo),
         View(g, a) \in Onwards(Head(f[a].todo), View(f, a)),
         \A w \in Workers : w # a => g[w] = f[w],
         \A c \in Clients : Told(f, g, c)
  PROVE  Sound(g, S)
<1>1. /\ f \in [Actors -> Records] /\ Resting(f) /\ Linked(f) /\ Holding(f, S)
      /\ \A b \in Actors : Follows(f, b)
  BY DEF Sound
<1>2. a \in Actors /\ \A c \in Clients : c \in Actors /\ c # a
  BY Distinct
<1>3. /\ f[a].job # None
      /\ \A w \in Onwards(Head(f[a].todo), View(f, a)) :
           Runs(Tail(f[a].todo), w, Final(f[a].job))
  <2>1. f[a].job \in Jobs
    BY <1>2, CommandNext
  <2>2. \A w \in Onwards(Head(f[a].todo), View(f, a)) :
          Runs(Tail(f[a].todo), w, Final(f[a].job))
    BY <1>2, CommandNext
  <2> QED
    BY <2>1, <2>2, Distinct
<1>4. \A b \in Actors : /\ g[b].job = f[b].job /\ g[b].peer = f[b].peer /\ g[b].held = f[b].held
                        /\ b # a => g[b].todo = f[b].todo /\ g[b].own = f[b].own
                                    /\ g[b].answers = f[b].answers
  BY <1>2, Distinct DEF Told
<1>5. Resting(g)
  BY <1>1, <1>3, <1>4 DEF Resting
<1>6. Holding(g, S)
  BY <1>1, <1>4 DEF Holding
<1>7. Linked(g)
  <2>1. ASSUME NEW w \in Workers
        PROVE  /\ g[w].job \in Protocols \union {None}
               /\ g[w].peer \in Clients \union {None}
               /\ g[w].peer # None => /\ g[w].job \in Asked
                                      /\ g[g[w].peer].job = None \/ g[g[w].peer].peer = w
    <3>1. w \in Actors
      BY Distinct
    <3>2. /\ f[w].job \in Protocols \union {None}
          /\ f[w].peer \in Clients \union {None}
          /\ f[w].peer # None => /\ f[w].job \in Asked
                                 /\ f[f[w].peer].job = None \/ f[f[w].peer].peer = w
      BY <1>1 DEF Linked
    <3> QED
      BY <3>1, <3>2, <1>2, <1>4
  <2>2. ASSUME NEW c \in Clients
        PROVE  /\ g[c].job \in Calls \union {None}
               /\ g[c].peer \in Workers \union {None, Pending}
               /\ g[c].peer = Pending => g[c].calls \in Asked /\ g[c].reply = None
               /\ g[c].reply = "done" => Served(g[c])
    <3>1. /\ f[c].job \in Calls \union {None}
          /\ f[c].peer \in Workers \union {None, Pending}
          /\ f[c].peer = Pending => f[c].calls \in Asked /\ f[c].reply = None
          /\ f[c].reply = "done" => Served(f[c])
      BY <1>1 DEF Linked
    <3>2. Told(f, g, c)
      OBVIOUS
    <3> QED
      BY <3>1, <3>2, Distinct DEF Told, Served
  <2> QED
    BY <2>1, <2>2 DEF Linked
<1>8. ASSUME NEW b \in Actors PROVE Follows(g, b)
  <2>1. CASE b = a
    BY <2>1, <1>3 DEF Follows
  <2>2. CASE b \in Workers /\ b # a
    <3>1. g[b] = f[b]
      BY <2>2
    <3>2. Earned(f, b) => Earned(g, b)
      <4>1. f[b].peer \in Clients \union {None}
        BY <2>2, <1>1 DEF Linked
      <4> QED
        BY <3>1, <4>1 DEF Earned, Told, Served
    <3>3. View(g, b) \in Disturbed(View(f, b))
      BY <2>2, <3>1, <3>2, WorkerView
    <3> QED
      BY <3>1, <3>3, <1>1, FollowsOn
  <2>3. CASE b \in Clients
    <3>1. Told(f, g, b)
      BY <2>3
    <3>2. f[b].job # None => View(g, b) \in Disturbed(View(f, b))
      <4>1. f[b].job # None => Heard(f, g, b)
        BY <3>1, Distinct DEF Told, Heard
      <4> QED
        BY <2>3, <4>1, <1>1, ClientView
    <3>3. g[b].job = f[b].job /\ g[b].todo = f[b].todo
      BY <3>1 DEF Told
    <3> QED
      BY <3>2, <3>3, <1>1, FollowsOn
  <2> QED
    BY <2>1, <2>2, <2>3, Distinct
<1> QED
  BY <1>5, <1>6, <1>7, <1>8 DEF Sound

(* A worker sends something to its client.                                 *)
LEMMA Delivered ==
  ASSUME Inv, NEW a \in Workers, Busy(a), NEW what \in Replies,
         NEW r \in Records, SameLinks(r, act[a]), r.todo = Tail(act[a].todo), r.held = act[a].held,
         Seen(r, Around(act, a)) \in Onwards(Command(a), View(act, a)),
         act' = [Deliverable(a, what) EXCEPT ![a] = r], sem' = sem,
         what = "done" /\ act[a].job \in Asked => "good" \in View(act, a).is
  PROVE  Inv'
<1> DEFINE c == act[a].peer
<1>1. /\ act \in [Actors -> Records] /\ Resting(act) /\ Linked(act) /\ Sound(act, sem)
      /\ act[a].todo # <<>>
  BY DEF Inv, Sound, Busy
<1>2. a \in Actors /\ a \notin Clients /\ \A b \in Clients : b \in Actors
  BY Distinct
<1>3. c \in Clients \union {None} /\ (c # None => /\ act[a].job \in Asked
                                                  /\ act[c].job = None \/ act[c].peer = a)
  BY <1>1 DEF Linked
<1>4. c # None /\ what = "done" => Served(act[c])
  <2>1. "good" \in View(act, a).is => Earned(act, a)
    <3>1. View(act, a).is = Raised(act[a]) \union Around(act, a)
      BY FlagsSeen
    <3>2. "good" \notin Raised(act[a])
      BY DEF Raised
    <3>3. "good" \in Around(act, a) => Earned(act, a)
      BY <1>2 DEF Around
    <3> QED
      BY <3>1, <3>2, <3>3
  <2> QED
    BY <1>3, <2>1 DEF Earned
<1>5. PICK h : h = Deliverable(a, what)
  OBVIOUS
<1>6. /\ h \in [Actors -> Records]
      /\ \A b \in Actors : h[b] = act[b] \/ (/\ b = c /\ b # None /\ act[b].reply = None
                                             /\ h[b] = [act[b] EXCEPT !.reply = what])
  <2>1. \A q \in Records : [q EXCEPT !.reply = what] \in Records
    BY DEF Records
  <2>2. CASE c # None /\ act[c].reply = None
    <3>1. h = [act EXCEPT ![c].reply = what]
      BY <1>5, <2>2 DEF Deliverable
    <3>2. c \in Actors
      BY <1>2, <1>3, <2>2
    <3> QED
      BY <1>1, <2>1, <2>2, <3>1, <3>2
  <2>3. CASE ~(c # None /\ act[c].reply = None)
    <3>1. h = act
      BY <1>5, <2>3 DEF Deliverable
    <3> QED
      BY <1>1, <3>1
  <2> QED
    BY <2>2, <2>3
<1>7. PICK g : g = act'
  OBVIOUS
<1>8. /\ g \in [Actors -> Records] /\ g[a] = r /\ \A b \in Actors : b # a => g[b] = h[b]
  BY <1>2, <1>5, <1>6, <1>7
<1>9. \A w \in Workers : w # a => g[w] = act[w]
  <2>1. ASSUME NEW w \in Workers, w # a PROVE g[w] = act[w]
    <3>1. w \in Actors /\ w \notin Clients
      BY Distinct
    <3>2. w # c \/ w = None
      BY <1>3, <3>1
    <3> QED
      BY <1>6, <1>8, <2>1, <3>1, <3>2
  <2> QED
    BY <2>1
<1>10. ASSUME NEW b \in Clients PROVE Told(act, g, b)
  <2>1. b \in Actors /\ b # a /\ act[b] \in Records
    BY <1>1, <1>2
  <2>2. g[b] = h[b]
    BY <1>8, <2>1
  <2>3. CASE h[b] = act[b]
    BY <2>2, <2>3 DEF Told
  <2>4. CASE /\ b = c /\ b # None /\ act[b].reply = None
             /\ h[b] = [act[b] EXCEPT !.reply = what]
    <3>1. act[b].job # None => act[b].peer = a
      BY <1>3, <2>4
    <3>2. a # None /\ a # Pending
      BY <1>2, Distinct
    <3>3. act[b].job = None => act[b].peer = None
      BY <1>1, <2>1 DEF Resting
    <3>4. what = "done" => Served(act[b])
      BY <1>4, <2>4
    <3>5. PICK q \in Records : q = act[b]
      BY <2>1
    <3>6. g[b] = [q EXCEPT !.reply = what]
      BY <2>2, <2>4, <3>5
    <3>7. /\ g[b].job = q.job /\ g[b].todo = q.todo /\ g[b].ret = q.ret
          /\ g[b].failed = q.failed /\ g[b].trouble = q.trouble /\ g[b].unset = q.unset
          /\ g[b].own = q.own /\ g[b].held = q.held /\ g[b].answers = q.answers
          /\ g[b].calls = q.calls /\ g[b].peer = q.peer /\ g[b].served = q.served
          /\ g[b].reply = what
      BY <3>6 DEF Records
    <3> QED
      BY <2>4, <3>1, <3>2, <3>3, <3>4, <3>5, <3>7 DEF Told, Served
  <2> QED
    BY <1>6, <2>1, <2>3, <2>4
<1>11. Earned(g, a) <=> Earned(act, a)
  <2>1. g[a].peer = c
    BY <1>8 DEF SameLinks
  <2>2. c # None => g[c].job = act[c].job /\ g[c].served = act[c].served
    <3> SUFFICES ASSUME c # None
                 PROVE  g[c].job = act[c].job /\ g[c].served = act[c].served
      OBVIOUS
    <3>1. c \in Actors /\ c # a
      BY <1>2, <1>3
    <3> HIDE DEF c
    <3>2. PICK q \in Records : q = act[c]
      BY <1>1, <3>1
    <3>3. g[c] = q \/ g[c] = [q EXCEPT !.reply = what]
      BY <1>6, <1>8, <3>1, <3>2
    <3>4. [q EXCEPT !.reply = what].job = q.job /\ [q EXCEPT !.reply = what].served = q.served
      BY DEF Records
    <3> QED
      BY <3>2, <3>3, <3>4
  <2> QED
    BY <2>1, <2>2 DEF Earned, Served
<1>12. Around(g, a) = Around(act, a)
  <2>1. g[a].served = act[a].served
    BY <1>8 DEF SameLinks
  <2> HIDE DEF c
  <2> QED
    BY ONLY <1>2, <1>11, <2>1 DEF Around
<1>13. View(g, a) = Seen(r, Around(act, a))
  BY <1>8, <1>12 DEF View
<1>14. g[a].job = act[a].job /\ g[a].peer = act[a].peer
  BY <1>8 DEF SameLinks
<1>15. Sound(g, sem)
  <2>1. View(g, a) \in Onwards(Head(act[a].todo), View(act, a))
    BY <1>13 DEF Command
  <2> HIDE DEF c
  <2> QED
    BY <1>1, <1>8, <1>9, <1>10, <1>14, <2>1, Together
<1> QED
  BY <1>7, <1>15 DEF Inv

(* A record with another number of answers.                                *)
LEMMA OtherAnswers ==
  ASSUME NEW q \in Records, NEW n \in Nat, NEW r, r = [q EXCEPT !.answers = n]
  PROVE  /\ r \in Records /\ SameLinks(r, q) /\ r.todo = q.todo /\ r.answers = n
         /\ r.own = q.own /\ r.held = q.held /\ Raised(r) = Raised(q)
<1>1. /\ r \in Records /\ SameLinks(r, q) /\ r.todo = q.todo /\ r.answers = n
      /\ r.own = q.own /\ r.held = q.held
  BY DEF Records, SameLinks
<1>2. r.ret = q.ret /\ r.failed = q.failed /\ r.trouble = q.trouble /\ r.unset = q.unset
  BY DEF Records
<1> QED
  BY <1>1, <1>2 DEF Raised

(* Those that speak a protocol are workers, those in a call are clients.   *)
LEMMA RoleOf ==
  ASSUME Inv, NEW a \in Actors
  PROVE  /\ act[a].job \in Protocols => a \in Workers
         /\ act[a].job \in Calls => a \in Clients
<1>1. Linked(act)
  BY DEF Inv, Sound
<1> QED
  BY <1>1, Distinct DEF Linked

(* An answer is sent.                                                      *)
LEMMA SendAnswerKeeps == ASSUME Inv, NEW a \in Actors, SendAnswer(a) PROVE Inv'
<1>1. PICK what : what = Command(a).to
  OBVIOUS
<1>2. PICK q : q = Onward(a)
  OBVIOUS
<1>3. PICK r : r = [q EXCEPT !.answers = @ + 1]
  OBVIOUS
<1>4. /\ Busy(a) /\ Command(a).op = "answer" /\ sem' = sem
      /\ act' = [Deliverable(a, what) EXCEPT ![a] = r]
  BY <1>1, <1>2, <1>3 DEF SendAnswer, Is, Private
<1>5. /\ View(act, a).job = act[a].job /\ View(act, a).answers = act[a].answers
  BY SeenParts DEF View
<1>6. /\ act[a].job \in Protocols /\ what \in {"done", "refused"}
      /\ what = "done" /\ act[a].job \in Asked => "good" \in View(act, a).is
      /\ act[a] \in Records
  BY <1>1, <1>4, <1>5, CommandFits DEF Fit
<1>7. a \in Workers
  BY <1>6, RoleOf
<1>8. /\ q \in Records /\ SameLinks(q, act[a]) /\ q.todo = Tail(act[a].todo)
      /\ q.own = act[a].own /\ q.held = act[a].held /\ q.answers = act[a].answers
      /\ Raised(q) = Raised(act[a])
  BY <1>2, <1>4, OnwardIs
<1>9. PICK n \in Nat : n = act[a].answers + 1
  <2>1. act[a].answers \in Nat
    BY <1>6, RecordOf
  <2> QED
    BY <2>1
<1>10. r = [q EXCEPT !.answers = n]
  BY <1>3, <1>8, <1>9
<1>11. /\ r \in Records /\ SameLinks(r, q) /\ r.todo = q.todo /\ r.answers = n
       /\ r.own = q.own /\ r.held = q.held /\ Raised(r) = Raised(q)
  BY <1>8, <1>10, OtherAnswers
<1>12. SameLinks(r, act[a]) /\ r.job = act[a].job /\ r.reply = act[a].reply
  BY <1>8, <1>11 DEF SameLinks
<1>13. Seen(r, Around(act, a)) = [Seen(act[a], Around(act, a)) EXCEPT !.answers = r.answers]
  BY <1>8, <1>11, <1>12, SeenChanges
<1>14. Seen(r, Around(act, a)) = [View(act, a) EXCEPT !.answers = @ + 1]
  BY <1>5, <1>9, <1>11, <1>13 DEF View
<1>15. Seen(r, Around(act, a)) \in Onwards(Command(a), View(act, a))
  BY <1>4, <1>14 DEF Onwards
<1>16. what \in Replies
  BY <1>6 DEF Replies
<1> QED
  BY <1>4, <1>6, <1>7, <1>8, <1>11, <1>12, <1>15, <1>16, Delivered

(* The connection is closed.                                               *)
LEMMA CloseConnectionKeeps == ASSUME Inv, NEW a \in Actors, CloseConnection(a) PROVE Inv'
<1>1. PICK r : r = Onward(a)
  OBVIOUS
<1>2. /\ Busy(a) /\ Command(a).op = "close" /\ sem' = sem
      /\ act' = [Deliverable(a, "closed") EXCEPT ![a] = r]
  BY <1>1 DEF CloseConnection, Is, Private
<1>3. View(act, a).job = act[a].job
  BY SeenParts DEF View
<1>4. act[a].job \in Protocols
  BY <1>2, <1>3, CommandFits DEF Fit
<1>5. a \in Workers
  BY <1>4, RoleOf
<1>6. /\ r \in Records /\ SameLinks(r, act[a]) /\ r.todo = Tail(act[a].todo)
      /\ r.held = act[a].held /\ Seen(r, Around(act, a)) = View(act, a)
  BY <1>1, <1>2, OnwardIs DEF View
<1>7. Seen(r, Around(act, a)) \in Onwards(Command(a), View(act, a))
  BY <1>2, <1>6 DEF Onwards
<1>8. "closed" \in Replies /\ "closed" # "done"
  BY DEF Replies
<1> QED
  BY <1>2, <1>5, <1>6, <1>7, <1>8, Delivered

(* The handler is called.                                                  *)
LEMMA ServeRequestKeeps == ASSUME Inv, NEW a \in Actors, ServeRequest(a) PROVE Inv'
<1>1. /\ act \in [Actors -> Records] /\ Resting(act) /\ Linked(act) /\ Sound(act, sem)
  BY DEF Inv, Sound
<1>2. Busy(a) /\ Command(a).op = "serve" /\ sem' = sem /\ act[a].todo # <<>>
  BY DEF ServeRequest, Is, Private, Busy
<1>3. PICK c : c = act[a].peer
  OBVIOUS
<1>4. PICK q : q = Onward(a)
  OBVIOUS
<1>5. PICK ok \in BOOLEAN, served \in BOOLEAN :
        /\ ok /\ Looks(c) => served
        /\ act' = IF c = None THEN [act EXCEPT ![a] = [q EXCEPT !.ret = ok, !.served = TRUE]]
                  ELSE [act EXCEPT ![a] = [q EXCEPT !.ret = ok, !.served = TRUE],
                                   ![c].served = @ \/ served]
  BY <1>3, <1>4, Zenon DEF ServeRequest
<1>6. act[a].job \in Protocols
  <2>1. View(act, a).job = act[a].job
    BY SeenParts DEF View
  <2> QED
    BY <1>2, <2>1, CommandFits DEF Fit
<1>7. a \in Workers /\ a \notin Clients /\ \A b \in Clients : b \in Actors
  BY <1>6, RoleOf, Distinct
<1>8. c \in Clients \union {None} /\ (c # None => c \in Actors /\ c # a)
  BY <1>1, <1>3, <1>7 DEF Linked
<1>9. /\ q \in Records /\ SameLinks(q, act[a]) /\ q.todo = Tail(act[a].todo)
      /\ q.own = act[a].own /\ q.held = act[a].held /\ q.answers = act[a].answers
      /\ q.failed = act[a].failed /\ q.trouble = act[a].trouble /\ q.unset = act[a].unset
  BY <1>2, <1>4, OnwardIs
<1>10. PICK r : r = [q EXCEPT !.ret = ok, !.served = TRUE]
  OBVIOUS
<1>11. /\ r \in Records /\ r.job = q.job /\ r.calls = q.calls /\ r.peer = q.peer
       /\ r.reply = q.reply /\ r.todo = q.todo /\ r.own = q.own /\ r.held = q.held
       /\ r.answers = q.answers /\ r.failed = q.failed /\ r.trouble = q.trouble /\ r.unset = q.unset
       /\ r.ret = ok /\ r.served = TRUE
  BY <1>9, <1>10 DEF Records
<1>12. PICK g : g = act'
  OBVIOUS
<1>13. /\ g \in [Actors -> Records] /\ g[a] = r
       /\ \A b \in Actors : b # a /\ b # c => g[b] = act[b]
       /\ c # None => g[c] = [act[c] EXCEPT !.served = @ \/ served]
  <2>1. CASE c = None
    <3>1. g = [act EXCEPT ![a] = r]
      BY <1>5, <1>10, <1>12, <2>1
    <3> QED
      BY <2>1, <3>1, <1>1, <1>11
  <2>2. CASE c # None
    <3>1. PICK d \in Records : d = act[c]
      BY <1>1, <1>8, <2>2
    <3>2. PICK e : e = [d EXCEPT !.served = @ \/ served]
      OBVIOUS
    <3>3. e \in Records
      BY <3>2 DEF Records
    <3>4. g = [act EXCEPT ![a] = r, ![c] = e]
      <4>1. g = [act EXCEPT ![a] = r, ![c].served = @ \/ served]
        BY <1>5, <1>10, <1>12, <2>2
      <4> QED
        BY <4>1, <3>1, <3>2, <1>1, <1>8, <2>2
    <3>5. g \in [Actors -> Records] /\ g[a] = r /\ g[c] = e
          /\ \A b \in Actors : b # a /\ b # c => g[b] = act[b]
      BY <3>3, <3>4, <1>1, <1>8, <1>11, <2>2
    <3> QED
      BY <3>1, <3>2, <3>5
  <2> QED
    BY <2>1, <2>2
<1>14. c # None => /\ g[c].served = (act[c].served \/ served)
                   /\ g[c].job = act[c].job /\ Told(act, g, c)
  <2> SUFFICES ASSUME c # None
               PROVE  /\ g[c].served = (act[c].served \/ served)
                      /\ g[c].job = act[c].job /\ Told(act, g, c)
    OBVIOUS
  <2>1. PICK d \in Records : d = act[c]
    BY <1>1, <1>8
  <2>2. g[c] = [d EXCEPT !.served = @ \/ served]
    BY <1>13, <2>1
  <2>3. /\ g[c].job = d.job /\ g[c].todo = d.todo /\ g[c].ret = d.ret
        /\ g[c].failed = d.failed /\ g[c].trouble = d.trouble /\ g[c].unset = d.unset
        /\ g[c].own = d.own /\ g[c].held = d.held /\ g[c].answers = d.answers
        /\ g[c].calls = d.calls /\ g[c].peer = d.peer /\ g[c].reply = d.reply
        /\ g[c].served = (d.served \/ served)
    BY <2>2 DEF Records
  <2> QED
    BY <2>1, <2>3 DEF Told
<1>15. \A w \in Workers : w # a => g[w] = act[w]
  <2>1. ASSUME NEW w \in Workers, w # a PROVE g[w] = act[w]
    <3>1. w \in Actors /\ w # c
      BY <1>8, Distinct
    <3> QED
      BY <1>13, <2>1, <3>1
  <2> QED
    BY <2>1
<1>16. ASSUME NEW b \in Clients PROVE Told(act, g, b)
  <2>1. CASE b = c
    <3>1. c # None
      BY <2>1, <1>7, Distinct
    <3> QED
      BY <2>1, <3>1, <1>14
  <2>2. CASE b # c
    <3>1. g[b] = act[b]
      BY <2>2, <1>7, <1>13
    <3> QED
      BY <3>1 DEF Told
  <2> QED
    BY <2>1, <2>2
<1>17. (Earned(act, a) => Earned(g, a)) /\ (ok => Earned(g, a))
  <2>1. g[a].peer = c
    BY <1>3, <1>9, <1>11, <1>13 DEF SameLinks
  <2>2. c # None => (Served(act[c]) => Served(g[c]))
    BY <1>14 DEF Served
  <2>3. c # None /\ ok => Served(g[c])
    <3>1. ~Looks(c) => c # None /\ act[c].job \notin Remote
      BY DEF Looks, Remote
    <3> QED
      BY <3>1, <1>5, <1>14 DEF Served
  <2> QED
    BY <1>3, <2>1, <2>2, <2>3 DEF Earned
<1>18. PICK Y : Y = Around(g, a)
  OBVIOUS
<1>19. /\ "served" \in Y /\ Y \subseteq {"served", "good", "linked"}
       /\ "good" \in Y <=> Earned(g, a)
  BY <1>7, <1>11, <1>13, <1>18 DEF Around
<1>20. PICK F : F = Raised(r) \union Y
  OBVIOUS
<1>21. F \in Outcomes(View(act, a).is)
  <2>1. View(act, a).is = Raised(act[a]) \union Around(act, a)
    BY FlagsSeen
  <2>2. "good" \in View(act, a).is => Earned(act, a)
    <3>1. "good" \notin Raised(act[a])
      BY DEF Raised
    <3>2. "good" \in Around(act, a) => Earned(act, a)
      BY <1>7 DEF Around
    <3> QED
      BY <2>1, <3>1, <3>2
  <2>3. /\ "failed" \in View(act, a).is <=> act[a].failed
        /\ "trouble" \in View(act, a).is <=> act[a].trouble \/ act[a].unset
    <3>1. /\ "failed" \in Raised(act[a]) <=> act[a].failed
          /\ "trouble" \in Raised(act[a]) <=> act[a].trouble \/ act[a].unset
      BY DEF Raised
    <3> QED
      BY <2>1, <3>1, FlagsSeen
  <2>4. /\ "failed" \in F <=> r.failed
        /\ "trouble" \in F <=> r.trouble \/ r.unset
        /\ "ret" \in F => ok
        /\ "served" \in F /\ ("good" \in F <=> Earned(g, a))
        /\ F \subseteq Flags
    BY <1>11, <1>19, <1>20 DEF Raised, Flags
  <2> QED
    BY <1>9, <1>11, <1>17, <2>2, <2>3, <2>4 DEF Outcomes
<1>22. View(g, a) = [View(act, a) EXCEPT !.is = F]
  <2>1. /\ r.job = act[a].job /\ r.reply = act[a].reply /\ r.own = act[a].own
        /\ r.held = act[a].held /\ r.answers = act[a].answers
    BY <1>9, <1>11 DEF SameLinks
  <2>2. \A Z : Seen(r, Z) = [Seen(act[a], Around(act, a)) EXCEPT !.is = Raised(r) \union Z]
    BY <2>1, SeenChanges
  <2> QED
    BY <1>13, <1>18, <1>20, <2>2 DEF View
<1>23. View(g, a) \in Onwards(Head(act[a].todo), View(act, a))
  BY <1>2, <1>21, <1>22 DEF Onwards, Command
<1>24. g[a].job = act[a].job /\ g[a].peer = act[a].peer /\ g[a].held = act[a].held
       /\ g[a].todo = Tail(act[a].todo)
  BY <1>9, <1>11, <1>13 DEF SameLinks
<1>25. Sound(g, sem)
  BY <1>1, <1>2, <1>7, <1>13, <1>15, <1>16, <1>23, <1>24, Together
<1> QED
  BY <1>2, <1>12, <1>25 DEF Inv

-----------------------------------------------------------------------------
(* The steps of Session keep the invariant: connections, beginning and end *)

(* An actor that is left alone, while others may get served.               *)
LEMMA OthersFollow ==
  ASSUME NEW f \in [Actors -> Records], NEW g \in [Actors -> Records], Linked(f),
         NEW b \in Actors, Follows(f, b), g[b] = f[b],
         \A c \in Clients : Served(f[c]) => Served(g[c])
  PROVE  Follows(g, b)
<1>1. CASE b \in Workers
  <2>1. f[b].peer \in Clients \union {None}
    BY <1>1 DEF Linked
  <2>2. Earned(f, b) => Earned(g, b)
    BY <2>1 DEF Earned
  <2>3. View(g, b) \in Disturbed(View(f, b))
    BY <1>1, <2>2, WorkerView
  <2> QED
    BY <2>3, FollowsOn
<1>2. CASE b \in Clients
  <2>1. Heard(f, g, b)
    BY DEF Heard
  <2>2. View(g, b) \in Disturbed(View(f, b))
    BY <1>2, <2>1, ClientView
  <2> QED
    BY <2>2, FollowsOn
<1> QED
  BY <1>1, <1>2, Distinct

(* A client connects.                                                      *)
LEMMA ConnectDaemonKeeps == ASSUME Inv, NEW a \in Actors, ConnectDaemon(a) PROVE Inv'
<1>1. /\ act \in [Actors -> Records] /\ Resting(act) /\ Linked(act) /\ Holding(act, sem)
      /\ \A b \in Actors : Follows(act, b)
  BY DEF Inv, Sound
<1>2. Busy(a) /\ Command(a).op = "connect"
  BY DEF ConnectDaemon, Is
<1>3. PICK p : p = Command(a).to
  OBVIOUS
<1>4. PICK v : v = View(act, a)
  OBVIOUS
<1>5. /\ v.job = act[a].job /\ v.is = Raised(act[a]) \union Around(act, a)
      /\ v = Seen(act[a], Around(act, a))
  BY <1>4, SeenParts, FlagsSeen DEF View
<1>6. act[a].job \in Calls /\ p \in Asked /\ "linked" \notin v.is /\ act[a] \in Records
  BY <1>2, <1>3, <1>4, <1>5, CommandFits DEF Fit
<1>7. a \in Clients /\ act[a].job # None
  BY <1>6, RoleOf, Distinct
<1>8. act[a].peer = None /\ act[a].reply = None
  BY <1>5, <1>6, <1>7 DEF Around
<1>9. PICK q : q = Onward(a)
  OBVIOUS
<1>10. /\ q \in Records /\ SameLinks(q, act[a]) /\ q.todo = Tail(act[a].todo)
       /\ q.own = act[a].own /\ q.held = act[a].held /\ q.answers = act[a].answers
       /\ q.failed = act[a].failed /\ q.trouble = act[a].trouble /\ q.unset = act[a].unset /\ q.ret = act[a].ret
  BY <1>2, <1>9, OnwardIs
<1>11. CASE Fails(a)
  BY <1>2, <1>11, FailsKeeps
<1>12. CASE /\ Becomes(a, [Onward(a) EXCEPT !.peer = Pending, !.calls = Command(a).to])
            /\ Private
  <2>1. PICK r : r = [q EXCEPT !.peer = Pending, !.calls = p]
    OBVIOUS
  <2>2. /\ r \in Records /\ r.job = q.job /\ r.calls = p /\ r.peer = Pending
        /\ r.reply = q.reply /\ r.served = q.served /\ r.todo = q.todo /\ r.own = q.own
        /\ r.held = q.held /\ r.answers = q.answers /\ r.failed = q.failed
        /\ r.trouble = q.trouble /\ r.unset = q.unset /\ r.ret = q.ret
    BY <1>6, <1>10, <2>1 DEF Records
  <2>3. PICK g : g = act'
    OBVIOUS
  <2>4. g = [act EXCEPT ![a] = r] /\ sem' = sem
    BY <1>3, <1>9, <1>12, <2>1, <2>3 DEF Becomes, Private
  <2>5. g \in [Actors -> Records] /\ g[a] = r /\ \A b \in Actors : b # a => g[b] = act[b]
    BY <1>1, <2>2, <2>4
  <2>6. /\ g[a].job = act[a].job /\ g[a].reply = None /\ g[a].served = act[a].served
        /\ g[a].held = act[a].held /\ g[a].calls = p /\ g[a].peer = Pending
    BY <1>8, <1>10, <2>2, <2>5 DEF SameLinks
  <2>7. Resting(g)
    BY <1>1, <1>7, <2>5, <2>6 DEF Resting
  <2>8. Holding(g, sem)
    BY <1>1, <2>4, <2>2, <1>10, HeldSame
  <2>9. Linked(g)
    <3>1. ASSUME NEW w \in Workers
          PROVE  /\ g[w].job \in Protocols \union {None}
                 /\ g[w].peer \in Clients \union {None}
                 /\ g[w].peer # None => /\ g[w].job \in Asked
                                        /\ g[g[w].peer].job = None \/ g[g[w].peer].peer = w
      <4>1. w \in Actors /\ w # a /\ w # None
        BY <1>7, Distinct
      <4>2. /\ act[w].job \in Protocols \union {None}
            /\ act[w].peer \in Clients \union {None}
            /\ act[w].peer # None => /\ act[w].job \in Asked
                                     /\ act[act[w].peer].job = None \/ act[act[w].peer].peer = w
        BY <1>1 DEF Linked
      <4>3. act[w].peer # a
        BY <1>7, <1>8, <4>1, <4>2, Distinct
      <4> QED
        BY <4>1, <4>2, <4>3, <2>5, Distinct
    <3>2. ASSUME NEW c \in Clients
          PROVE  /\ g[c].job \in Calls \union {None}
                 /\ g[c].peer \in Workers \union {None, Pending}
                 /\ g[c].peer = Pending => g[c].calls \in Asked /\ g[c].reply = None
                 /\ g[c].reply = "done" => Served(g[c])
      <4>1. CASE c = a
        BY <1>6, <2>6, <4>1 DEF None
      <4>2. CASE c # a
        <5>1. g[c] = act[c]
          BY <2>5, <4>2, Distinct
        <5> QED
          BY <5>1, <1>1 DEF Linked
      <4> QED
        BY <4>1, <4>2
    <3> QED
      BY <3>1, <3>2 DEF Linked
  <2>10. ASSUME NEW b \in Actors PROVE Follows(g, b)
    <3>1. CASE b # a
      <4>1. \A c \in Clients : Served(act[c]) => Served(g[c])
        BY <2>5, <2>6, Distinct DEF Served
      <4> QED
        BY <1>1, <2>5, <3>1, <4>1, OthersFollow
    <3>2. CASE b = a
      <4>1. Around(g, a) = Around(act, a) \union {"linked"}
        <5>1. a \notin Workers
          BY <1>7, Distinct
        <5> QED
          BY <1>7, <2>6, <5>1, Distinct DEF Around
      <4>2. Raised(r) = Raised(act[a])
        BY <1>10, <2>2 DEF Raised
      <4>3. r.job = act[a].job /\ r.reply = act[a].reply /\ r.own = act[a].own
            /\ r.held = act[a].held /\ r.answers = act[a].answers
        BY <1>10, <2>2 DEF SameLinks
      <4>4. \A Z : Seen(r, Z) = [Seen(act[a], Around(act, a)) EXCEPT !.is = Raised(r) \union Z]
        BY <4>3, SeenChanges
      <4>5. View(g, a) = [v EXCEPT !.is = Raised(r) \union Around(g, a)]
        BY <2>5, <4>4, <1>5 DEF View
      <4>6. Raised(r) \union Around(g, a) = v.is \union {"linked"}
        BY <4>1, <4>2, <1>5
      <4>7. View(g, a) \in Onwards(Command(a), v)
        BY <1>2, <4>5, <4>6 DEF Onwards
      <4>8. Runs(Tail(act[a].todo), View(g, a), Final(act[a].job))
        <5>1. Sound(act, sem) /\ act[a].todo # <<>>
          BY <1>2 DEF Inv, Busy
        <5>2. \A w \in Onwards(Head(act[a].todo), View(act, a)) :
                Runs(Tail(act[a].todo), w, Final(act[a].job))
          BY <5>1, CommandNext
        <5> QED
          BY <5>2, <4>7, <1>4 DEF Command
      <4>9. g[a].todo = Tail(act[a].todo) /\ g[a].job = act[a].job
        BY <1>10, <2>2, <2>5, <2>6
      <4> QED
        BY <3>2, <4>8, <4>9 DEF Follows
    <3> QED
      BY <3>1, <3>2
  <2>11. Sound(g, sem)
    BY <2>5, <2>7, <2>8, <2>9, <2>10 DEF Sound
  <2> QED
    BY <2>3, <2>4, <2>11 DEF Inv
<1> QED
  BY <1>11, <1>12 DEF ConnectDaemon

(* The daemon closes a connection nobody serves.                           *)
LEMMA DropKeeps == ASSUME Inv, NEW a \in Clients, Drop(a) PROVE Inv'
<1>1. /\ act \in [Actors -> Records] /\ Resting(act) /\ Linked(act) /\ Holding(act, sem)
      /\ \A b \in Actors : Follows(act, b)
  BY DEF Inv, Sound
<1>2. a \in Actors /\ act[a].peer = Pending /\ sem' = sem
  BY Distinct DEF Drop, Private
<1>3. act[a].job # None /\ act[a].reply = None
  BY <1>1, <1>2, Distinct DEF Resting, Linked
<1>4. PICK q \in Records : q = act[a]
  BY <1>1, <1>2
<1>5. PICK r : r = [q EXCEPT !.peer = None, !.reply = "closed"]
  OBVIOUS
<1>6. /\ r \in Records /\ r.job = q.job /\ r.calls = q.calls /\ r.peer = None
      /\ r.reply = "closed" /\ r.served = q.served /\ r.todo = q.todo /\ r.own = q.own
      /\ r.held = q.held /\ r.answers = q.answers /\ r.failed = q.failed
      /\ r.trouble = q.trouble /\ r.unset = q.unset /\ r.ret = q.ret
  BY <1>5 DEF Records, Replies
<1>7. PICK g : g = act'
  OBVIOUS
<1>8. g = [act EXCEPT ![a] = r]
  BY <1>4, <1>5, <1>7 DEF Drop, Becomes
<1>9. g \in [Actors -> Records] /\ g[a] = r /\ \A b \in Actors : b # a => g[b] = act[b]
  BY <1>1, <1>2, <1>6, <1>8
<1>10. Resting(g)
  BY <1>1, <1>3, <1>4, <1>6, <1>9 DEF Resting
<1>11. Holding(g, sem)
  BY <1>1, <1>2, <1>4, <1>6, <1>8, HeldSame
<1>12. Linked(g)
  <2>1. ASSUME NEW w \in Workers
        PROVE  /\ g[w].job \in Protocols \union {None}
               /\ g[w].peer \in Clients \union {None}
               /\ g[w].peer # None => /\ g[w].job \in Asked
                                      /\ g[g[w].peer].job = None \/ g[g[w].peer].peer = w
    <3>1. w \in Actors /\ w # a /\ w # Pending
      BY Distinct
    <3>2. /\ act[w].job \in Protocols \union {None}
          /\ act[w].peer \in Clients \union {None}
          /\ act[w].peer # None => /\ act[w].job \in Asked
                                   /\ act[act[w].peer].job = None \/ act[act[w].peer].peer = w
      BY <1>1 DEF Linked
    <3>3. act[w].peer # a
      BY <1>2, <1>3, <3>1, <3>2, Distinct
    <3> QED
      BY <3>1, <3>2, <3>3, <1>9, Distinct
  <2>2. ASSUME NEW c \in Clients
        PROVE  /\ g[c].job \in Calls \union {None}
               /\ g[c].peer \in Workers \union {None, Pending}
               /\ g[c].peer = Pending => g[c].calls \in Asked /\ g[c].reply = None
               /\ g[c].reply = "done" => Served(g[c])
    <3>0. /\ act[c].job \in Calls \union {None}
          /\ act[c].peer \in Workers \union {None, Pending}
          /\ act[c].peer = Pending => act[c].calls \in Asked /\ act[c].reply = None
          /\ act[c].reply = "done" => Served(act[c])
      BY <1>1 DEF Linked
    <3>1. CASE c = a
      BY <3>0, <3>1, <1>4, <1>6, <1>9, Distinct
    <3>2. CASE c # a
      <4>1. g[c] = act[c]
        BY <1>9, <3>2, Distinct
      <4> QED
        BY <4>1, <3>0
    <3> QED
      BY <3>1, <3>2
  <2> QED
    BY <2>1, <2>2 DEF Linked
<1>13. ASSUME NEW b \in Actors PROVE Follows(g, b)
  <2>1. CASE b # a
    <3>1. \A c \in Clients : Served(act[c]) => Served(g[c])
      BY <1>4, <1>6, <1>9, Distinct DEF Served
    <3> QED
      BY <1>1, <1>9, <2>1, <3>1, OthersFollow
  <2>2. CASE b = a
    <3>1. Heard(act, g, a)
      BY <1>2, <1>3, <1>4, <1>6, <1>9, Distinct DEF Heard, Replies
    <3>2. View(g, a) \in Disturbed(View(act, a))
      BY <1>1, <1>9, <3>1, ClientView
    <3>3. g[a].job = act[a].job /\ g[a].todo = act[a].todo
      BY <1>4, <1>6, <1>9
    <3> QED
      BY <2>2, <3>2, <3>3, <1>1, <1>2, <1>9, FollowsOn
  <2> QED
    BY <2>1, <2>2
<1>14. Sound(g, sem)
  BY <1>9, <1>10, <1>11, <1>12, <1>13 DEF Sound
<1> QED
  BY <1>2, <1>7, <1>14 DEF Inv

(* An actor without a job, and one that begins a job.                      *)
LEMMA IdleIs ==
  /\ Idle \in Records /\ Idle.job = None /\ Idle.todo = <<>> /\ Idle.held = {}
  /\ Idle.own = {} /\ Idle.answers = 0 /\ Idle.peer = None /\ Idle.reply = None
  /\ Idle.served = FALSE /\ Idle.ret = FALSE /\ Idle.failed = FALSE /\ Idle.trouble = FALSE
  /\ Idle.unset = FALSE
BY DEF Idle, Records

(* The record of an actor that begins the job p, with the peer e.          *)
Begun(r, p, e) ==
  /\ r.job = p /\ r.todo = Stored(Script(p)) /\ r.held = {} /\ r.own = {}
  /\ r.answers = 0 /\ r.peer = e /\ r.reply = None /\ r.served = FALSE
  /\ r.ret = FALSE /\ r.failed = FALSE /\ r.trouble = FALSE /\ r.unset = FALSE

(* It has such a record.                                                   *)
LEMMA BeginIs ==
  ASSUME NEW p \in Jobs
  PROVE  /\ Begin(p) \in Records /\ Begun(Begin(p), p, None)
         /\ \A e \in Actors : LET r == [Begin(p) EXCEPT !.peer = e]
                              IN  r \in Records /\ Begun(r, p, e)
<1>1. p \in Protocols \union Calls
  BY DEF Jobs
<1>3. Stored(Script(p)) \in Seq(Steps)
  BY <1>1, ScriptRuns
<1>4. PICK s \in Seq(Steps) : s = Stored(Script(p))
  BY <1>3
<1>5. Begin(p) = [Idle EXCEPT !.job = p, !.todo = s]
  BY <1>4, Zenon DEF Begin, Stored
<1>6. PICK i \in Records : i = Idle
  BY IdleIs
<1>7. PICK b : b = Begin(p)
  OBVIOUS
<1>8. b = [i EXCEPT !.job = p, !.todo = s]
  BY <1>5, <1>6, <1>7
<1>9. /\ b \in Records /\ b.job = p /\ b.todo = s /\ b.held = i.held /\ b.own = i.own
      /\ b.answers = i.answers /\ b.peer = i.peer /\ b.reply = i.reply /\ b.served = i.served
      /\ b.ret = i.ret /\ b.failed = i.failed /\ b.trouble = i.trouble /\ b.unset = i.unset
  BY <1>8 DEF Records
<1>10. Begun(b, p, None)
  BY <1>4, <1>6, <1>9, IdleIs DEF Begun
<1>11. ASSUME NEW e \in Actors, NEW r, r = [b EXCEPT !.peer = e]
       PROVE  r \in Records /\ Begun(r, p, e)
  <2>1. /\ r \in Records /\ r.job = b.job /\ r.todo = b.todo /\ r.held = b.held /\ r.own = b.own
        /\ r.answers = b.answers /\ r.peer = e /\ r.reply = b.reply /\ r.served = b.served
        /\ r.ret = b.ret /\ r.failed = b.failed /\ r.trouble = b.trouble /\ r.unset = b.unset
    BY <1>9, <1>11 DEF Records
  <2> QED
    BY <1>10, <2>1 DEF Begun
<1> QED
  BY <1>7, <1>9, <1>10, <1>11

(* It is at the beginning of its script.                                   *)
LEMMA BegunFollows ==
  ASSUME NEW f \in [Actors -> Records], NEW a \in Actors, NEW p, NEW e, Begun(f[a], p, e),
         \/ a \in Workers /\ p \in Protocols
         \/ a \in Clients /\ p \in Calls /\ e = None
  PROVE  Follows(f, a)
<1>1. p \in Protocols \union Calls
  OBVIOUS
<1>2. PICK Y : Y = Around(f, a)
  OBVIOUS
<1>3. Raised(f[a]) = {}
  BY DEF Begun, Raised
<1>4. PICK v : v = View(f, a)
  OBVIOUS
<1>5. v = [own |-> {}, held |-> {}, is |-> Y, answers |-> 0, job |-> p, reply |-> None]
  <2>1. v = [own |-> f[a].own, held |-> f[a].held, is |-> Raised(f[a]) \union Y,
             answers |-> f[a].answers, job |-> f[a].job, reply |-> f[a].reply]
    BY <1>2, <1>4, Zenon DEF View, Seen
  <2>2. Raised(f[a]) \union Y = Y
    BY <1>3
  <2> QED
    BY <2>1, <2>2, Zenon DEF Begun
<1>6. Y \subseteq {"good"}
  <2>1. "served" \notin Y
    BY <1>2 DEF Around, Begun
  <2>2. "linked" \notin Y
    BY <1>2, Distinct DEF Around, Begun
  <2>3. Y \subseteq {"served", "good", "linked"}
    BY <1>2 DEF Around
  <2> QED
    BY <2>1, <2>2, <2>3
<1>7. v \in Views
  BY <1>1, <1>5, <1>6 DEF Views, Limit, Flags
<1>8. v \in First(p)
  <2>1. CASE p \in Protocols
    <3>1. v \in Before(p, {"auth", "uri", "proto"}, {}, {"mute", "fresh"})
      BY <1>5, <1>6, <1>7 DEF Before, Fact, Limit
    <3> QED
      BY <2>1, <3>1 DEF First
  <2>2. CASE p \in Calls /\ p \notin Protocols
    <3>1. v \in Calling(p, {}, {}, {"new"})
      BY <1>5, <1>6, <1>7 DEF Calling
    <3> QED
      BY <2>2, <3>1 DEF First
  <2> QED
    BY <1>1, <2>1, <2>2
<1>9. Runs(Stored(Script(p)), v, Final(p))
  BY <1>1, <1>8, ScriptRuns
<1> QED
  BY <1>4, <1>9 DEF Follows, Begun

(* The daemon hands a connection to a worker.                              *)
LEMMA AcceptKeeps == ASSUME Inv, NEW w \in Workers, NEW a \in Clients, Accept(w, a) PROVE Inv'
<1>1. /\ act \in [Actors -> Records] /\ Resting(act) /\ Linked(act) /\ Holding(act, sem)
      /\ \A b \in Actors : Follows(act, b)
  BY DEF Inv, Sound
<1>2. a \in Actors /\ w \in Actors /\ a # w /\ \A c \in Clients : c \in Actors /\ c # w
  BY Distinct
<1>3. act[w].job = None /\ act[a].peer = Pending /\ sem' = sem
  BY DEF Accept, Private
<1>4. act[a].job # None /\ act[a].reply = None /\ act[a].calls \in Asked
  BY <1>1, <1>2, <1>3, Distinct DEF Resting, Linked
<1>5. act[w].held = {} /\ act[w].peer = None
  BY <1>1, <1>2, <1>3 DEF Resting
<1>6. PICK p : p = act[a].calls
  OBVIOUS
<1>7. p \in Asked /\ p \in Protocols /\ p \in Jobs
  BY <1>4, <1>6, Distinct
<1>8. PICK r : r = [Begin(p) EXCEPT !.peer = a]
  OBVIOUS
<1>9. r \in Records /\ Begun(r, p, a)
  BY <1>2, <1>7, <1>8, BeginIs
<1>10. PICK q \in Records : q = act[a]
  BY <1>1, <1>2
<1>11. PICK d : d = [q EXCEPT !.peer = w]
  OBVIOUS
<1>12. /\ d \in Records /\ d.job = q.job /\ d.calls = q.calls /\ d.peer = w
       /\ d.reply = q.reply /\ d.served = q.served /\ d.todo = q.todo /\ d.own = q.own
       /\ d.held = q.held /\ d.answers = q.answers /\ d.failed = q.failed
       /\ d.trouble = q.trouble /\ d.unset = q.unset /\ d.ret = q.ret
  BY <1>2, <1>11 DEF Records
<1>13. PICK g : g = act'
  OBVIOUS
<1>14. g = [act EXCEPT ![w] = r, ![a] = d]
  <2>1. g = [act EXCEPT ![w] = r, ![a].peer = w]
    BY <1>6, <1>8, <1>13 DEF Accept
  <2> QED
    BY <2>1, <1>1, <1>2, <1>10, <1>11
<1>15. /\ g \in [Actors -> Records] /\ g[w] = r /\ g[a] = d
       /\ \A b \in Actors : b # w /\ b # a => g[b] = act[b]
  BY <1>1, <1>2, <1>9, <1>12, <1>14
<1>16. g[w].held = {} /\ g[w].job = p /\ g[w].peer = a
  BY <1>9, <1>15 DEF Begun
<1>17. /\ g[a].job = act[a].job /\ g[a].held = act[a].held /\ g[a].reply = None
       /\ g[a].served = act[a].served /\ g[a].peer = w
  BY <1>4, <1>10, <1>12, <1>15
<1>18. Resting(g)
  <2>1. p # None
    BY <1>7, Distinct
  <2> QED
    BY <2>1, <1>1, <1>4, <1>15, <1>16, <1>17 DEF Resting
<1>19. Holding(g, sem)
  <2>1. \A b \in Actors : g[b].held = act[b].held
    BY <1>5, <1>15, <1>16, <1>17
  <2> QED
    BY <2>1, <1>1 DEF Holding
<1>20. Linked(g)
  <2>1. ASSUME NEW b \in Workers
        PROVE  /\ g[b].job \in Protocols \union {None}
               /\ g[b].peer \in Clients \union {None}
               /\ g[b].peer # None => /\ g[b].job \in Asked
                                      /\ g[g[b].peer].job = None \/ g[g[b].peer].peer = b
    <3>1. b \in Actors /\ b # a /\ b # Pending
      BY Distinct
    <3>2. /\ act[b].job \in Protocols \union {None}
          /\ act[b].peer \in Clients \union {None}
          /\ act[b].peer # None => /\ act[b].job \in Asked
                                   /\ act[act[b].peer].job = None \/ act[act[b].peer].peer = b
      BY <1>1 DEF Linked
    <3>3. act[b].peer # a
      BY <1>3, <1>4, <3>1, <3>2, Distinct
    <3>4. CASE b = w
      BY <3>4, <1>7, <1>16, <1>17
    <3>5. CASE b # w
      BY <3>1, <3>2, <3>3, <3>5, <1>2, <1>15, Distinct
    <3> QED
      BY <3>4, <3>5
  <2>2. ASSUME NEW c \in Clients
        PROVE  /\ g[c].job \in Calls \union {None}
               /\ g[c].peer \in Workers \union {None, Pending}
               /\ g[c].peer = Pending => g[c].calls \in Asked /\ g[c].reply = None
               /\ g[c].reply = "done" => Served(g[c])
    <3>0. /\ act[c].job \in Calls \union {None}
          /\ act[c].peer \in Workers \union {None, Pending}
          /\ act[c].peer = Pending => act[c].calls \in Asked /\ act[c].reply = None
          /\ act[c].reply = "done" => Served(act[c])
      BY <1>1 DEF Linked
    <3>1. CASE c = a
      BY <3>0, <3>1, <1>2, <1>17, Distinct DEF None
    <3>2. CASE c # a
      <4>1. g[c] = act[c]
        BY <1>2, <1>15, <3>2
      <4> QED
        BY <4>1, <3>0
    <3> QED
      BY <3>1, <3>2
  <2> QED
    BY <2>1, <2>2 DEF Linked
<1>21. ASSUME NEW b \in Actors PROVE Follows(g, b)
  <2>1. CASE b # a /\ b # w
    <3>1. \A c \in Clients : Served(act[c]) => Served(g[c])
      BY <1>2, <1>15, <1>17 DEF Served
    <3> QED
      BY <1>1, <1>15, <2>1, <3>1, OthersFollow
  <2>2. CASE b = a
    <3>1. Heard(act, g, a)
      BY <1>2, <1>3, <1>10, <1>12, <1>15, Distinct DEF Heard
    <3>2. View(g, a) \in Disturbed(View(act, a))
      BY <1>1, <1>15, <3>1, ClientView
    <3>3. g[a].job = act[a].job /\ g[a].todo = act[a].todo
      BY <1>10, <1>12, <1>15
    <3> QED
      BY <2>2, <3>2, <3>3, <1>1, <1>2, <1>15, FollowsOn
  <2>3. CASE b = w
    <3>1. Begun(g[w], p, a)
      BY <1>9, <1>15
    <3> QED
      BY <2>3, <3>1, <1>2, <1>7, <1>15, BegunFollows
  <2> QED
    BY <2>1, <2>2, <2>3
<1>22. Sound(g, sem)
  BY <1>15, <1>18, <1>19, <1>20, <1>21 DEF Sound
<1> QED
  BY <1>3, <1>13, <1>22 DEF Inv

(* A request is over, or a call has returned.                              *)
LEMMA FinishKeeps == ASSUME Inv, NEW a \in Actors, Finish(a) PROVE Inv'
<1>1. /\ act \in [Actors -> Records] /\ Resting(act) /\ Linked(act) /\ Holding(act, sem)
      /\ \A b \in Actors : Follows(act, b)
  BY DEF Inv, Sound
<1>2. sem' = sem
  BY DEF Finish, Private
<1>3. PICK r : r = Idle
  OBVIOUS
<1>4. /\ r \in Records /\ r.job = None /\ r.todo = <<>> /\ r.held = {}
      /\ r.own = {} /\ r.answers = 0 /\ r.peer = None /\ r.reply = None
  BY <1>3, IdleIs
<1>5. PICK g : g = act'
  OBVIOUS
<1>6. g = [act EXCEPT ![a] = r]
  BY <1>3, <1>5 DEF Finish, Becomes
<1>7. g \in [Actors -> Records] /\ g[a] = r /\ \A b \in Actors : b # a => g[b] = act[b]
  BY <1>1, <1>4, <1>6
<1>8. Resting(g)
  BY <1>1, <1>4, <1>7 DEF Resting
<1>9. Holding(g, sem)
  <2>1. \A b \in Actors : g[b].held = act[b].held \/ g[b].held = {}
    BY <1>4, <1>7
  <2>2. \A b \in Actors : g[b].held \subseteq act[b].held
    BY <2>1
  <2> QED
    BY <2>2, <1>1 DEF Holding
<1>10. Linked(g)
  <2>1. ASSUME NEW w \in Workers
        PROVE  /\ g[w].job \in Protocols \union {None}
               /\ g[w].peer \in Clients \union {None}
               /\ g[w].peer # None => /\ g[w].job \in Asked
                                      /\ g[g[w].peer].job = None \/ g[g[w].peer].peer = w
    <3>1. w \in Actors
      BY Distinct
    <3>2. /\ act[w].job \in Protocols \union {None}
          /\ act[w].peer \in Clients \union {None}
          /\ act[w].peer # None => /\ act[w].job \in Asked
                                   /\ act[act[w].peer].job = None \/ act[act[w].peer].peer = w
      BY <1>1 DEF Linked
    <3>3. CASE w = a
      BY <3>3, <1>4, <1>7
    <3>4. CASE w # a
      <4>1. g[w] = act[w]
        BY <1>7, <3>1, <3>4
      <4> QED
        BY <4>1, <3>2, <1>4, <1>7, Distinct
    <3> QED
      BY <3>3, <3>4
  <2>2. ASSUME NEW c \in Clients
        PROVE  /\ g[c].job \in Calls \union {None}
               /\ g[c].peer \in Workers \union {None, Pending}
               /\ g[c].peer = Pending => g[c].calls \in Asked /\ g[c].reply = None
               /\ g[c].reply = "done" => Served(g[c])
    <3>1. CASE c = a
      BY <3>1, <1>4, <1>7, Distinct DEF None
    <3>2. CASE c # a
      <4>1. g[c] = act[c]
        BY <1>7, <3>2, Distinct
      <4> QED
        BY <4>1, <1>1 DEF Linked
    <3> QED
      BY <3>1, <3>2
  <2> QED
    BY <2>1, <2>2 DEF Linked
<1>11. ASSUME NEW b \in Actors PROVE Follows(g, b)
  <2>1. CASE b # a
    <3>1. \A c \in Clients : Served(act[c]) => Served(g[c])
      BY <1>4, <1>7, Distinct DEF Served, Remote, None
    <3> QED
      BY <1>1, <1>7, <2>1, <3>1, OthersFollow
  <2>2. CASE b = a
    BY <2>2, <1>4, <1>7 DEF Follows
  <2> QED
    BY <2>1, <2>2
<1>12. Sound(g, sem)
  BY <1>7, <1>8, <1>9, <1>10, <1>11 DEF Sound
<1> QED
  BY <1>2, <1>5, <1>12 DEF Inv

(* A scenario begins.                                                      *)
LEMMA StartKeeps == ASSUME Inv, NEW s \in Scenarios, Start(s) PROVE Inv'
<1>1. Holding(act, sem) /\ sem' = sem
  BY DEF Inv, Sound, Start
<1>2. \A b \in DOMAIN s : s[b] \in IF b \in Clients THEN Calls ELSE Protocols
  BY SessionAssumption
<1>3. PICK g : g = act'
  OBVIOUS
<1>4. g = [b \in Actors |-> IF b \in DOMAIN s THEN Begin(s[b]) ELSE Idle]
  BY <1>3 DEF Start
<1>5. ASSUME NEW b \in Actors
      PROVE  /\ g[b] \in Records /\ g[b].held = {} /\ g[b].own = {} /\ g[b].answers = 0
             /\ g[b].peer = None /\ g[b].reply = None
             /\ \/ g[b].job = None /\ g[b].todo = <<>>
                \/ /\ Begun(g[b], g[b].job, None)
                   /\ g[b].job \in IF b \in Clients THEN Calls ELSE Protocols
  <2>1. CASE b \in DOMAIN s
    <3>1. g[b] = Begin(s[b]) /\ s[b] \in Jobs
      BY <1>2, <1>4, <2>1, Distinct
    <3>2. g[b] \in Records /\ Begun(g[b], s[b], None)
      BY <3>1, BeginIs
    <3> QED
      BY <3>2, <1>2, <2>1 DEF Begun
  <2>2. CASE b \notin DOMAIN s
    BY <1>4, <2>2, IdleIs
  <2> QED
    BY <2>1, <2>2
<1>6. g \in [Actors -> Records]
  <2>1. DOMAIN g = Actors /\ g = [b \in Actors |-> g[b]]
    BY <1>4
  <2> QED
    BY <2>1, <1>5
<1>7. Resting(g)
  <2>1. \A b \in Actors : g[b].job = None => g[b].todo = <<>>
    BY <1>5, Distinct
  <2> QED
    BY <2>1, <1>5 DEF Resting
<1>8. Holding(g, sem)
  BY <1>1, <1>5 DEF Holding
<1>9. Linked(g)
  <2>1. \A w \in Workers : w \in Actors /\ w \notin Clients
    BY Distinct
  <2>2. \A c \in Clients : c \in Actors
    BY Distinct
  <2>3. \A w \in Workers : g[w].peer = None /\ g[w].job \in Protocols \union {None}
    BY <2>1, <1>5
  <2>4. \A c \in Clients : g[c].peer = None /\ g[c].job \in Calls \union {None} /\ g[c].reply = None
    BY <2>2, <1>5
  <2>5. None # Pending /\ None # "done"
    BY DEF None, Pending
  <2> QED
    BY <2>3, <2>4, <2>5 DEF Linked
<1>10. ASSUME NEW b \in Actors PROVE Follows(g, b)
  <2>1. CASE g[b].job = None
    BY <2>1 DEF Follows
  <2>2. CASE /\ Begun(g[b], g[b].job, None)
             /\ g[b].job \in IF b \in Clients THEN Calls ELSE Protocols
    BY <2>2, <1>6, Distinct, BegunFollows
  <2> QED
    BY <1>5, <2>1, <2>2
<1>11. Sound(g, sem)
  BY <1>6, <1>7, <1>8, <1>9, <1>10 DEF Sound
<1> QED
  BY <1>1, <1>3, <1>11 DEF Inv

-----------------------------------------------------------------------------
(* The invariant *)

(* It holds before anything has begun.                                     *)
LEMMA InitInv == Init => Inv
<1> SUFFICES ASSUME Init PROVE Sound(act, sem)
  BY DEF Inv
<1>1. PICK r : r = Idle
  OBVIOUS
<1>2. /\ r \in Records /\ r.job = None /\ r.todo = <<>> /\ r.held = {}
      /\ r.own = {} /\ r.answers = 0 /\ r.peer = None /\ r.reply = None
  BY <1>1, IdleIs
<1>3. act = [a \in Actors |-> r] /\ sem = {}
  BY <1>1 DEF Init
<1>4. act \in [Actors -> Records] /\ \A a \in Actors : act[a] = r
  BY <1>2, <1>3
<1>5. Resting(act)
  BY <1>2, <1>4 DEF Resting
<1>6. Holding(act, sem)
  BY <1>2, <1>3, <1>4 DEF Holding
<1>7. Linked(act)
  <2>1. \A b \in Clients \union Workers : act[b] = r
    BY <1>4, Distinct
  <2>2. None # Pending /\ None # "done"
    BY DEF None, Pending
  <2> QED
    BY <1>2, <2>1, <2>2 DEF Linked
<1>8. \A a \in Actors : Follows(act, a)
  BY <1>2, <1>4 DEF Follows
<1> QED
  BY <1>4, <1>5, <1>6, <1>7, <1>8 DEF Sound

(* Every step of an actor keeps it.                                        *)
LEMMA StepKeeps == ASSUME Inv, NEW a \in Actors, Step(a) PROVE Inv'
<1>1. CASE Allocate(a)
  BY <1>1, AllocateKeeps
<1>2. CASE FreeObject(a)
  BY <1>2, FreeObjectKeeps
<1>3. CASE Decide(a)
  BY <1>3, DecideKeeps
<1>4. CASE Jump(a)
  BY <1>4, JumpKeeps
<1>5. CASE Forgiving(a)
  BY <1>5, ForgivingKeeps
<1>6. CASE UseText(a)
  BY <1>6, UseTextKeeps
<1>7. CASE LookForText(a)
  BY <1>7, LookForTextKeeps
<1>8. CASE AssignRet(a)
  BY <1>8, AssignRetKeeps
<1>9. CASE TestRet(a)
  BY <1>9, TestRetKeeps
<1>10. CASE Acquire(a)
  BY <1>10, AcquireKeeps
<1>11. CASE Release(a)
  BY <1>11, ReleaseKeeps
<1>12. CASE FindSemaphores(a)
  BY <1>12, FindSemaphoresKeeps
<1>13. CASE ConnectDaemon(a)
  BY <1>13, ConnectDaemonKeeps
<1>14. CASE SendAnswer(a)
  BY <1>14, SendAnswerKeeps
<1>15. CASE CloseConnection(a)
  BY <1>15, CloseConnectionKeeps
<1>16. CASE ServeRequest(a)
  BY <1>16, ServeRequestKeeps
<1>17. CASE ReceiveAnswer(a)
  BY <1>17, ReceiveAnswerKeeps
<1>18. CASE ExpectAnswer(a)
  BY <1>18, ExpectAnswerKeeps
<1>19. CASE AlwaysFails(a)
  BY <1>19, AlwaysFailsKeeps
<1>20. CASE Finish(a)
  BY <1>20, FinishKeeps
<1>21. CASE LookForRealm(a)
  BY <1>21, LookForRealmKeeps
<1> QED
  BY <1>1, <1>2, <1>3, <1>4, <1>5, <1>6, <1>7, <1>8, <1>9, <1>10, <1>11, <1>12, <1>13,
     <1>14, <1>15, <1>16, <1>17, <1>18, <1>19, <1>20, <1>21 DEF Step

(* Every step of the system keeps it.                                      *)
LEMMA NextInv == Inv /\ [Next]_vars => Inv'
<1> SUFFICES ASSUME Inv, [Next]_vars PROVE Inv'
  OBVIOUS
<1>1. CASE \E s \in Scenarios : Start(s)
  BY <1>1, StartKeeps
<1>2. CASE MakeSemaphores \/ UNCHANGED vars
  <2>1. act' = act /\ sem' = sem
    BY <1>2 DEF MakeSemaphores, vars
  <2> QED
    BY <2>1 DEF Inv
<1>3. CASE Dispatch
  <2>1. PICK c \in Clients : Drop(c) \/ \E w \in Accepting : Accept(w, c)
    BY <1>3 DEF Dispatch
  <2>2. Accepting \subseteq Workers
    BY SessionAssumption
  <2> QED
    BY <2>1, <2>2, DropKeeps, AcceptKeeps
<1>4. CASE \E a \in Actors : Step(a)
  BY <1>4, StepKeeps
<1> QED
  BY <1>1, <1>2, <1>3, <1>4 DEF Next

(* It holds in every state of the system.                                  *)
THEOREM AlwaysSound == Spec => []Inv
<1>1. Init => Inv
  BY InitInv
<1>2. Inv /\ [Next]_vars => Inv'
  BY NextInv
<1> QED
  BY <1>1, <1>2, PTL DEF Spec

-----------------------------------------------------------------------------
(* What it means *)

(* An actor that has come to the end of its script.                        *)
LEMMA AtEnd ==
  ASSUME Inv, NEW a \in Actors, Ended(a)
  PROVE  View(act, a) \in Final(act[a].job) /\ act[a].job \in Jobs
<1>1. act[a] \in Records /\ Follows(act, a) /\ act[a].job # None /\ act[a].todo = <<>>
  BY DEF Inv, Sound, Ended
<1>2. Runs(<<>>, View(act, a), Final(act[a].job))
  BY <1>1 DEF Follows
<1>3. View(act, a) \in Final(act[a].job)
  BY <1>2, RunsEnds
<1>4. act[a].job \in Jobs
  BY <1>1, RecordOf
<1> QED
  BY <1>3, <1>4

(* The assertions at the ends, for either kind of script.                  *)
LEMMA FinalIs ==
  ASSUME NEW p, NEW v \in Final(p)
  PROVE  /\ v.held = {} /\ v.own \subseteq {"auth"}
         /\ p \in Protocols => v \in After(p, {"auth"}, {})
         /\ p \notin Protocols => v \in Over(p, {}, {})
<1>1. CASE p \in Protocols
  BY <1>1 DEF Final, After
<1>2. CASE p \notin Protocols
  BY <1>2 DEF Final, Over
<1> QED
  BY <1>1, <1>2

(* A mutex or a semaphore is given back by whoever has taken it, whatever  *)
(* failed in between, and never held by two: the locks of the worker       *)
(* threads (libezcfg/src) and of the calls (libezcfg/api).                 *)
THEOREM LocksAlwaysReturned == Spec => []LocksReturned
<1>1. Inv => LocksReturned
  <2> SUFFICES ASSUME Inv PROVE LocksReturned
    OBVIOUS
  <2>1. ASSUME NEW a \in Actors, Ended(a) PROVE act[a].held = {}
    <3>1. View(act, a).held = {}
      BY <2>1, AtEnd, FinalIs
    <3> QED
      BY <3>1, SeenParts DEF View
  <2>2. ASSUME NEW a \in Actors, act[a].job = None PROVE act[a].held = {}
    BY <2>2 DEF Inv, Sound, Resting
  <2>3. \A a, b \in Actors : a # b => act[a].held \intersect act[b].held = {}
    BY DEF Inv, Sound, Holding
  <2> QED
    BY <2>1, <2>2, <2>3 DEF LocksReturned
<1> QED
  BY <1>1, AlwaysSound, PTL

(* The types, and that no jump leaves its script.                          *)
LEMMA InvTypes == ASSUME Inv PROVE TypeOK
<1>1. /\ act \in [Actors -> Records] /\ Resting(act) /\ Holding(act, sem)
      /\ \A a \in Actors : Follows(act, a)
  BY DEF Inv, Sound
<1>2. ASSUME NEW a \in Actors, NEW k \in DOMAIN act[a].todo
      PROVE  act[a].todo[k].skip <= Len(act[a].todo)
  <2>1. CASE act[a].job = None
    <3>1. act[a].todo = <<>>
      BY <1>1, <2>1 DEF Resting
    <3> QED
      BY <3>1, <1>2
  <2>2. CASE act[a].job # None
    <3>1. PICK s \in Seq(Steps) : s = act[a].todo
      BY <1>1, RecordOf
    <3>2. Runs(s, View(act, a), Final(act[a].job))
      BY <1>1, <2>2, <3>1 DEF Follows
    <3>3. s[k].skip <= Len(s)
      BY <1>2, <3>1, <3>2, RunsInside
    <3> QED
      BY <3>1, <3>3
  <2> QED
    BY <2>1, <2>2
<1>3. ASSUME NEW a \in Actors
      PROVE  /\ act[a].failed \in BOOLEAN /\ act[a].ret \in BOOLEAN
             /\ act[a].unset \in BOOLEAN
             /\ act[a].answers \in Nat
             /\ act[a].peer \in Actors \union {None, Pending}
             /\ act[a].held \subseteq sem
  <2>1. act[a] \in Records
    BY <1>1
  <2>2. act[a].held \subseteq sem
    BY <1>1 DEF Holding
  <2> QED
    BY <2>1, <2>2, RecordOf
<1>4. sem \subseteq {"auth", "upnp", "nvram", "ctrl", "ezctp"}
  BY <1>1 DEF Holding, Locks
<1> QED
  BY <1>2, <1>3, <1>4 DEF TypeOK

(* What a request or a call has allocated is freed when it ends, on every  *)
(* path through its handler (the auth structure of is_authorized() is the  *)
(* exception), and the request line is not used once it was freed.         *)
THEOREM MemoryAlwaysOwned == Spec => []MemoryOwned
<1>1. Inv => MemoryOwned
  <2> SUFFICES ASSUME Inv PROVE MemoryOwned
    OBVIOUS
  <2>1. TypeOK
    BY InvTypes
  <2>2. ASSUME NEW a \in Actors, Ended(a) PROVE act[a].own \subseteq {"auth"}
    <3>1. View(act, a).own \subseteq {"auth"}
      BY <2>2, AtEnd, FinalIs
    <3> QED
      BY <3>1, SeenParts DEF View
  <2>3. ASSUME NEW w \in Workers, Is(w, "use")
        PROVE  \/ Command(w).to \in act[w].own
               \/ AskedAuth(w) /\ act[w].ret
    <3>1. w \in Actors /\ Busy(w) /\ Command(w).op = "use"
      BY <2>3, Distinct DEF Is
    <3>2. \/ Command(w).to \in View(act, w).own
          \/ "auth" \in View(act, w).own /\ "ret" \in View(act, w).is
      BY <3>1, CommandFits DEF Fit
    <3>3. View(act, w).own = act[w].own
      BY SeenParts DEF View
    <3>4. "ret" \in View(act, w).is => act[w].ret
      <4>1. "ret" \in Raised(act[w]) => act[w].ret
        BY DEF Raised
      <4> QED
        BY <4>1, FlagsSeen
    <3> QED
      BY <3>2, <3>3, <3>4 DEF AskedAuth
  <2> QED
    BY <2>1, <2>2, <2>3 DEF MemoryOwned, AllFreed, RequestLineAlive
<1> QED
  BY <1>1, AlwaysSound, PTL

(* A connection carries at most one answer to its request (two where       *)
(* is_authorized() sends the first), and a request that could be read is   *)
(* answered before its connection is closed, except where the handlers     *)
(* mean not to and where the realm to ask a password for is not set.       *)
THEOREM AlwaysAnsweredOnce == Spec => []AnsweredOnce
<1>1. Inv => AnsweredOnce
  <2> SUFFICES ASSUME Inv PROVE AnsweredOnce
    OBVIOUS
  <2>1. ASSUME NEW w \in Workers PROVE act[w].answers <= IF AskedAuth(w) THEN 2 ELSE 1
    <3>1. w \in Actors
      BY Distinct
    <3>2. CASE act[w].job = None
      BY <3>1, <3>2 DEF Inv, Sound, Resting, AskedAuth
    <3>3. CASE act[w].job # None
      <4>1. PICK s \in Seq(Steps) : s = act[w].todo
        BY <3>1, RecordOf DEF Inv, Sound
      <4>2. Runs(s, View(act, w), Final(act[w].job))
        BY <3>1, <3>3, <4>1 DEF Inv, Sound, Follows
      <4>3. View(act, w) \in Disturbed(View(act, w))
        BY DEF Disturbed
      <4>4. View(act, w) \in Views
        BY <4>2, <4>3, RunsDisturbed
      <4>5. View(act, w).answers <= Limit(View(act, w).own)
        BY <4>4 DEF Views
      <4>6. act[w].answers <= Limit(act[w].own)
        BY <4>5, SeenParts DEF View
      <4> QED
        BY <4>6 DEF Limit, AskedAuth
    <3> QED
      BY <3>2, <3>3
  <2>2. ASSUME NEW w \in Workers, Ended(w), ~act[w].trouble, act[w].answers = 0, ~act[w].unset
        PROVE  \/ act[w].job = "upnp_ssdp"
               \/ act[w].job \in {"soap_http", "agent_soap_http"} /\ ~act[w].served
    <3>1. w \in Actors
      BY Distinct
    <3>2. PICK p : p = act[w].job
      OBVIOUS
    <3>3. View(act, w) \in Final(p) /\ p \in Protocols
      <4>1. Linked(act)
        BY DEF Inv, Sound
      <4> QED
        BY <2>2, <3>1, <3>2, <4>1, AtEnd, Distinct DEF Linked, Ended
    <3>4. View(act, w) \in After(p, {"auth"}, {})
      BY <3>3, FinalIs
    <3>5. View(act, w).answers = 0 /\ "trouble" \notin View(act, w).is
      <4>1. "trouble" \notin Raised(act[w])
        BY <2>2 DEF Raised
      <4> QED
        BY <2>2, <4>1, FlagsSeen, SeenParts DEF View
    <3>6. Unanswered(p, View(act, w).is)
      BY <3>4, <3>5 DEF After
    <3>7. act[w].served => "served" \in View(act, w).is
      <4>1. act[w].served => "served" \in Around(act, w)
        BY DEF Around
      <4> QED
        BY <4>1, FlagsSeen
    <3> QED
      BY <3>2, <3>6, <3>7 DEF Unanswered
  <2> QED
    BY <2>1, <2>2 DEF AnsweredOnce, OneAnswer, RequestAnswered
<1> QED
  BY <1>1, AlwaysSound, PTL

(* A get or set in soap, a change of nvram or a request for the shared     *)
(* memory that reports success to its caller was served by the daemon: no  *)
(* failure on the way is taken for an answer.                              *)
THEOREM SuccessAlwaysServed == Spec => []SuccessIsServed
<1>1. Inv => SuccessIsServed
  <2> SUFFICES ASSUME Inv PROVE SuccessIsServed
    OBVIOUS
  <2>1. ASSUME NEW c \in Clients, Ended(c), act[c].job \in Remote, ~act[c].failed
        PROVE  act[c].served
    <3>1. c \in Actors
      BY Distinct
    <3>2. PICK p : p = act[c].job
      OBVIOUS
    <3>3. Linked(act)
      BY DEF Inv, Sound
    <3>4. View(act, c) \in Final(p) /\ p \in Calls /\ p \notin Protocols
      <4>1. p \in Calls
        BY <2>1, <3>2, <3>3 DEF Linked, Ended
      <4> QED
        BY <2>1, <3>1, <3>2, <4>1, AtEnd, Distinct
    <3>5. View(act, c) \in Over(p, {}, {})
      BY <3>4, FinalIs
    <3>6. "failed" \notin View(act, c).is
      <4>1. "failed" \notin Raised(act[c])
        BY <2>1 DEF Raised
      <4> QED
        BY <4>1, FlagsSeen
    <3>7. View(act, c).reply = "done"
      BY <2>1, <3>2, <3>5, <3>6 DEF Over
    <3>8. act[c].reply = "done" /\ act[c].job # None
      BY <2>1, <3>7, SeenParts DEF View, Ended
    <3> QED
      BY <2>1, <3>3, <3>8 DEF Linked, Served
  <2> QED
    BY <2>1 DEF SuccessIsServed
<1> QED
  BY <1>1, AlwaysSound, PTL
=============================================================================
