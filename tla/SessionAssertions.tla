------------------------- MODULE SessionAssertions --------------------------
(***************************************************************************)
(* How the scripts of Session are reasoned about.  A script has no loops,  *)
(* so it is described by an assertion before each of its commands: a set   *)
(* of views, where a view is what an actor knows of itself and of its      *)
(* peer.  This module says what a command does to a view, when the         *)
(* assertions of a script fit together, and how they are put together from *)
(* those of its parts.  SessionScripts_proofs applies it to every handler  *)
(* and every call, Session_proofs to the states of Session.                *)
(***************************************************************************)
EXTENDS Session, SequenceTheorems, TLAPS

-----------------------------------------------------------------------------
(* What a command does *)

Locks == {"auth", "upnp", "nvram", "ctrl", "ezctp"}
(* The protocols that clients ask for.                                     *)
Asked == {"soap_http", "json_http", "ctrl"}
Replies == {"done", "refused", "closed"}
(* The operations of the scripts, and what they are about.                 *)
Ops == {"alloc", "own", "free", "test", "realm", "jump", "return", "forgive", "use",
        "have", "setret", "callret", "needret", "lock", "take", "unlock",
        "give", "semget", "connect", "answer", "close", "serve", "receive",
        "expect", "never"}
Words == {"", "auth", "uri", "proto", "buf", "msg", "ws", "hws", "ssi", "hn",
          "language", "line", "ezcfg", "sh", "jh", "ctrl", "uuid", "agent",
          "upnp", "nvram", "ezctp", "any", "false", "done", "refused",
          "soap_http", "json_http"}

(* What an actor knows; is: the flags that are set.  served: of a worker.  *)
(* good: the client of a worker was served, if there is one that still     *)
(* waits for what Remote names.  trouble: something was refused, or the    *)
(* realm is not set.  linked: a client has connected.  No answer too many  *)
(* has been sent.                                                          *)
Flags == {"ret", "failed", "trouble", "served", "good", "linked"}
Limit(own) == IF "auth" \in own THEN 2 ELSE 1
Views ==
  {v \in [own : SUBSET Words, held : SUBSET Locks, is : SUBSET Flags, answers : Nat,
          job : Protocols \union Calls, reply : Replies \union {None}] :
     v.answers <= Limit(v.own)}

(* What is asked of a state in which the command c is next.                *)
Fit(c, v) ==
  /\ c.op \in {"lock", "take"} => c.to \in Locks
  /\ c.op \in {"unlock", "give"} => c.to \in v.held
  /\ c.op = "use" => c.to \in v.own \/ ("auth" \in v.own /\ "ret" \in v.is)
  /\ c.op \in {"answer", "close", "serve"} => v.job \in Protocols
  /\ c.op = "answer" => /\ c.to \in {"done", "refused"}
                        /\ v.answers < Limit(v.own)
                        /\ c.to = "done" /\ v.job \in Asked => "good" \in v.is
  /\ c.op \in {"connect", "receive", "expect", "take", "give", "semget"}
       => v.job \in Calls
  /\ c.op = "connect" => c.to \in Asked /\ "linked" \notin v.is
  /\ c.op = "free" => c.to # "auth"

(* The flags after the handler was called.                                 *)
Outcomes(flags) ==
  {F \in SUBSET Flags : /\ "served" \in F /\ ("ret" \in F => "good" \in F)
                        /\ ("good" \in flags => "good" \in F)
                        /\ \A f \in {"failed", "trouble"} : f \in F <=> f \in flags}
(* Where the command c may lead when it goes well, and when it does not.   *)
Onwards(c, v) ==
  CASE c.op \in {"alloc", "own"} -> {[v EXCEPT !.own = @ \union ({c.to} \ {None})]}
    [] c.op = "free"    -> {[v EXCEPT !.own = @ \ {c.to}]}
    [] c.op \in {"test", "realm", "use", "semget", "close"} -> {v}
    [] c.op = "connect" -> {[v EXCEPT !.is = @ \union {"linked"}]}
    [] c.op = "forgive" -> {[v EXCEPT !.is = @ \ {"failed"}]}
    [] c.op = "have"    -> IF c.to \in v.own THEN {v} ELSE {}
    [] c.op = "setret"  -> IF c.to = "any" THEN {[v EXCEPT !.is = @ \union {"ret"}],
                                                 [v EXCEPT !.is = @ \ {"ret"}]}
                           ELSE {[v EXCEPT !.is = @ \ {"ret"}]}
    [] c.op = "callret" -> {[v EXCEPT !.is = @ \union {"ret"}]}
    [] c.op = "needret" -> IF "ret" \in v.is THEN {v} ELSE {}
    [] c.op \in {"lock", "take"} -> {[v EXCEPT !.held = @ \union {c.to}]}
    [] c.op \in {"unlock", "give"} -> {[v EXCEPT !.held = @ \ {c.to}]}
    [] c.op = "answer"  -> {[v EXCEPT !.answers = @ + 1]}
    [] c.op = "serve"   -> {[v EXCEPT !.is = F] : F \in Outcomes(v.is)}
    [] c.op = "receive" -> IF v.reply \in Replies \ {"closed"} THEN {v} ELSE {}
    [] c.op = "expect"  -> IF v.reply = c.to THEN {v} ELSE {}
    [] OTHER -> {}
Skips(c, v) ==
  CASE c.op \in {"alloc", "take", "connect"}
                        -> {[v EXCEPT !.is = @ \union {"failed", "trouble"}]}
    [] c.op = "realm"   -> {[v EXCEPT !.is = @ \union {"trouble"}]}
    [] c.op \in {"receive", "expect", "never"} -> {[v EXCEPT !.is = @ \union {"failed"}]}
    [] c.op \in {"test", "jump", "return"} -> {v}
    [] c.op = "have"    -> IF c.to \in v.own THEN {} ELSE {v}
    [] c.op = "callret" -> {[v EXCEPT !.is = @ \ {"ret"}]}
    [] c.op = "needret" -> IF "ret" \in v.is THEN {} ELSE {v}
    [] OTHER -> {}

(* Sets of views that the steps of other actors do not lead out of: a      *)
(* client gets served, and gets its reply.                                 *)
Disturbed(v) ==
  {v, [v EXCEPT !.is = @ \union {"good"}]}
  \union (IF v.reply = None THEN {[v EXCEPT !.reply = r] : r \in Replies} ELSE {})
Assertions == {S \in SUBSET Views : \A v \in S : Disturbed(v) \subseteq S}

-----------------------------------------------------------------------------
(* Assertions *)

Commands == [op : Ops, to : Words, pi : {""}, si : {""}, skip : Nat]

(* The command c leads from P to Q, or skips to S.                         *)
Leads(c, P, Q, S) ==
  \A v \in P : Fit(c, v) /\ Onwards(c, v) \subseteq Q /\ Skips(c, v) \subseteq S

(* The assertions A fit the commands of s: A[i] holds before the i-th, the *)
(* last one after s, and leaving s by the operation op only where E[op]    *)
(* holds.                                                                  *)
Fits(s, A, E) ==
  /\ A \in [1 .. Len(s) + 1 -> Assertions]
  /\ \A i \in 1 .. Len(s) :
       /\ i + s[i].skip <= Len(s) + 1
       /\ Leads(s[i], A[i], A[i + 1], IF s[i].skip = 0 THEN E[s[i].op] ELSE A[i + s[i].skip])

(* s leads from P to Q, or leaves by E.                                    *)
Does(P, s, Q, E) ==
  /\ s \in Seq(Commands)
  /\ \E A : Fits(s, A, E) /\ P \subseteq A[1] /\ A[Len(s) + 1] = Q

(* The operations in ops may leave, where S holds; no other one leaves.    *)
Via(ops, S) == [op \in Ops |-> IF op \in ops THEN S ELSE {}]
Nowhere == Via({}, {})

(* A command of the scripts. *)
LEMMA CommandIs ==
  ASSUME NEW op \in Ops, NEW x \in Words
  PROVE  LET c == Cmd(op, x, "", "")
         IN  c \in Commands /\ c.op = op /\ c.to = x /\ c.skip = 0
BY DEF Cmd, Commands

(* The words of the scripts. *)
LEMMA Known ==
  /\ "realm" \in Ops /\ "alloc" \in Ops /\ "own" \in Ops /\ "free" \in Ops /\ "test" \in Ops /\ "jump" \in Ops
  /\ "return" \in Ops /\ "forgive" \in Ops /\ "use" \in Ops /\ "have" \in Ops
  /\ "setret" \in Ops /\ "callret" \in Ops /\ "needret" \in Ops /\ "lock" \in Ops
  /\ "take" \in Ops /\ "unlock" \in Ops /\ "give" \in Ops /\ "semget" \in Ops
  /\ "connect" \in Ops /\ "answer" \in Ops /\ "close" \in Ops /\ "serve" \in Ops
  /\ "receive" \in Ops /\ "expect" \in Ops /\ "never" \in Ops
  /\ {"", "auth", "uri", "proto", "buf", "msg", "ws", "hws", "ssi", "hn"} \subseteq Words
  /\ {"language", "line", "ezcfg", "sh", "jh", "ctrl", "uuid", "agent"} \subseteq Words
  /\ {"upnp", "nvram", "ezctp", "any", "false", "done", "refused"} \subseteq Words
  /\ {"soap_http", "json_http"} \subseteq Words
BY DEF Ops, Words

(* The fields of a command. *)
LEMMA CommandOf ==
  ASSUME NEW s \in Seq(Commands)
  PROVE  /\ Len(s) \in Nat /\ DOMAIN s = 1 .. Len(s)
         /\ \A i \in 1 .. Len(s) : /\ s[i] \in Commands
                                   /\ s[i].op \in Ops /\ s[i].to \in Words
                                   /\ s[i].skip \in Nat
<1>1. Len(s) \in Nat /\ DOMAIN s = 1 .. Len(s) /\ \A i \in 1 .. Len(s) : s[i] \in Commands
  OBVIOUS
<1>2. \A c \in Commands : c.op \in Ops /\ c.to \in Words /\ c.skip \in Nat
  BY DEF Commands
<1> QED
  BY <1>1, <1>2

(* E lets nobody leave who may not leave by F.                             *)
Narrower(E, F) == \A op \in Ops : E[op] \subseteq F[op]

(* Concatenation is associative.                                           *)
LEMMA Regrouped ==
  ASSUME NEW s \in Seq(Commands), NEW t \in Seq(Commands), NEW u \in Seq(Commands)
  PROVE  (s \o t) \o u = s \o (t \o u)
<1>1. PICK S : S = Commands
  OBVIOUS
<1>2. s \in Seq(S) /\ t \in Seq(S) /\ u \in Seq(S)
  BY <1>1
<1> QED
  BY <1>2, ConcatAssociative

(* Two scripts one after the other.                                        *)
LEMMA Glued ==
  ASSUME NEW s \in Seq(Commands), NEW t \in Seq(Commands), NEW A, NEW B, NEW E,
         Fits(s, A, E), Fits(t, B, E), A[Len(s) + 1] = B[1]
  PROVE  \E C : /\ Fits(s \o t, C, E)
                /\ \A i \in 1 .. Len(s) + 1 : C[i] = A[i]
                /\ \A i \in 1 .. Len(t) + 1 : C[Len(s) + i] = B[i]
<1> DEFINE m == Len(s)
           n == Len(t)
           C == [i \in 1 .. m + n + 1 |-> IF i <= m THEN A[i] ELSE B[i - m]]
<1>1. /\ m \in Nat /\ n \in Nat /\ s \o t \in Seq(Commands) /\ Len(s \o t) = m + n
      /\ \A i \in 1 .. m : (s \o t)[i] = s[i]
      /\ \A i \in 1 .. n : (s \o t)[m + i] = t[i]
  BY ConcatProperties
<1>2. A \in [1 .. m + 1 -> Assertions] /\ B \in [1 .. n + 1 -> Assertions]
  BY DEF Fits
<1>3. /\ \A i \in 1 .. m : s[i].skip \in Nat
      /\ \A i \in 1 .. n : t[i].skip \in Nat
  BY CommandOf
<1>a. ASSUME NEW i \in 1 .. n + 1 PROVE C[m + i] = B[i]
  <2>1. m + i \in 1 .. m + n + 1 /\ ~(m + i <= m) /\ m + i - m = i
    BY <1>1
  <2> QED
    BY <2>1
<1>b. ASSUME NEW i \in 1 .. m + 1 PROVE C[i] = A[i]
  <2>1. CASE i <= m
    BY <2>1, <1>1
  <2>2. CASE i = m + 1
    <3>1. C[m + 1] = B[1]
      BY <1>a, <1>1
    <3> QED
      BY <3>1, <2>2
  <2> QED
    BY <2>1, <2>2, <1>1
<1>c. C \in [1 .. m + n + 1 -> Assertions]
  <2>1. ASSUME NEW i \in 1 .. m + n + 1 PROVE C[i] \in Assertions
    <3>1. CASE i <= m
      BY <3>1, <1>1, <1>2, <1>b
    <3>2. CASE ~(i <= m)
      <4>1. i - m \in 1 .. n + 1 /\ m + (i - m) = i
        BY <3>2, <1>1
      <4> QED
        BY <4>1, <1>a, <1>2
    <3> QED
      BY <3>1, <3>2
  <2> QED
    BY <2>1
<1> HIDE DEF C
<1>4. ASSUME NEW i \in 1 .. m
      PROVE  /\ i + (s \o t)[i].skip <= m + n + 1
             /\ Leads((s \o t)[i], C[i], C[i + 1],
                      IF (s \o t)[i].skip = 0 THEN E[(s \o t)[i].op] ELSE C[i + (s \o t)[i].skip])
  <2> DEFINE k == s[i].skip
  <2>1. i + k <= m + 1 /\ k \in Nat
    BY <1>3 DEF Fits
  <2>2. Leads(s[i], A[i], A[i + 1], IF k = 0 THEN E[s[i].op] ELSE A[i + k])
    BY DEF Fits
  <2>3. C[i] = A[i] /\ C[i + 1] = A[i + 1] /\ C[i + k] = A[i + k]
    BY <2>1, <1>1, <1>b
  <2>4. (s \o t)[i] = s[i]
    BY <1>1
  <2> QED
    BY <2>1, <2>2, <2>3, <2>4, <1>1
<1>5. ASSUME NEW j \in 1 .. n
      PROVE  LET i == m + j
             IN  /\ i + (s \o t)[i].skip <= m + n + 1
                 /\ Leads((s \o t)[i], C[i], C[i + 1],
                          IF (s \o t)[i].skip = 0 THEN E[(s \o t)[i].op] ELSE C[i + (s \o t)[i].skip])
  <2> DEFINE k == t[j].skip
  <2>1. j + k <= n + 1 /\ k \in Nat
    BY <1>3 DEF Fits
  <2>2. Leads(t[j], B[j], B[j + 1], IF k = 0 THEN E[t[j].op] ELSE B[j + k])
    BY DEF Fits
  <2>0. m \in Nat /\ n \in Nat /\ j \in Nat
    BY <1>1
  <2> HIDE DEF m, n, k
  <2>a. /\ j \in 1 .. n + 1 /\ j + 1 \in 1 .. n + 1 /\ j + k \in 1 .. n + 1
        /\ m + (j + 1) = m + j + 1 /\ m + (j + k) = m + j + k
        /\ m + j + k <= m + n + 1
    BY <2>0, <2>1
  <2>3. C[m + j] = B[j] /\ C[m + (j + 1)] = B[j + 1] /\ C[m + (j + k)] = B[j + k]
    BY <2>a, <1>a
  <2> USE DEF m, n, k
  <2>4. (s \o t)[m + j] = t[j]
    BY <1>1
  <2> QED
    BY <2>2, <2>3, <2>4, <2>a
<1>6. ASSUME NEW i \in 1 .. m + n
      PROVE  /\ i + (s \o t)[i].skip <= m + n + 1
             /\ Leads((s \o t)[i], C[i], C[i + 1],
                      IF (s \o t)[i].skip = 0 THEN E[(s \o t)[i].op] ELSE C[i + (s \o t)[i].skip])
  <2>1. CASE i <= m
    BY <2>1, <1>1, <1>4
  <2>2. CASE ~(i <= m)
    <3>1. i - m \in 1 .. n /\ m + (i - m) = i
      BY <2>2, <1>1
    <3> QED
      BY <3>1, <1>5
  <2> QED
    BY <2>1, <2>2
<1>7. Fits(s \o t, C, E)
  BY <1>1, <1>c, <1>6 DEF Fits
<1> QED
  BY <1>7, <1>a, <1>b

(* One more command in front.                                              *)
LEMMA Prepended ==
  ASSUME NEW x \in Commands, NEW t \in Seq(Commands), NEW B, NEW E, NEW P \in Assertions,
         Fits(t, B, E), x.skip <= Len(t) + 1,
         Leads(x, P, B[1], IF x.skip = 0 THEN E[x.op] ELSE B[x.skip])
  PROVE  \E C : /\ Fits(<<x>> \o t, C, E) /\ C[1] = P
                /\ \A i \in 1 .. Len(t) + 1 : C[i + 1] = B[i]
<1> DEFINE n == Len(t)
           C == [i \in 1 .. n + 2 |-> IF i = 1 THEN P ELSE B[i - 1]]
           u == <<x>> \o t
<1>1. /\ n \in Nat /\ u \in Seq(Commands) /\ Len(u) = n + 1 /\ u[1] = x
      /\ \A i \in 1 .. n : u[i + 1] = t[i]
  <2>1. <<x>> \in Seq(Commands) /\ Len(<<x>>) = 1 /\ <<x>>[1] = x
    OBVIOUS
  <2>2. n \in Nat
    OBVIOUS
  <2>3. /\ u \in Seq(Commands) /\ Len(u) = 1 + n /\ u[1] = x
        /\ \A i \in 1 .. n : u[1 + i] = t[i]
    BY <2>1, ConcatProperties
  <2> HIDE DEF u, n
  <2>4. \A i \in 1 .. n : 1 + i = i + 1
    BY <2>2
  <2> QED
    BY <2>2, <2>3, <2>4
<1>2. B \in [1 .. n + 1 -> Assertions]
  BY DEF Fits
<1>3. /\ x.skip \in Nat /\ \A i \in 1 .. n : t[i].skip \in Nat
  BY CommandOf DEF Commands
<1>n. n \in Nat
  BY <1>1
<1> HIDE DEF n
<1>a. ASSUME NEW i \in 1 .. n + 1 PROVE C[i + 1] = B[i]
  <2>1. i + 1 \in 1 .. n + 2 /\ i + 1 # 1 /\ (i + 1) - 1 = i
    BY <1>n
  <2> QED
    BY <2>1
<1>b. C[1] = P
  BY <1>n
<1>c. C \in [1 .. n + 2 -> Assertions]
  <2>1. ASSUME NEW i \in 1 .. n + 2 PROVE C[i] \in Assertions
    <3>1. CASE i = 1
      BY <3>1, <1>b
    <3>2. CASE i # 1
      <4>1. i - 1 \in 1 .. n + 1 /\ (i - 1) + 1 = i
        BY <3>2, <1>n
      <4> QED
        BY <4>1, <1>a, <1>2
    <3> QED
      BY <3>1, <3>2
  <2> QED
    BY <2>1
<1> HIDE DEF C, u
<1>4. /\ 1 + u[1].skip <= n + 2
      /\ Leads(u[1], C[1], C[1 + 1], IF u[1].skip = 0 THEN E[u[1].op] ELSE C[1 + u[1].skip])
  <2>1. 1 \in 1 .. n + 1 /\ (x.skip # 0 => x.skip \in 1 .. n + 1) /\ 1 + x.skip = x.skip + 1
        /\ 1 + x.skip <= n + 2
    BY <1>n, <1>3 DEF n
  <2>2. C[1 + 1] = B[1] /\ (x.skip # 0 => C[1 + x.skip] = B[x.skip])
    BY <2>1, <1>a
  <2> QED
    BY <2>1, <2>2, <1>1, <1>b
<1>5. ASSUME NEW j \in 1 .. n
      PROVE  LET i == j + 1
             IN  /\ i + u[i].skip <= n + 2
                 /\ Leads(u[i], C[i], C[i + 1], IF u[i].skip = 0 THEN E[u[i].op] ELSE C[i + u[i].skip])
  <2>1. j + t[j].skip <= n + 1 /\ t[j].skip \in Nat
    BY <1>3 DEF Fits, n
  <2>2. Leads(t[j], B[j], B[j + 1], IF t[j].skip = 0 THEN E[t[j].op] ELSE B[j + t[j].skip])
    BY DEF Fits, n
  <2>3. PICK k \in Nat : k = t[j].skip
    BY <2>1
  <2>a. j + k <= n + 1
    BY <2>1, <2>3
  <2>4. /\ j \in 1 .. n + 1 /\ j + 1 \in 1 .. n + 1 /\ j + k \in 1 .. n + 1
        /\ (j + 1) + k = (j + k) + 1 /\ (j + 1) + k <= n + 2
    BY <2>a, <1>n
  <2>5. C[j + 1] = B[j] /\ C[(j + 1) + 1] = B[j + 1] /\ C[(j + k) + 1] = B[j + k]
    BY <2>4, <1>a
  <2>6. u[j + 1] = t[j]
    BY <1>1
  <2>7. Leads(u[j + 1], C[j + 1], C[(j + 1) + 1],
              IF u[j + 1].skip = 0 THEN E[u[j + 1].op] ELSE C[(j + 1) + k])
    BY <2>2, <2>3, <2>4, <2>5, <2>6
  <2> QED
    BY <2>3, <2>4, <2>6, <2>7
<1>6. ASSUME NEW i \in 1 .. n + 1
      PROVE  /\ i + u[i].skip <= n + 2
             /\ Leads(u[i], C[i], C[i + 1], IF u[i].skip = 0 THEN E[u[i].op] ELSE C[i + u[i].skip])
  <2>1. CASE i = 1
    BY <2>1, <1>4
  <2>2. CASE i # 1
    <3>1. i - 1 \in 1 .. n /\ (i - 1) + 1 = i
      BY <2>2, <1>n
    <3> QED
      BY <3>1, <1>5
  <2> QED
    BY <2>1, <2>2
<1>7. Len(u) = n + 1 /\ (n + 1) + 1 = n + 2
  BY <1>1, <1>n
<1>8. Fits(u, C, E)
  BY <1>7, <1>c, <1>6 DEF Fits
<1> QED
  BY <1>8, <1>a, <1>b DEF u, n

(* A command that leads to less, or from more, also leads.                 *)
LEMMA LeadsMore ==
  ASSUME NEW c, NEW P, NEW Q, NEW S, NEW P1, NEW Q1, NEW S1,
         Leads(c, P, Q, S), P1 \subseteq P, Q \subseteq Q1, S \subseteq S1
  PROVE  Leads(c, P1, Q1, S1)
BY DEF Leads

(* More may hold after a script.                                           *)
LEMMA Widened ==
  ASSUME NEW s \in Seq(Commands), NEW A, NEW E, NEW F, NEW Q \in Assertions,
         Fits(s, A, E), A[Len(s) + 1] \subseteq Q,
         Narrower(E, F)
  PROVE  \E B : /\ Fits(s, B, F) /\ B[Len(s) + 1] = Q
                /\ \A i \in 1 .. Len(s) : B[i] = A[i]
                /\ A[1] \subseteq B[1]
<1>1. PICK n \in Nat : n = Len(s)
  OBVIOUS
<1> DEFINE B == [i \in 1 .. n + 1 |-> IF i = n + 1 THEN Q ELSE A[i]]
<1>2. A \in [1 .. n + 1 -> Assertions]
  BY <1>1 DEF Fits
<1>3. B[n + 1] = Q /\ (\A i \in 1 .. n : B[i] = A[i]) /\ B \in [1 .. n + 1 -> Assertions]
  BY <1>2
<1>4. \A i \in 1 .. n + 1 : A[i] \subseteq B[i]
  BY <1>1, <1>2
<1> HIDE DEF B
<1>5. ASSUME NEW i \in 1 .. n
      PROVE  /\ i + s[i].skip <= n + 1
             /\ Leads(s[i], B[i], B[i + 1], IF s[i].skip = 0 THEN F[s[i].op] ELSE B[i + s[i].skip])
  <2>1. /\ i + s[i].skip <= n + 1 /\ s[i].skip \in Nat /\ s[i].op \in Ops
        /\ Leads(s[i], A[i], A[i + 1], IF s[i].skip = 0 THEN E[s[i].op] ELSE A[i + s[i].skip])
    BY <1>1, CommandOf DEF Fits
  <2>2. PICK k \in Nat : k = s[i].skip
    BY <2>1
  <2>3. i \in 1 .. n + 1 /\ i + 1 \in 1 .. n + 1 /\ i + k \in 1 .. n + 1
    BY <2>1, <2>2
  <2>4. B[i] = A[i] /\ A[i + 1] \subseteq B[i + 1] /\ A[i + k] \subseteq B[i + k]
    BY <2>3, <1>3, <1>4
  <2>5. (IF k = 0 THEN E[s[i].op] ELSE A[i + k]) \subseteq (IF k = 0 THEN F[s[i].op] ELSE B[i + k])
    BY <2>1, <2>4 DEF Narrower
  <2>6. PICK N, N1, S, S1 : /\ N = A[i + 1] /\ N1 = B[i + 1]
                            /\ S = (IF k = 0 THEN E[s[i].op] ELSE A[i + k])
                            /\ S1 = (IF k = 0 THEN F[s[i].op] ELSE B[i + k])
    OBVIOUS
  <2>7. Leads(s[i], B[i], N, S) /\ N \subseteq N1 /\ S \subseteq S1
    BY <2>1, <2>2, <2>4, <2>5, <2>6
  <2>8. Leads(s[i], B[i], N1, S1)
    BY <2>7 DEF Leads
  <2> QED
    BY <2>1, <2>2, <2>6, <2>8
<1>6. Fits(s, B, F)
  BY <1>1, <1>3, <1>5 DEF Fits
<1> QED
  BY <1>1, <1>3, <1>4, <1>6

(* Consequence.                                                            *)
LEMMA Consequence ==
  ASSUME NEW P, NEW s, NEW Q, NEW E, NEW P1, NEW Q1 \in Assertions, NEW E1,
         Does(P, s, Q, E), P1 \subseteq P, Q \subseteq Q1,
         Narrower(E, E1)
  PROVE  Does(P1, s, Q1, E1)
<1>1. PICK A : Fits(s, A, E) /\ P \subseteq A[1] /\ A[Len(s) + 1] = Q
  BY DEF Does
<1>2. s \in Seq(Commands)
  BY DEF Does
<1>a. A[Len(s) + 1] \subseteq Q1
  BY <1>1
<1>3. PICK B : /\ Fits(s, B, E1) /\ B[Len(s) + 1] = Q1
               /\ \A i \in 1 .. Len(s) : B[i] = A[i]
               /\ A[1] \subseteq B[1]
  BY <1>1, <1>2, <1>a, Widened
<1> QED
  BY <1>1, <1>2, <1>3 DEF Does

(* One after the other.                                                    *)
LEMMA Joined ==
  ASSUME NEW P, NEW s, NEW Q, NEW t, NEW R, NEW E,
         Does(P, s, Q, E), Does(Q, t, R, E)
  PROVE  Does(P, s \o t, R, E)
<1>1. PICK A : Fits(s, A, E) /\ P \subseteq A[1] /\ A[Len(s) + 1] = Q
  BY DEF Does
<1>2. PICK B : Fits(t, B, E) /\ Q \subseteq B[1] /\ B[Len(t) + 1] = R
  BY DEF Does
<1>3. s \in Seq(Commands) /\ t \in Seq(Commands)
  BY DEF Does
<1>4. Len(s) \in Nat /\ Len(t) \in Nat /\ 1 \in 1 .. Len(s) + 1 /\ Len(t) + 1 \in 1 .. Len(t) + 1
  BY <1>3
<1>5. B[1] \in Assertions
  BY <1>2, <1>4 DEF Fits
<1>a. A[Len(s) + 1] \subseteq B[1] /\ Narrower(E, E)
  BY <1>1, <1>2 DEF Narrower
<1>6. PICK A1 : /\ Fits(s, A1, E) /\ A1[Len(s) + 1] = B[1]
                /\ \A i \in 1 .. Len(s) : A1[i] = A[i]
                /\ A[1] \subseteq A1[1]
  BY <1>1, <1>3, <1>5, <1>a, Widened
<1>7. PICK C : /\ Fits(s \o t, C, E)
               /\ \A i \in 1 .. Len(s) + 1 : C[i] = A1[i]
               /\ \A i \in 1 .. Len(t) + 1 : C[Len(s) + i] = B[i]
  BY <1>2, <1>3, <1>6, Glued
<1>8. s \o t \in Seq(Commands) /\ Len(s \o t) + 1 = Len(s) + (Len(t) + 1)
  BY <1>3, <1>4, ConcatProperties
<1>9. C[1] = A1[1] /\ C[Len(s \o t) + 1] = R
  BY <1>2, <1>4, <1>7, <1>8
<1> QED
  BY <1>1, <1>6, <1>7, <1>8, <1>9 DEF Does

(* A command with another skip does the same.                              *)
LEMMA Reskipped ==
  ASSUME NEW x \in Commands, NEW k \in Nat, NEW y, y = [x EXCEPT !.skip = k]
  PROVE  /\ y \in Commands /\ y.op = x.op /\ y.to = x.to /\ y.skip = k
         /\ \A P, Q, S : Leads(x, P, Q, S) => Leads(y, P, Q, S)
<1>1. y \in Commands /\ y.op = x.op /\ y.to = x.to /\ y.skip = k
  BY DEF Commands
<1>2. ASSUME NEW P, NEW Q, NEW S, Leads(x, P, Q, S) PROVE Leads(y, P, Q, S)
  <2>1. \A v : (Fit(x, v) <=> Fit(y, v)) /\ Onwards(x, v) = Onwards(y, v) /\ Skips(x, v) = Skips(y, v)
    BY <1>1 DEF Fit, Onwards, Skips
  <2> QED
    BY <1>2, <2>1 DEF Leads
<1> QED
  BY <1>1, <1>2

(* A jump leads nowhere but where it jumps to.                             *)
LEMMA Jumps ==
  ASSUME NEW j, j.op = "jump", NEW P, NEW Q
  PROVE  Leads(j, P, Q, P)
<1>1. \A v : Fit(j, v) /\ Onwards(j, v) = {} /\ Skips(j, v) = {v}
  BY DEF Fit, Onwards, Skips
<1> QED
  BY <1>1 DEF Leads

(* One command, and none.                                                  *)
LEMMA Single ==
  ASSUME NEW x \in Commands, x.skip = 0, NEW P \in Assertions, NEW Q \in Assertions, NEW E,
         Leads(x, P, Q, E[x.op])
  PROVE  Does(P, <<x>>, Q, E)
<1> DEFINE A == [i \in 1 .. 2 |-> IF i = 1 THEN P ELSE Q]
<1>1. <<x>> \in Seq(Commands) /\ Len(<<x>>) = 1 /\ <<x>>[1] = x
  OBVIOUS
<1>2. A \in [1 .. 2 -> Assertions] /\ A[1] = P /\ A[2] = Q
  OBVIOUS
<1> HIDE DEF A
<1>3. \A i \in 1 .. 1 : i = 1
  OBVIOUS
<1>4. Fits(<<x>>, A, E)
  BY <1>1, <1>2, <1>3 DEF Fits
<1> QED
  BY <1>1, <1>2, <1>4 DEF Does

(* No command at all leads to what holds anyway.                           *)
LEMMA Nothing ==
  ASSUME NEW P, NEW Q \in Assertions, NEW E, P \subseteq Q
  PROVE  Does(P, <<>>, Q, E)
<1> DEFINE A == [i \in 1 .. 1 |-> Q]
<1>1. <<>> \in Seq(Commands) /\ Len(<<>>) = 0 /\ 0 + 1 = 1
  OBVIOUS
<1>2. A \in [1 .. 1 -> Assertions] /\ A[1] = Q
  OBVIOUS
<1> HIDE DEF A
<1>3. Fits(<<>>, A, E)
  BY <1>1, <1>2 DEF Fits
<1> QED
  BY <1>1, <1>2, <1>3 DEF Does

(* The same command several times.                                         *)
LEMMA Repeated ==
  ASSUME NEW x \in Commands, x.skip = 0, NEW P \in Assertions, NEW E, NEW n \in Nat,
         Leads(x, P, P, E[x.op])
  PROVE  Does(P, [k \in 1 .. n |-> x], P, E)
<1> DEFINE s == [k \in 1 .. n |-> x]
           A == [i \in 1 .. n + 1 |-> P]
<1>1. s \in Seq(Commands) /\ Len(s) = n /\ \A i \in 1 .. n : s[i] = x
  <2>1. s \in [1 .. n -> Commands]
    OBVIOUS
  <2>2. s \in Seq(Commands)
    BY <2>1, IsASeq
  <2>3. Len(s) \in Nat /\ DOMAIN s = 1 .. Len(s) /\ DOMAIN s = 1 .. n
    BY <2>2
  <2> QED
    BY <2>2, <2>3
<1>2. A \in [1 .. n + 1 -> Assertions] /\ \A i \in 1 .. n + 1 : A[i] = P
  OBVIOUS
<1> HIDE DEF A, s
<1>3. ASSUME NEW i \in 1 .. n
      PROVE  /\ i + s[i].skip <= n + 1
             /\ Leads(s[i], A[i], A[i + 1], IF s[i].skip = 0 THEN E[s[i].op] ELSE A[i + s[i].skip])
  <2>1. i \in 1 .. n + 1 /\ i + 1 \in 1 .. n + 1 /\ i + 0 <= n + 1
    OBVIOUS
  <2>2. A[i] = P /\ A[i + 1] = P /\ s[i] = x
    BY <2>1, <1>1, <1>2
  <2> QED
    BY <2>1, <2>2
<1>4. Fits(s, A, E)
  BY <1>1, <1>2, <1>3 DEF Fits
<1>5. A[1] = P /\ A[n + 1] = P
  BY <1>2
<1> QED
  BY <1>1, <1>4, <1>5 DEF Does, s

(* A condition of one command.                                             *)
Condition(c) == c = <<c[1]>> /\ c[1] \in Commands

(* if (c) { s }                                                            *)
LEMMA Branch ==
  ASSUME NEW c, NEW s, NEW P \in Assertions, NEW P1, NEW Q, NEW E,
         Condition(c), Leads(c[1], P, P1, Q), Does(P1, s, Q, E)
  PROVE  Does(P, If(c, s), Q, E)
<1>1. PICK B : Fits(s, B, E) /\ P1 \subseteq B[1] /\ B[Len(s) + 1] = Q
  BY DEF Does
<1>2. s \in Seq(Commands) /\ Len(s) \in Nat /\ c[1] \in Commands
  BY DEF Does, Condition
<1>3. PICK k \in Nat : k = Len(s) + 1
  BY <1>2
<1> DEFINE y == [c[1] EXCEPT !.skip = k]
<1>4. /\ y \in Commands /\ y.skip = k /\ Leads(y, P, P1, Q)
      /\ If(c, s) = <<y>> \o s
  <2>1. PICK x \in Commands : x = c[1]
    BY DEF Condition
  <2>2. y = [x EXCEPT !.skip = k] /\ If(c, s) = <<y>> \o s
    BY <1>3, <2>1 DEF If
  <2> HIDE DEF y
  <2>3. y \in Commands /\ y.skip = k /\ (Leads(x, P, P1, Q) => Leads(y, P, P1, Q))
    BY <2>2, Reskipped
  <2> QED
    BY <2>1, <2>2, <2>3
<1> HIDE DEF y
<1>5. k # 0 /\ k <= Len(s) + 1 /\ k \in 1 .. Len(s) + 1
  BY <1>2, <1>3
<1>6. Leads(y, P, B[1], IF y.skip = 0 THEN E[y.op] ELSE B[y.skip])
  <2>1. Leads(y, P, B[1], Q)
    BY <1>1, <1>4, LeadsMore
  <2> QED
    BY <2>1, <1>1, <1>3, <1>4, <1>5
<1>7. y.skip <= Len(s) + 1
  BY <1>4, <1>5
<1>8. PICK C : /\ Fits(<<y>> \o s, C, E) /\ C[1] = P
               /\ \A i \in 1 .. Len(s) + 1 : C[i + 1] = B[i]
  BY <1>1, <1>2, <1>4, <1>6, <1>7, Prepended
<1>9. /\ <<y>> \in Seq(Commands) /\ Len(<<y>>) = 1
      /\ <<y>> \o s \in Seq(Commands) /\ Len(<<y>> \o s) = k
  BY <1>2, <1>3, <1>4
<1>10. C[k + 1] = Q
  BY <1>1, <1>3, <1>5, <1>8
<1> QED
  BY <1>4, <1>8, <1>9, <1>10 DEF Does

(* if (c) { s } else { t }                                                 *)
LEMMA Branches ==
  ASSUME NEW c, NEW s, NEW t, NEW P \in Assertions, NEW P1, NEW P2, NEW Q \in Assertions, NEW E,
         Condition(c), Leads(c[1], P, P1, P2), Does(P1, s, Q, E), Does(P2, t, Q, E)
  PROVE  Does(P, IfElse(c, s, t), Q, E)
<1>1. PICK A : Fits(s, A, E) /\ P1 \subseteq A[1] /\ A[Len(s) + 1] = Q
  BY DEF Does
<1>2. PICK B : Fits(t, B, E) /\ P2 \subseteq B[1] /\ B[Len(t) + 1] = Q
  BY DEF Does
<1>3. /\ s \in Seq(Commands) /\ Len(s) \in Nat /\ t \in Seq(Commands) /\ Len(t) \in Nat
      /\ c[1] \in Commands
  BY DEF Does, Condition
<1>m. PICK m \in Nat : m = Len(s)
  BY <1>3
<1>n. PICK n \in Nat : n = Len(t)
  BY <1>3
<1> DEFINE y == [c[1] EXCEPT !.skip = m + 2]
           j == [c[1] EXCEPT !.op = "jump", !.skip = n + 1]
           u == <<j>> \o t
           w == s \o u
<1>4. y \in Commands /\ y.skip = m + 2 /\ Leads(y, P, P1, P2)
  <2>1. PICK x \in Commands, k \in Nat : x = c[1] /\ k = m + 2
    BY <1>3
  <2>2. y = [x EXCEPT !.skip = k]
    BY <2>1
  <2> HIDE DEF y
  <2>3. y \in Commands /\ y.skip = k /\ (Leads(x, P, P1, P2) => Leads(y, P, P1, P2))
    BY <2>2, Reskipped
  <2> QED
    BY <2>1, <2>3
<1>5. j \in Commands /\ j.skip = n + 1 /\ Leads(j, Q, B[1], Q)
  <2>1. PICK x \in Commands, k \in Nat : x = c[1] /\ k = n + 1
    BY <1>3
  <2> DEFINE z == [x EXCEPT !.op = "jump"]
  <2>2. z \in Commands /\ z.op = "jump"
    BY Known DEF Commands
  <2>3. j = [z EXCEPT !.skip = k]
    BY <2>1 DEF Commands
  <2> HIDE DEF z, j
  <2>4. j \in Commands /\ j.skip = k /\ j.op = "jump"
    BY <2>2, <2>3 DEF Commands
  <2>5. Leads(j, Q, B[1], Q)
    BY <2>4, Jumps
  <2> QED
    BY <2>1, <2>4, <2>5
<1> HIDE DEF y, j
<1>6. /\ <<j>> \in Seq(Commands) /\ Len(<<j>>) = 1 /\ <<y>> \in Seq(Commands) /\ Len(<<y>>) = 1
  <2>1. j \in Commands /\ y \in Commands
    BY <1>4, <1>5
  <2> QED
    BY <2>1
<1>7. /\ u \in Seq(Commands) /\ Len(u) = 1 + n
      /\ s \o <<j>> \in Seq(Commands) /\ Len(s \o <<j>>) = m + 1
  BY <1>3, <1>m, <1>n, <1>6, ConcatProperties
<1> HIDE DEF u
<1>8. w \in Seq(Commands) /\ Len(w) = m + (1 + n)
  <2>1. s \o u \in Seq(Commands) /\ Len(s \o u) = Len(s) + Len(u)
    BY <1>3, <1>7, ConcatProperties
  <2> QED
    BY <2>1, <1>m, <1>7
<1> HIDE DEF w
<1>9. <<y>> \o w \in Seq(Commands) /\ Len(<<y>> \o w) = 1 + (m + (1 + n))
  BY <1>6, <1>8, ConcatProperties
<1>10. IfElse(c, s, t) = <<y>> \o w
  <2>1. IfElse(c, s, t) = (<<y>> \o (s \o <<j>>)) \o t
    <3>1. Len(s \o <<j>>) + 1 = m + 2
      BY <1>7
    <3>2. If(c, s \o <<j>>) = <<y>> \o (s \o <<j>>)
      BY <3>1 DEF If, y
    <3>3. IfElse(c, s, t) = If(c, s \o <<j>>) \o t
      BY <1>n DEF IfElse, j
    <3> QED
      BY <3>2, <3>3
  <2>2. /\ <<y>> \in Seq(Commands) /\ <<j>> \in Seq(Commands)
        /\ s \in Seq(Commands) /\ t \in Seq(Commands) /\ s \o <<j>> \in Seq(Commands)
    BY <1>3, <1>6, <1>7
  <2>3. (<<y>> \o (s \o <<j>>)) \o t = <<y>> \o ((s \o <<j>>) \o t)
    BY <2>2, Regrouped
  <2>4. (s \o <<j>>) \o t = s \o (<<j>> \o t)
    BY <2>2, Regrouped
  <2> QED
    BY <2>1, <2>3, <2>4 DEF w, u
<1>11. PICK C : /\ Fits(u, C, E) /\ C[1] = Q
                /\ \A i \in 1 .. Len(t) + 1 : C[i + 1] = B[i]
  <2>1. j.skip <= Len(t) + 1 /\ Leads(j, Q, B[1], IF j.skip = 0 THEN E[j.op] ELSE B[j.skip])
    BY <1>2, <1>5, <1>n
  <2> QED
    BY <1>2, <1>3, <1>5, <2>1, Prepended DEF u
<1>12. PICK D : /\ Fits(w, D, E)
                /\ \A i \in 1 .. Len(s) + 1 : D[i] = A[i]
                /\ \A i \in 1 .. Len(u) + 1 : D[Len(s) + i] = C[i]
  <2>1. A[Len(s) + 1] = C[1]
    BY <1>1, <1>11
  <2>2. s \in Seq(Commands) /\ u \in Seq(Commands) /\ Fits(s, A, E) /\ Fits(u, C, E)
    BY <1>1, <1>3, <1>7, <1>11
  <2>3. \E D : /\ Fits(s \o u, D, E)
               /\ \A i \in 1 .. Len(s) + 1 : D[i] = A[i]
               /\ \A i \in 1 .. Len(u) + 1 : D[Len(s) + i] = C[i]
    BY <2>1, <2>2, Glued
  <2> QED
    BY <2>3 DEF w
<1>13. D[1] = A[1] /\ D[m + 2] = B[1] /\ D[Len(w) + 1] = Q
  <2>1. D[1] = A[1]
    BY <1>12, <1>m
  <2>2. D[m + 2] = C[2] /\ C[1 + 1] = B[1]
    BY <1>12, <1>11, <1>m, <1>n, <1>7
  <2>3. D[m + (n + 2)] = C[n + 2]
    BY <1>12, <1>m, <1>7
  <2>4. C[(n + 1) + 1] = Q
    BY <1>11, <1>2, <1>n
  <2>5. n + 2 = (n + 1) + 1 /\ m + (n + 2) = (m + (1 + n)) + 1 /\ 1 + 1 = 2
    OBVIOUS
  <2> QED
    BY <2>1, <2>2, <2>3, <2>4, <2>5, <1>8
<1>14. Leads(y, P, D[1], IF y.skip = 0 THEN E[y.op] ELSE D[y.skip])
  <2>1. P1 \subseteq D[1] /\ P2 \subseteq D[m + 2]
    BY <1>1, <1>2, <1>13
  <2>2. Leads(y, P, D[1], D[m + 2])
    BY <2>1, <1>4, LeadsMore
  <2>3. m + 2 # 0
    OBVIOUS
  <2> QED
    BY <2>2, <2>3, <1>4
<1>15. y.skip <= Len(w) + 1
  BY <1>4, <1>8
<1>16. PICK F : /\ Fits(<<y>> \o w, F, E) /\ F[1] = P
                /\ \A i \in 1 .. Len(w) + 1 : F[i + 1] = D[i]
  BY <1>4, <1>8, <1>12, <1>14, <1>15, Prepended
<1>17. F[Len(<<y>> \o w) + 1] = Q
  <2>1. Len(w) + 1 \in 1 .. Len(w) + 1 /\ Len(<<y>> \o w) + 1 = (Len(w) + 1) + 1
    BY <1>8, <1>9
  <2> QED
    BY <2>1, <1>13, <1>16
<1> QED
  BY <1>9, <1>10, <1>16, <1>17 DEF Does

(* if (!c) { e; goto func_exit; }                                          *)
LEMMA Otherwise ==
  ASSUME NEW c, NEW e, NEW P \in Assertions, NEW P1 \in Assertions, NEW P2, NEW R \in Assertions,
         NEW E, Condition(c), Leads(c[1], P, P1, P2), Does(P2, e, R, E), R \subseteq E["return"]
  PROVE  Does(P, OrElse(c, e), P1, E)
<1> DEFINE x == Cmd("return", "", "", "")
           z == Cmd("jump", "", "", "")
<1>1. /\ x \in Commands /\ x.op = "return" /\ x.skip = 0
      /\ z \in Commands /\ z.op = "jump"
      /\ Return = <<x>>
  <2>1. "return" \in Ops /\ "jump" \in Ops /\ "" \in Words
    BY Known
  <2> QED
    BY <2>1, CommandIs DEF Return
<1> HIDE DEF x, z
<1>2. Does(R, Return, P1, E)
  <2>1. \A v : Fit(x, v) /\ Onwards(x, v) = {} /\ Skips(x, v) = {v}
    BY <1>1 DEF Fit, Onwards, Skips
  <2>2. Leads(x, R, P1, E[x.op])
    BY <2>1, <1>1 DEF Leads
  <2> QED
    BY <2>2, <1>1, Single
<1> DEFINE u == e \o Return
<1>3. Does(P2, u, P1, E)
  BY <1>2, Joined
<1>4. e \in Seq(Commands) /\ Return \in Seq(Commands) /\ Len(Return) = 1
  BY <1>1, <1>2 DEF Does
<1>5. u \in Seq(Commands) /\ Len(u) = Len(e) + 1 /\ Len(e) \in Nat
  <2>1. e \o Return \in Seq(Commands) /\ Len(e \o Return) = Len(e) + Len(Return)
    BY <1>4, ConcatProperties
  <2>2. Len(e) \in Nat
    BY <1>4
  <2> QED
    BY <2>1, <2>2, <1>4
<1> HIDE DEF u
<1>n. PICK n \in Nat : n = Len(e)
  BY <1>5
<1>6. PICK B : Fits(u, B, E) /\ P2 \subseteq B[1] /\ B[Len(u) + 1] = P1
  BY <1>3 DEF Does
<1> DEFINE g == [z EXCEPT !.skip = n + 2]
           y == [c[1] EXCEPT !.skip = 2]
<1>7. /\ g \in Commands /\ g.skip = n + 2 /\ g.op = "jump" /\ Goto(Len(e) + 2) = <<g>>
  <2>1. n + 2 \in Nat
    OBVIOUS
  <2>2. g \in Commands /\ g.skip = n + 2 /\ g.op = "jump"
    BY <2>1, <1>1 DEF Commands
  <2> QED
    BY <2>2, <1>n DEF Goto, z
<1>8. y \in Commands /\ y.skip = 2 /\ Leads(y, P, P1, P2)
  <2>1. PICK d \in Commands, k \in Nat : d = c[1] /\ k = 2
    BY DEF Condition
  <2>2. y = [d EXCEPT !.skip = k]
    BY <2>1
  <2> HIDE DEF y
  <2>3. y \in Commands /\ y.skip = k /\ (Leads(d, P, P1, P2) => Leads(y, P, P1, P2))
    BY <2>2, Reskipped
  <2> QED
    BY <2>1, <2>3
<1> HIDE DEF g, y
<1>9. OrElse(c, e) = <<y>> \o (<<g>> \o u)
  <2>1. OrElse(c, e) = ((<<y>> \o <<g>>) \o e) \o Return
    BY <1>7 DEF OrElse, y
  <2>2. <<y>> \in Seq(Commands) /\ <<g>> \in Seq(Commands) /\ <<y>> \o <<g>> \in Seq(Commands)
    BY <1>7, <1>8
  <2>3. ((<<y>> \o <<g>>) \o e) \o Return = (<<y>> \o <<g>>) \o (e \o Return)
    BY <2>2, <1>4, Regrouped
  <2>4. (<<y>> \o <<g>>) \o u = <<y>> \o (<<g>> \o u)
    BY <2>2, <1>5, Regrouped
  <2> QED
    BY <2>1, <2>3, <2>4 DEF u
<1>10. PICK C : /\ Fits(<<g>> \o u, C, E) /\ C[1] = P1
                /\ \A i \in 1 .. Len(u) + 1 : C[i + 1] = B[i]
  <2>1. \A v : Fit(g, v) /\ Onwards(g, v) = {} /\ Skips(g, v) = {v}
    BY <1>7 DEF Fit, Onwards, Skips
  <2>2. Len(u) + 1 = n + 2 /\ n + 2 # 0
    BY <1>5, <1>n
  <2>3. Leads(g, P1, B[1], IF g.skip = 0 THEN E[g.op] ELSE B[g.skip]) /\ g.skip <= Len(u) + 1
    BY <2>1, <2>2, <1>6, <1>7 DEF Leads
  <2> QED
    BY <2>3, <1>5, <1>6, <1>7, Prepended
<1>11. /\ <<g>> \o u \in Seq(Commands) /\ Len(<<g>> \o u) = n + 2
       /\ <<y>> \o (<<g>> \o u) \in Seq(Commands) /\ Len(<<y>> \o (<<g>> \o u)) = n + 3
  <2>1. /\ <<g>> \in Seq(Commands) /\ Len(<<g>>) = 1
        /\ <<y>> \in Seq(Commands) /\ Len(<<y>>) = 1
    BY <1>7, <1>8
  <2>2. <<g>> \o u \in Seq(Commands) /\ Len(<<g>> \o u) = 1 + Len(u)
    BY <2>1, <1>5, ConcatProperties
  <2>3. /\ <<y>> \o (<<g>> \o u) \in Seq(Commands)
        /\ Len(<<y>> \o (<<g>> \o u)) = 1 + Len(<<g>> \o u)
    BY <2>1, <2>2, ConcatProperties
  <2> QED
    BY <2>2, <2>3, <1>5, <1>n
<1>12. C[2] = B[1] /\ C[n + 3] = P1
  <2>1. 1 \in 1 .. Len(u) + 1 /\ Len(u) + 1 \in 1 .. Len(u) + 1 /\ (Len(u) + 1) + 1 = n + 3 /\ 1 + 1 = 2
    BY <1>5, <1>n
  <2> QED
    BY <2>1, <1>6, <1>10
<1>13. PICK D : /\ Fits(<<y>> \o (<<g>> \o u), D, E) /\ D[1] = P
                /\ \A i \in 1 .. Len(<<g>> \o u) + 1 : D[i + 1] = C[i]
  <2>1. P1 \subseteq C[1] /\ P2 \subseteq C[2]
    BY <1>6, <1>10, <1>12
  <2>2. Leads(y, P, C[1], C[2])
    BY <2>1, <1>8, LeadsMore
  <2>3. Leads(y, P, C[1], IF y.skip = 0 THEN E[y.op] ELSE C[y.skip]) /\ y.skip <= Len(<<g>> \o u) + 1
    BY <2>2, <1>8, <1>11
  <2> DEFINE w == <<g>> \o u
  <2>4. Fits(w, C, E) /\ w \in Seq(Commands) /\ y.skip <= Len(w) + 1
    BY <2>3, <1>10, <1>11
  <2> HIDE DEF w
  <2>5. \E D : /\ Fits(<<y>> \o w, D, E) /\ D[1] = P
              /\ \A i \in 1 .. Len(w) + 1 : D[i + 1] = C[i]
    BY <2>3, <2>4, <1>8, Prepended
  <2> QED
    BY <2>5 DEF w
<1>14. D[(n + 3) + 1] = P1
  <2>1. n + 3 \in 1 .. Len(<<g>> \o u) + 1
    BY <1>11
  <2> QED
    BY <2>1, <1>12, <1>13
<1> QED
  BY <1>9, <1>11, <1>13, <1>14 DEF Does

(* What leaves a script by E goes on at its end, if it is one of ops, or   *)
(* leaves by F.                                                            *)
Caught(E, ops, Q, F) ==
  \A op \in Ops : IF op \in ops THEN E[op] \subseteq Q ELSE E[op] \subseteq F[op]

(* A script as a part of its caller.                                       *)
LEMMA Ending ==
  ASSUME NEW s, NEW ops, NEW P, NEW Q, NEW E, NEW F,
         Does(P, s, Q, E), Caught(E, ops, Q, F)
  PROVE  Does(P, ToEnd(s, ops), Q, F)
<1>1. PICK A : Fits(s, A, E) /\ P \subseteq A[1] /\ A[Len(s) + 1] = Q
  BY DEF Does
<1>2. s \in Seq(Commands)
  BY DEF Does
<1>n. PICK n \in Nat : n = Len(s)
  BY <1>2
<1> DEFINE t == ToEnd(s, ops)
<1>3. \A i \in 1 .. n : s[i] \in Commands /\ s[i].op \in Ops /\ s[i].skip \in Nat
  BY <1>2, <1>n, CommandOf
<1>4. ASSUME NEW i \in 1 .. n
      PROVE  /\ t[i] \in Commands /\ t[i].op = s[i].op
             /\ t[i].skip = IF s[i].skip = 0 /\ s[i].op \in ops THEN n - i + 1 ELSE s[i].skip
             /\ \A P1, Q1, S1 : Leads(s[i], P1, Q1, S1) => Leads(t[i], P1, Q1, S1)
  <2>1. PICK k \in Nat : k = n - i + 1
    OBVIOUS
  <2>2. i \in DOMAIN s
    BY <1>2, <1>n
  <2>3. t[i] = IF s[i].skip = 0 /\ s[i].op \in ops THEN [s[i] EXCEPT !.skip = k] ELSE s[i]
    BY <2>1, <2>2, <1>n DEF ToEnd
  <2>4. CASE s[i].skip = 0 /\ s[i].op \in ops
    <3>1. t[i] = [s[i] EXCEPT !.skip = k]
      BY <2>3, <2>4
    <3> HIDE DEF t
    <3>2. /\ t[i] \in Commands /\ t[i].op = s[i].op /\ t[i].skip = k
          /\ \A P1, Q1, S1 : Leads(s[i], P1, Q1, S1) => Leads(t[i], P1, Q1, S1)
      <4>1. PICK x \in Commands : x = s[i]
        BY <1>3
      <4>2. t[i] = [x EXCEPT !.skip = k]
        BY <3>1, <4>1
      <4>3. /\ t[i] \in Commands /\ t[i].op = x.op /\ t[i].skip = k
            /\ \A P1, Q1, S1 : Leads(x, P1, Q1, S1) => Leads(t[i], P1, Q1, S1)
        BY <4>2, Reskipped
      <4> QED
        BY <4>1, <4>3
    <3> QED
      BY <3>2, <2>1, <2>4
  <2>5. CASE ~(s[i].skip = 0 /\ s[i].op \in ops)
    BY <2>3, <2>5, <1>3
  <2> QED
    BY <2>4, <2>5
<1>5. t \in Seq(Commands) /\ Len(t) = n
  <2>1. DOMAIN s = 1 .. n
    BY <1>2, <1>n
  <2>2. DOMAIN t = 1 .. n /\ t = [i \in 1 .. n |-> t[i]]
    BY <2>1 DEF ToEnd
  <2> HIDE DEF t
  <2>3. t \in [1 .. n -> Commands]
    BY <2>2, <1>4
  <2>4. t \in Seq(Commands)
    BY <2>3, IsASeq
  <2>5. Len(t) \in Nat /\ DOMAIN t = 1 .. Len(t)
    BY <2>4
  <2> QED
    BY <2>2, <2>4, <2>5
<1> HIDE DEF t
<1>6. ASSUME NEW i \in 1 .. n
      PROVE  /\ i + t[i].skip <= n + 1
             /\ Leads(t[i], A[i], A[i + 1], IF t[i].skip = 0 THEN F[t[i].op] ELSE A[i + t[i].skip])
  <2>1. PICK k \in Nat : k = s[i].skip
    BY <1>3
  <2>2. /\ i + k <= n + 1
        /\ Leads(s[i], A[i], A[i + 1], IF k = 0 THEN E[s[i].op] ELSE A[i + k])
    BY <1>1, <1>n, <2>1 DEF Fits
  <2>3. CASE k = 0 /\ s[i].op \in ops
    <3>a. t[i].skip = n - i + 1
      BY <2>1, <2>3, <1>4
    <3>b. i + (n - i + 1) = n + 1 /\ n - i + 1 # 0
      OBVIOUS
    <3>1. t[i].skip = n - i + 1 /\ i + t[i].skip = n + 1 /\ t[i].skip # 0
      BY <3>a, <3>b
    <3>2. E[s[i].op] \subseteq A[n + 1]
      BY <1>1, <1>3, <1>n, <2>3 DEF Caught
    <3>3. Leads(s[i], A[i], A[i + 1], E[s[i].op])
      BY <2>2, <2>3
    <3>4. Leads(s[i], A[i], A[i + 1], A[n + 1])
      BY <3>2, <3>3, LeadsMore
    <3>5. Leads(t[i], A[i], A[i + 1], A[n + 1])
      BY <3>4, <1>4
    <3> QED
      BY <3>1, <3>5
  <2>4. CASE k = 0 /\ s[i].op \notin ops
    <3>1. t[i].skip = 0 /\ t[i].op = s[i].op
      BY <2>1, <2>4, <1>4
    <3>2. E[s[i].op] \subseteq F[s[i].op]
      BY <1>3, <2>4 DEF Caught
    <3>3. Leads(s[i], A[i], A[i + 1], E[s[i].op])
      BY <2>2, <2>4
    <3>4. Leads(s[i], A[i], A[i + 1], F[s[i].op])
      BY <3>2, <3>3, LeadsMore
    <3>5. Leads(t[i], A[i], A[i + 1], F[s[i].op])
      BY <3>4, <1>4
    <3> QED
      BY <3>1, <3>5, <2>2, <2>4
  <2>5. CASE k # 0
    <3>1. t[i].skip = k
      BY <2>1, <2>5, <1>4
    <3>2. Leads(t[i], A[i], A[i + 1], A[i + k])
      BY <2>2, <2>5, <1>4
    <3> QED
      BY <3>1, <3>2, <2>2, <2>5
  <2> QED
    BY <2>3, <2>4, <2>5
<1>7. Fits(t, A, F)
  BY <1>1, <1>5, <1>6, <1>n DEF Fits
<1>8. Does(P, t, Q, F)
  BY <1>1, <1>5, <1>7, <1>n DEF Does
<1> QED
  BY <1>8 DEF t
=============================================================================
