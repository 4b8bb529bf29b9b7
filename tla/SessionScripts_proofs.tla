----------------------- MODULE SessionScripts_proofs ------------------------
(***************************************************************************)
(* What the scripts of the workers and of the calls do, from the first     *)
(* command to the last, whatever fails on the way: the assertions of       *)
(* SessionAssertions, worked out for every handler and every call.         *)
(***************************************************************************)
EXTENDS SessionAssertions

-----------------------------------------------------------------------------
(* The assertions of a worker *)

Lively(v) == "uri" \in v.own \/ ("auth" \in v.own /\ "ret" \in v.is)
(* The requests that are not answered on purpose.                          *)
Unanswered(p, flags) ==
  p = "upnp_ssdp" \/ (p \in {"soap_http", "agent_soap_http"} /\ "served" \notin flags)

(* What else may be known of a worker: the request line is there ("uri"),  *)
(* or may be used ("live"); the handler was not called ("fresh"); nothing  *)
(* was sent ("mute"); the auth structure was made ("auth"), or was if ret  *)
(* is set ("checked"); the client was served ("good"), or was if ret is    *)
(* set ("earned").                                                         *)
Fact(f, v) ==
  /\ f = "uri" => "uri" \in v.own
  /\ f = "live" => Lively(v)
  /\ f = "fresh" => "served" \notin v.is
  /\ f = "mute" => v.answers = 0
  /\ f = "auth" => "auth" \in v.own
  /\ f = "checked" /\ "ret" \in v.is => "auth" \in v.own
  /\ f = "good" => "good" \in v.is
  /\ f = "earned" /\ "ret" \in v.is => "good" \in v.is

(* A worker of protocol p that may still answer, of which the facts in K   *)
(* are known; its objects are in X, its mutexes are H.                     *)
Before(p, X, H, K) ==
  {v \in Views :
     /\ v.job = p /\ v.own \subseteq X /\ v.held = H /\ v.answers < Limit(v.own)
     /\ \A f \in K : Fact(f, v)}

(* A worker that has answered, or has a reason not to.                     *)
After(p, X, H) ==
  {v \in Views :
     /\ v.job = p /\ v.own \subseteq X /\ v.held = H
     /\ v.answers = 0 => "trouble" \in v.is \/ Unanswered(p, v.is)}

(* Views with another value of one field. *)
LEMMA OwnUpdates ==
  ASSUME NEW v \in Views, NEW x \in Words
  PROVE  /\ [v EXCEPT !.own = @ \union ({x} \ {None})] \in Views
         /\ x # "auth" => [v EXCEPT !.own = @ \ {x}] \in Views
BY DEF Views, Limit

(* The same for the flags, the locks, the reply and the answers.           *)
LEMMA OtherUpdates ==
  ASSUME NEW v \in Views
  PROVE  /\ \A F \in SUBSET Flags : [v EXCEPT !.is = F] \in Views
         /\ \A x \in Locks : [v EXCEPT !.held = @ \union {x}] \in Views
         /\ \A x : [v EXCEPT !.held = @ \ {x}] \in Views
         /\ \A r \in Replies : [v EXCEPT !.reply = r] \in Views
         /\ v.answers < Limit(v.own) => [v EXCEPT !.answers = @ + 1] \in Views
BY DEF Views, Limit

(* The same for some flags that are raised, or lowered.                    *)
LEMMA FlagUpdates ==
  ASSUME NEW v \in Views
  PROVE  /\ \A F \in SUBSET Flags : [v EXCEPT !.is = @ \union F] \in Views
         /\ \A F : [v EXCEPT !.is = @ \ F] \in Views
BY DEF Views

(* More objects allow no fewer answers. *)
LEMMA LimitGrows ==
  ASSUME NEW S, NEW T, S \subseteq T, NEW n \in Nat
  PROVE  n < Limit(S) => n < Limit(T)
BY DEF Limit

(* The assertions are assertions: what others do keeps them.               *)
LEMMA BeforeStable == \A p, X, H, K : Before(p, X, H, K) \in Assertions
<1> SUFFICES ASSUME NEW p, NEW X, NEW H, NEW K, NEW v \in Before(p, X, H, K), NEW w \in Disturbed(v)
             PROVE  w \in Before(p, X, H, K)
  <2>1. \A p, X, H, K : Before(p, X, H, K) \subseteq Views
    BY DEF Before
  <2> QED
    BY <2>1 DEF Assertions
<1>1. v \in Views
  BY DEF Before
<1>2. CASE w = v
  BY <1>2
<1>3. CASE w = [v EXCEPT !.is = @ \union {"good"}]
  <2>1. w \in Views
    BY <1>1, <1>3, FlagUpdates DEF Flags
  <2>2. /\ w.own = v.own /\ w.held = v.held /\ w.is = v.is \union {"good"}
        /\ w.answers = v.answers /\ w.job = v.job
    BY <1>1, <1>3 DEF Views
  <2>3. \A f : Fact(f, v) => Fact(f, w)
    BY <2>2 DEF Fact, Lively
  <2> QED
    BY <2>1, <2>2, <2>3 DEF Before
<1>4. ASSUME NEW r \in Replies, w = [v EXCEPT !.reply = r] PROVE w \in Before(p, X, H, K)
  <2>1. w \in Views
    BY <1>1, <1>4, OtherUpdates
  <2>2. /\ w.own = v.own /\ w.held = v.held /\ w.is = v.is
        /\ w.answers = v.answers /\ w.job = v.job
    BY <1>1, <1>4 DEF Views
  <2>3. \A f : Fact(f, v) => Fact(f, w)
    BY <2>2 DEF Fact, Lively
  <2> QED
    BY <2>1, <2>2, <2>3 DEF Before
<1> QED
  BY <1>2, <1>3, <1>4 DEF Disturbed

(* A worker that has answered stays one, whatever the others do.           *)
LEMMA AfterStable == \A p, X, H : After(p, X, H) \in Assertions
<1> SUFFICES ASSUME NEW p, NEW X, NEW H, NEW v \in After(p, X, H), NEW w \in Disturbed(v)
             PROVE  w \in After(p, X, H)
  BY DEF Assertions, After
<1>1. v \in Views
  BY DEF After
<1>2. CASE w = v
  BY <1>2
<1>3. CASE w = [v EXCEPT !.is = @ \union {"good"}]
  <2>1. w \in Views
    BY <1>1, <1>3, FlagUpdates DEF Flags
  <2> QED
    BY <2>1, <1>1, <1>3 DEF After, Views, Unanswered
<1>4. ASSUME NEW r \in Replies, w = [v EXCEPT !.reply = r] PROVE w \in After(p, X, H)
  <2>1. w \in Views
    BY <1>1, <1>4, OtherUpdates
  <2> QED
    BY <2>1, <1>1, <1>4 DEF After, Views, Unanswered
<1> QED
  BY <1>2, <1>3, <1>4 DEF Disturbed

(* An allocation that may fail: then there was trouble.                    *)
LEMMA AllocLeads ==
  ASSUME NEW p, NEW X, NEW H, NEW K, NEW x \in Words, x \in X \/ x = ""
  PROVE  LET c == Cmd("alloc", x, "", "")
             B == Before(p, X, H, K)
         IN  /\ Leads(c, B, B, B \intersect After(p, X, H))
             /\ x = "auth" => Leads(c, B, Before(p, X, H, K \union {"auth"}), B \intersect After(p, X, H))
<1> DEFINE c == Cmd("alloc", x, "", "")
           B == Before(p, X, H, K)
<1>1. c.op = "alloc" /\ c.to = x
  BY DEF Cmd
<1> HIDE DEF c
<1>2. ASSUME NEW v \in B
      PROVE  LET w == [v EXCEPT !.own = @ \union ({x} \ {None})]
                 f == [v EXCEPT !.is = @ \union {"failed", "trouble"}]
             IN  /\ Fit(c, v) /\ Onwards(c, v) = {w} /\ Skips(c, v) = {f}
                 /\ w \in B /\ f \in B /\ f \in After(p, X, H)
                 /\ x = "auth" => w \in Before(p, X, H, K \union {"auth"})
  <2> DEFINE w == [v EXCEPT !.own = @ \union ({x} \ {None})]
             f == [v EXCEPT !.is = @ \union {"failed", "trouble"}]
  <2>0. v \in Views
    BY DEF Before
  <2>1. Fit(c, v) /\ Onwards(c, v) = {w} /\ Skips(c, v) = {f}
    BY <1>1 DEF Fit, Onwards, Skips
  <2>2. /\ w \in Views /\ w.own = v.own \union ({x} \ {None}) /\ w.held = v.held /\ w.is = v.is
        /\ w.answers = v.answers /\ w.job = v.job
    BY <2>0, OwnUpdates DEF Views
  <2>3. /\ f \in Views /\ f.own = v.own /\ f.held = v.held /\ f.is = v.is \union {"failed", "trouble"}
        /\ f.answers = v.answers /\ f.job = v.job
    BY <2>0, FlagUpdates DEF Views, Flags
  <2> HIDE DEF w, f
  <2>a. v.own \subseteq w.own /\ w.own \subseteq X /\ (x = "auth" => "auth" \in w.own)
    BY <2>2 DEF Before, None
  <2>b. w.answers < Limit(w.own)
    <3>1. v.answers \in Nat /\ v.answers < Limit(v.own)
      BY DEF Before, Views
    <3> QED
      BY <3>1, <2>2, <2>a, LimitGrows
  <2>c. v \in Before(p, X, H, K)
    OBVIOUS
  <2>d. \A k : Fact(k, v) => Fact(k, w)
    BY <2>2, <2>a DEF Fact, Lively
  <2>e. \A k : Fact(k, v) => Fact(k, f)
    BY <2>3 DEF Fact, Lively
  <2>4. w \in Before(p, X, H, K)
    BY <2>2, <2>a, <2>b, <2>c, <2>d DEF Before
  <2>5. f \in B /\ f \in After(p, X, H)
    BY <2>3, <2>e DEF Before, After
  <2>6. x = "auth" => w \in Before(p, X, H, K \union {"auth"})
    BY <2>4, <2>a DEF Before, Fact
  <2> QED
    BY <2>1, <2>4, <2>5, <2>6 DEF w, f
<1> QED
  BY <1>2 DEF Leads, c

(* What the operations mean, one by one. *)
LEMMA Means ==
  ASSUME NEW c, NEW v
  PROVE  /\ c.op = "test" => Fit(c, v) /\ Onwards(c, v) = {v} /\ Skips(c, v) = {v}
         /\ c.op = "use" => Onwards(c, v) = {v} /\ Skips(c, v) = {}
         /\ c.op = "have" => /\ Fit(c, v)
                             /\ Onwards(c, v) = IF c.to \in v.own THEN {v} ELSE {}
                             /\ Skips(c, v) = IF c.to \in v.own THEN {} ELSE {v}
         /\ c.op = "own" => /\ Fit(c, v) /\ Skips(c, v) = {}
                            /\ Onwards(c, v) = {[v EXCEPT !.own = @ \union ({c.to} \ {None})]}
         /\ c.op = "free" => /\ c.to # "auth" => Fit(c, v)
                             /\ Onwards(c, v) = {[v EXCEPT !.own = @ \ {c.to}]} /\ Skips(c, v) = {}
         /\ c.op = "forgive" => /\ Fit(c, v) /\ Skips(c, v) = {}
                                /\ Onwards(c, v) = {[v EXCEPT !.is = @ \ {"failed"}]}
BY DEF Fit, Onwards, Skips

(* What the commands about the result of a function mean, and the handler. *)
LEMMA MeansRet ==
  ASSUME NEW c, NEW v
  PROVE  /\ c.op = "setret" => /\ Fit(c, v) /\ Skips(c, v) = {}
                               /\ Onwards(c, v) =
                                    IF c.to = "any"
                                    THEN {[v EXCEPT !.is = @ \union {"ret"}], [v EXCEPT !.is = @ \ {"ret"}]}
                                    ELSE {[v EXCEPT !.is = @ \ {"ret"}]}
         /\ c.op = "callret" => /\ Fit(c, v) /\ Onwards(c, v) = {[v EXCEPT !.is = @ \union {"ret"}]}
                                /\ Skips(c, v) = {[v EXCEPT !.is = @ \ {"ret"}]}
         /\ c.op = "needret" => /\ Fit(c, v)
                                /\ Onwards(c, v) = IF "ret" \in v.is THEN {v} ELSE {}
                                /\ Skips(c, v) = IF "ret" \in v.is THEN {} ELSE {v}
         /\ c.op = "serve" => /\ v.job \in Protocols => Fit(c, v)
                              /\ Onwards(c, v) = {[v EXCEPT !.is = F] : F \in Outcomes(v.is)}
                              /\ Skips(c, v) = {}
BY DEF Fit, Onwards, Skips

(* What locking, closing and answering mean.                               *)
LEMMA MeansLock ==
  ASSUME NEW c, NEW v
  PROVE  /\ c.op = "lock" => /\ c.to \in Locks => Fit(c, v)
                             /\ Onwards(c, v) = {[v EXCEPT !.held = @ \union {c.to}]}
                             /\ Skips(c, v) = {}
         /\ c.op = "unlock" => /\ c.to \in v.held => Fit(c, v)
                               /\ Onwards(c, v) = {[v EXCEPT !.held = @ \ {c.to}]}
                               /\ Skips(c, v) = {}
         /\ c.op = "close" => /\ v.job \in Protocols => Fit(c, v)
                              /\ Onwards(c, v) = {v} /\ Skips(c, v) = {}
         /\ c.op = "answer" => /\ Onwards(c, v) = {[v EXCEPT !.answers = @ + 1]}
                               /\ Skips(c, v) = {}
BY DEF Fit, Onwards, Skips

(* Conditions lead anywhere their state leads. *)
LEMMA TestLeads ==
  /\ \A P : Leads(Cmd("test", "", "", ""), P, P, P)
  /\ \A P : Leads(Cmd("needret", "", "", ""), P, P, P)
  /\ \A P : (\A v \in P : Lively(v)) => Leads(Cmd("use", "uri", "", ""), P, P, {})
  /\ \A p, X, H, K : Leads(Cmd("have", "uri", "", ""), Before(p, X, H, K),
                           Before(p, X, H, K \union {"uri"}), Before(p, X, H, K))
<1> DEFINE c == Cmd("test", "", "", "")
           d == Cmd("needret", "", "", "")
           e == Cmd("use", "uri", "", "")
           f == Cmd("have", "uri", "", "")
<1>0. c.op = "test" /\ d.op = "needret" /\ e.op = "use" /\ e.to = "uri" /\ f.op = "have" /\ f.to = "uri"
  BY DEF Cmd
<1> HIDE DEF c, d, e, f
<1>1. \A P : Leads(c, P, P, P)
  BY <1>0, Means DEF Leads
<1>2. \A P : Leads(d, P, P, P)
  <2>1. \A v : /\ Fit(d, v) /\ Onwards(d, v) \subseteq {v} /\ Skips(d, v) \subseteq {v}
    BY <1>0, MeansRet
  <2> QED
    BY <2>1 DEF Leads
<1>3. \A P : (\A v \in P : Lively(v)) => Leads(e, P, P, {})
  <2>1. \A v : Lively(v) => Fit(e, v)
    BY <1>0 DEF Fit, Lively
  <2>2. \A v : Onwards(e, v) = {v} /\ Skips(e, v) = {}
    BY <1>0, Means
  <2> QED
    BY <2>1, <2>2 DEF Leads
<1>4. ASSUME NEW p, NEW X, NEW H, NEW K
      PROVE  Leads(f, Before(p, X, H, K), Before(p, X, H, K \union {"uri"}), Before(p, X, H, K))
  <2>1. ASSUME NEW v \in Before(p, X, H, K), "uri" \in v.own
        PROVE  v \in Before(p, X, H, K \union {"uri"})
    BY <2>1 DEF Before, Fact
  <2>2. ASSUME NEW v \in Before(p, X, H, K)
        PROVE  /\ Fit(f, v) /\ Onwards(f, v) \subseteq Before(p, X, H, K \union {"uri"})
               /\ Skips(f, v) \subseteq Before(p, X, H, K)
    <3>1. CASE "uri" \in v.own
      <4>1. Fit(f, v) /\ Onwards(f, v) = {v} /\ Skips(f, v) = {}
        BY <3>1, <1>0, Means
      <4> QED
        BY <4>1, <3>1, <2>1
    <3>2. CASE "uri" \notin v.own
      <4>1. Fit(f, v) /\ Onwards(f, v) = {} /\ Skips(f, v) = {v}
        BY <3>2, <1>0, Means
      <4> QED
        BY <4>1
    <3> QED
      BY <3>1, <3>2
  <2> QED
    BY <2>2 DEF Leads
<1> QED
  BY <1>1, <1>2, <1>3, <1>4 DEF c, d, e, f

(* A realm that is not set is a reason not to answer.                      *)
LEMMA RealmLeads ==
  ASSUME NEW p, NEW X, NEW H, NEW K
  PROVE  LET B == Before(p, X, H, K)
         IN  Leads(Cmd("realm", "", "", ""), B, B, B \intersect After(p, X, H))
<1> DEFINE c == Cmd("realm", "", "", "")
           B == Before(p, X, H, K)
<1>1. c.op = "realm"
  BY DEF Cmd
<1> HIDE DEF c
<1>2. ASSUME NEW v \in B
      PROVE  LET f == [v EXCEPT !.is = @ \union {"trouble"}]
             IN  Fit(c, v) /\ Onwards(c, v) = {v} /\ Skips(c, v) = {f} /\ f \in B /\ f \in After(p, X, H)
  <2> DEFINE f == [v EXCEPT !.is = @ \union {"trouble"}]
  <2>1. Fit(c, v) /\ Onwards(c, v) = {v} /\ Skips(c, v) = {f}
    BY <1>1 DEF Fit, Onwards, Skips
  <2>2. v \in Views
    BY DEF Before
  <2>3. /\ f \in Views /\ f.own = v.own /\ f.held = v.held /\ f.is = v.is \union {"trouble"}
        /\ f.answers = v.answers /\ f.job = v.job
    BY <2>2, FlagUpdates DEF Views, Flags
  <2> HIDE DEF f
  <2>4. \A k : Fact(k, v) => Fact(k, f)
    BY <2>3 DEF Fact, Lively
  <2>5. f \in B /\ f \in After(p, X, H)
    BY <2>3, <2>4 DEF Before, After
  <2> QED
    BY <2>1, <2>5 DEF f
<1> QED
  BY <1>2 DEF Leads, c

(* What is freed is not among the objects any more.                        *)
LEMMA FreeLeads ==
  ASSUME NEW p, NEW X, NEW H, NEW x \in Words, x # "auth"
  PROVE  LET c == Cmd("free", x, "", "")
         IN  /\ \A K : (x = "uri" => "uri" \notin K /\ "live" \notin K) =>
                         Leads(c, Before(p, X, H, K), Before(p, X, H, K), {})
             /\ Leads(c, After(p, X \union {x}, H), After(p, X, H), {})
             /\ \A K : (x = "uri" => "uri" \notin K /\ "live" \notin K) =>
                         Leads(c, Before(p, X \union {x}, H, K), Before(p, X, H, K), {})
<1> DEFINE c == Cmd("free", x, "", "")
<1>1. c.op = "free" /\ c.to = x
  BY DEF Cmd
<1> HIDE DEF c
<1>2. ASSUME NEW v \in Views
      PROVE  LET w == [v EXCEPT !.own = @ \ {x}]
             IN  /\ Fit(c, v) /\ Onwards(c, v) = {w} /\ Skips(c, v) = {}
                 /\ w \in Views /\ w.own = v.own \ {x} /\ w.held = v.held /\ w.is = v.is
                 /\ w.answers = v.answers /\ w.job = v.job /\ Limit(w.own) = Limit(v.own)
  <2>1. Fit(c, v) /\ Onwards(c, v) = {[v EXCEPT !.own = @ \ {x}]} /\ Skips(c, v) = {}
    BY <1>1, Means
  <2>2. [v EXCEPT !.own = @ \ {x}] \in Views
    BY OwnUpdates
  <2>3. LET w == [v EXCEPT !.own = @ \ {x}]
        IN  /\ w.own = v.own \ {x} /\ w.held = v.held /\ w.is = v.is
            /\ w.answers = v.answers /\ w.job = v.job
    BY DEF Views
  <2>4. Limit(v.own \ {x}) = Limit(v.own)
    BY DEF Limit
  <2> QED
    BY <2>1, <2>2, <2>3, <2>4
<1>3. ASSUME NEW Y, NEW K, x = "uri" => "uri" \notin K /\ "live" \notin K,
             Y = X \/ Y = X \union {x}, NEW v \in Before(p, Y, H, K)
      PROVE  /\ Fit(c, v) /\ Skips(c, v) = {}
             /\ Onwards(c, v) \subseteq Before(p, X, H, K)
  <2>1. v \in Views
    BY DEF Before
  <2>2. PICK w : /\ Fit(c, v) /\ Onwards(c, v) = {w} /\ Skips(c, v) = {}
                 /\ w \in Views /\ w.own = v.own \ {x} /\ w.held = v.held /\ w.is = v.is
                 /\ w.answers = v.answers /\ w.job = v.job /\ Limit(w.own) = Limit(v.own)
    BY <2>1, <1>2
  <2>3. w.own \subseteq X
    BY <1>3, <2>2 DEF Before
  <2>a. ASSUME NEW f \in K, Fact(f, v) PROVE Fact(f, w)
    BY <1>3, <2>2, <2>a DEF Fact, Lively
  <2>4. w \in Before(p, X, H, K)
    BY <1>3, <2>2, <2>3, <2>a DEF Before
  <2> QED
    BY <2>2, <2>4
<1>4. ASSUME NEW v \in After(p, X \union {x}, H)
      PROVE  /\ Fit(c, v) /\ Skips(c, v) = {}
             /\ Onwards(c, v) \subseteq After(p, X, H)
  <2>1. v \in Views
    BY DEF After
  <2>2. PICK w : /\ Fit(c, v) /\ Onwards(c, v) = {w} /\ Skips(c, v) = {}
                 /\ w \in Views /\ w.own = v.own \ {x} /\ w.held = v.held /\ w.is = v.is
                 /\ w.answers = v.answers /\ w.job = v.job /\ Limit(w.own) = Limit(v.own)
    BY <2>1, <1>2
  <2>4. w \in After(p, X, H)
    BY <2>2 DEF After
  <2> QED
    BY <2>2, <2>4
<1> QED
  BY <1>3, <1>4 DEF Leads, c

(* The result is looked at no more, the connection is closed.              *)
LEMMA ExitLeads ==
  ASSUME NEW p, NEW X, NEW H
  PROVE  /\ Leads(Cmd("forgive", "", "", ""), After(p, X, H), After(p, X, H), {})
         /\ \A K : Leads(Cmd("forgive", "", "", ""), Before(p, X, H, K), Before(p, X, H, K), {})
         /\ p \in Protocols => Leads(Cmd("close", "", "", ""), After(p, X, H), After(p, X, H), {})
<1> DEFINE c == Cmd("forgive", "", "", "")
<1>1. c.op = "forgive"
  BY DEF Cmd
<1> HIDE DEF c
<1>2. ASSUME NEW v \in Views
      PROVE  LET w == [v EXCEPT !.is = @ \ {"failed"}]
             IN  /\ Fit(c, v) /\ Onwards(c, v) = {w} /\ Skips(c, v) = {}
                 /\ w \in Views /\ w.own = v.own /\ w.held = v.held /\ w.is = v.is \ {"failed"}
                 /\ w.answers = v.answers /\ w.job = v.job
  <2>1. LET w == [v EXCEPT !.is = @ \ {"failed"}]
        IN  Fit(c, v) /\ Onwards(c, v) = {w} /\ Skips(c, v) = {}
    BY <1>1, Means
  <2>2. [v EXCEPT !.is = @ \ {"failed"}] \in Views
    BY FlagUpdates
  <2>3. LET w == [v EXCEPT !.is = @ \ {"failed"}]
        IN  /\ w.own = v.own /\ w.held = v.held /\ w.is = v.is \ {"failed"}
            /\ w.answers = v.answers /\ w.job = v.job
    BY DEF Views
  <2> QED
    BY <2>1, <2>2, <2>3
<1>3. ASSUME NEW v \in After(p, X, H)
      PROVE  Fit(c, v) /\ Skips(c, v) = {} /\ Onwards(c, v) \subseteq After(p, X, H)
  <2>1. v \in Views
    BY DEF After
  <2>2. PICK w : /\ Fit(c, v) /\ Onwards(c, v) = {w} /\ Skips(c, v) = {}
                 /\ w \in Views /\ w.own = v.own /\ w.held = v.held /\ w.is = v.is \ {"failed"}
                 /\ w.answers = v.answers /\ w.job = v.job
    BY <2>1, <1>2
  <2>3. w \in After(p, X, H)
    BY <2>2 DEF After, Unanswered
  <2> QED
    BY <2>2, <2>3
<1>4. ASSUME NEW K, NEW v \in Before(p, X, H, K)
      PROVE  Fit(c, v) /\ Skips(c, v) = {} /\ Onwards(c, v) \subseteq Before(p, X, H, K)
  <2>1. v \in Views
    BY DEF Before
  <2>2. PICK w : /\ Fit(c, v) /\ Onwards(c, v) = {w} /\ Skips(c, v) = {}
                 /\ w \in Views /\ w.own = v.own /\ w.held = v.held /\ w.is = v.is \ {"failed"}
                 /\ w.answers = v.answers /\ w.job = v.job
    BY <2>1, <1>2
  <2>a. \A f : Fact(f, v) => Fact(f, w)
    BY <2>2 DEF Fact, Lively
  <2>3. w \in Before(p, X, H, K)
    BY <2>2, <2>a DEF Before
  <2> QED
    BY <2>2, <2>3
<1> DEFINE d == Cmd("close", "", "", "")
<1>5. d.op = "close"
  BY DEF Cmd
<1> HIDE DEF d
<1>6. ASSUME p \in Protocols, NEW v \in After(p, X, H)
      PROVE  Fit(d, v) /\ Onwards(d, v) = {v} /\ Skips(d, v) = {}
  <2>1. v.job = p
    BY DEF After
  <2> QED
    BY <1>5, <1>6, <2>1, MeansLock
<1>7. /\ Leads(c, After(p, X, H), After(p, X, H), {})
      /\ \A K : Leads(c, Before(p, X, H, K), Before(p, X, H, K), {})
  BY <1>3, <1>4 DEF Leads
<1>8. p \in Protocols => Leads(d, After(p, X, H), After(p, X, H), {})
  BY <1>6 DEF Leads
<1> QED
  BY <1>7, <1>8 DEF c, d

(* A view after a change of its flags. *)
LEMMA Flagged ==
  ASSUME NEW v \in Views, NEW F \in SUBSET Flags, NEW w, w = [v EXCEPT !.is = F]
  PROVE  /\ w \in Views /\ w.own = v.own /\ w.held = v.held /\ w.is = F
         /\ w.answers = v.answers /\ w.job = v.job /\ w.reply = v.reply
<1>1. w \in Views
  BY OtherUpdates
<1> QED
  BY <1>1 DEF Views

(* The bool ret of a function.                                             *)
LEMMA RetLeads ==
  ASSUME NEW p, NEW X, NEW H, NEW K, "live" \notin K, "good" \notin K, "earned" \notin K
  PROVE  LET B == Before(p, X, H, K)
         IN  /\ Leads(Cmd("setret", "false", "", ""), B, Before(p, X, H, K \union {"checked"}), {})
             /\ "checked" \notin K => /\ Leads(Cmd("setret", "any", "", ""), B, B, {})
                                      /\ Leads(Cmd("callret", "", "", ""), B, B, B)
<1> DEFINE B == Before(p, X, H, K)
           c == Cmd("setret", "false", "", "")
           d == Cmd("setret", "any", "", "")
           e == Cmd("callret", "", "", "")
<1>0. c.op = "setret" /\ c.to = "false" /\ d.op = "setret" /\ d.to = "any" /\ e.op = "callret"
  BY DEF Cmd
<1> HIDE DEF c, d, e
<1>1. ASSUME NEW v \in B
      PROVE  /\ [v EXCEPT !.is = @ \ {"ret"}] \in Before(p, X, H, K \union {"checked"})
             /\ [v EXCEPT !.is = @ \ {"ret"}] \in B
             /\ "checked" \notin K => [v EXCEPT !.is = @ \union {"ret"}] \in B
  <2>0. v \in Views /\ v.is \in SUBSET Flags
    BY DEF Before, Views
  <2>1. PICK y : /\ y = [v EXCEPT !.is = @ \union {"ret"}]
                 /\ y \in Views /\ y.own = v.own /\ y.held = v.held /\ y.is = v.is \union {"ret"}
                 /\ y.answers = v.answers /\ y.job = v.job
    <3>1. PICK F \in SUBSET Flags : F = v.is \union {"ret"}
      BY <2>0 DEF Flags
    <3>2. PICK y : y = [v EXCEPT !.is = F]
      OBVIOUS
    <3> QED
      BY <2>0, <3>1, <3>2, Flagged
  <2>2. PICK n : /\ n = [v EXCEPT !.is = @ \ {"ret"}]
                 /\ n \in Views /\ n.own = v.own /\ n.held = v.held /\ n.is = v.is \ {"ret"}
                 /\ n.answers = v.answers /\ n.job = v.job
    <3>1. PICK F \in SUBSET Flags : F = v.is \ {"ret"}
      BY <2>0
    <3>2. PICK n : n = [v EXCEPT !.is = F]
      OBVIOUS
    <3> QED
      BY <2>0, <3>1, <3>2, Flagged
  <2>3. ASSUME NEW f \in K, Fact(f, v) PROVE Fact(f, n) /\ ("checked" \notin K => Fact(f, y))
    BY <2>1, <2>2, <2>3 DEF Fact, Lively
  <2>4. Fact("checked", n)
    BY <2>2 DEF Fact
  <2>5. n \in Before(p, X, H, K \union {"checked"}) /\ n \in B
    BY <2>2, <2>3, <2>4 DEF Before
  <2>6. "checked" \notin K => y \in B
    BY <2>1, <2>3 DEF Before
  <2> QED
    BY <2>1, <2>2, <2>5, <2>6
<1> HIDE DEF B
<1>2. Leads(c, B, Before(p, X, H, K \union {"checked"}), {})
  <2>1. ASSUME NEW v \in B
        PROVE  /\ Fit(c, v) /\ Onwards(c, v) \subseteq Before(p, X, H, K \union {"checked"})
               /\ Skips(c, v) = {}
    <3>1. Fit(c, v) /\ Onwards(c, v) = {[v EXCEPT !.is = @ \ {"ret"}]} /\ Skips(c, v) = {}
      BY <1>0, MeansRet
    <3>2. [v EXCEPT !.is = @ \ {"ret"}] \in Before(p, X, H, K \union {"checked"})
      BY <1>1
    <3> QED
      BY <3>1, <3>2
  <2> QED
    BY <2>1 DEF Leads
<1>3. ASSUME "checked" \notin K PROVE Leads(d, B, B, {})
  <2>1. ASSUME NEW v \in B
        PROVE  Fit(d, v) /\ Onwards(d, v) \subseteq B /\ Skips(d, v) = {}
    <3>1. /\ Fit(d, v) /\ Skips(d, v) = {}
          /\ Onwards(d, v) = {[v EXCEPT !.is = @ \union {"ret"}], [v EXCEPT !.is = @ \ {"ret"}]}
      BY <1>0, MeansRet
    <3>2. [v EXCEPT !.is = @ \ {"ret"}] \in B /\ [v EXCEPT !.is = @ \union {"ret"}] \in B
      BY <1>1, <1>3
    <3> QED
      BY <3>1, <3>2
  <2> QED
    BY <2>1 DEF Leads
<1>4. ASSUME "checked" \notin K PROVE Leads(e, B, B, B)
  <2>1. ASSUME NEW v \in B
        PROVE  Fit(e, v) /\ Onwards(e, v) \subseteq B /\ Skips(e, v) \subseteq B
    <3>1. /\ Fit(e, v) /\ Onwards(e, v) = {[v EXCEPT !.is = @ \union {"ret"}]}
          /\ Skips(e, v) = {[v EXCEPT !.is = @ \ {"ret"}]}
      BY <1>0, MeansRet
    <3>2. [v EXCEPT !.is = @ \ {"ret"}] \in B /\ [v EXCEPT !.is = @ \union {"ret"}] \in B
      BY <1>1, <1>4
    <3> QED
      BY <3>1, <3>2
  <2> QED
    BY <2>1 DEF Leads
<1> QED
  BY <1>2, <1>3, <1>4 DEF B, c, d, e

(* A look at ret tells whether is_authorized() or the handler went well.   *)
LEMMA NeedRetLeads ==
  ASSUME NEW p, NEW X, NEW H
  PROVE  LET c == Cmd("needret", "", "", "")
         IN  /\ Leads(c, Before(p, X, H, {"checked"}), Before(p, X, H, {"live"}), Before(p, X, H, {}))
             /\ Leads(c, Before(p, X, H, {"earned"}), Before(p, X, H, {"good"}), Before(p, X, H, {}))
<1> DEFINE c == Cmd("needret", "", "", "")
<1>0. c.op = "needret"
  BY DEF Cmd
<1> HIDE DEF c
<1>1. ASSUME NEW K, NEW L, NEW v \in Before(p, X, H, K),
             "ret" \in v.is => v \in Before(p, X, H, L)
      PROVE  /\ Fit(c, v) /\ Onwards(c, v) \subseteq Before(p, X, H, L)
             /\ Skips(c, v) \subseteq Before(p, X, H, {})
  <2>1. v \in Before(p, X, H, {})
    BY DEF Before
  <2>2. CASE "ret" \in v.is
    <3>1. Fit(c, v) /\ Onwards(c, v) = {v} /\ Skips(c, v) = {}
      BY <2>2, <1>0, MeansRet
    <3> QED
      BY <3>1, <2>2, <1>1
  <2>3. CASE "ret" \notin v.is
    <3>1. Fit(c, v) /\ Onwards(c, v) = {} /\ Skips(c, v) = {v}
      BY <2>3, <1>0, MeansRet
    <3> QED
      BY <3>1, <2>1
  <2> QED
    BY <2>2, <2>3
<1>2. ASSUME NEW v \in Before(p, X, H, {"checked"}), "ret" \in v.is
      PROVE  v \in Before(p, X, H, {"live"})
  BY <1>2 DEF Before, Fact, Lively
<1>3. ASSUME NEW v \in Before(p, X, H, {"earned"}), "ret" \in v.is
      PROVE  v \in Before(p, X, H, {"good"})
  BY <1>3 DEF Before, Fact
<1>4. Leads(c, Before(p, X, H, {"checked"}), Before(p, X, H, {"live"}), Before(p, X, H, {}))
  BY <1>1, <1>2 DEF Leads
<1>5. Leads(c, Before(p, X, H, {"earned"}), Before(p, X, H, {"good"}), Before(p, X, H, {}))
  BY <1>1, <1>3 DEF Leads
<1> QED
  BY <1>4, <1>5 DEF c

(* The mutexes.                                                            *)
LEMMA LockLeads ==
  ASSUME NEW p, NEW X, NEW H, NEW m \in Locks, m \notin H
  PROVE  LET c == Cmd("lock", m, "", "")
             d == Cmd("unlock", m, "", "")
         IN  /\ \A K : Leads(c, Before(p, X, H, K), Before(p, X, H \union {m}, K), {})
             /\ \A K : Leads(d, Before(p, X, H \union {m}, K), Before(p, X, H, K), {})
             /\ Leads(d, After(p, X, H \union {m}), After(p, X, H), {})
<1> DEFINE c == Cmd("lock", m, "", "")
           d == Cmd("unlock", m, "", "")
<1>0. c.op = "lock" /\ c.to = m /\ d.op = "unlock" /\ d.to = m
  BY DEF Cmd
<1> HIDE DEF c, d
<1>1. ASSUME NEW v \in Views
      PROVE  LET w == [v EXCEPT !.held = @ \union {m}]
                 u == [v EXCEPT !.held = @ \ {m}]
             IN  /\ w \in Views /\ w.own = v.own /\ w.held = v.held \union {m} /\ w.is = v.is
                 /\ w.answers = v.answers /\ w.job = v.job
                 /\ u \in Views /\ u.own = v.own /\ u.held = v.held \ {m} /\ u.is = v.is
                 /\ u.answers = v.answers /\ u.job = v.job
  <2>1. [v EXCEPT !.held = @ \union {m}] \in Views /\ [v EXCEPT !.held = @ \ {m}] \in Views
    BY OtherUpdates
  <2> QED
    BY <2>1 DEF Views
<1>2. ASSUME NEW K, NEW v \in Before(p, X, H, K)
      PROVE  Fit(c, v) /\ Onwards(c, v) \subseteq Before(p, X, H \union {m}, K) /\ Skips(c, v) = {}
  <2>1. v \in Views
    BY DEF Before
  <2>2. Fit(c, v) /\ Onwards(c, v) = {[v EXCEPT !.held = @ \union {m}]} /\ Skips(c, v) = {}
    BY <1>0, MeansLock
  <2>3. PICK w : /\ w = [v EXCEPT !.held = @ \union {m}]
                 /\ w \in Views /\ w.own = v.own /\ w.held = v.held \union {m} /\ w.is = v.is
                 /\ w.answers = v.answers /\ w.job = v.job
    BY <2>1, <1>1
  <2>4. \A f : Fact(f, v) => Fact(f, w)
    BY <2>3 DEF Fact, Lively
  <2>5. w \in Before(p, X, H \union {m}, K)
    BY <2>3, <2>4 DEF Before
  <2> QED
    BY <2>2, <2>3, <2>5
<1>3. ASSUME NEW K, NEW v \in Before(p, X, H \union {m}, K)
      PROVE  Fit(d, v) /\ Onwards(d, v) \subseteq Before(p, X, H, K) /\ Skips(d, v) = {}
  <2>1. v \in Views /\ m \in v.held
    BY DEF Before
  <2>2. Fit(d, v) /\ Onwards(d, v) = {[v EXCEPT !.held = @ \ {m}]} /\ Skips(d, v) = {}
    BY <2>1, <1>0, MeansLock
  <2>3. PICK w : /\ w = [v EXCEPT !.held = @ \ {m}]
                 /\ w \in Views /\ w.own = v.own /\ w.held = v.held \ {m} /\ w.is = v.is
                 /\ w.answers = v.answers /\ w.job = v.job
    BY <2>1, <1>1
  <2>4. \A f : Fact(f, v) => Fact(f, w)
    BY <2>3 DEF Fact, Lively
  <2>5. w.held = H
    BY <2>3 DEF Before
  <2>6. w \in Before(p, X, H, K)
    BY <2>3, <2>4, <2>5 DEF Before
  <2> QED
    BY <2>2, <2>3, <2>6
<1>4. ASSUME NEW v \in After(p, X, H \union {m})
      PROVE  Fit(d, v) /\ Onwards(d, v) \subseteq After(p, X, H) /\ Skips(d, v) = {}
  <2>1. v \in Views /\ m \in v.held
    BY DEF After
  <2>2. Fit(d, v) /\ Onwards(d, v) = {[v EXCEPT !.held = @ \ {m}]} /\ Skips(d, v) = {}
    BY <2>1, <1>0, MeansLock
  <2>3. PICK w : /\ w = [v EXCEPT !.held = @ \ {m}]
                 /\ w \in Views /\ w.own = v.own /\ w.held = v.held \ {m} /\ w.is = v.is
                 /\ w.answers = v.answers /\ w.job = v.job
    BY <2>1, <1>1
  <2>5. w.held = H
    BY <2>3 DEF After
  <2>6. w \in After(p, X, H)
    BY <2>3, <2>5 DEF After
  <2> QED
    BY <2>2, <2>3, <2>6
<1>5. \A K : Leads(c, Before(p, X, H, K), Before(p, X, H \union {m}, K), {})
  BY <1>2 DEF Leads
<1>6. \A K : Leads(d, Before(p, X, H \union {m}, K), Before(p, X, H, K), {})
  BY <1>3 DEF Leads
<1>7. Leads(d, After(p, X, H \union {m}), After(p, X, H), {})
  BY <1>4 DEF Leads
<1> QED
  BY <1>5, <1>6, <1>7 DEF c, d

(* The answer, and the call of the handler.                                *)
LEMMA AnswerLeads ==
  ASSUME NEW p \in Protocols, NEW X, NEW H, NEW x \in {"done", "refused"}
  PROVE  LET c == Cmd("answer", x, "", "")
         IN  /\ \A K : (x = "done" /\ p \in Asked => "good" \in K) =>
                         Leads(c, Before(p, X, H, K), After(p, X, H), {})
             /\ x = "refused" => Leads(c, Before(p, X, H, {"auth", "mute"}),
                                       Before(p, X, H, {"checked"}), {})
<1> DEFINE c == Cmd("answer", x, "", "")
<1>0. c.op = "answer" /\ c.to = x
  BY DEF Cmd
<1> HIDE DEF c
<1>1. ASSUME NEW K, NEW v \in Before(p, X, H, K), x = "done" /\ p \in Asked => "good" \in K
      PROVE  LET w == [v EXCEPT !.answers = @ + 1]
             IN  /\ Fit(c, v) /\ Onwards(c, v) = {w} /\ Skips(c, v) = {}
                 /\ w \in Views /\ w.own = v.own /\ w.held = v.held /\ w.is = v.is
                 /\ w.answers = v.answers + 1 /\ w.job = v.job
  <2>1. v \in Views /\ v.answers < Limit(v.own) /\ v.job = p
    BY DEF Before
  <2>2. x = "done" /\ v.job \in Asked => "good" \in v.is
    BY <1>1 DEF Before, Fact
  <2>3. Fit(c, v)
    BY <1>0, <2>1, <2>2 DEF Fit
  <2>4. Onwards(c, v) = {[v EXCEPT !.answers = @ + 1]} /\ Skips(c, v) = {}
    BY <1>0, MeansLock
  <2>5. [v EXCEPT !.answers = @ + 1] \in Views
    BY <2>1, OtherUpdates
  <2>6. LET w == [v EXCEPT !.answers = @ + 1]
        IN  /\ w.own = v.own /\ w.held = v.held /\ w.is = v.is
            /\ w.answers = v.answers + 1 /\ w.job = v.job
    BY <2>1 DEF Views
  <2> QED
    BY <2>3, <2>4, <2>5, <2>6
<1>2. ASSUME NEW K, x = "done" /\ p \in Asked => "good" \in K
      PROVE  Leads(c, Before(p, X, H, K), After(p, X, H), {})
  <2>1. ASSUME NEW v \in Before(p, X, H, K)
        PROVE  Fit(c, v) /\ Onwards(c, v) \subseteq After(p, X, H) /\ Skips(c, v) = {}
    <3>1. PICK w : /\ Fit(c, v) /\ Onwards(c, v) = {w} /\ Skips(c, v) = {}
                   /\ w \in Views /\ w.own = v.own /\ w.held = v.held /\ w.is = v.is
                   /\ w.answers = v.answers + 1 /\ w.job = v.job
      BY <1>1, <1>2
    <3>2. v.answers \in Nat
      BY DEF Before, Views
    <3>3. w.answers # 0
      BY <3>1, <3>2
    <3>4. w \in After(p, X, H)
      BY <3>1, <3>3 DEF After, Before
    <3> QED
      BY <3>1, <3>4
  <2> QED
    BY <2>1 DEF Leads
<1>3. ASSUME x = "refused"
      PROVE  Leads(c, Before(p, X, H, {"auth", "mute"}), Before(p, X, H, {"checked"}), {})
  <2>1. ASSUME NEW v \in Before(p, X, H, {"auth", "mute"})
        PROVE  Fit(c, v) /\ Onwards(c, v) \subseteq Before(p, X, H, {"checked"}) /\ Skips(c, v) = {}
    <3>1. PICK w : /\ Fit(c, v) /\ Onwards(c, v) = {w} /\ Skips(c, v) = {}
                   /\ w \in Views /\ w.own = v.own /\ w.held = v.held /\ w.is = v.is
                   /\ w.answers = v.answers + 1 /\ w.job = v.job
      BY <1>1, <1>3
    <3>2. v.answers = 0 /\ "auth" \in v.own
      BY DEF Before, Fact
    <3>3. w.answers < Limit(w.own) /\ Fact("checked", w)
      BY <3>1, <3>2 DEF Limit, Fact
    <3>4. w \in Before(p, X, H, {"checked"})
      BY <3>1, <3>3 DEF Before
    <3> QED
      BY <3>1, <3>4
  <2> QED
    BY <2>1 DEF Leads
<1> QED
  BY <1>2, <1>3 DEF c

(* Once the handler was called, its success means that the client was served. *)
LEMMA ServeLeads ==
  ASSUME NEW p \in Protocols, NEW X, NEW H, NEW K
  PROVE  Leads(Cmd("serve", "", "", ""), Before(p, X, H, K), Before(p, X, H, {"earned"}), {})
<1> DEFINE c == Cmd("serve", "", "", "")
<1>0. c.op = "serve"
  BY DEF Cmd
<1> HIDE DEF c
<1>1. ASSUME NEW v \in Before(p, X, H, K)
      PROVE  Fit(c, v) /\ Onwards(c, v) \subseteq Before(p, X, H, {"earned"}) /\ Skips(c, v) = {}
  <2>1. v \in Views /\ v.job = p
    BY DEF Before
  <2>2. Fit(c, v) /\ Onwards(c, v) = {[v EXCEPT !.is = F] : F \in Outcomes(v.is)} /\ Skips(c, v) = {}
    BY <1>0, <2>1, MeansRet
  <2>3. ASSUME NEW F \in Outcomes(v.is)
        PROVE  [v EXCEPT !.is = F] \in Before(p, X, H, {"earned"})
    <3>1. F \in SUBSET Flags /\ ("ret" \in F => "good" \in F)
      BY DEF Outcomes
    <3>2. PICK w : /\ w = [v EXCEPT !.is = F]
                   /\ w \in Views /\ w.own = v.own /\ w.held = v.held /\ w.is = F
                   /\ w.answers = v.answers /\ w.job = v.job
      <4>1. PICK w : w = [v EXCEPT !.is = F]
        OBVIOUS
      <4>2. /\ w \in Views /\ w.own = v.own /\ w.held = v.held /\ w.is = F
            /\ w.answers = v.answers /\ w.job = v.job
        BY <2>1, <3>1, <4>1, Flagged
      <4> QED
        BY <4>1, <4>2
    <3>3. Fact("earned", w)
      BY <3>1, <3>2 DEF Fact
    <3>4. w \in Before(p, X, H, {"earned"})
      BY <3>2, <3>3 DEF Before
    <3> QED
      BY <3>2, <3>4
  <2> QED
    BY <2>2, <2>3
<1>2. Leads(c, Before(p, X, H, K), Before(p, X, H, {"earned"}), {})
  BY <1>1 DEF Leads
<1> QED
  BY <1>2 DEF c

-----------------------------------------------------------------------------
(* How a handler goes on *)

(* A failure or a return leaves a handler that has answered, or could not. *)
Leave(p, X) == Via(Exits, After(p, X, {}))

(* s goes on, knowing L if K was known; s sees to the answer.              *)
Tries(s, p, X, K, L) == Does(Before(p, X, {}, K), s, Before(p, X, {}, L), Leave(p, X))
Answers(s, p, X, K) == Does(Before(p, X, {}, K), s, After(p, X, {}), Leave(p, X))

(* Who may leave. *)
LEMMA Leaving ==
  ASSUME NEW ops, NEW S
  PROVE  /\ \A op \in Ops : Via(ops, S)[op] = IF op \in ops THEN S ELSE {}
         /\ \A E : Caught(Via(ops, S), ops, S, E)
<1>1. \A op \in Ops : Via(ops, S)[op] = IF op \in ops THEN S ELSE {}
  BY DEF Via
<1> QED
  BY <1>1 DEF Caught

(* A handler is left by a failed allocation, or by a return.               *)
LEMMA LeavingHandler ==
  ASSUME NEW p, NEW X
  PROVE  /\ Leave(p, X)["alloc"] = After(p, X, {}) /\ Leave(p, X)["return"] = After(p, X, {})
         /\ \A op \in Ops : {} \subseteq Leave(p, X)[op]
<1>1. "alloc" \in Exits /\ "return" \in Exits
  BY DEF Exits, FailingOps
<1>2. "alloc" \in Ops /\ "return" \in Ops
  BY Known
<1> QED
  BY <1>1, <1>2, Leaving DEF Leave

(* One after the other, and less to be known.                              *)
LEMMA HandlerJoined ==
  ASSUME NEW p, NEW X
  PROVE  /\ \A s, t, K, L, M : Tries(s, p, X, K, L) /\ Tries(t, p, X, L, M) => Tries(s \o t, p, X, K, M)
         /\ \A s, t, K, L : Tries(s, p, X, K, L) /\ Answers(t, p, X, L) => Answers(s \o t, p, X, K)
BY Joined DEF Tries, Answers

(* Where more is known, less is known too.                                 *)
LEMMA KnowLess ==
  ASSUME NEW p, NEW X, NEW H, NEW K, NEW L, L \subseteq K
  PROVE  Before(p, X, H, K) \subseteq Before(p, X, H, L)
BY DEF Before

(* A handler may know more before, and tell less afterwards.               *)
LEMMA HandlerWeakened ==
  ASSUME NEW p, NEW X
  PROVE  /\ \A s, K, L, K1, L1 : Tries(s, p, X, K, L) /\ K \subseteq K1 /\ L1 \subseteq L
                                   => Tries(s, p, X, K1, L1)
         /\ \A s, K, K1 : Answers(s, p, X, K) /\ K \subseteq K1 => Answers(s, p, X, K1)
<1>0. \A E : Narrower(E, E)
  BY DEF Narrower
<1>1. ASSUME NEW s, NEW K, NEW L, NEW K1, NEW L1, Tries(s, p, X, K, L), K \subseteq K1, L1 \subseteq L
      PROVE  Tries(s, p, X, K1, L1)
  <2>1. /\ Before(p, X, {}, K1) \subseteq Before(p, X, {}, K)
        /\ Before(p, X, {}, L) \subseteq Before(p, X, {}, L1)
        /\ Before(p, X, {}, L1) \in Assertions
    BY <1>1, KnowLess, BeforeStable
  <2> QED
    BY <1>0, <1>1, <2>1, Consequence DEF Tries
<1>2. ASSUME NEW s, NEW K, NEW K1, Answers(s, p, X, K), K \subseteq K1
      PROVE  Answers(s, p, X, K1)
  <2>1. /\ Before(p, X, {}, K1) \subseteq Before(p, X, {}, K)
        /\ After(p, X, {}) \subseteq After(p, X, {}) /\ After(p, X, {}) \in Assertions
    BY <1>2, KnowLess, AfterStable
  <2> QED
    BY <1>0, <1>2, <2>1, Consequence DEF Answers
<1> QED
  BY <1>1, <1>2

(* The commands of the handlers.                                           *)
LEMMA One ==
  ASSUME NEW op \in Ops, NEW x \in Words, NEW P \in Assertions, NEW Q \in Assertions, NEW E,
         NEW S, Leads(Cmd(op, x, "", ""), P, Q, S), S \subseteq E[op]
  PROVE  Does(P, <<Cmd(op, x, "", "")>>, Q, E)
<1> DEFINE c == Cmd(op, x, "", "")
<1>1. c \in Commands /\ c.op = op /\ c.skip = 0
  BY CommandIs
<1> HIDE DEF c
<1>2. Leads(c, P, Q, E[c.op])
  <2>1. Leads(c, P, Q, S) /\ P \subseteq P /\ Q \subseteq Q /\ S \subseteq E[c.op]
    BY <1>1 DEF c
  <2> QED
    BY <2>1, LeadsMore
<1>3. Does(P, <<c>>, Q, E)
  BY <1>1, <1>2, Single
<1> QED
  BY <1>3 DEF c

(* A command that cannot fail.                                             *)
LEMMA Sure ==
  ASSUME NEW op \in Ops, NEW x \in Words, NEW P \in Assertions, NEW Q \in Assertions, NEW E,
         Leads(Cmd(op, x, "", ""), P, Q, {})
  PROVE  Does(P, <<Cmd(op, x, "", "")>>, Q, E)
<1>1. PICK S : S = {}
  OBVIOUS
<1>2. Leads(Cmd(op, x, "", ""), P, Q, S) /\ S \subseteq E[op]
  BY <1>1
<1> QED
  BY <1>2, One

(* The commands of the handlers.                                           *)
LEMMA HandlerCommands ==
  ASSUME NEW p \in Protocols, NEW X
  PROVE  /\ \A K : Tries(May, p, X, K, K)
         /\ \A x \in Words \intersect X : \A K : Tries(Alloc(x), p, X, K, K)
         /\ \A K : "uri" \in K \/ "live" \in K => Tries(Use("uri"), p, X, K, K)
         /\ \A x \in Words \ {"auth", "uri"} : \A K : Tries(Free(x), p, X, K, K)
         /\ \A K : "uri" \notin K /\ "live" \notin K => Tries(Free("uri"), p, X, K, K)
         /\ \A K : Tries(Serve, p, X, K, {"earned"})
         /\ \A K : Answers(Answer("refused"), p, X, K)
         /\ \A K : (p \in Asked => "good" \in K) => Answers(Answer("done"), p, X, K)
         /\ \A K : \A n \in Nat : Tries(Headers(n), p, X, K, K)
<1> DEFINE B(K) == Before(p, X, {}, K)
           A == After(p, X, {})
           E == Leave(p, X)
<1>1. (\A K : B(K) \in Assertions) /\ A \in Assertions
  BY BeforeStable, AfterStable
<1>2. E["alloc"] = A /\ \A op \in Ops : {} \subseteq E[op]
  BY LeavingHandler
<1> HIDE DEF B, A, E
<1>3. ASSUME NEW x \in Words, x \in X \/ x = "", NEW K
      PROVE  Does(B(K), Alloc(x), B(K), E)
  <2>1. Leads(Cmd("alloc", x, "", ""), B(K), B(K), B(K) \intersect A) /\ B(K) \intersect A \subseteq E["alloc"]
    BY <1>2, <1>3, AllocLeads DEF B, A
  <2>2. "alloc" \in Ops /\ B(K) \in Assertions
    BY <1>1, Known
  <2> QED
    BY <2>1, <2>2, One DEF Alloc
<1>4. ASSUME NEW K, "uri" \in K \/ "live" \in K
      PROVE  Does(B(K), Use("uri"), B(K), E)
  <2>1. \A v \in B(K) : Lively(v)
    BY <1>4 DEF B, Before, Fact, Lively
  <2>2. Leads(Cmd("use", "uri", "", ""), B(K), B(K), {}) /\ {} \subseteq E["use"]
    BY <2>1, <1>2, TestLeads, Known
  <2>3. "use" \in Ops /\ "uri" \in Words /\ B(K) \in Assertions
    BY <1>1, Known
  <2> QED
    BY <2>2, <2>3, Sure DEF Use
<1>5. ASSUME NEW x \in Words, x # "auth", NEW K, x = "uri" => "uri" \notin K /\ "live" \notin K
      PROVE  Does(B(K), Free(x), B(K), E)
  <2>1. Leads(Cmd("free", x, "", ""), B(K), B(K), {}) /\ {} \subseteq E["free"]
    BY <1>5, <1>2, FreeLeads, Known DEF B
  <2>2. "free" \in Ops /\ B(K) \in Assertions
    BY <1>1, Known
  <2> QED
    BY <2>1, <2>2, Sure DEF Free
<1>6. ASSUME NEW K
      PROVE  Does(B(K), Serve, B({"earned"}), E)
  <2>1. Leads(Cmd("serve", "", "", ""), B(K), B({"earned"}), {}) /\ {} \subseteq E["serve"]
    BY <1>2, ServeLeads, Known DEF B
  <2>2. "serve" \in Ops /\ "" \in Words /\ B(K) \in Assertions /\ B({"earned"}) \in Assertions
    BY <1>1, Known
  <2> QED
    BY <2>1, <2>2, Sure DEF Serve
<1>7. ASSUME NEW x \in {"done", "refused"}, NEW K, x = "done" /\ p \in Asked => "good" \in K
      PROVE  Does(B(K), Answer(x), A, E)
  <2>1. Leads(Cmd("answer", x, "", ""), B(K), A, {}) /\ {} \subseteq E["answer"] /\ x \in Words
    BY <1>2, <1>7, AnswerLeads, Known DEF B, A
  <2>2. "answer" \in Ops /\ B(K) \in Assertions
    BY <1>1, Known
  <2> QED
    BY <2>1, <2>2, <1>1, Sure DEF Answer
<1>8. ASSUME NEW n \in Nat, NEW K
      PROVE  Does(B(K), Headers(n), B(K), E)
  <2> DEFINE c == Cmd("alloc", "", "", "")
  <2>1. c \in Commands /\ c.op = "alloc" /\ c.skip = 0
    BY CommandIs, Known
  <2>2. Headers(n) = [k \in 1 .. n |-> c]
    BY DEF Headers, ezcfg_http_add_header, May
  <2>3. Leads(c, B(K), B(K), B(K) \intersect A) /\ B(K) \intersect A \subseteq E["alloc"]
    BY <1>2, Known, AllocLeads DEF B, A
  <2> HIDE DEF c
  <2>4. Leads(c, B(K), B(K), E[c.op])
    <3>1. B(K) \subseteq B(K)
      OBVIOUS
    <3> QED
      BY <3>1, <2>1, <2>3, LeadsMore
  <2>5. Does(B(K), [k \in 1 .. n |-> c], B(K), E)
    BY <1>1, <2>1, <2>4, Repeated
  <2> QED
    BY <2>2, <2>5
<1>9. \A K : Does(B(K), May, B(K), E)
  BY <1>3, Known DEF May, Alloc
<1> QED
  BY <1>3, <1>4, <1>5, <1>6, <1>7, <1>8, <1>9, Known DEF Tries, Answers, B, A, E

(* The conditions of the scripts are single commands.                      *)
LEMMA Conditions ==
  /\ Condition(Test) /\ Test[1] = Cmd("test", "", "", "")
  /\ Condition(May) /\ May[1] = Cmd("alloc", "", "", "")
  /\ Condition(Realm) /\ Realm[1] = Cmd("realm", "", "", "")
  /\ Condition(NeedRet) /\ NeedRet[1] = Cmd("needret", "", "", "")
  /\ Condition(Have("uri")) /\ Have("uri")[1] = Cmd("have", "uri", "", "")
  /\ \A x \in Words : Condition(Alloc(x)) /\ Alloc(x)[1] = Cmd("alloc", x, "", "")
<1>1. \A op \in Ops, x \in Words : Cmd(op, x, "", "") \in Commands
  BY CommandIs
<1>2. \A c \in Commands : Condition(<<c>>) /\ <<c>>[1] = c
  BY DEF Condition
<1>3. /\ "test" \in Ops /\ "alloc" \in Ops /\ "needret" \in Ops /\ "have" \in Ops
      /\ "realm" \in Ops
      /\ "" \in Words /\ "uri" \in Words
  BY Known
<1> QED
  BY <1>1, <1>2, <1>3 DEF Test, May, Realm, NeedRet, Have, Alloc

(* if (!c) { e; goto func_exit; } goes on if e sees to the answer.         *)
LEMMA HandlerOrElse ==
  ASSUME NEW p, NEW X, NEW e
  PROVE  /\ \A K : Answers(e, p, X, K) => /\ Tries(OrElse(Test, e), p, X, K, K)
                                          /\ Tries(OrElse(May, e), p, X, K, K)
                                          /\ Tries(OrElse(Have("uri"), e), p, X, K, K \union {"uri"})
         /\ \A x \in Words \intersect X : \A K : Answers(e, p, X, K) => Tries(OrElse(Alloc(x), e), p, X, K, K)
         /\ Answers(e, p, X, {}) => /\ Tries(OrElse(NeedRet, e), p, X, {"checked"}, {"live"})
                                    /\ Tries(OrElse(NeedRet, e), p, X, {"earned"}, {"good"})
<1> DEFINE B(K) == Before(p, X, {}, K)
           A == After(p, X, {})
           E == Leave(p, X)
<1>1. (\A K : B(K) \in Assertions) /\ A \in Assertions
  BY BeforeStable, AfterStable
<1>2. A \subseteq E["return"]
  BY LeavingHandler
<1>t. \A K : Leads(Test[1], B(K), B(K), B(K))
  BY TestLeads, Conditions
<1>h. \A K : Leads(Have("uri")[1], B(K), B(K \union {"uri"}), B(K))
  BY TestLeads, Conditions
<1>n. /\ Leads(NeedRet[1], B({"checked"}), B({"live"}), B({}))
      /\ Leads(NeedRet[1], B({"earned"}), B({"good"}), B({}))
  BY NeedRetLeads, Conditions
<1>a. ASSUME NEW x \in Words, x \in X \/ x = "", NEW K
      PROVE  Leads(Alloc(x)[1], B(K), B(K), B(K))
  <2>1. Leads(Alloc(x)[1], B(K), B(K), B(K) \intersect A)
    BY <1>a, AllocLeads, Conditions
  <2> HIDE DEF B, A
  <2>2. B(K) \subseteq B(K) /\ B(K) \intersect A \subseteq B(K)
    OBVIOUS
  <2> QED
    BY <2>1, <2>2, LeadsMore
<1>m. May = Alloc("") /\ "" \in Words
  BY Known DEF May, Alloc
<1>x. \A K : Answers(e, p, X, K) <=> Does(B(K), e, A, E)
  BY DEF Answers
<1>y. \A s, K, L : Tries(s, p, X, K, L) <=> Does(B(K), s, B(L), E)
  BY DEF Tries
<1> HIDE DEF B, A, E
<1>3. ASSUME NEW c, NEW K, NEW L, NEW M, Condition(c), Leads(c[1], B(K), B(L), B(M)), Answers(e, p, X, M)
      PROVE  Tries(OrElse(c, e), p, X, K, L)
  <2>1. Does(B(M), e, A, E) /\ B(K) \in Assertions /\ B(L) \in Assertions
    BY <1>1, <1>x, <1>3
  <2>2. Does(B(K), OrElse(c, e), B(L), E)
    BY <1>1, <1>2, <1>3, <2>1, Otherwise
  <2> QED
    BY <2>2, <1>y
<1>4. ASSUME NEW K, Answers(e, p, X, K)
      PROVE  /\ Tries(OrElse(Test, e), p, X, K, K)
             /\ Tries(OrElse(Have("uri"), e), p, X, K, K \union {"uri"})
  BY <1>3, <1>4, <1>t, <1>h, Conditions
<1>5. ASSUME NEW K, Answers(e, p, X, K), NEW x \in Words, x \in X \/ x = ""
      PROVE  Tries(OrElse(Alloc(x), e), p, X, K, K)
  <2>1. Condition(Alloc(x))
    BY Conditions
  <2> QED
    BY <2>1, <1>3, <1>5, <1>a
<1>6. ASSUME Answers(e, p, X, {})
      PROVE  /\ Tries(OrElse(NeedRet, e), p, X, {"checked"}, {"live"})
             /\ Tries(OrElse(NeedRet, e), p, X, {"earned"}, {"good"})
  <2>1. Condition(NeedRet)
    BY Conditions
  <2> QED
    BY <2>1, <1>3, <1>6, <1>n
<1> QED
  BY <1>4, <1>5, <1>6, <1>m

(* Conditions without an answer of their own.                              *)
LEMMA HandlerIf ==
  ASSUME NEW p, NEW X, NEW s
  PROVE  /\ \A K : Tries(s, p, X, K, K) => Tries(If(Test, s), p, X, K, K) /\ Tries(Loop(s), p, X, K, K)
         /\ \A t, K : Answers(s, p, X, K) /\ Answers(t, p, X, K) => Answers(IfElse(Test, s, t), p, X, K)
         /\ \A K : (p \in {"soap_http", "agent_soap_http"} /\ "fresh" \in K) \/ p = "upnp_ssdp"
                     => (Answers(s, p, X, K) => Answers(If(Test, s), p, X, K))
<1> DEFINE B(K) == Before(p, X, {}, K)
           A == After(p, X, {})
           E == Leave(p, X)
<1>1. (\A K : B(K) \in Assertions) /\ A \in Assertions
  BY BeforeStable, AfterStable
<1>t. \A P : Leads(Test[1], P, P, P)
  BY TestLeads, Conditions
<1>c. Condition(Test)
  BY Conditions
<1>x. \A r, K : Answers(r, p, X, K) <=> Does(B(K), r, A, E)
  BY DEF Answers
<1>y. \A r, K, L : Tries(r, p, X, K, L) <=> Does(B(K), r, B(L), E)
  BY DEF Tries
<1>s. ASSUME NEW K, (p \in {"soap_http", "agent_soap_http"} /\ "fresh" \in K) \/ p = "upnp_ssdp"
      PROVE  B(K) \subseteq A
  BY <1>s DEF Before, After, Fact, Unanswered
<1> HIDE DEF B, A, E
<1>2. ASSUME NEW K, NEW r, Tries(r, p, X, K, K)
      PROVE  Tries(If(Test, r), p, X, K, K)
  <2>1. B(K) \in Assertions /\ Does(B(K), r, B(K), E) /\ Leads(Test[1], B(K), B(K), B(K))
    BY <1>1, <1>2, <1>t, <1>y
  <2>2. Does(B(K), If(Test, r), B(K), E)
    BY <1>c, <2>1, Branch
  <2> QED
    BY <2>2, <1>y
<1>3. ASSUME NEW K, Tries(s, p, X, K, K)
      PROVE  Tries(Loop(s), p, X, K, K)
  <2>1. Tries(s \o If(Test, s), p, X, K, K)
    BY <1>2, <1>3, HandlerJoined
  <2> QED
    BY <2>1, <1>2 DEF Loop
<1>4. ASSUME NEW t, NEW K, Answers(s, p, X, K), Answers(t, p, X, K)
      PROVE  Answers(IfElse(Test, s, t), p, X, K)
  <2>1. B(K) \in Assertions /\ Does(B(K), s, A, E) /\ Does(B(K), t, A, E)
        /\ Leads(Test[1], B(K), B(K), B(K))
    BY <1>1, <1>4, <1>t, <1>x
  <2>2. Does(B(K), IfElse(Test, s, t), A, E)
    BY <1>1, <1>c, <2>1, Branches
  <2> QED
    BY <2>2, <1>x
<1>5. ASSUME NEW K, Answers(s, p, X, K),
             (p \in {"soap_http", "agent_soap_http"} /\ "fresh" \in K) \/ p = "upnp_ssdp"
      PROVE  Answers(If(Test, s), p, X, K)
  <2>1. B(K) \in Assertions /\ Does(B(K), s, A, E) /\ Leads(Test[1], B(K), B(K), B(K))
    BY <1>1, <1>5, <1>t, <1>x
  <2>2. B(K) \subseteq B(K) /\ B(K) \subseteq A
    BY <1>5, <1>s
  <2>3. Leads(Test[1], B(K), B(K), A)
    BY <2>1, <2>2, LeadsMore
  <2>4. Does(B(K), If(Test, s), A, E)
    BY <1>c, <2>1, <2>3, Branch
  <2> QED
    BY <2>4, <1>x
<1> QED
  BY <1>2, <1>3, <1>4, <1>5

(* What follows the look for the realm, which may end the function.        *)
LEMMA HandlerRealm ==
  ASSUME NEW p, NEW X, NEW K, NEW s, Answers(s, p, X, K)
  PROVE  Answers(If(Realm, s), p, X, K)
<1> DEFINE B == Before(p, X, {}, K)
           A == After(p, X, {})
           E == Leave(p, X)
<1>1. B \in Assertions /\ Does(B, s, A, E)
  BY BeforeStable DEF Answers
<1>2. Condition(Realm) /\ Leads(Realm[1], B, B, B \intersect A)
  BY RealmLeads, Conditions
<1> HIDE DEF B, A, E
<1>3. Leads(Realm[1], B, B, A)
  <2>1. B \subseteq B /\ B \intersect A \subseteq A
    OBVIOUS
  <2> QED
    BY <1>2, <2>1, LeadsMore
<1>4. Does(B, If(Realm, s), A, E)
  BY <1>1, <1>2, <1>3, Branch
<1> QED
  BY <1>4 DEF Answers, B, A, E

(* free() of x at the end of a function.                                   *)
LEMMA Freeing ==
  ASSUME NEW p, NEW X, NEW x \in Words, x # "auth", NEW E
  PROVE  Does(After(p, X \union {x}, {}), Free(x), After(p, X, {}), E)
<1>1. Leads(Cmd("free", x, "", ""), After(p, X \union {x}, {}), After(p, X, {}), {})
  BY FreeLeads
<1>2. After(p, X \union {x}, {}) \in Assertions /\ After(p, X, {}) \in Assertions /\ "free" \in Ops
  BY AfterStable, Known
<1> QED
  BY <1>1, <1>2, Sure DEF Free

(* A function, with the clean-up t.                                        *)
LEMMA HandlerVoid ==
  ASSUME NEW p, NEW X, NEW Y, X \subseteq Y, NEW s, NEW t, NEW K, Answers(s, p, Y, K), NEW E,
         Does(After(p, Y, {}), t, After(p, X, {}), E)
  PROVE  Does(Before(p, X, {}, K), Void(s, t), After(p, X, {}), E)
<1> DEFINE A == After(p, X, {})
           B == After(p, Y, {})
<1>1. Does(Before(p, Y, {}, K), s, B, Via(Exits, B))
  BY DEF Answers, Leave
<1>2. Caught(Via(Exits, B), Exits, B, E)
  BY Leaving
<1>3. A \in Assertions
  BY AfterStable
<1>4. Before(p, X, {}, K) \subseteq Before(p, Y, {}, K)
  BY DEF Before
<1>5. Leads(Cmd("forgive", "", "", ""), A, A, {})
  BY ExitLeads
<1> HIDE DEF A, B
<1>6. Does(Before(p, Y, {}, K), ToEnd(s, Exits), B, E)
  BY <1>1, <1>2, Ending
<1>7. Does(Before(p, Y, {}, K), ToEnd(s, Exits) \o t, A, E)
  BY <1>6, Joined DEF A, B
<1>8. Does(A, Forgive(""), A, E)
  <2>1. "forgive" \in Ops /\ "" \in Words
    BY Known
  <2> QED
    BY <2>1, <1>3, <1>5, Sure DEF Forgive
<1>9. Does(Before(p, Y, {}, K), Void(s, t), A, E)
  BY <1>7, <1>8, Joined DEF Void
<1>10. A \subseteq A /\ Narrower(E, E)
  BY DEF Narrower
<1>11. Does(Before(p, X, {}, K), Void(s, t), A, E)
  BY <1>9, <1>3, <1>4, <1>10, Consequence
<1> QED
  BY <1>11 DEF A

(* A function that frees nothing, one, two or three objects.               *)
LEMMA HandlerVoids ==
  ASSUME NEW p, NEW X, NEW s, NEW K
  PROVE  /\ Answers(s, p, X, K) => Answers(Void(s, <<>>), p, X, K)
         /\ \A x \in Words \ {"auth"} :
              Answers(s, p, X \union {x}, K) => Answers(Void(s, Free(x)), p, X, K)
         /\ \A x, y \in Words \ {"auth"} :
              Answers(s, p, (X \union {y}) \union {x}, K) => Answers(Void(s, Free(x) \o Free(y)), p, X, K)
         /\ \A x, y, z \in Words \ {"auth"} :
              Answers(s, p, ((X \union {z}) \union {y}) \union {x}, K)
                => Answers(Void(s, Free(x) \o Free(y) \o Free(z)), p, X, K)
<1> DEFINE E == Leave(p, X)
           A(Y) == After(p, Y, {})
<1>1. ASSUME Answers(s, p, X, K) PROVE Answers(Void(s, <<>>), p, X, K)
  <2>1. After(p, X, {}) \in Assertions
    BY AfterStable
  <2>2. Does(After(p, X, {}), <<>>, After(p, X, {}), E)
    BY <2>1, Nothing
  <2> QED
    BY <1>1, <2>2, HandlerVoid DEF Answers
<1>2. ASSUME NEW x \in Words \ {"auth"}, NEW Y
      PROVE  Does(A(Y \union {x}), Free(x), A(Y), E)
  BY Freeing
<1>3. ASSUME NEW x \in Words \ {"auth"}, Answers(s, p, X \union {x}, K)
      PROVE  Answers(Void(s, Free(x)), p, X, K)
  <2>1. Does(A(X \union {x}), Free(x), A(X), E)
    BY <1>2
  <2> QED
    BY <1>3, <2>1, HandlerVoid DEF Answers
<1>4. ASSUME NEW x \in Words \ {"auth"}, NEW y \in Words \ {"auth"},
             Answers(s, p, (X \union {y}) \union {x}, K)
      PROVE  Answers(Void(s, Free(x) \o Free(y)), p, X, K)
  <2> DEFINE Y == X \union {y}
             Z == Y \union {x}
  <2>1. Does(A(Z), Free(x), A(Y), E) /\ Does(A(Y), Free(y), A(X), E)
    BY <1>2
  <2>2. X \subseteq Z
    OBVIOUS
  <2> HIDE DEF Y, Z, A, E
  <2>3. Does(A(Z), Free(x) \o Free(y), A(X), E)
    BY <2>1, Joined
  <2>4. Answers(s, p, Z, K)
    BY <1>4 DEF Y, Z
  <2> QED
    BY <2>2, <2>3, <2>4, HandlerVoid DEF A, E, Answers
<1>5. ASSUME NEW x \in Words \ {"auth"}, NEW y \in Words \ {"auth"}, NEW z \in Words \ {"auth"},
             Answers(s, p, ((X \union {z}) \union {y}) \union {x}, K)
      PROVE  Answers(Void(s, Free(x) \o Free(y) \o Free(z)), p, X, K)
  <2> DEFINE W == X \union {z}
             Y == W \union {y}
             Z == Y \union {x}
  <2>1. Does(A(Z), Free(x), A(Y), E) /\ Does(A(Y), Free(y), A(W), E) /\ Does(A(W), Free(z), A(X), E)
    BY <1>2
  <2>2. X \subseteq Z
    OBVIOUS
  <2> HIDE DEF W, Y, Z, A, E
  <2>3. Does(A(Z), Free(x) \o Free(y), A(W), E)
    BY <2>1, Joined
  <2>4. Does(A(Z), Free(x) \o Free(y) \o Free(z), A(X), E)
    BY <2>1, <2>3, Joined
  <2>5. Answers(s, p, Z, K)
    BY <1>5 DEF W, Y, Z
  <2> QED
    BY <2>2, <2>4, <2>5, HandlerVoid DEF A, E, Answers
<1> QED
  BY <1>1, <1>3, <1>4, <1>5

(* A connection is processed by functions that nothing leaves.             *)
Ends(s, p, X, K) == Does(Before(p, X, {}, K), s, After(p, X, {}), Nowhere)

(* A handler whose failures go no further, with what is freed after it.    *)
LEMMA HandlerEnds ==
  ASSUME NEW p, NEW X, NEW s, NEW K
  PROVE  /\ Answers(s, p, X, K) => Ends(Void(s, <<>>), p, X, K)
         /\ \A x \in Words \ {"auth"} :
              Answers(s, p, X \union {x}, K) => Ends(Void(s, Free(x)), p, X, K)
<1>1. Does(After(p, X, {}), <<>>, After(p, X, {}), Nowhere)
  <2>1. After(p, X, {}) \in Assertions
    BY AfterStable
  <2> QED
    BY <2>1, Nothing
<1>2. ASSUME Answers(s, p, X, K) PROVE Ends(Void(s, <<>>), p, X, K)
  BY <1>1, <1>2, HandlerVoid DEF Ends
<1>3. ASSUME NEW x \in Words \ {"auth"}, Answers(s, p, X \union {x}, K)
      PROVE  Ends(Void(s, Free(x)), p, X, K)
  <2>1. Does(After(p, X \union {x}, {}), Free(x), After(p, X, {}), Nowhere)
    BY Freeing
  <2> QED
    BY <1>3, <2>1, HandlerVoid DEF Ends
<1> QED
  BY <1>2, <1>3

-----------------------------------------------------------------------------
(* Authorisation *)

(* Not yet answered, and with the structure auth, is_authorized() may send *)
(* the 401 and leave the answer to its caller.                             *)
Doubtful(p, X, H) == Before(p, X, H, {"auth", "mute"})
Settled(p, X) == Before(p, X, {}, {"checked"})

(* The states of is_authorized(). *)
LEMMA DoubtfulStable ==
  ASSUME NEW p, NEW X
  PROVE  /\ \A H : Doubtful(p, X, H) \in Assertions
         /\ Settled(p, X) \in Assertions
         /\ Doubtful(p, X, {}) \subseteq Settled(p, X)
<1>1. \A H, K : Before(p, X, H, K) \in Assertions
  BY BeforeStable
<1>2. Doubtful(p, X, {}) \subseteq Settled(p, X)
  BY DEF Doubtful, Settled, Before, Fact
<1> QED
  BY <1>1, <1>2 DEF Doubtful, Settled

(* Sending the 401.                                                        *)
LEMMA TryAuthSends ==
  ASSUME NEW p \in Protocols, NEW X, "msg" \in X
  PROVE  LET E == Via(Exits, Settled(p, X))
         IN  /\ Does(Doubtful(p, X, {}), TryAuth, Settled(p, X), E)
             /\ Does(Doubtful(p, X, {}), UpnpTryAuth, Settled(p, X), E)
<1> DEFINE E == Via(Exits, Settled(p, X))
           D == Doubtful(p, X, {})
           C == Settled(p, X)
<1>1. D \in Assertions /\ C \in Assertions /\ D \subseteq C
  BY DoubtfulStable
<1>2. "alloc" \in Ops /\ "alloc" \in Exits
  BY Known DEF Exits, FailingOps
<1>3. E["alloc"] = C
  BY <1>2, Leaving
<1>4. ASSUME NEW x \in Words, x \in X \/ x = ""
      PROVE  Does(D, Alloc(x), D, E)
  <2>1. Leads(Cmd("alloc", x, "", ""), D, D, D \intersect After(p, X, {}))
    BY <1>4, AllocLeads DEF Doubtful
  <2> HIDE DEF D, C, E
  <2>2. D \intersect After(p, X, {}) \subseteq E["alloc"]
    BY <1>1, <1>3
  <2> QED
    BY <1>1, <1>2, <2>1, <2>2, One DEF Alloc
<1>5. Does(D, Free("uri"), D, E)
  <2>1. "free" \in Ops /\ "uri" \in Words
    BY Known
  <2>2. Leads(Cmd("free", "uri", "", ""), D, D, {})
    BY <2>1, FreeLeads DEF Doubtful
  <2> HIDE DEF D, C, E
  <2> QED
    BY <1>1, <2>1, <2>2, Sure DEF Free
<1>6. Does(D, Answer("refused"), C, E)
  <2>1. "answer" \in Ops /\ "refused" \in Words
    BY Known
  <2>2. Leads(Cmd("answer", "refused", "", ""), D, C, {})
    BY AnswerLeads DEF Doubtful, Settled
  <2> HIDE DEF D, C, E
  <2> QED
    BY <1>1, <2>1, <2>2, Sure DEF Answer
<1> HIDE DEF D, C, E
<1>7. Does(D, May, D, E) /\ Does(D, Alloc("msg"), D, E)
  <2>1. "" \in Words /\ "msg" \in Words /\ May = Alloc("")
    BY Known DEF May, Alloc
  <2> QED
    BY <2>1, <1>4
<1>8. Does(D, Deliver("refused"), C, E)
  BY <1>6, <1>7, Joined DEF Deliver, ezcfg_http_get_message_length
<1>9. ASSUME NEW s, Does(D, s, C, E)
      PROVE  Does(D, Free("uri") \o If(Realm, s), C, E)
  <2>1. Leads(Realm[1], D, D, D \intersect After(p, X, {})) /\ Condition(Realm)
    BY RealmLeads, Conditions DEF D, Doubtful
  <2>2. D \subseteq D /\ D \intersect After(p, X, {}) \subseteq C
    BY <1>1
  <2>3. Leads(Realm[1], D, D, C)
    BY <1>1, <2>1, <2>2, LeadsMore
  <2>4. Does(D, If(Realm, s), C, E)
    BY <1>1, <1>9, <2>1, <2>3, Branch
  <2> QED
    BY <1>5, <2>4, Joined
<1>10. Does(D, May \o Deliver("refused"), C, E)
  BY <1>7, <1>8, Joined
<1>11. Does(D, TryAuth, C, E)
  BY <1>9, <1>10 DEF TryAuth, ezcfg_http_reset_attributes, ezcfg_http_add_header
<1>12. Does(D, UpnpTryAuth, C, E)
  BY <1>8, <1>9 DEF UpnpTryAuth, ezcfg_http_reset_attributes
<1> QED
  BY <1>11, <1>12 DEF D, C, E

(* Looking up the user, with the mutex of the master.                      *)
LEMMA CheckAuthDoubts ==
  ASSUME NEW p \in Protocols, NEW X
  PROVE  LET E == Via(Exits, Settled(p, X))
         IN  Does(Doubtful(p, X, {}), CheckAuth, Doubtful(p, X, {}), E)
<1> DEFINE E == Via(Exits, Settled(p, X))
           D == Doubtful(p, X, {})
           L == Doubtful(p, X, {"auth"})
           C == Settled(p, X)
           ops == {"test", "callret", "needret"}
           F == [op \in Ops |-> IF op \in ops THEN D ELSE E[op]]
           K == {"auth", "mute"}
<1>1. D \in Assertions /\ L \in Assertions /\ C \in Assertions /\ D \subseteq C
  BY DoubtfulStable
<1>2. /\ "test" \in Ops /\ "callret" \in Ops /\ "needret" \in Ops /\ "return" \in Ops
      /\ "lock" \in Ops /\ "setret" \in Ops /\ "unlock" \in Ops
      /\ "" \in Words /\ "auth" \in Words /\ "any" \in Words
  BY Known
<1>3. F["test"] = D /\ F["callret"] = D /\ F["needret"] = D /\ F["return"] = C
  <2>1. "return" \in Exits /\ "return" \notin ops
    BY DEF Exits
  <2>2. E["return"] = C
    BY <1>2, <2>1, Leaving
  <2> HIDE DEF E, D, C
  <2> QED
    BY <1>2, <2>1, <2>2
<1>4. Caught(F, ops, D, E)
  BY DEF Caught
<1>5. /\ Leads(Cmd("test", "", "", ""), D, D, D)
      /\ Leads(Cmd("needret", "", "", ""), D, D, D)
  BY TestLeads
<1>6. /\ Leads(Cmd("callret", "", "", ""), D, D, D)
      /\ Leads(Cmd("setret", "any", "", ""), L, L, {})
  BY RetLeads DEF Doubtful
<1>7. /\ Leads(Cmd("lock", "auth", "", ""), D, L, {})
      /\ Leads(Cmd("unlock", "auth", "", ""), L, D, {})
  <2>1. "auth" \in Locks /\ "auth" \notin {} /\ {} \union {"auth"} = {"auth"}
    BY DEF Locks
  <2> QED
    BY <2>1, LockLeads DEF Doubtful
<1>8. Leads(Cmd("return", "", "", ""), D, D, D)
  BY DEF Leads, Fit, Onwards, Skips, Cmd
<1> HIDE DEF E, D, L, C, F, ops
<1>9. D \subseteq F["test"] /\ D \subseteq F["callret"] /\ D \subseteq F["needret"] /\ D \subseteq F["return"]
  BY <1>1, <1>3
<1>a. Does(D, Test, D, F)
  BY <1>1, <1>2, <1>5, <1>9, One DEF Test
<1>b. Does(D, CallRet, D, F)
  BY <1>1, <1>2, <1>6, <1>9, One DEF CallRet
<1>c. Does(D, Lock("auth"), L, F)
  BY <1>1, <1>2, <1>7, Sure DEF Lock
<1>d. Does(L, SetRet("any"), L, F)
  BY <1>1, <1>2, <1>6, Sure DEF SetRet
<1>e. Does(L, Unlock("auth"), D, F)
  BY <1>1, <1>2, <1>7, Sure DEF Unlock
<1>f. Does(D, NeedRet, D, F)
  BY <1>1, <1>2, <1>5, <1>9, One DEF NeedRet
<1>g. Does(D, Return, D, F)
  BY <1>1, <1>2, <1>8, <1>9, One DEF Return
<1>h. Does(D, Lookup, D, F)
  <2>1. Does(D, Test \o Test, D, F)
    BY <1>a, Joined
  <2>2. Does(D, Test \o Test \o CallRet, D, F)
    BY <1>b, <2>1, Joined
  <2>3. Does(D, Test \o Test \o CallRet \o Test, D, F)
    BY <1>a, <2>2, Joined
  <2> QED
    BY <1>b, <2>3, Joined DEF Lookup
<1>i. Does(D, Lookup \o Lock("auth"), L, F)
  BY <1>c, <1>h, Joined
<1>j. Does(D, Lookup \o Lock("auth") \o SetRet("any"), L, F)
  BY <1>d, <1>i, Joined
<1>k. Does(D, Lookup \o Lock("auth") \o SetRet("any") \o Unlock("auth"), D, F)
  BY <1>e, <1>j, Joined
<1>l. Does(D, Lookup \o Lock("auth") \o SetRet("any") \o Unlock("auth") \o NeedRet, D, F)
  BY <1>f, <1>k, Joined
<1>m. Does(D, Lookup \o Lock("auth") \o SetRet("any") \o Unlock("auth") \o NeedRet \o Return, D, F)
  BY <1>g, <1>l, Joined
<1>n. Does(D, CheckAuth, D, E)
  BY <1>m, <1>4, Ending DEF CheckAuth, ops
<1> QED
  BY <1>n DEF D, E

(* is_authorized() leaves ret FALSE or the structure auth behind, and room *)
(* for one more answer.                                                    *)
LEMMA AuthorizedTries ==
  ASSUME NEW p \in Protocols, NEW X, "auth" \in X
  PROVE  /\ Tries(is_authorized, p, X, {"mute"}, {"checked"})
         /\ Tries(upnp_is_authorized, p, X, {"mute"}, {"checked"})
<1> DEFINE Y == X \union {"msg"}
           E == Via(Exits, Settled(p, Y))
           B(K) == Before(p, Y, {}, K)
           D == Doubtful(p, Y, {})
           C == Settled(p, Y)
           Q == Settled(p, X)
           G == Leave(p, X)
<1>1. /\ D \in Assertions /\ C \in Assertions /\ D \subseteq C /\ \A K : B(K) \in Assertions
      /\ Q \in Assertions
  BY DoubtfulStable, BeforeStable
<1>2. /\ "alloc" \in Ops /\ "setret" \in Ops /\ "free" \in Ops /\ "forgive" \in Ops
      /\ "" \in Words /\ "auth" \in Words /\ "false" \in Words /\ "msg" \in Words
  BY Known
<1>3. E["alloc"] = C
  <2>1. "alloc" \in Exits
    BY DEF Exits, FailingOps
  <2> HIDE DEF C
  <2>2. \A op \in Ops : E[op] = IF op \in Exits THEN C ELSE {}
    BY Leaving DEF C
  <2> HIDE DEF E
  <2> QED
    BY <1>2, <2>1, <2>2
<1>4. Does(B({"mute"}), SetRet("false"), B({"mute", "checked"}), E)
  <2>1. {"mute"} \union {"checked"} = {"mute", "checked"}
    OBVIOUS
  <2>2. Leads(Cmd("setret", "false", "", ""), B({"mute"}), B({"mute", "checked"}), {})
    BY <2>1, RetLeads
  <2> HIDE DEF B, E
  <2> QED
    BY <1>1, <1>2, <2>2, Sure DEF SetRet
<1>5. Does(B({"mute", "checked"}), Alloc("auth"), D, E)
  <2> DEFINE P == B({"mute", "checked"})
             R == B({"mute", "checked"} \union {"auth"})
             S == P \intersect After(p, Y, {})
  <2>1. Leads(Cmd("alloc", "auth", "", ""), P, R, S)
    BY <1>2, AllocLeads
  <2>2. R \subseteq D
    BY DEF Doubtful, Before
  <2>3. P \subseteq C
    BY DEF Settled, Before
  <2>4. P \subseteq P
    OBVIOUS
  <2>p. P \in Assertions
    BY BeforeStable
  <2> HIDE DEF P, R, D, C, E
  <2>5. S \subseteq E["alloc"]
    BY <1>3, <2>3
  <2>6. S \subseteq S
    OBVIOUS
  <2>7. Leads(Cmd("alloc", "auth", "", ""), P, D, S)
    BY <2>1, <2>2, <2>4, <2>6, LeadsMore
  <2>8. Does(P, Alloc("auth"), D, E)
    BY <1>1, <1>2, <2>5, <2>7, <2>p, One DEF Alloc
  <2> QED
    BY <2>8 DEF P
<1>6. /\ Does(D, CheckAuth, D, E)
      /\ Does(D, TryAuth, C, E) /\ Does(D, UpnpTryAuth, C, E)
  BY CheckAuthDoubts, TryAuthSends
<1>7. /\ Leads(Cmd("free", "msg", "", ""), C, Q, {})
      /\ Leads(Cmd("forgive", "", "", ""), Q, Q, {})
  BY <1>2, FreeLeads, ExitLeads DEF Settled
<1>8. Caught(E, Exits, C, G)
  BY Leaving
<1>9. Before(p, X, {}, {"mute"}) \subseteq B({"mute"})
  BY DEF Before
<1>10. Q \subseteq Q /\ Narrower(G, G)
  BY DEF Narrower
<1> HIDE DEF D, C, E, B, Q, G, Y
<1>11. Does(C, Free("msg"), Q, G) /\ Does(Q, Forgive(""), Q, G)
  <2>1. Does(C, Free("msg"), Q, G)
    BY <1>1, <1>2, <1>7, Sure DEF Free
  <2>2. Does(Q, Forgive(""), Q, G)
    BY <1>1, <1>2, <1>7, Sure DEF Forgive
  <2> QED
    BY <2>1, <2>2
<1>12. ASSUME NEW t, Does(D, t, C, E)
       PROVE  Tries(Void(SetRet("false") \o Alloc("auth") \o CheckAuth \o t, Free("msg")),
                    p, X, {"mute"}, {"checked"})
  <2>1. Does(B({"mute"}), SetRet("false") \o Alloc("auth"), D, E)
    BY <1>4, <1>5, Joined
  <2>2. Does(B({"mute"}), SetRet("false") \o Alloc("auth") \o CheckAuth, D, E)
    BY <1>6, <2>1, Joined
  <2>3. Does(B({"mute"}), SetRet("false") \o Alloc("auth") \o CheckAuth \o t, C, E)
    BY <1>12, <2>2, Joined
  <2> DEFINE s == SetRet("false") \o Alloc("auth") \o CheckAuth \o t
  <2> HIDE DEF s
  <2>4. Does(B({"mute"}), ToEnd(s, Exits), C, G)
    BY <1>8, <2>3, Ending DEF s
  <2>5. Does(B({"mute"}), ToEnd(s, Exits) \o Free("msg"), Q, G)
    BY <1>11, <2>4, Joined
  <2>6. Does(B({"mute"}), Void(s, Free("msg")), Q, G)
    BY <1>11, <2>5, Joined DEF Void
  <2>7. Does(Before(p, X, {}, {"mute"}), Void(s, Free("msg")), Q, G)
    BY <1>1, <1>9, <1>10, <2>6, Consequence
  <2> QED
    BY <2>7 DEF Tries, Q, G, s, Settled
<1> QED
  BY <1>6, <1>12 DEF is_authorized, upnp_is_authorized

-----------------------------------------------------------------------------
(* The answers *)

(* The refusals, and the answer to a request that was served.              *)
LEMMA Refusals ==
  ASSUME NEW p \in Protocols, NEW X, NEW K
  PROVE  /\ Answers(ezcfg_worker_printf("refused"), p, X, K)
         /\ Answers(ezcfg_agent_worker_printf("refused"), p, X, K)
         /\ (p \in Asked => "good" \in K) => Answers(ezcfg_worker_printf("done"), p, X, K)
         /\ "msg" \in X => Answers(SoapRefusal, p, X, K)
         /\ "msg" \in X /\ (p \in Asked => "good" \in K) => Answers(Deliver("done"), p, X, K)
         /\ Answers(send_http_bad_request, p, X, K) /\ Answers(upnp_send_http_bad_request, p, X, K)
         /\ Answers(handle_auth_request, p, X, K) /\ Answers(upnp_handle_auth_request, p, X, K)
<1>0. {"", "line", "msg", "uri"} \subseteq Words /\ {"line", "msg"} \subseteq Words \ {"auth"}
  BY Known
<1>1. ASSUME NEW x \in {"done", "refused"}, x = "done" /\ p \in Asked => "good" \in K
      PROVE  Answers(Void(Alloc("line") \o Answer(x), Free("line")), p, X, K)
  <2> DEFINE Y == X \union {"line"}
  <2>1. Tries(Alloc("line"), p, Y, K, K) /\ Answers(Answer(x), p, Y, K)
    BY <1>0, <1>1, HandlerCommands
  <2>2. Answers(Alloc("line") \o Answer(x), p, Y, K)
    BY <2>1, HandlerJoined
  <2> QED
    BY <2>2, <1>0, HandlerVoids
<1>2. ASSUME NEW Y, "msg" \in Y, NEW x \in {"done", "refused"}, NEW L,
             x = "done" /\ p \in Asked => "good" \in L
      PROVE  Answers(Deliver(x), p, Y, L)
  <2>1. Tries(May, p, Y, L, L) /\ Tries(Alloc("msg"), p, Y, L, L) /\ Answers(Answer(x), p, Y, L)
    BY <1>0, <1>2, HandlerCommands
  <2>2. Tries(May \o Alloc("msg"), p, Y, L, L)
    BY <2>1, HandlerJoined
  <2> QED
    BY <2>1, <2>2, HandlerJoined DEF Deliver, ezcfg_http_get_message_length
<1>3. ASSUME NEW Y, "msg" \in Y
      PROVE  /\ Answers(Free("uri") \o Deliver("refused"), p, Y, {})
             /\ Answers(TryAuth, p, Y, {}) /\ Answers(UpnpTryAuth, p, Y, {})
  <2>1. /\ Tries(Free("uri"), p, Y, {}, {}) /\ Tries(May, p, Y, {}, {})
        /\ Answers(Deliver("refused"), p, Y, {})
    BY <1>2, <1>3, HandlerCommands
  <2>2. Answers(May \o Deliver("refused"), p, Y, {})
    BY <2>1, HandlerJoined
  <2>3. \A s : Answers(s, p, Y, {}) => Answers(If(Realm, s), p, Y, {})
    BY HandlerRealm
  <2>4. /\ Answers(If(Realm, May \o Deliver("refused")), p, Y, {})
        /\ Answers(If(Realm, Deliver("refused")), p, Y, {})
    BY <2>1, <2>2, <2>3
  <2> QED
    BY <2>1, <2>4, HandlerJoined
       DEF TryAuth, UpnpTryAuth, ezcfg_http_reset_attributes, ezcfg_http_add_header
<1>4. \A s : Answers(s, p, X, {}) => Answers(s, p, X, K)
  <2>1. {} \subseteq K
    OBVIOUS
  <2> QED
    BY <2>1, HandlerWeakened
<1>5. "msg" \in X => Answers(SoapRefusal, p, X, K)
  BY <1>3, <1>4 DEF SoapRefusal, ezcfg_http_reset_attributes
<1>6. \A s : Answers(s, p, X \union {"msg"}, {}) => Answers(Void(s, Free("msg")), p, X, K)
  BY <1>0, <1>4, HandlerVoids
<1>7. "msg" \in X \union {"msg"}
  OBVIOUS
<1>8. /\ Answers(send_http_bad_request, p, X, K) /\ Answers(upnp_send_http_bad_request, p, X, K)
      /\ Answers(handle_auth_request, p, X, K) /\ Answers(upnp_handle_auth_request, p, X, K)
  BY <1>3, <1>6, <1>7 DEF send_http_bad_request, upnp_send_http_bad_request,
                          handle_auth_request, upnp_handle_auth_request, ezcfg_http_reset_attributes
<1>9. "msg" \in X /\ (p \in Asked => "good" \in K) => Answers(Deliver("done"), p, X, K)
  BY <1>2
<1>10. /\ Answers(ezcfg_worker_printf("refused"), p, X, K)
       /\ Answers(ezcfg_agent_worker_printf("refused"), p, X, K)
       /\ (p \in Asked => "good" \in K) => Answers(ezcfg_worker_printf("done"), p, X, K)
  BY <1>1 DEF ezcfg_worker_printf, ezcfg_agent_worker_printf
<1> QED
  BY <1>5, <1>8, <1>9, <1>10

(* The authorised part of a request begins with a request line that lives. *)
LEMMA HandlerAuthorized ==
  ASSUME NEW p \in Protocols, NEW X, "auth" \in X, NEW s, Answers(s, p, X, {"live"})
  PROVE  /\ Answers(Authorized(is_authorized, handle_auth_request, s), p, X, {"uri", "mute"})
         /\ Answers(Authorized(upnp_is_authorized, upnp_handle_auth_request, s), p, X, {"uri", "mute"})
<1> DEFINE B(K) == Before(p, X, {}, K)
           E == Leave(p, X)
<1>1. ASSUME NEW check, NEW auth, Tries(check, p, X, {"mute"}, {"checked"}), Answers(auth, p, X, {})
      PROVE  Answers(Authorized(check, auth, s), p, X, {"uri", "mute"})
  <2> DEFINE n == <<[NeedRet[1] EXCEPT !.skip = 2]>>
             g == Goto(Len(auth) + 2)
             r == check \o n \o g \o auth \o Return
  <2>1. Tries(OrElse(NeedRet, auth), p, X, {"checked"}, {"live"})
    BY <1>1, HandlerOrElse
  <2>2. Tries(check \o OrElse(NeedRet, auth), p, X, {"mute"}, {"live"})
    BY <1>1, <2>1, HandlerJoined
  <2>3. check \o OrElse(NeedRet, auth) = r
    <3>1. check \in Seq(Commands) /\ auth \in Seq(Commands)
      BY <1>1 DEF Tries, Answers, Does
    <3>2. NeedRet[1] \in Commands /\ Return \in Seq(Commands)
      <4>1. "needret" \in Ops /\ "return" \in Ops /\ "" \in Words
        BY Known
      <4>2. Cmd("needret", "", "", "") \in Commands /\ Cmd("return", "", "", "") \in Commands
        BY <4>1, CommandIs
      <4>3. \A c \in Commands : <<c>> \in Seq(Commands)
        OBVIOUS
      <4>4. NeedRet[1] \in Commands
        BY <4>2, Conditions
      <4> QED
        BY <4>2, <4>3, <4>4 DEF Return
    <3>3. n \in Seq(Commands) /\ g \in Seq(Commands)
      <4>1. [NeedRet[1] EXCEPT !.skip = 2] \in Commands
        BY <3>2 DEF Commands
      <4>2. Cmd("jump", "", "", "") \in Commands /\ Len(auth) + 2 \in Nat
        <5>1. "jump" \in Ops /\ "" \in Words
          BY Known
        <5>2. Cmd("jump", "", "", "") \in Commands
          BY <5>1, CommandIs
        <5>3. PICK k \in Nat : k = Len(auth)
          BY <3>1
        <5>4. Len(auth) + 2 \in Nat
          BY <5>3
        <5> QED
          BY <5>2, <5>4
      <4>3. [Cmd("jump", "", "", "") EXCEPT !.skip = Len(auth) + 2] \in Commands
        BY <4>2 DEF Commands
      <4>4. \A c \in Commands : <<c>> \in Seq(Commands)
        OBVIOUS
      <4>5. n \in Seq(Commands)
        BY <4>1, <4>4
      <4>6. g \in Seq(Commands)
        BY <4>3, <4>4 DEF Goto
      <4> QED
        BY <4>5, <4>6
    <3>5. OrElse(NeedRet, auth) = n \o g \o auth \o Return
      BY DEF OrElse
    <3> HIDE DEF n, g
    <3>6. n \o g \in Seq(Commands) /\ n \o g \o auth \in Seq(Commands)
      BY <3>1, <3>3, ConcatProperties
    <3>7. check \o ((n \o g \o auth) \o Return) = (check \o (n \o g \o auth)) \o Return
      <4>1. PICK h, w : h = n \o g \o auth /\ w = Return
        OBVIOUS
      <4>2. h \in Seq(Commands) /\ w \in Seq(Commands)
        BY <3>2, <3>6, <4>1
      <4>3. (check \o h) \o w = check \o (h \o w)
        BY <3>1, <4>2, Regrouped
      <4> QED
        BY <4>1, <4>3
    <3>8. check \o ((n \o g) \o auth) = (check \o (n \o g)) \o auth
      BY <3>1, <3>6, Regrouped
    <3>9. check \o (n \o g) = (check \o n) \o g
      BY <3>1, <3>3, Regrouped
    <3> QED
      BY <3>5, <3>7, <3>8, <3>9
  <2>4. Authorized(check, auth, s) = SetRet("false") \o If(Test, r) \o s
    BY DEF Authorized
  <2> HIDE DEF r, B, E
  <2>5. Does(B({"uri", "mute"}), If(Test, r), B({"live"}), E)
    <3>1. B({"uri", "mute"}) \in Assertions
      BY BeforeStable DEF B
    <3>2. Does(B({"mute"}), r, B({"live"}), E)
      BY <2>2, <2>3 DEF Tries, B, E
    <3>3. B({"uri", "mute"}) \subseteq B({"mute"}) /\ B({"uri", "mute"}) \subseteq B({"live"})
      BY DEF B, Before, Fact, Lively
    <3>4. Leads(Test[1], B({"uri", "mute"}), B({"uri", "mute"}), B({"uri", "mute"}))
      BY TestLeads, Conditions
    <3>5. B({"uri", "mute"}) \subseteq B({"uri", "mute"})
      OBVIOUS
    <3>6. Leads(Test[1], B({"uri", "mute"}), B({"mute"}), B({"live"}))
      BY <3>3, <3>4, <3>5, LeadsMore
    <3>7. Condition(Test)
      BY Conditions
    <3> QED
      BY <3>1, <3>2, <3>6, <3>7, Branch
  <2>6. Does(B({"uri", "mute"}), SetRet("false"), B({"uri", "mute"}), E)
    <3> DEFINE P == B({"uri", "mute"})
               P1 == B({"uri", "mute"} \union {"checked"})
    <3>1. "setret" \in Ops /\ "false" \in Words /\ P \in Assertions
      BY BeforeStable, Known DEF B
    <3>2. Leads(Cmd("setret", "false", "", ""), P, P1, {})
      BY RetLeads DEF B
    <3>3. P1 \subseteq P
      BY DEF B, Before
    <3>4. P \subseteq P
      OBVIOUS
    <3> HIDE DEF P, P1
    <3>5. Leads(Cmd("setret", "false", "", ""), P, P, {})
      BY <3>2, <3>3, <3>4, LeadsMore
    <3>6. Does(P, SetRet("false"), P, E)
      BY <3>1, <3>5, Sure DEF SetRet
    <3> QED
      BY <3>6 DEF P
  <2>7. Does(B({"uri", "mute"}), SetRet("false") \o If(Test, r), B({"live"}), E)
    BY <2>5, <2>6, Joined
  <2>8. Does(B({"live"}), s, After(p, X, {}), E)
    BY DEF Answers, B, E
  <2>9. Does(B({"uri", "mute"}), SetRet("false") \o If(Test, r) \o s, After(p, X, {}), E)
    BY <2>7, <2>8, Joined
  <2> QED
    BY <2>4, <2>9 DEF Answers, B, E
<1>2. /\ Tries(is_authorized, p, X, {"mute"}, {"checked"})
      /\ Tries(upnp_is_authorized, p, X, {"mute"}, {"checked"})
      /\ Answers(handle_auth_request, p, X, {}) /\ Answers(upnp_handle_auth_request, p, X, {})
  BY AuthorizedTries, Refusals
<1> QED
  BY <1>1, <1>2

-----------------------------------------------------------------------------
(* The handlers of http *)

(* A websocket request.                                                    *)
LEMMA WebsocketAnswers ==
  ASSUME NEW p \in Protocols \ Asked, NEW X, NEW K
  PROVE  Answers(handle_websocket_request, p, X, K)
<1> DEFINE Y == ((X \union {"ws"}) \union {"hws"}) \union {"msg"}
           T(s) == Tries(s, p, Y, K, K)
<1>1. {"ws", "hws", "msg"} \subseteq Words \ {"auth"} /\ {"ws", "hws", "msg"} \subseteq Y
  BY Known
<1>2. \A s, t : T(s) /\ T(t) => T(s \o t)
  BY HandlerJoined
<1>3. /\ Answers(send_http_error, p, Y, K) /\ Answers(send_http_bad_request, p, Y, K)
      /\ Answers(Deliver("done"), p, Y, K)
  BY <1>1, Refusals DEF send_http_error
<1>4. /\ T(OrElse(Alloc("ws"), send_http_error)) /\ T(OrElse(Alloc("hws"), send_http_error))
      /\ T(OrElse(Test, send_http_bad_request))
  BY <1>1, <1>3, HandlerOrElse
<1>5. T(Headers(4))
  BY HandlerCommands
<1> DEFINE s == OrElse(Alloc("ws"), send_http_error) \o OrElse(Alloc("hws"), send_http_error)
                \o OrElse(Test, send_http_bad_request) \o Headers(4)
<1>6. T(s)
  <2> HIDE DEF T, Y
  <2> QED
    BY <1>2, <1>4, <1>5
<1> HIDE DEF s
<1>7. Answers(s \o Deliver("done"), p, Y, K)
  BY <1>3, <1>6, HandlerJoined
<1>8. Answers(Void(s \o Deliver("done"), Free("msg") \o Free("hws") \o Free("ws")), p, X, K)
  BY <1>1, <1>7, HandlerVoids
<1> QED
  BY <1>8 DEF handle_websocket_request, s

(* A file.                                                                 *)
LEMMA SsiAnswers ==
  ASSUME NEW p \in Protocols \ Asked, NEW X
  PROVE  Answers(handle_ssi_request, p, X, {"live"})
<1> DEFINE K == {"live"}
           Y == (X \union {"ssi"}) \union {"msg"}
           T(s) == Tries(s, p, Y, K, K)
<1>1. {"ssi", "msg"} \subseteq Words \ {"auth"} /\ {"ssi", "msg"} \subseteq Y
  BY Known
<1>2. \A s, t : T(s) /\ T(t) => T(s \o t)
  BY HandlerJoined
<1>3. /\ Answers(send_http_error, p, Y, K) /\ Answers(send_http_bad_request, p, Y, K)
      /\ Answers(Deliver("done"), p, Y, K)
  BY <1>1, Refusals DEF send_http_error
<1>4. /\ T(OrElse(Alloc("ssi"), send_http_error)) /\ T(OrElse(May, send_http_error))
      /\ T(OrElse(Test, send_http_error)) /\ T(OrElse(Test, send_http_bad_request))
  BY <1>1, <1>3, HandlerOrElse
<1>5. T(Headers(4)) /\ T(Use("uri"))
  BY HandlerCommands
<1>6. T(If(Test, OrElse(Test, send_http_error)))
  BY <1>4, HandlerIf
<1> DEFINE s == OrElse(Alloc("ssi"), send_http_error) \o SsiPath
                \o OrElse(Test, send_http_error) \o OrElse(Test, send_http_bad_request) \o Headers(4)
<1>7. T(s)
  <2> HIDE DEF T, Y, K
  <2>1. T(SsiPath)
    BY <1>2, <1>4, <1>5, <1>6 DEF SsiPath
  <2> QED
    BY <2>1, <1>2, <1>4, <1>5
<1> HIDE DEF s
<1>8. Answers(s \o Deliver("done"), p, Y, K)
  BY <1>3, <1>7, HandlerJoined
<1>9. Answers(Void(s \o Deliver("done"), Free("msg") \o Free("ssi")), p, X, K)
  BY <1>1, <1>8, HandlerVoids
<1> QED
  BY <1>9 DEF handle_ssi_request, s

(* The settings.                                                           *)
LEMMA NvramAnswers ==
  ASSUME NEW p \in Protocols \ Asked, NEW X
  PROVE  Answers(handle_nvram_request, p, X, {"live"})
<1> DEFINE K == {"live"}
           Y == (X \union {"hn"}) \union {"msg"}
           T(s) == Tries(s, p, Y, K, K)
<1>1. {"hn", "msg"} \subseteq Words \ {"auth"} /\ {"hn", "msg"} \subseteq Y
  BY Known
<1>2. \A s, t : T(s) /\ T(t) => T(s \o t)
  BY HandlerJoined
<1>3. /\ Answers(send_http_error, p, Y, K) /\ Answers(send_http_bad_request, p, Y, K)
      /\ Answers(Deliver("done"), p, Y, K)
  BY <1>1, Refusals DEF send_http_error
<1>4. /\ T(OrElse(Alloc("hn"), send_http_error)) /\ T(OrElse(May, send_http_error))
      /\ T(OrElse(Test, send_http_error)) /\ T(OrElse(Test, send_http_bad_request))
  BY <1>1, <1>3, HandlerOrElse
<1>5. T(Use("uri"))
  BY HandlerCommands
<1> DEFINE s == Use("uri") \o OrElse(Alloc("hn"), send_http_error)
                \o OrElse(Test, send_http_error) \o OrElse(May, send_http_error)
                \o OrElse(Test, send_http_error) \o OrElse(May, send_http_error)
                \o OrElse(Test, send_http_bad_request)
<1>7. T(s)
  <2> HIDE DEF T, Y, K
  <2> QED
    BY <1>2, <1>4, <1>5
<1> HIDE DEF s
<1>8. Answers(s \o Deliver("done"), p, Y, K)
  BY <1>3, <1>7, HandlerJoined
<1>9. Answers(Void(s \o Deliver("done"), Free("msg") \o Free("hn")), p, X, K)
  BY <1>1, <1>8, HandlerVoids
<1> QED
  BY <1>9 DEF handle_nvram_request, s

(* The administration pages.                                               *)
LEMMA PagesAnswer ==
  ASSUME NEW p \in Protocols \ Asked, NEW X, NEW K
  PROVE  /\ Answers(handle_apply_request, p, X, K)
         /\ Answers(handle_admin_request, p, X, K)
         /\ Answers(handle_index_request, p, X, K)
<1> DEFINE Y == X \union {"msg"}
<1>1. "msg" \in Words \ {"auth"} /\ "msg" \in Y
  BY Known
<1>2. Answers(send_http_bad_request, p, Y, K) /\ Answers(Deliver("done"), p, Y, K)
  BY <1>1, Refusals
<1>3. Tries(OrElse(Test, send_http_bad_request), p, Y, K, K)
  BY <1>2, HandlerOrElse
<1>4. Answers(OrElse(Test, send_http_bad_request) \o Deliver("done"), p, Y, K)
  BY <1>2, <1>3, HandlerJoined
<1>5. Answers(Void(OrElse(Test, send_http_bad_request) \o Deliver("done"), Free("msg")), p, X, K)
  BY <1>1, <1>4, HandlerVoids
<1> QED
  BY <1>5 DEF handle_apply_request, handle_admin_request, handle_index_request

(* Every request with a request line.                                      *)
LEMMA HttpAnswers ==
  ASSUME NEW p \in Protocols \ Asked, NEW X, "auth" \in X
  PROVE  Answers(handle_http_request, p, X, {"mute"})
<1> DEFINE K == {"live"}
           U == {"uri", "mute"}
           r == IfElse(Test, handle_websocket_request,
                  Use("uri")
                  \o IfElse(Test, handle_ssi_request,
                       IfElse(Test, handle_nvram_request,
                         IfElse(Test, handle_apply_request,
                           IfElse(Test, handle_admin_request, handle_index_request)))))
<1>1. Answers(r, p, X, K)
  <2>1. Answers(IfElse(Test, handle_admin_request, handle_index_request), p, X, K)
    BY PagesAnswer, HandlerIf
  <2>2. Answers(handle_apply_request, p, X, K)
    BY PagesAnswer
  <2> DEFINE a == IfElse(Test, handle_admin_request, handle_index_request)
  <2> HIDE DEF a
  <2>3. Answers(IfElse(Test, handle_apply_request, a), p, X, K)
    BY <2>1, <2>2, HandlerIf DEF a
  <2> DEFINE b == IfElse(Test, handle_apply_request, a)
  <2> HIDE DEF b
  <2>4. Answers(IfElse(Test, handle_nvram_request, b), p, X, K)
    BY <2>3, NvramAnswers, HandlerIf DEF b
  <2> DEFINE c == IfElse(Test, handle_nvram_request, b)
  <2> HIDE DEF c
  <2>5. Answers(IfElse(Test, handle_ssi_request, c), p, X, K)
    BY <2>4, SsiAnswers, HandlerIf DEF c
  <2> DEFINE d == IfElse(Test, handle_ssi_request, c)
  <2>6. Tries(Use("uri"), p, X, K, K)
    BY HandlerCommands
  <2> HIDE DEF d
  <2>7. Answers(Use("uri") \o d, p, X, K)
    BY <2>5, <2>6, HandlerJoined DEF d
  <2>8. Answers(IfElse(Test, handle_websocket_request, Use("uri") \o d), p, X, K)
    BY <2>7, WebsocketAnswers, HandlerIf
  <2> QED
    BY <2>8 DEF a, b, c, d
<1> HIDE DEF r
<1>2. Answers(Authorized(is_authorized, handle_auth_request, r), p, X, U)
  BY <1>1, HandlerAuthorized
<1>3. Tries(OrElse(Have("uri"), send_http_bad_request), p, X, {"mute"}, U)
  <2>1. {"mute"} \union {"uri"} = U
    OBVIOUS
  <2>2. Answers(send_http_bad_request, p, X, {"mute"})
    BY Refusals
  <2>3. Tries(OrElse(Have("uri"), send_http_bad_request), p, X, {"mute"}, {"mute"} \union {"uri"})
    BY <2>2, HandlerOrElse
  <2> QED
    BY <2>1, <2>3
<1>4. Tries(Use("uri"), p, X, U, U)
  BY HandlerCommands
<1>5. Tries(OrElse(Have("uri"), send_http_bad_request) \o Use("uri"), p, X, {"mute"}, U)
  BY <1>3, <1>4, HandlerJoined
<1>6. Answers(OrElse(Have("uri"), send_http_bad_request) \o Use("uri")
              \o Authorized(is_authorized, handle_auth_request, r), p, X, {"mute"})
  BY <1>2, <1>5, HandlerJoined
<1>7. Answers(Void(OrElse(Have("uri"), send_http_bad_request) \o Use("uri")
                   \o Authorized(is_authorized, handle_auth_request, r), <<>>), p, X, {"mute"})
  BY <1>6, HandlerVoids
<1> QED
  BY <1>7 DEF handle_http_request, r

-----------------------------------------------------------------------------
(* The other handlers *)

(* Upnp over http.                                                         *)
LEMMA UpnpSsiAnswers ==
  ASSUME NEW p \in Protocols \ Asked, NEW X
  PROVE  Answers(upnp_handle_ssi_request, p, X, {"live"})
<1> DEFINE K == {"live"}
           Y == ((X \union {"ssi"}) \union {"msg"}) \union {"language"}
           T(s) == Tries(s, p, Y, K, K)
<1>1. {"ssi", "msg", "language"} \subseteq Words \ {"auth"} /\ {"ssi", "msg", "language"} \subseteq Y
  BY Known
<1>2. \A s, t : T(s) /\ T(t) => T(s \o t)
  BY HandlerJoined
<1>3. /\ Answers(upnp_send_http_error, p, Y, K) /\ Answers(upnp_send_http_bad_request, p, Y, K)
      /\ Answers(Deliver("done"), p, Y, K)
  BY <1>1, Refusals DEF upnp_send_http_error
<1>4. /\ T(OrElse(Alloc("ssi"), upnp_send_http_error)) /\ T(OrElse(May, upnp_send_http_error))
      /\ T(OrElse(Test, upnp_send_http_error)) /\ T(OrElse(Test, upnp_send_http_bad_request))
  BY <1>1, <1>3, HandlerOrElse
<1>5. /\ T(Headers(1)) /\ T(Headers(2)) /\ T(Use("uri")) /\ T(May)
      /\ T(Alloc("msg")) /\ T(Alloc("language")) /\ T(Free("msg"))
  BY <1>1, HandlerCommands
<1>6. T(If(Test, Alloc("language"))) /\ T(Loop(Alloc("msg"))) /\ T(If(Test, May))
  BY <1>5, HandlerIf
<1> DEFINE a == If(Test, Alloc("language"))
                \o OrElse(Alloc("ssi"), upnp_send_http_error)
                \o Use("uri") \o OrElse(May, upnp_send_http_error)
                \o OrElse(Test, upnp_send_http_error)
                \o OrElse(May, upnp_send_http_error) \o OrElse(Test, upnp_send_http_error)
                \o OrElse(Test, upnp_send_http_bad_request)
           s == a \o UpnpSsiBody \o UpnpSsiHeaders
<1>7. T(s)
  <2> HIDE DEF T, Y, K
  <2>1. T(a)
    BY <1>2, <1>4, <1>5, <1>6
  <2> HIDE DEF a
  <2>2. T(UpnpSsiBody)
    BY <1>2, <1>5, <1>6 DEF UpnpSsiBody
  <2>3. T(UpnpSsiHeaders)
    BY <1>2, <1>5, <1>6 DEF UpnpSsiHeaders, ezcfg_http_add_header
  <2> QED
    BY <2>1, <2>2, <2>3, <1>2
<1> HIDE DEF s
<1>8. Answers(s \o Deliver("done"), p, Y, K)
  BY <1>3, <1>7, HandlerJoined
<1>9. Answers(Void(s \o Deliver("done"), Free("language") \o Free("msg") \o Free("ssi")), p, X, K)
  BY <1>1, <1>8, HandlerVoids
<1> QED
  BY <1>9 DEF upnp_handle_ssi_request, s

(* Upnp requests with a request line.                                      *)
LEMMA UpnpHttpAnswers ==
  ASSUME NEW p \in Protocols \ Asked, NEW X, "auth" \in X
  PROVE  Answers(handle_upnp_http_request, p, X, {"mute"})
<1> DEFINE U == {"uri", "mute"}
           r == Authorized(upnp_is_authorized, upnp_handle_auth_request, upnp_handle_ssi_request)
<1>2. Answers(r, p, X, U)
  BY UpnpSsiAnswers, HandlerAuthorized
<1> HIDE DEF r
<1>3. Tries(OrElse(Have("uri"), upnp_send_http_bad_request), p, X, {"mute"}, U)
  <2>1. {"mute"} \union {"uri"} = U
    OBVIOUS
  <2>2. Answers(upnp_send_http_bad_request, p, X, {"mute"})
    BY Refusals
  <2>3. Tries(OrElse(Have("uri"), upnp_send_http_bad_request), p, X, {"mute"}, {"mute"} \union {"uri"})
    BY <2>2, HandlerOrElse
  <2> QED
    BY <2>1, <2>3
<1>4. Tries(Use("uri"), p, X, U, U)
  BY HandlerCommands
<1>5. Tries(OrElse(Have("uri"), upnp_send_http_bad_request) \o Use("uri"), p, X, {"mute"}, U)
  BY <1>3, <1>4, HandlerJoined
<1>6. Answers(OrElse(Have("uri"), upnp_send_http_bad_request) \o Use("uri") \o r, p, X, {"mute"})
  BY <1>2, <1>5, HandlerJoined
<1>7. Answers(Void(OrElse(Have("uri"), upnp_send_http_bad_request) \o Use("uri") \o r, <<>>), p, X, {"mute"})
  BY <1>6, HandlerVoids
<1> QED
  BY <1>7 DEF handle_upnp_http_request, r

(* What a client asked for is done before the answer says so.              *)
LEMMA ServedAnswers ==
  ASSUME NEW p \in Protocols, NEW X, NEW e, Answers(e, p, X, {}), NEW K
  PROVE  /\ "msg" \in X => Answers(Serve \o OrElse(NeedRet, e) \o Deliver("done"), p, X, K)
         /\ Answers(Serve \o OrElse(NeedRet, e) \o ezcfg_worker_printf("done"), p, X, K)
<1>1. Tries(Serve, p, X, K, {"earned"})
  BY HandlerCommands
<1>2. Tries(OrElse(NeedRet, e), p, X, {"earned"}, {"good"})
  BY HandlerOrElse
<1>3. Tries(Serve \o OrElse(NeedRet, e), p, X, K, {"good"})
  BY <1>1, <1>2, HandlerJoined
<1>4. /\ "msg" \in X => Answers(Deliver("done"), p, X, {"good"})
      /\ Answers(ezcfg_worker_printf("done"), p, X, {"good"})
  BY Refusals
<1> QED
  BY <1>3, <1>4, HandlerJoined

(* Soap, igrs and json: the request line, then the handler.                *)
LEMMA MessagesAnswer ==
  ASSUME NEW p \in Protocols, NEW X
  PROVE  /\ p \in {"soap_http", "agent_soap_http"} =>
              /\ Answers(handle_soap_http_request, p, X, {"fresh"})
              /\ Answers(agent_handle_soap_http_request, p, X, {"fresh"})
         /\ p \notin Asked => Answers(handle_igrs_request, p, X, {})
         /\ Answers(handle_json_http_request, p, X, {})
         /\ Answers(handle_nv_json_http_request, p, X, {})
<1> DEFINE Y == X \union {"msg"}
           h == OrElse(Have("uri"), SoapRefusal) \o Use("uri")
           q == OrElse(Test, SoapRefusal)
           d == Serve \o OrElse(NeedRet, SoapRefusal) \o Deliver("done")
<1>1. "msg" \in Words \ {"auth"} /\ "msg" \in Y
  BY Known
<1>2. \A K : Answers(SoapRefusal, p, Y, K) /\ (p \notin Asked => Answers(Deliver("done"), p, Y, K))
  BY <1>1, Refusals
<1>3. \A K : Answers(d, p, Y, K)
  BY <1>1, <1>2, ServedAnswers
<1>4. ASSUME NEW K
      PROVE  Tries(h, p, Y, K, K \union {"uri"})
  <2>1. Tries(OrElse(Have("uri"), SoapRefusal), p, Y, K, K \union {"uri"})
    BY <1>2, HandlerOrElse
  <2>2. Tries(Use("uri"), p, Y, K \union {"uri"}, K \union {"uri"})
    BY HandlerCommands
  <2> QED
    BY <2>1, <2>2, HandlerJoined
<1>5. \A K : Tries(q, p, Y, K, K)
  BY <1>2, HandlerOrElse
<1>v. \A s, K : Answers(s, p, Y, K) => Answers(Void(s, Free("msg")), p, X, K)
  BY <1>1, HandlerVoids
<1>6. ASSUME p \in {"soap_http", "agent_soap_http"}
      PROVE  Answers(Void(h \o If(Test, d), Free("msg")), p, X, {"fresh"})
  <2> DEFINE K == {"fresh"} \union {"uri"}
  <2> HIDE DEF h, d, Y
  <2>1. Answers(If(Test, d), p, Y, K)
    BY <1>3, <1>6, HandlerIf
  <2>2. Tries(h, p, Y, {"fresh"}, K)
    BY <1>4
  <2>3. Answers(h \o If(Test, d), p, Y, {"fresh"})
    BY <2>1, <2>2, HandlerJoined
  <2> QED
    BY <2>3, <1>v
<1>7. Tries(h \o q, p, Y, {}, {} \union {"uri"})
  <2> HIDE DEF h, q, Y
  <2>1. Tries(h, p, Y, {}, {} \union {"uri"}) /\ Tries(q, p, Y, {} \union {"uri"}, {} \union {"uri"})
    BY <1>4, <1>5
  <2> QED
    BY <2>1, HandlerJoined
<1>8. ASSUME p \notin Asked
      PROVE  Answers(handle_igrs_request, p, X, {})
  <2>1. Answers(Deliver("done"), p, Y, {} \union {"uri"})
    BY <1>2, <1>8
  <2>2. Answers(h \o q \o Deliver("done"), p, Y, {})
    BY <1>7, <2>1, HandlerJoined
  <2> QED
    BY <2>2, <1>v DEF handle_igrs_request
<1>9. /\ Answers(handle_json_http_request, p, X, {})
      /\ Answers(handle_nv_json_http_request, p, X, {})
  <2> DEFINE g == Serve \o OrElse(NeedRet, SoapRefusal)
             D == {} \union {"uri"}
  <2>1. Tries(Serve, p, Y, D, {"earned"})
    BY HandlerCommands
  <2>2. Tries(OrElse(NeedRet, SoapRefusal), p, Y, {"earned"}, {"good"})
    BY <1>2, HandlerOrElse
  <2>3. Answers(Deliver("done"), p, Y, {"good"})
    BY <1>1, Refusals
  <2> HIDE DEF h, q, Y, D
  <2>4. Tries(h \o q, p, Y, {}, D)
    BY <1>7 DEF D
  <2>5. Tries(h \o q \o Serve, p, Y, {}, {"earned"})
    BY <2>1, <2>4, HandlerJoined
  <2>6. Tries(h \o q \o Serve \o OrElse(NeedRet, SoapRefusal), p, Y, {}, {"good"})
    BY <2>2, <2>5, HandlerJoined
  <2>7. Answers(h \o q \o Serve \o OrElse(NeedRet, SoapRefusal) \o Deliver("done"), p, Y, {})
    BY <2>3, <2>6, HandlerJoined
  <2>8. Answers(Void(h \o q \o Serve \o OrElse(NeedRet, SoapRefusal) \o Deliver("done"), Free("msg")), p, X, {})
    BY <2>7, <1>v
  <2> QED
    BY <2>8 DEF handle_json_http_request, handle_nv_json_http_request, h, q
<1> QED
  BY <1>6, <1>8, <1>9 DEF handle_soap_http_request, agent_handle_soap_http_request

(* Reading a request.                                                      *)
LEMMA RequestEnds ==
  ASSUME NEW p \in Protocols, NEW X, "uri" \in X, NEW K, NEW error, NEW handle,
         Answers(error, p, X \union {"buf"}, K), Answers(handle, p, X \union {"buf"}, K)
  PROVE  Ends(Request(error, handle), p, X, K)
<1> DEFINE Y == X \union {"buf"}
           T(s) == Tries(s, p, Y, K, K)
<1>1. "buf" \in Words \ {"auth"} /\ "uri" \in Words /\ "uri" \in Y /\ "buf" \in Y
  BY Known
<1>2. \A s, t : T(s) /\ T(t) => T(s \o t)
  BY HandlerJoined
<1>3. T(Alloc("buf")) /\ T(May)
  BY <1>1, HandlerCommands
<1>4. T(OrElse(Test, error)) /\ T(OrElse(Alloc("uri"), error)) /\ T(OrElse(May, error))
  BY <1>1, HandlerOrElse
<1> DEFINE s == Alloc("buf") \o May \o OrElse(Test, error) \o OrElse(Alloc("uri"), error)
                \o OrElse(Test, error) \o OrElse(May, error)
<1>5. T(s)
  <2> HIDE DEF T, Y
  <2> QED
    BY <1>2, <1>3, <1>4
<1> HIDE DEF s
<1>6. Answers(s \o handle, p, Y, K)
  BY <1>5, HandlerJoined
<1>7. Ends(Void(s \o handle, Free("buf")), p, X, K)
  BY <1>1, <1>6, HandlerEnds
<1> QED
  BY <1>7 DEF Request, s

(* One line in, one line out.                                              *)
LEMMA CtrlEnds ==
  ASSUME NEW p \in Protocols, NEW X, NEW K
  PROVE  Ends(ezcfg_worker_process_ctrl_new_connection, p, X, K)
<1> DEFINE e == OrElse(May, send_ctrl_error)
<1>1. Answers(send_ctrl_error, p, X, K) /\ Answers(send_ctrl_error, p, X, {})
  BY Refusals DEF send_ctrl_error
<1>2. Tries(e, p, X, K, K)
  BY <1>1, HandlerOrElse
<1>3. Tries(Serve, p, X, K, {"earned"})
  BY HandlerCommands
<1>4. Tries(OrElse(NeedRet, send_ctrl_error), p, X, {"earned"}, {"good"})
  BY <1>1, HandlerOrElse
<1>5. Answers(ezcfg_worker_printf("done"), p, X, {"good"})
  BY Refusals
<1> HIDE DEF e
<1>6. Tries(e \o e, p, X, K, K)
  BY <1>2, HandlerJoined
<1>7. Tries(e \o e \o Serve, p, X, K, {"earned"})
  BY <1>3, <1>6, HandlerJoined
<1>8. Tries(e \o e \o Serve \o OrElse(NeedRet, send_ctrl_error), p, X, K, {"good"})
  BY <1>4, <1>7, HandlerJoined
<1>9. Answers(e \o e \o Serve \o OrElse(NeedRet, send_ctrl_error) \o ezcfg_worker_printf("done"), p, X, K)
  BY <1>5, <1>8, HandlerJoined
<1>10. Ends(Void(e \o e \o Serve \o OrElse(NeedRet, send_ctrl_error) \o ezcfg_worker_printf("done"), <<>>),
            p, X, K)
  BY <1>9, HandlerEnds
<1> QED
  BY <1>10 DEF ezcfg_worker_process_ctrl_new_connection, e

(* A search is answered with the mutex of the upnp list taken.             *)
LEMMA SsdpEnds ==
  ASSUME NEW p \in Protocols, p = "upnp_ssdp", NEW X, NEW K
  PROVE  Ends(ezcfg_worker_process_upnp_ssdp_new_connection, p, X, K)
<1> DEFINE E == Leave(p, X)
           B == Before(p, X, {}, K)
           L == Before(p, X, {"upnp"}, K)
           M == After(p, X, {"upnp"})
           A == After(p, X, {})
<1>1. B \in Assertions /\ L \in Assertions /\ M \in Assertions /\ A \in Assertions
  BY BeforeStable, AfterStable
<1>2. p \notin Asked
  BY DEF Asked
<1>3. /\ "lock" \in Ops /\ "unlock" \in Ops /\ "answer" \in Ops
      /\ "upnp" \in Words /\ "done" \in Words
  BY Known
<1>4. /\ Leads(Cmd("lock", "upnp", "", ""), B, L, {})
      /\ Leads(Cmd("unlock", "upnp", "", ""), M, A, {})
  <2>1. "upnp" \in Locks /\ "upnp" \notin {} /\ {} \union {"upnp"} = {"upnp"}
    BY DEF Locks
  <2> QED
    BY <2>1, LockLeads
<1>5. Leads(Cmd("answer", "done", "", ""), L, M, {})
  BY <1>2, AnswerLeads
<1>6. L \subseteq M
  BY DEF Before, After, Unanswered
<1>7. Condition(Test) /\ Leads(Test[1], L, L, L)
  BY Conditions, TestLeads
<1> HIDE DEF B, L, M, A, E
<1>8. Does(B, Lock("upnp"), L, E) /\ Does(M, Unlock("upnp"), A, E) /\ Does(L, Answer("done"), M, E)
  <2>1. Does(B, Lock("upnp"), L, E)
    BY <1>1, <1>3, <1>4, Sure DEF Lock
  <2>2. Does(M, Unlock("upnp"), A, E)
    BY <1>1, <1>3, <1>4, Sure DEF Unlock
  <2>3. Does(L, Answer("done"), M, E)
    BY <1>1, <1>3, <1>5, Sure DEF Answer
  <2> QED
    BY <2>1, <2>2, <2>3
<1>9. Leads(Test[1], L, L, M)
  <2>1. L \subseteq L
    OBVIOUS
  <2> QED
    BY <1>6, <1>7, <2>1, LeadsMore
<1>10. Does(L, If(Test, Answer("done")), M, E)
  BY <1>1, <1>7, <1>8, <1>9, Branch
<1>11. Does(B, Lock("upnp") \o If(Test, Answer("done")), M, E)
  BY <1>8, <1>10, Joined
<1> DEFINE s == Lock("upnp") \o If(Test, Answer("done")) \o Unlock("upnp")
<1>12. Answers(s, p, X, K)
  <2>1. Does(B, s, A, E)
    BY <1>8, <1>11, Joined
  <2> QED
    BY <2>1 DEF Answers, B, A, E
<1> HIDE DEF s
<1>13. Answers(If(Test, s), p, X, K)
  BY <1>12, HandlerIf
<1>14. Answers(If(Test, If(Test, s)), p, X, K)
  BY <1>13, HandlerIf
<1>15. Answers(If(Test, If(Test, If(Test, s))), p, X, K)
  BY <1>14, HandlerIf
<1>16. Ends(Void(If(Test, If(Test, If(Test, s))), <<>>), p, X, K)
  BY <1>15, HandlerEnds
<1> QED
  BY <1>16 DEF ezcfg_worker_process_upnp_ssdp_new_connection, s

(* The request line of a request that was read before.                     *)
LEMMA OwnLeads ==
  ASSUME NEW p, NEW X, NEW H, NEW K, "uri" \in X
  PROVE  Leads(Cmd("own", "uri", "", ""), Before(p, X, H, K), Before(p, X, H, K \union {"uri"}), {})
<1> DEFINE c == Cmd("own", "uri", "", "")
           B == Before(p, X, H, K)
<1>1. c.op = "own" /\ c.to = "uri"
  BY DEF Cmd
<1> HIDE DEF c
<1>2. ASSUME NEW v \in B
      PROVE  /\ Fit(c, v) /\ Onwards(c, v) \subseteq Before(p, X, H, K \union {"uri"})
             /\ Skips(c, v) \subseteq {}
  <2> DEFINE w == [v EXCEPT !.own = @ \union ({"uri"} \ {None})]
  <2>0. v \in Views /\ "uri" \in Words
    BY Known DEF Before
  <2>1. Fit(c, v) /\ Onwards(c, v) = {w} /\ Skips(c, v) = {}
    BY <1>1, Means
  <2>2. /\ w \in Views /\ w.own = v.own \union ({"uri"} \ {None}) /\ w.held = v.held /\ w.is = v.is
        /\ w.answers = v.answers /\ w.job = v.job
    BY <2>0, OwnUpdates DEF Views
  <2> HIDE DEF w
  <2>a. v.own \subseteq w.own /\ w.own \subseteq X /\ "uri" \in w.own
    BY <2>2 DEF Before, None
  <2>b. w.answers < Limit(w.own)
    <3>1. v.answers \in Nat /\ v.answers < Limit(v.own)
      BY DEF Before, Views
    <3> QED
      BY <3>1, <2>2, <2>a, LimitGrows
  <2>c. v \in Before(p, X, H, K)
    OBVIOUS
  <2>d. \A k : Fact(k, v) => Fact(k, w)
    BY <2>2, <2>a DEF Fact, Lively
  <2>e. Fact("uri", w)
    BY <2>a DEF Fact
  <2>4. w \in Before(p, X, H, K \union {"uri"})
    BY <2>2, <2>a, <2>b, <2>c, <2>d, <2>e DEF Before
  <2> QED
    BY <2>1, <2>4
<1> QED
  BY <1>2 DEF Leads, c

(* The administration page by itself.                                      *)
LEMMA AdminEnds ==
  ASSUME NEW p \in Protocols \ Asked, NEW X, "auth" \in X, "uri" \in X
  PROVE  Ends(Void(Own("uri") \o Authorized(is_authorized, handle_auth_request, handle_admin_request), <<>>),
              p, X, {"mute", "fresh"})
<1> DEFINE r == Authorized(is_authorized, handle_auth_request, handle_admin_request)
           P == Before(p, X, {}, {"mute", "fresh"})
           R == Before(p, X, {}, {"mute", "fresh"} \union {"uri"})
           Q == Before(p, X, {}, {"uri", "mute"})
           E == Leave(p, X)
<1>1. Answers(r, p, X, {"uri", "mute"})
  BY PagesAnswer, HandlerAuthorized
<1>2. P \in Assertions /\ Q \in Assertions
  BY BeforeStable
<1>3. Leads(Cmd("own", "uri", "", ""), P, R, {})
  BY OwnLeads
<1>4. R \subseteq Q
  BY DEF Before
<1>5. "own" \in Ops /\ "uri" \in Words
  BY Known
<1>6. Does(Q, r, After(p, X, {}), E)
  BY <1>1 DEF Answers
<1> HIDE DEF P, Q, R, r, E
<1>7. Leads(Cmd("own", "uri", "", ""), P, Q, {})
  <2>1. P \subseteq P
    OBVIOUS
  <2> QED
    BY <1>3, <1>4, <2>1, LeadsMore
<1>8. Does(P, Own("uri"), Q, E)
  BY <1>2, <1>5, <1>7, Sure DEF Own
<1>9. Answers(Own("uri") \o r, p, X, {"mute", "fresh"})
  BY <1>6, <1>8, Joined DEF Answers, P, E
<1> QED
  BY <1>9, HandlerEnds DEF r

(* Every connection is processed.                                          *)
LEMMA ProcessEnds ==
  ASSUME NEW p \in Protocols, NEW X, "auth" \in X, "uri" \in X
  PROVE  Ends(process_new_connection(p), p, X, {"mute", "fresh"})
<1> DEFINE K == {"mute", "fresh"}
           Y == X \union {"buf"}
<1>y. "auth" \in Y
  OBVIOUS
<1>1. /\ Answers(send_http_error, p, Y, K) /\ Answers(upnp_send_http_error, p, Y, K)
      /\ Answers(send_soap_http_error, p, Y, K) /\ Answers(agent_send_soap_http_error, p, Y, K)
      /\ Answers(send_igrs_error, p, Y, K) /\ Answers(send_json_http_error, p, Y, K)
      /\ Answers(send_nv_json_http_error, p, Y, K)
  BY Refusals DEF send_http_error, upnp_send_http_error, send_soap_http_error, send_igrs_error,
                  agent_send_soap_http_error, send_json_http_error, send_nv_json_http_error
<1>2. /\ \A s : Answers(s, p, Y, {"mute"}) => Answers(s, p, Y, K)
      /\ \A s : Answers(s, p, Y, {"fresh"}) => Answers(s, p, Y, K)
      /\ \A s : Answers(s, p, Y, {}) => Answers(s, p, Y, K)
  <2>1. {"mute"} \subseteq K /\ {"fresh"} \subseteq K /\ {} \subseteq K
    OBVIOUS
  <2> QED
    BY <2>1, HandlerWeakened
<1>3. /\ p \notin Asked => Answers(handle_http_request, p, Y, K)
      /\ p \notin Asked => Answers(handle_upnp_http_request, p, Y, K)
  BY <1>2, <1>y, HttpAnswers, UpnpHttpAnswers
<1>4. /\ p \in {"soap_http", "agent_soap_http"} =>
           Answers(handle_soap_http_request, p, Y, K) /\ Answers(agent_handle_soap_http_request, p, Y, K)
      /\ p \notin Asked => Answers(handle_igrs_request, p, Y, K)
      /\ Answers(handle_json_http_request, p, Y, K)
      /\ Answers(handle_nv_json_http_request, p, Y, K)
  BY <1>2, MessagesAnswer
<1>5. \A e, h : Answers(e, p, Y, K) /\ Answers(h, p, Y, K) => Ends(Request(e, h), p, X, K)
  BY RequestEnds
<1> HIDE DEF K, Y
<1>6. CASE p \in {"http", "https"}
  <2>1. p \notin Asked /\ process_new_connection(p) = ezcfg_worker_process_http_new_connection
    BY <1>6 DEF process_new_connection, Asked
  <2> QED
    BY <2>1, <1>1, <1>3, <1>5 DEF ezcfg_worker_process_http_new_connection, K
<1>7. CASE p = "upnp_http"
  <2>1. p \notin Asked /\ process_new_connection(p) = ezcfg_worker_process_upnp_http_new_connection
    BY <1>7 DEF process_new_connection, Asked
  <2> QED
    BY <2>1, <1>1, <1>3, <1>5 DEF ezcfg_worker_process_upnp_http_new_connection, K
<1>8. CASE p = "soap_http"
  <2>1. process_new_connection(p) = ezcfg_worker_process_soap_http_new_connection
    BY <1>8 DEF process_new_connection
  <2> QED
    BY <2>1, <1>1, <1>4, <1>5, <1>8 DEF ezcfg_worker_process_soap_http_new_connection, K
<1>9. CASE p = "igrs"
  <2>1. p \notin Asked /\ process_new_connection(p) = ezcfg_worker_process_igrs_new_connection
    BY <1>9 DEF process_new_connection, Asked
  <2> QED
    BY <2>1, <1>1, <1>4, <1>5 DEF ezcfg_worker_process_igrs_new_connection, K
<1>10. CASE p = "ctrl"
  <2>1. process_new_connection(p) = ezcfg_worker_process_ctrl_new_connection
    BY <1>10 DEF process_new_connection
  <2> QED
    BY <2>1, CtrlEnds DEF K
<1>11. CASE p = "upnp_ssdp"
  <2>1. process_new_connection(p) = ezcfg_worker_process_upnp_ssdp_new_connection
    BY <1>11 DEF process_new_connection
  <2> QED
    BY <2>1, <1>11, SsdpEnds DEF K
<1>12. CASE p = "agent_soap_http"
  <2>1. process_new_connection(p) = ezcfg_agent_worker_process_soap_http_new_connection
    BY <1>12 DEF process_new_connection
  <2> QED
    BY <2>1, <1>1, <1>4, <1>5, <1>12 DEF ezcfg_agent_worker_process_soap_http_new_connection, K
<1>13. CASE p = "json_http"
  <2>1. process_new_connection(p) = ezcfg_agent_worker_process_json_http_new_connection
    BY <1>13 DEF process_new_connection
  <2> QED
    BY <2>1, <1>1, <1>4, <1>5 DEF ezcfg_agent_worker_process_json_http_new_connection, K
<1>14. CASE p = "nv_json_http"
  <2>1. process_new_connection(p) = ezcfg_agent_worker_process_nv_json_http_new_connection
    BY <1>14 DEF process_new_connection
  <2> QED
    BY <2>1, <1>1, <1>4, <1>5 DEF ezcfg_agent_worker_process_nv_json_http_new_connection, K
<1>15. CASE p = "admin"
  <2>1. p \notin Asked
        /\ process_new_connection(p)
             = Void(Own("uri") \o Authorized(is_authorized, handle_auth_request, handle_admin_request), <<>>)
    BY <1>15 DEF process_new_connection, Asked
  <2> QED
    BY <2>1, AdminEnds DEF K
<1> QED
  BY <1>6, <1>7, <1>8, <1>9, <1>10, <1>11, <1>12, <1>13, <1>14, <1>15 DEF Protocols

(* What a worker does with a connection, from the first step to the last.  *)
LEMMA RoutineDoes ==
  ASSUME NEW p \in Protocols
  PROVE  Does(Before(p, {"auth", "uri", "proto"}, {}, {"mute", "fresh"}), ezcfg_worker_routine(p),
              After(p, {"auth"}, {}), Nowhere)
<1> DEFINE X == {"auth", "uri", "proto"}
           K == {"mute", "fresh"}
           P == Before(p, X, {}, K)
           A == After(p, X, {})
           E == Nowhere
<1>1. P \in Assertions /\ A \in Assertions
  BY BeforeStable, AfterStable
<1>2. /\ "proto" \in Words /\ "" \in Words /\ "uri" \in Words /\ "close" \in Ops
  BY Known
<1>3. Does(P, process_new_connection(p), A, E)
  BY ProcessEnds DEF Ends
<1>4. Leads(Alloc("proto")[1], P, P, A) /\ Leads(May[1], P, P, A)
  <2>1. Leads(Alloc("proto")[1], P, P, P \intersect A) /\ Leads(May[1], P, P, P \intersect A)
    <3>1. Leads(Cmd("alloc", "proto", "", ""), P, P, P \intersect A)
      BY <1>2, AllocLeads
    <3>2. Leads(Cmd("alloc", "", "", ""), P, P, P \intersect A)
      BY <1>2, AllocLeads
    <3> QED
      BY <3>1, <3>2, <1>2, Conditions
  <2> HIDE DEF P, A
  <2>2. P \subseteq P /\ P \intersect A \subseteq A
    OBVIOUS
  <2> QED
    BY <2>1, <2>2, LeadsMore
<1>5. Condition(Alloc("proto")) /\ Condition(May)
  BY <1>2, Conditions
<1>6. Does(A, Free("proto"), A, E)
  <2>1. X \union {"proto"} = X
    OBVIOUS
  <2>2. Does(After(p, X \union {"proto"}, {}), Free("proto"), After(p, X, {}), E)
    BY <1>2, Freeing
  <2> QED
    BY <2>1, <2>2
<1>7. Does(A, close_connection, A, E)
  <2>1. Leads(Cmd("close", "", "", ""), A, A, {})
    BY ExitLeads
  <2> HIDE DEF A
  <2> QED
    BY <1>1, <1>2, <2>1, Sure DEF close_connection
<1>8. Does(A, Free("uri"), After(p, {"auth", "proto"}, {}), E)
  <2>1. {"auth", "proto"} \union {"uri"} = X
    OBVIOUS
  <2>2. Does(After(p, {"auth", "proto"} \union {"uri"}, {}), Free("uri"), After(p, {"auth", "proto"}, {}), E)
    BY <1>2, Freeing
  <2> QED
    BY <2>1, <2>2
<1>9. Does(After(p, {"auth", "proto"}, {}), Free("proto"), After(p, {"auth"}, {}), E)
  <2>1. {"auth"} \union {"proto"} = {"auth", "proto"}
    OBVIOUS
  <2>2. Does(After(p, {"auth"} \union {"proto"}, {}), Free("proto"), After(p, {"auth"}, {}), E)
    BY <1>2, Freeing
  <2> QED
    BY <2>1, <2>2
<1> HIDE DEF P, A, E, X, K
<1>10. Does(P, IfElse(May, process_new_connection(p), Free("proto")), A, E)
  BY <1>1, <1>3, <1>4, <1>5, <1>6, Branches
<1> DEFINE s == IF p = "https" THEN IfElse(May, process_new_connection(p), Free("proto"))
                ELSE process_new_connection(p)
<1>11. Does(P, s, A, E)
  BY <1>3, <1>10
<1> HIDE DEF s
<1>12. Does(P, If(Alloc("proto"), s), A, E)
  BY <1>1, <1>4, <1>5, <1>11, Branch
<1>13. Does(A, close_connection \o Free("uri"), After(p, {"auth", "proto"}, {}), E)
  BY <1>7, <1>8, Joined
<1>14. Does(A, release_protocol_data, After(p, {"auth"}, {}), E)
  BY <1>9, <1>13, Joined DEF release_protocol_data, ezcfg_http_reset_attributes
<1>15. Does(P, ezcfg_worker_routine(p), After(p, {"auth"}, {}), E)
  BY <1>12, <1>14, Joined DEF ezcfg_worker_routine, init_protocol_data, s
<1> QED
  BY <1>15 DEF P, X, K, E

-----------------------------------------------------------------------------
(* The calls of the API *)

(* In a call; new: it has not connected yet, done: the reply says that     *)
(* what was asked for was done.                                            *)
Calling(p, X, H, K) ==
  {v \in Views : /\ v.job = p /\ v.own \subseteq X /\ v.held = H
                 /\ "new" \in K => "linked" \notin v.is
                 /\ "done" \in K => v.reply = "done"}
(* On the way out: the call reports a failure, or has reason not to.       *)
Over(p, X, H) ==
  {v \in Views : /\ v.job = p /\ v.own \subseteq X /\ v.held = H
                 /\ "failed" \in v.is \/ p \notin Remote \/ v.reply = "done"}

(* Both are stable.                                                        *)
LEMMA CallingStable ==
  /\ \A p, X, H, K : Calling(p, X, H, K) \in Assertions
  /\ \A p, X, H : Over(p, X, H) \in Assertions
<1>1. ASSUME NEW v \in Views, NEW w \in Disturbed(v)
      PROVE  /\ w \in Views /\ w.job = v.job /\ w.own = v.own /\ w.held = v.held
             /\ "failed" \in v.is => "failed" \in w.is
             /\ "linked" \notin v.is => "linked" \notin w.is
             /\ v.reply = "done" => w.reply = "done"
  <2>1. CASE w = v
    BY <2>1
  <2>2. CASE w = [v EXCEPT !.is = @ \union {"good"}]
    <3>1. {"good"} \in SUBSET Flags
      BY DEF Flags
    <3>2. w \in Views
      BY <2>2, <3>1, FlagUpdates
    <3>3. w.job = v.job /\ w.own = v.own /\ w.held = v.held /\ w.is = v.is \union {"good"} /\ w.reply = v.reply
      BY <2>2 DEF Views
    <3> QED
      BY <3>2, <3>3
  <2>3. ASSUME v.reply = None, NEW r \in Replies, w = [v EXCEPT !.reply = r]
        PROVE  /\ w \in Views /\ w.job = v.job /\ w.own = v.own /\ w.held = v.held
               /\ "failed" \in v.is => "failed" \in w.is
               /\ "linked" \notin v.is => "linked" \notin w.is
               /\ v.reply = "done" => w.reply = "done"
    <3>1. w \in Views
      BY <2>3, OtherUpdates
    <3>2. w.job = v.job /\ w.own = v.own /\ w.held = v.held /\ w.is = v.is
      BY <2>3 DEF Views
    <3>3. v.reply # "done"
      BY <2>3 DEF None
    <3> QED
      BY <3>1, <3>2, <3>3
  <2>4. w = v \/ w = [v EXCEPT !.is = @ \union {"good"}]
        \/ (v.reply = None /\ \E r \in Replies : w = [v EXCEPT !.reply = r])
    BY DEF Disturbed
  <2> QED
    BY <2>1, <2>2, <2>3, <2>4
<1>2. ASSUME NEW p, NEW X, NEW H, NEW K PROVE Calling(p, X, H, K) \in Assertions
  <2>1. \A v \in Calling(p, X, H, K) : v \in Views
    BY DEF Calling
  <2>2. ASSUME NEW v \in Calling(p, X, H, K), NEW w \in Disturbed(v)
        PROVE  w \in Calling(p, X, H, K)
    <3>1. /\ w \in Views /\ w.job = v.job /\ w.own = v.own /\ w.held = v.held
          /\ "linked" \notin v.is => "linked" \notin w.is
          /\ v.reply = "done" => w.reply = "done"
      BY <1>1, <2>1
    <3> QED
      BY <3>1 DEF Calling
  <2> QED
    BY <2>1, <2>2 DEF Assertions
<1>3. ASSUME NEW p, NEW X, NEW H PROVE Over(p, X, H) \in Assertions
  <2>1. \A v \in Over(p, X, H) : v \in Views
    BY DEF Over
  <2>2. ASSUME NEW v \in Over(p, X, H), NEW w \in Disturbed(v)
        PROVE  w \in Over(p, X, H)
    <3>1. /\ w \in Views /\ w.job = v.job /\ w.own = v.own /\ w.held = v.held
          /\ "failed" \in v.is => "failed" \in w.is
          /\ v.reply = "done" => w.reply = "done"
      BY <1>1, <2>1
    <3> QED
      BY <3>1 DEF Over
  <2> QED
    BY <2>1, <2>2 DEF Assertions
<1> QED
  BY <1>2, <1>3

(* What the commands of the calls do.                                      *)
LEMMA MeansCall ==
  ASSUME NEW c, NEW v
  PROVE  /\ c.op = "take" => /\ c.to \in Locks /\ v.job \in Calls => Fit(c, v)
                             /\ Onwards(c, v) = {[v EXCEPT !.held = @ \union {c.to}]}
                             /\ Skips(c, v) = {[v EXCEPT !.is = @ \union {"failed", "trouble"}]}
         /\ c.op = "give" => /\ c.to \in v.held /\ v.job \in Calls => Fit(c, v)
                             /\ Onwards(c, v) = {[v EXCEPT !.held = @ \ {c.to}]} /\ Skips(c, v) = {}
         /\ c.op = "semget" => /\ v.job \in Calls => Fit(c, v)
                               /\ Onwards(c, v) = {v} /\ Skips(c, v) = {}
         /\ c.op = "connect" => /\ c.to \in Asked /\ v.job \in Calls /\ "linked" \notin v.is => Fit(c, v)
                                /\ Onwards(c, v) = {[v EXCEPT !.is = @ \union {"linked"}]}
                                /\ Skips(c, v) = {[v EXCEPT !.is = @ \union {"failed", "trouble"}]}
         /\ c.op = "receive" => /\ v.job \in Calls => Fit(c, v)
                                /\ Onwards(c, v) \subseteq {v}
                                /\ Skips(c, v) = {[v EXCEPT !.is = @ \union {"failed"}]}
         /\ c.op = "expect" => /\ v.job \in Calls => Fit(c, v)
                               /\ Onwards(c, v) = IF v.reply = c.to THEN {v} ELSE {}
                               /\ Skips(c, v) = {[v EXCEPT !.is = @ \union {"failed"}]}
         /\ c.op = "never" => /\ Fit(c, v) /\ Onwards(c, v) = {}
                              /\ Skips(c, v) = {[v EXCEPT !.is = @ \union {"failed"}]}
         /\ c.op = "alloc" => /\ Fit(c, v)
                              /\ Onwards(c, v) = {[v EXCEPT !.own = @ \union ({c.to} \ {None})]}
                              /\ Skips(c, v) = {[v EXCEPT !.is = @ \union {"failed", "trouble"}]}
BY DEF Fit, Onwards, Skips

(* A call that fails is on its way out.                                    *)
LEMMA FailsOver ==
  ASSUME NEW p, NEW X, NEW H, NEW K, NEW v \in Calling(p, X, H, K)
  PROVE  /\ [v EXCEPT !.is = @ \union {"failed", "trouble"}] \in Over(p, X, H)
         /\ [v EXCEPT !.is = @ \union {"failed"}] \in Over(p, X, H)
<1>1. ASSUME NEW F \in SUBSET Flags, "failed" \in F
      PROVE  [v EXCEPT !.is = @ \union F] \in Over(p, X, H)
  <2>1. v \in Views
    BY DEF Calling
  <2>2. PICK w : w = [v EXCEPT !.is = @ \union F]
    OBVIOUS
  <2>3. w \in Views
    BY <2>1, <2>2, FlagUpdates
  <2>4. w.job = v.job /\ w.own = v.own /\ w.held = v.held /\ w.is = v.is \union F
    BY <2>1, <2>2 DEF Views
  <2>5. w \in Over(p, X, H)
    BY <1>1, <2>3, <2>4 DEF Over, Calling
  <2> QED
    BY <2>2, <2>5
<1>2. {"failed", "trouble"} \in SUBSET Flags /\ {"failed"} \in SUBSET Flags
  BY DEF Flags
<1> QED
  BY <1>1, <1>2

(* The commands of a call.                                                 *)
LEMMA CallLeads ==
  ASSUME NEW p \in Calls, NEW X, NEW H, NEW K
  PROVE  LET P == Calling(p, X, H, K)
             O == Over(p, X, H)
         IN  /\ \A x \in Words : x \in X \/ x = "" => Leads(Cmd("alloc", x, "", ""), P, P, O)
             /\ Leads(Cmd("semget", "", "", ""), P, P, {})
             /\ \A q \in Asked : Leads(Cmd("connect", q, "", ""), Calling(p, X, H, {"new"}),
                                      Calling(p, X, H, {}), O)
             /\ Leads(Cmd("receive", "", "", ""), P, P, O)
             /\ Leads(Cmd("expect", "done", "", ""), P, Calling(p, X, H, {"done"}), O)
             /\ Leads(Cmd("never", "", "", ""), P, P, O)
<1> DEFINE P == Calling(p, X, H, K)
           O == Over(p, X, H)
<1>1. \A v \in P : v \in Views /\ v.job \in Calls
  BY DEF Calling
<1>2. \A v \in P : /\ [v EXCEPT !.is = @ \union {"failed", "trouble"}] \in O
                   /\ [v EXCEPT !.is = @ \union {"failed"}] \in O
  BY FailsOver
<1>3. ASSUME NEW x \in Words, x \in X \/ x = ""
      PROVE  Leads(Cmd("alloc", x, "", ""), P, P, O)
  <2> DEFINE c == Cmd("alloc", x, "", "")
  <2>1. c.op = "alloc" /\ c.to = x
    BY DEF Cmd
  <2> HIDE DEF c
  <2>2. ASSUME NEW v \in P
        PROVE  [v EXCEPT !.own = @ \union ({x} \ {None})] \in P
    <3>1. PICK w : w = [v EXCEPT !.own = @ \union ({x} \ {None})]
      OBVIOUS
    <3>2. w \in Views
      BY <1>1, <3>1, OwnUpdates
    <3>3. w.job = v.job /\ w.own = v.own \union ({x} \ {None}) /\ w.held = v.held /\ w.reply = v.reply
          /\ w.is = v.is
      BY <1>1, <3>1 DEF Views
    <3>4. w \in P
      BY <1>3, <3>2, <3>3 DEF Calling, None
    <3> QED
      BY <3>1, <3>4
  <2> HIDE DEF P, O
  <2>3. ASSUME NEW v \in P
        PROVE  Fit(c, v) /\ Onwards(c, v) \subseteq P /\ Skips(c, v) \subseteq O
    <3>1. /\ Fit(c, v) /\ Onwards(c, v) = {[v EXCEPT !.own = @ \union ({x} \ {None})]}
          /\ Skips(c, v) = {[v EXCEPT !.is = @ \union {"failed", "trouble"}]}
      BY <2>1, MeansCall
    <3> QED
      BY <3>1, <2>2, <1>2
  <2> QED
    BY <2>3 DEF Leads, c
<1>4. Leads(Cmd("semget", "", "", ""), P, P, {})
  <2> DEFINE c == Cmd("semget", "", "", "")
  <2>1. c.op = "semget"
    BY DEF Cmd
  <2> HIDE DEF P, O, c
  <2>2. ASSUME NEW v \in P
        PROVE  Fit(c, v) /\ Onwards(c, v) \subseteq P /\ Skips(c, v) \subseteq {}
    <3>1. Fit(c, v) /\ Onwards(c, v) = {v} /\ Skips(c, v) = {}
      BY <2>1, <1>1, MeansCall
    <3> QED
      BY <3>1
  <2> QED
    BY <2>2 DEF Leads, c
<1>5. ASSUME NEW q \in Asked
      PROVE  Leads(Cmd("connect", q, "", ""), Calling(p, X, H, {"new"}), Calling(p, X, H, {}), O)
  <2> DEFINE c == Cmd("connect", q, "", "")
             N == Calling(p, X, H, {"new"})
  <2>1. c.op = "connect" /\ c.to = q
    BY DEF Cmd
  <2> HIDE DEF c
  <2>2. ASSUME NEW v \in N
        PROVE  Fit(c, v) /\ Onwards(c, v) \subseteq Calling(p, X, H, {}) /\ Skips(c, v) \subseteq O
    <3>0. /\ v \in Views /\ v.job = p /\ v.own \subseteq X /\ v.held = H /\ "linked" \notin v.is
      BY DEF Calling
    <3>1. /\ Fit(c, v) /\ Onwards(c, v) = {[v EXCEPT !.is = @ \union {"linked"}]}
          /\ Skips(c, v) = {[v EXCEPT !.is = @ \union {"failed", "trouble"}]}
      BY <2>1, <3>0, MeansCall
    <3>2. PICK w : w = [v EXCEPT !.is = @ \union {"linked"}]
      OBVIOUS
    <3>3. w \in Views
      <4>1. {"linked"} \in SUBSET Flags
        BY DEF Flags
      <4> QED
        BY <3>0, <3>2, <4>1, FlagUpdates
    <3>4. w.job = v.job /\ w.own = v.own /\ w.held = v.held
      BY <3>0, <3>2 DEF Views
    <3>5. w \in Calling(p, X, H, {})
      BY <3>0, <3>3, <3>4 DEF Calling
    <3>6. [v EXCEPT !.is = @ \union {"failed", "trouble"}] \in O
      BY FailsOver
    <3> QED
      BY <3>1, <3>2, <3>5, <3>6
  <2> QED
    BY <2>2 DEF Leads, c
<1>6. Leads(Cmd("receive", "", "", ""), P, P, O)
  <2> DEFINE c == Cmd("receive", "", "", "")
  <2>1. c.op = "receive"
    BY DEF Cmd
  <2> HIDE DEF P, O, c
  <2>2. ASSUME NEW v \in P
        PROVE  Fit(c, v) /\ Onwards(c, v) \subseteq P /\ Skips(c, v) \subseteq O
    <3>1. /\ Fit(c, v) /\ Onwards(c, v) \subseteq {v}
          /\ Skips(c, v) = {[v EXCEPT !.is = @ \union {"failed"}]}
      BY <2>1, <1>1, MeansCall
    <3> QED
      BY <3>1, <1>2
  <2> QED
    BY <2>2 DEF Leads, c
<1>7. Leads(Cmd("expect", "done", "", ""), P, Calling(p, X, H, {"done"}), O)
  <2> DEFINE c == Cmd("expect", "done", "", "")
  <2>1. c.op = "expect" /\ c.to = "done"
    BY DEF Cmd
  <2>a. \A v \in P : v.reply = "done" => v \in Calling(p, X, H, {"done"})
    BY DEF Calling
  <2> HIDE DEF P, O, c
  <2>2. ASSUME NEW v \in P
        PROVE  Fit(c, v) /\ Onwards(c, v) \subseteq Calling(p, X, H, {"done"}) /\ Skips(c, v) \subseteq O
    <3>1. /\ Fit(c, v) /\ Onwards(c, v) = IF v.reply = "done" THEN {v} ELSE {}
          /\ Skips(c, v) = {[v EXCEPT !.is = @ \union {"failed"}]}
      BY <2>1, <1>1, MeansCall
    <3>2. Skips(c, v) \subseteq O
      BY <3>1, <1>2
    <3>3. CASE v.reply = "done"
      <4>1. Onwards(c, v) = {v} /\ v \in Calling(p, X, H, {"done"})
        BY <3>1, <3>3, <2>a
      <4> QED
        BY <3>1, <3>2, <4>1
    <3>4. CASE v.reply # "done"
      BY <3>1, <3>2, <3>4
    <3> QED
      BY <3>3, <3>4
  <2> QED
    BY <2>2 DEF Leads, c
<1>8. Leads(Cmd("never", "", "", ""), P, P, O)
  <2> DEFINE c == Cmd("never", "", "", "")
  <2>1. c.op = "never"
    BY DEF Cmd
  <2> HIDE DEF P, O, c
  <2>2. ASSUME NEW v \in P
        PROVE  Fit(c, v) /\ Onwards(c, v) \subseteq P /\ Skips(c, v) \subseteq O
    <3>1. /\ Fit(c, v) /\ Onwards(c, v) = {}
          /\ Skips(c, v) = {[v EXCEPT !.is = @ \union {"failed"}]}
      BY <2>1, MeansCall
    <3> QED
      BY <3>1, <1>2
  <2> QED
    BY <2>2 DEF Leads, c
<1> HIDE DEF P, O
<1> QED
  BY <1>3, <1>4, <1>5, <1>6, <1>7, <1>8 DEF P, O

(* Semaphores are taken and given back, objects freed on the way out.      *)
LEMMA CallGives ==
  ASSUME NEW p \in Calls, NEW X, NEW m \in Locks
  PROVE  /\ \A K : Leads(Cmd("take", m, "", ""), Calling(p, X, {}, K), Calling(p, X, {m}, K), Over(p, X, {}))
         /\ Leads(Cmd("give", m, "", ""), Over(p, X, {m}), Over(p, X, {}), {})
         /\ \A x \in Words \ {"auth"} :
              Leads(Cmd("free", x, "", ""), Over(p, X \union {x}, {}), Over(p, X, {}), {})
<1>1. ASSUME NEW K
      PROVE  Leads(Cmd("take", m, "", ""), Calling(p, X, {}, K), Calling(p, X, {m}, K), Over(p, X, {}))
  <2> DEFINE c == Cmd("take", m, "", "")
  <2>1. c.op = "take" /\ c.to = m
    BY DEF Cmd
  <2> HIDE DEF c
  <2>2. ASSUME NEW v \in Calling(p, X, {}, K)
        PROVE  /\ Fit(c, v) /\ Onwards(c, v) \subseteq Calling(p, X, {m}, K)
               /\ Skips(c, v) \subseteq Over(p, X, {})
    <3>0. v \in Views /\ v.job = p /\ v.own \subseteq X /\ v.held = {}
      BY DEF Calling
    <3>1. /\ Fit(c, v) /\ Onwards(c, v) = {[v EXCEPT !.held = @ \union {m}]}
          /\ Skips(c, v) = {[v EXCEPT !.is = @ \union {"failed", "trouble"}]}
      BY <2>1, <3>0, MeansCall
    <3>2. PICK w : w = [v EXCEPT !.held = @ \union {m}]
      OBVIOUS
    <3>3. w \in Views
      BY <3>0, <3>2, OtherUpdates
    <3>4. w.job = v.job /\ w.own = v.own /\ w.held = {m} /\ w.is = v.is /\ w.reply = v.reply
      BY <3>0, <3>2 DEF Views
    <3>5. w \in Calling(p, X, {m}, K)
      BY <3>0, <3>3, <3>4 DEF Calling
    <3>6. [v EXCEPT !.is = @ \union {"failed", "trouble"}] \in Over(p, X, {})
      BY FailsOver
    <3> QED
      BY <3>1, <3>2, <3>5, <3>6
  <2> QED
    BY <2>2 DEF Leads, c
<1>2. Leads(Cmd("give", m, "", ""), Over(p, X, {m}), Over(p, X, {}), {})
  <2> DEFINE c == Cmd("give", m, "", "")
  <2>1. c.op = "give" /\ c.to = m
    BY DEF Cmd
  <2> HIDE DEF c
  <2>2. ASSUME NEW v \in Over(p, X, {m})
        PROVE  /\ Fit(c, v) /\ Onwards(c, v) \subseteq Over(p, X, {}) /\ Skips(c, v) \subseteq {}
    <3>0. /\ v \in Views /\ v.job = p /\ v.own \subseteq X /\ v.held = {m}
          /\ "failed" \in v.is \/ p \notin Remote \/ v.reply = "done"
      BY DEF Over
    <3>a. m \in v.held /\ v.job \in Calls
      BY <3>0
    <3>1. Fit(c, v) /\ Onwards(c, v) = {[v EXCEPT !.held = @ \ {m}]} /\ Skips(c, v) = {}
      BY <2>1, <3>a, MeansCall
    <3>2. PICK w : w = [v EXCEPT !.held = @ \ {m}]
      OBVIOUS
    <3>3. w \in Views
      BY <3>0, <3>2, OtherUpdates
    <3>4. w.job = v.job /\ w.own = v.own /\ w.held = {} /\ w.is = v.is /\ w.reply = v.reply
      BY <3>0, <3>2 DEF Views
    <3>5. w \in Over(p, X, {})
      BY <3>0, <3>3, <3>4 DEF Over
    <3> QED
      BY <3>1, <3>2, <3>5
  <2> QED
    BY <2>2 DEF Leads, c
<1>3. ASSUME NEW x \in Words \ {"auth"}
      PROVE  Leads(Cmd("free", x, "", ""), Over(p, X \union {x}, {}), Over(p, X, {}), {})
  <2> DEFINE c == Cmd("free", x, "", "")
  <2>1. c.op = "free" /\ c.to = x
    BY DEF Cmd
  <2> HIDE DEF c
  <2>2. ASSUME NEW v \in Over(p, X \union {x}, {})
        PROVE  /\ Fit(c, v) /\ Onwards(c, v) \subseteq Over(p, X, {}) /\ Skips(c, v) \subseteq {}
    <3>0. /\ v \in Views /\ v.job = p /\ v.own \subseteq X \union {x} /\ v.held = {}
          /\ "failed" \in v.is \/ p \notin Remote \/ v.reply = "done"
      BY DEF Over
    <3>1. Fit(c, v) /\ Onwards(c, v) = {[v EXCEPT !.own = @ \ {x}]} /\ Skips(c, v) = {}
      BY <2>1, Means
    <3>2. PICK w : w = [v EXCEPT !.own = @ \ {x}]
      OBVIOUS
    <3>3. w \in Views
      BY <3>0, <3>2, OwnUpdates
    <3>4. w.job = v.job /\ w.own = v.own \ {x} /\ w.held = {} /\ w.is = v.is /\ w.reply = v.reply
      BY <3>0, <3>2 DEF Views
    <3>5. w \in Over(p, X, {})
      BY <3>0, <3>3, <3>4 DEF Over
    <3> QED
      BY <3>1, <3>2, <3>5
  <2> QED
    BY <2>2 DEF Leads, c
<1> QED
  BY <1>1, <1>2, <1>3

(* A failure leaves a call, or the part of it that holds a semaphore.      *)
Quits(p, X, H) == Via(ApiOps, Over(p, X, H))
(* s goes on; s goes on and then the call is over.                         *)
Proceeds(s, p, X, H, K, L) == Does(Calling(p, X, H, K), s, Calling(p, X, H, L), Quits(p, X, H))
Completes(s, p, X, H, K) == Does(Calling(p, X, H, K), s, Over(p, X, H), Quits(p, X, H))

(* One after the other; and when nothing more needs to be known.           *)
LEMMA CallJoined ==
  ASSUME NEW p, NEW X, NEW H
  PROVE  /\ \A s, t, K, L, M : Proceeds(s, p, X, H, K, L) /\ Proceeds(t, p, X, H, L, M)
                                 => Proceeds(s \o t, p, X, H, K, M)
         /\ \A s, t, K, L : Proceeds(s, p, X, H, K, L) /\ Completes(t, p, X, H, L)
                                 => Completes(s \o t, p, X, H, K)
         /\ \A s, K, L : Proceeds(s, p, X, H, K, L) /\ ("done" \in L \/ p \notin Remote)
                                 => Completes(s, p, X, H, K)
<1>1. \A s, t, K, L, M : Proceeds(s, p, X, H, K, L) /\ Proceeds(t, p, X, H, L, M)
                           => Proceeds(s \o t, p, X, H, K, M)
  BY Joined DEF Proceeds
<1>2. \A s, t, K, L : Proceeds(s, p, X, H, K, L) /\ Completes(t, p, X, H, L)
                           => Completes(s \o t, p, X, H, K)
  BY Joined DEF Proceeds, Completes
<1>3. ASSUME NEW s, NEW K, NEW L, Proceeds(s, p, X, H, K, L), "done" \in L \/ p \notin Remote
      PROVE  Completes(s, p, X, H, K)
  <2>1. /\ Calling(p, X, H, L) \subseteq Over(p, X, H) /\ Calling(p, X, H, K) \subseteq Calling(p, X, H, K)
    BY <1>3 DEF Calling, Over
  <2>2. Narrower(Quits(p, X, H), Quits(p, X, H)) /\ Over(p, X, H) \in Assertions
    BY CallingStable DEF Narrower
  <2> QED
    BY <1>3, <2>1, <2>2, Consequence DEF Proceeds, Completes
<1> QED
  BY <1>1, <1>2, <1>3

(* The steps of a call.                                                    *)
LEMMA CallCommands ==
  ASSUME NEW p \in Calls, NEW X, NEW H, NEW K
  PROVE  /\ Proceeds(May, p, X, H, K, K)
         /\ \A x \in Words \intersect X : Proceeds(Alloc(x), p, X, H, K, K)
         /\ Proceeds(AwaitSemaphores, p, X, H, K, K)
         /\ \A q \in Asked : Proceeds(Connect(q), p, X, H, {"new"}, {})
         /\ Proceeds(Receive, p, X, H, K, K)
         /\ Proceeds(Expect("done"), p, X, H, K, {"done"})
         /\ Proceeds(Never, p, X, H, K, K)
<1> DEFINE P == Calling(p, X, H, K)
           D == Calling(p, X, H, {"done"})
           M == Calling(p, X, H, {"new"})
           N == Calling(p, X, H, {})
           O == Over(p, X, H)
           E == Quits(p, X, H)
<1>1. P \in Assertions /\ D \in Assertions /\ M \in Assertions /\ N \in Assertions
  BY CallingStable
<1>2. /\ "alloc" \in Ops /\ "semget" \in Ops /\ "connect" \in Ops /\ "receive" \in Ops
      /\ "expect" \in Ops /\ "never" \in Ops /\ "" \in Words /\ "done" \in Words
  BY Known
<1>3. Asked \subseteq Words
  BY Known DEF Asked
<1>4. /\ "alloc" \in ApiOps /\ "connect" \in ApiOps /\ "receive" \in ApiOps
      /\ "expect" \in ApiOps /\ "never" \in ApiOps
  BY DEF ApiOps, Exits, FailingOps
<1>a. /\ \A x \in Words : x \in X \/ x = "" => Leads(Cmd("alloc", x, "", ""), P, P, O)
      /\ Leads(Cmd("semget", "", "", ""), P, P, {})
      /\ \A q \in Asked : Leads(Cmd("connect", q, "", ""), M, N, O)
      /\ Leads(Cmd("receive", "", "", ""), P, P, O)
      /\ Leads(Cmd("expect", "done", "", ""), P, D, O)
      /\ Leads(Cmd("never", "", "", ""), P, P, O)
  BY CallLeads
<1> HIDE DEF P, D, M, N, O
<1>5. \A op \in Ops : E[op] = IF op \in ApiOps THEN O ELSE {}
  BY Leaving DEF Quits, O
<1> HIDE DEF E
<1>6. O \subseteq E["alloc"] /\ O \subseteq E["connect"] /\ O \subseteq E["receive"]
      /\ O \subseteq E["expect"] /\ O \subseteq E["never"]
  BY <1>2, <1>4, <1>5
<1>7. ASSUME NEW x \in Words, x \in X \/ x = "" PROVE Does(P, Alloc(x), P, E)
  <2>1. Leads(Cmd("alloc", x, "", ""), P, P, O)
    BY <1>7, <1>a
  <2> QED
    BY <1>1, <1>2, <1>6, <2>1, One DEF Alloc
<1>8. Does(P, AwaitSemaphores, P, E)
  BY <1>1, <1>2, <1>a, Sure DEF AwaitSemaphores
<1>9. ASSUME NEW q \in Asked PROVE Does(M, Connect(q), N, E)
  <2>1. Leads(Cmd("connect", q, "", ""), M, N, O) /\ q \in Words
    BY <1>3, <1>a
  <2> QED
    BY <1>1, <1>2, <1>6, <2>1, One DEF Connect
<1>10. Does(P, Receive, P, E)
  BY <1>1, <1>2, <1>6, <1>a, One DEF Receive
<1>11. Does(P, Expect("done"), D, E)
  BY <1>1, <1>2, <1>6, <1>a, One DEF Expect
<1>12. Does(P, Never, P, E)
  BY <1>1, <1>2, <1>6, <1>a, One DEF Never
<1>13. Does(P, May, P, E)
  <2>1. May = Alloc("")
    BY DEF May, Alloc
  <2> QED
    BY <2>1, <1>2, <1>7
<1> QED
  BY <1>7, <1>8, <1>9, <1>10, <1>11, <1>12, <1>13 DEF Proceeds, P, D, M, N, E

(* With the semaphore m taken, s is done, and m is given back whatever     *)
(* fails.                                                                  *)
LEMMA Guarded ==
  ASSUME NEW p \in Calls, NEW X, NEW m \in Locks \intersect Words, NEW s, NEW K,
         Completes(s, p, X, {m}, K)
  PROVE  /\ Completes(Exchange(m, s), p, X, {}, K)
         /\ Completes(May \o Take(m) \o ToEnd(s, ApiOps) \o Give(m), p, X, {}, K)
<1> DEFINE P == Calling(p, X, {}, K)
           M == Calling(p, X, {m}, K)
           N == Over(p, X, {m})
           O == Over(p, X, {})
           E == Quits(p, X, {})
           F == Quits(p, X, {m})
<1>1. P \in Assertions /\ M \in Assertions /\ N \in Assertions /\ O \in Assertions
  BY CallingStable
<1>2. "take" \in Ops /\ "give" \in Ops
  BY Known
<1>3. "take" \in ApiOps
  BY DEF ApiOps
<1>4. Does(P, May, P, E) /\ Does(P, AwaitSemaphores, P, E)
  BY CallCommands DEF Proceeds
<1>5. Leads(Cmd("take", m, "", ""), P, M, O) /\ Leads(Cmd("give", m, "", ""), N, O, {})
  BY CallGives
<1>6. Does(M, s, N, F)
  BY DEF Completes
<1>7. Caught(F, ApiOps, N, E)
  BY Leaving DEF Quits
<1> HIDE DEF P, M, N, O, F
<1>8. \A op \in Ops : E[op] = IF op \in ApiOps THEN O ELSE {}
  BY Leaving DEF Quits, O
<1> HIDE DEF E
<1>9. O \subseteq E["take"]
  BY <1>2, <1>3, <1>8
<1>10. Does(P, Take(m), M, E)
  BY <1>1, <1>2, <1>5, <1>9, One DEF Take
<1>11. Does(M, ToEnd(s, ApiOps), N, E)
  BY <1>6, <1>7, Ending
<1>12. Does(N, Give(m), O, E)
  BY <1>1, <1>2, <1>5, Sure DEF Give
<1>13. ASSUME NEW t, Does(P, t, P, E)
       PROVE  Does(P, t \o Take(m) \o ToEnd(s, ApiOps) \o Give(m), O, E)
  <2>1. Does(P, t \o Take(m), M, E)
    BY <1>10, <1>13, Joined
  <2>2. Does(P, t \o Take(m) \o ToEnd(s, ApiOps), N, E)
    BY <1>11, <2>1, Joined
  <2> QED
    BY <1>12, <2>2, Joined
<1>14. Does(P, May \o AwaitSemaphores, P, E)
  BY <1>4, Joined
<1> QED
  BY <1>4, <1>13, <1>14 DEF Completes, Exchange, P, O, E

(* A call with its exit, and what is freed there.                          *)
Returns(s, p) == Does(Calling(p, {}, {}, {"new"}), s, Over(p, {}, {}), Nowhere)

(* A call that is completed, or left, goes through its exit.               *)
LEMMA CallReturns ==
  ASSUME NEW p, NEW X, NEW s, Completes(s, p, X, {}, {"new"}), NEW t,
         Does(Over(p, X, {}), t, Over(p, {}, {}), Nowhere)
  PROVE  Returns(Call(s, t), p)
<1> DEFINE N == Over(p, X, {})
<1>1. Does(Calling(p, X, {}, {"new"}), s, N, Quits(p, X, {}))
  BY DEF Completes
<1>2. Caught(Quits(p, X, {}), ApiOps, N, Nowhere)
  BY Leaving DEF Quits
<1> HIDE DEF N
<1>3. Does(Calling(p, X, {}, {"new"}), ToEnd(s, ApiOps), N, Nowhere)
  BY <1>1, <1>2, Ending
<1>4. Does(Calling(p, X, {}, {"new"}), Call(s, t), Over(p, {}, {}), Nowhere)
  BY <1>3, Joined DEF Call, N
<1>5. Calling(p, {}, {}, {"new"}) \subseteq Calling(p, X, {}, {"new"})
  BY DEF Calling
<1>6. /\ Over(p, {}, {}) \subseteq Over(p, {}, {}) /\ Over(p, {}, {}) \in Assertions
      /\ Narrower(Nowhere, Nowhere)
  BY CallingStable DEF Narrower
<1>7. Does(Calling(p, {}, {}, {"new"}), Call(s, t), Over(p, {}, {}), Nowhere)
  BY <1>4, <1>5, <1>6, Consequence
<1> QED
  BY <1>7 DEF Returns

(* free() at the end of a call.                                            *)
LEMMA CallFrees ==
  ASSUME NEW p \in Calls, NEW X, NEW x \in Words \ {"auth"}
  PROVE  Does(Over(p, X \union {x}, {}), Free(x), Over(p, X, {}), Nowhere)
<1>1. "nvram" \in Locks /\ "free" \in Ops
  BY Known DEF Locks
<1>2. Leads(Cmd("free", x, "", ""), Over(p, X \union {x}, {}), Over(p, X, {}), {})
  BY <1>1, CallGives
<1>3. Over(p, X \union {x}, {}) \in Assertions /\ Over(p, X, {}) \in Assertions
  BY CallingStable
<1> QED
  BY <1>1, <1>2, <1>3, Sure DEF Free

(* The soap calls on nvram.                                                *)
LEMMA SoapReturns ==
  ASSUME NEW p \in Calls
  PROVE  Returns(SoapGet, p) /\ Returns(SoapSet, p) /\ Returns(SoapUnset, p)
<1> DEFINE X1 == {} \union {"ezcfg"}
           X2 == X1 \union {"ctrl"}
           X3 == X2 \union {"sh"}
           X == X3 \union {"msg"}
           T(s) == Proceeds(s, p, X, {}, {"new"}, {"new"})
           V(s) == Proceeds(s, p, X, {"nvram"}, {"new"}, {})
           U(s) == Proceeds(s, p, X, {"nvram"}, {}, {})
           D(s) == Proceeds(s, p, X, {"nvram"}, {}, {"done"})
           N(s) == Proceeds(s, p, X, {"nvram"}, {"new"}, {"new"})
           F(s) == Proceeds(s, p, X, {"nvram"}, {"new"}, {"done"})
           W(s) == Proceeds(s, p, X, {"nvram"}, {"done"}, {"done"})
           O(Y) == Over(p, Y, {})
<1>1. /\ {"ezcfg", "ctrl", "sh", "msg"} \subseteq Words \ {"auth"} /\ {"ezcfg", "ctrl", "sh", "msg"} \subseteq X
      /\ "nvram" \in Locks \intersect Words /\ "soap_http" \in Asked
  BY Known DEF Locks, Asked
<1>2. /\ \A s, t : T(s) /\ T(t) => T(s \o t)
      /\ \A s, t : N(s) /\ V(t) => V(s \o t)
      /\ \A s, t : V(s) /\ U(t) => V(s \o t)
      /\ \A s, t : V(s) /\ D(t) => F(s \o t)
      /\ \A s, t : F(s) /\ W(t) => F(s \o t)
  BY CallJoined
<1>3. T(Alloc("ezcfg")) /\ T(Alloc("sh")) /\ T(Alloc("msg")) /\ T(May)
  BY <1>1, CallCommands
<1>4. N(Alloc("ctrl")) /\ V(Connect("soap_http")) /\ U(Receive) /\ U(May) /\ D(Expect("done")) /\ W(May)
  BY <1>1, CallCommands
<1>5. Completes(Soap, p, X, {"nvram"}, {"new"})
  <2>1. F(Soap)
    <3> HIDE DEF T, N, V, U, D, F, W, X
    <3>1. V(Alloc("ctrl") \o Connect("soap_http") \o Receive \o May \o May)
      BY <1>2, <1>4
    <3>2. F(Alloc("ctrl") \o Connect("soap_http") \o Receive \o May \o May \o Expect("done"))
      BY <1>2, <1>4, <3>1
    <3> QED
      BY <1>2, <1>4, <3>2 DEF Soap
  <2> HIDE DEF X
  <2> QED
    BY <2>1, CallJoined
<1>6. Completes(Exchange("nvram", Soap), p, X, {}, {"new"})
  BY <1>1, <1>5, Guarded
<1>7. Does(O(X), SoapExit, O({}), Nowhere)
  <2>1. /\ Does(O(X), Free("msg"), O(X3), Nowhere) /\ Does(O(X3), Free("sh"), O(X2), Nowhere)
        /\ Does(O(X2), Free("ctrl"), O(X1), Nowhere) /\ Does(O(X1), Free("ezcfg"), O({}), Nowhere)
    BY <1>1, CallFrees
  <2> HIDE DEF O, X, X1, X2, X3
  <2>2. Does(O(X), Free("msg") \o Free("sh"), O(X2), Nowhere)
    BY <2>1, Joined
  <2>3. Does(O(X), Free("msg") \o Free("sh") \o Free("ctrl"), O(X1), Nowhere)
    BY <2>1, <2>2, Joined
  <2> QED
    BY <2>1, <2>3, Joined DEF SoapExit
<1>8. T(Alloc("ezcfg") \o Alloc("sh") \o Alloc("msg")) /\ T(Alloc("ezcfg") \o Alloc("sh") \o Alloc("msg") \o May)
  <2> HIDE DEF T, X
  <2> QED
    BY <1>2, <1>3
<1> HIDE DEF X
<1>9. /\ Completes(Alloc("ezcfg") \o Alloc("sh") \o Alloc("msg") \o Exchange("nvram", Soap), p, X, {}, {"new"})
      /\ Completes(Alloc("ezcfg") \o Alloc("sh") \o Alloc("msg") \o May \o Exchange("nvram", Soap), p, X, {}, {"new"})
  BY <1>6, <1>8, CallJoined
<1> QED
  BY <1>7, <1>9, CallReturns DEF SoapGet, SoapSet, SoapUnset

(* The json call, that always fails.                                       *)
LEMMA ChangeReturns ==
  ASSUME NEW p \in Calls
  PROVE  Returns(ezcfg_api_nvram_change, p)
<1> DEFINE X1 == {} \union {"ezcfg"}
           X2 == X1 \union {"jh"}
           X == X2 \union {"msg"}
           N(s) == Proceeds(s, p, X, {}, {"new"}, {"new"})
           V(s) == Proceeds(s, p, X, {}, {"new"}, {})
           T(s) == Proceeds(s, p, X, {}, {}, {})
           D(s) == Proceeds(s, p, X, {}, {}, {"done"})
           F(s) == Proceeds(s, p, X, {}, {"new"}, {"done"})
           O(Y) == Over(p, Y, {})
<1>1. /\ {"ezcfg", "jh", "msg"} \subseteq Words \ {"auth"} /\ {"ezcfg", "jh", "msg"} \subseteq X
      /\ "json_http" \in Asked
  BY Known DEF Asked
<1>2. /\ \A s, t : N(s) /\ N(t) => N(s \o t)
      /\ \A s, t : N(s) /\ V(t) => V(s \o t)
      /\ \A s, t : V(s) /\ T(t) => V(s \o t)
      /\ \A s, t : V(s) /\ D(t) => F(s \o t)
  BY CallJoined
<1>3. /\ N(Alloc("ezcfg")) /\ N(Alloc("jh")) /\ N(Alloc("msg")) /\ N(May) /\ N(Never)
      /\ V(Connect("json_http")) /\ T(Receive) /\ T(May) /\ D(Expect("done"))
  BY <1>1, CallCommands
<1> DEFINE s == Alloc("ezcfg") \o Alloc("jh") \o May \o Alloc("msg") \o Never
                \o Connect("json_http") \o Receive \o May
<1>4. F(s \o Expect("done"))
  <2> HIDE DEF N, V, T, D, F, X
  <2>a. N(Alloc("ezcfg") \o Alloc("jh") \o May \o Alloc("msg") \o Never)
    BY <1>2, <1>3
  <2>1. V(s)
    BY <2>a, <1>2, <1>3
  <2> QED
    BY <2>1, <1>2, <1>3
<1>5. Does(O(X), Free("msg") \o Free("jh") \o Free("ezcfg"), O({}), Nowhere)
  <2>1. /\ Does(O(X), Free("msg"), O(X2), Nowhere) /\ Does(O(X2), Free("jh"), O(X1), Nowhere)
        /\ Does(O(X1), Free("ezcfg"), O({}), Nowhere)
    BY <1>1, CallFrees
  <2> HIDE DEF O, X, X1, X2
  <2>2. Does(O(X), Free("msg") \o Free("jh"), O(X1), Nowhere)
    BY <2>1, Joined
  <2> QED
    BY <2>1, <2>2, Joined
<1> HIDE DEF X, s
<1>6. Completes(s \o Expect("done"), p, X, {}, {"new"})
  BY <1>4, CallJoined
<1> QED
  BY <1>5, <1>6, CallReturns DEF ezcfg_api_nvram_change, s

(* The calls that send a line; the first one believes every answer.        *)
LEMMA LineReturns ==
  ASSUME NEW p \in Calls
  PROVE  /\ p \notin Remote => Returns(ezcfg_api_ctrl_exec, p)
         /\ Returns(ezcfg_api_ipc_get_ezcfg_shm_id, p)
<1> DEFINE X1 == {} \union {"ezcfg"}
           X == X1 \union {"ctrl"}
           N(s) == Proceeds(s, p, X, {"ctrl"}, {"new"}, {"new"})
           V(s) == Proceeds(s, p, X, {"ctrl"}, {"new"}, {})
           U(s) == Proceeds(s, p, X, {"ctrl"}, {}, {})
           O(Y) == Over(p, Y, {})
<1>1. /\ {"ezcfg", "ctrl"} \subseteq Words \ {"auth"} /\ {"ezcfg", "ctrl"} \subseteq X
      /\ "ctrl" \in Locks \intersect Words /\ "ctrl" \in Asked
  BY Known DEF Locks, Asked
<1>2. /\ \A s, t : N(s) /\ V(t) => V(s \o t)
      /\ \A s, t : V(s) /\ U(t) => V(s \o t)
  BY CallJoined
<1>3. N(Alloc("ctrl")) /\ V(Connect("ctrl")) /\ U(Receive)
  BY <1>1, CallCommands
<1>4. V(Line)
  <2> HIDE DEF N, V, U, X
  <2> QED
    BY <1>2, <1>3 DEF Line
<1>5. Proceeds(Expect("done"), p, X, {"ctrl"}, {}, {"done"})
  BY CallCommands
<1>6. Does(O(X), LineExit, O({}), Nowhere)
  <2>1. Does(O(X), Free("ctrl"), O(X1), Nowhere) /\ Does(O(X1), Free("ezcfg"), O({}), Nowhere)
    BY <1>1, CallFrees
  <2> HIDE DEF O, X, X1
  <2> QED
    BY <2>1, Joined DEF LineExit
<1>7. Proceeds(Alloc("ezcfg"), p, X, {}, {"new"}, {"new"})
  BY <1>1, CallCommands
<1> HIDE DEF X
<1>8. Completes(Line \o Expect("done"), p, X, {"ctrl"}, {"new"})
  <2>1. Proceeds(Line \o Expect("done"), p, X, {"ctrl"}, {"new"}, {"done"})
    BY <1>4, <1>5, CallJoined
  <2> QED
    BY <2>1, CallJoined
<1>9. p \notin Remote => Completes(Line, p, X, {"ctrl"}, {"new"})
  BY <1>4, CallJoined
<1>10. \A s : Completes(s, p, X, {"ctrl"}, {"new"}) => Returns(Call(Alloc("ezcfg") \o Exchange("ctrl", s), LineExit), p)
  <2>1. ASSUME NEW s, Completes(s, p, X, {"ctrl"}, {"new"})
        PROVE  Returns(Call(Alloc("ezcfg") \o Exchange("ctrl", s), LineExit), p)
    <3>1. Completes(Exchange("ctrl", s), p, X, {}, {"new"})
      BY <1>1, <2>1, Guarded
    <3>2. Completes(Alloc("ezcfg") \o Exchange("ctrl", s), p, X, {}, {"new"})
      BY <1>7, <3>1, CallJoined
    <3> QED
      BY <1>6, <3>2, CallReturns
  <2> QED
    BY <2>1
<1> QED
  BY <1>8, <1>9, <1>10 DEF ezcfg_api_ctrl_exec, ezcfg_api_ipc_get_ezcfg_shm_id

(* The calls that do their own work.                                       *)
LEMMA OwnWorkReturns ==
  ASSUME NEW p \in Calls \ Remote
  PROVE  /\ Returns(Call(Market, <<>>), p)
         /\ Returns(ezcfg_api_uuid1_string, p) /\ Returns(ezcfg_api_agent_start, p)
<1> DEFINE O(Y) == Over(p, Y, {})
<1>1. /\ {"ezcfg", "uuid", "agent"} \subseteq Words \ {"auth"} /\ "ezctp" \in Locks \intersect Words
  BY Known DEF Locks
<1>2. Returns(Call(Market, <<>>), p)
  <2>1. Proceeds(May, p, {}, {"ezctp"}, {"new"}, {"new"})
    BY CallCommands
  <2>2. Completes(May, p, {}, {"ezctp"}, {"new"})
    BY <2>1, CallJoined
  <2>3. Completes(Market, p, {}, {}, {"new"})
    BY <1>1, <2>2, Guarded DEF Market
  <2>4. O({}) \in Assertions
    BY CallingStable
  <2>5. Does(O({}), <<>>, O({}), Nowhere)
    BY <2>4, Nothing
  <2> QED
    BY <2>3, <2>5, CallReturns
<1>3. ASSUME NEW x \in {"uuid", "agent"}
      PROVE  /\ Returns(Call(Alloc("ezcfg") \o Alloc(x) \o May \o May, Free(x) \o Free("ezcfg")), p)
             /\ Returns(Call(Alloc("ezcfg") \o May \o Alloc(x) \o May, Free(x) \o Free("ezcfg")), p)
  <2> DEFINE X1 == {} \union {"ezcfg"}
             X == X1 \union {x}
             T(s) == Proceeds(s, p, X, {}, {"new"}, {"new"})
  <2>1. x \in Words \ {"auth"} /\ "ezcfg" \in Words \ {"auth"} /\ "ezcfg" \in X /\ x \in X
    BY <1>1
  <2>2. T(Alloc("ezcfg")) /\ T(Alloc(x)) /\ T(May)
    BY <2>1, CallCommands
  <2>3. \A s, t : T(s) /\ T(t) => T(s \o t)
    BY CallJoined
  <2>4. T(Alloc("ezcfg") \o Alloc(x) \o May \o May) /\ T(Alloc("ezcfg") \o May \o Alloc(x) \o May)
    <3> HIDE DEF T, X
    <3> QED
      BY <2>2, <2>3
  <2>5. Does(O(X), Free(x) \o Free("ezcfg"), O({}), Nowhere)
    <3>1. Does(O(X), Free(x), O(X1), Nowhere) /\ Does(O(X1), Free("ezcfg"), O({}), Nowhere)
      BY <2>1, CallFrees
    <3> HIDE DEF O, X, X1
    <3> QED
      BY <3>1, Joined
  <2> HIDE DEF X
  <2>6. /\ Completes(Alloc("ezcfg") \o Alloc(x) \o May \o May, p, X, {}, {"new"})
        /\ Completes(Alloc("ezcfg") \o May \o Alloc(x) \o May, p, X, {}, {"new"})
    BY <2>4, CallJoined
  <2> QED
    BY <2>5, <2>6, CallReturns
<1> QED
  BY <1>2, <1>3 DEF ezcfg_api_uuid1_string, ezcfg_api_agent_start

(* The calls that do nothing.                                              *)
LEMMA NothingReturns ==
  ASSUME NEW p \in Calls \ Remote
  PROVE  Returns(<<>>, p)
<1>1. Over(p, {}, {}) \in Assertions /\ Calling(p, {}, {}, {"new"}) \in Assertions
  BY CallingStable
<1>2. Does(Over(p, {}, {}), <<>>, Over(p, {}, {}), Nowhere)
  BY <1>1, Nothing
<1>3. Calling(p, {}, {}, {"new"}) \subseteq Over(p, {}, {})
  BY DEF Calling, Over
<1>4. Narrower(Nowhere, Nowhere) /\ Over(p, {}, {}) \subseteq Over(p, {}, {})
  BY DEF Narrower
<1> QED
  BY <1>1, <1>2, <1>3, <1>4, Consequence DEF Returns

(* Every call returns with its objects freed and its semaphore given back. *)
LEMMA ApiReturns ==
  ASSUME NEW p \in Calls
  PROVE  Returns(ApiScript(p), p)
<1>0. CASE p \in {"nvram_get", "nvram_set", "nvram_unset"}
  <2>1. ApiScript(p) = <<>> /\ p \notin Remote
    BY <1>0 DEF ApiScript, Remote, ezcfg_api_nvram_get, ezcfg_api_nvram_set, ezcfg_api_nvram_unset
  <2> QED
    BY <2>1, NothingReturns
<1>1. CASE p \in {"soap_get", "soap_set", "soap_unset"}
  <2>1. ApiScript(p) \in {SoapGet, SoapSet, SoapUnset}
    BY <1>1 DEF ApiScript
  <2> QED
    BY <2>1, SoapReturns
<1>2. CASE p = "nvram_change"
  <2>1. ApiScript(p) = ezcfg_api_nvram_change
    BY <1>2 DEF ApiScript
  <2> QED
    BY <2>1, ChangeReturns
<1>3. CASE p = "ctrl_exec"
  <2>1. ApiScript(p) = ezcfg_api_ctrl_exec /\ p \notin Remote
    BY <1>3 DEF ApiScript, Remote
  <2> QED
    BY <2>1, LineReturns
<1>4. CASE p = "ipc_shm_id"
  <2>1. ApiScript(p) = ezcfg_api_ipc_get_ezcfg_shm_id
    BY <1>4 DEF ApiScript
  <2> QED
    BY <2>1, LineReturns
<1>5. CASE p \in {"ezctp_insert", "ezctp_remove", "ezctp_save"}
  <2>1. ApiScript(p) = Call(Market, <<>>) /\ p \notin Remote
    BY <1>5 DEF ApiScript, Remote, ezcfg_api_ezctp_insert_market_data,
                ezcfg_api_ezctp_remove_market_data, ezcfg_api_ezctp_save_market_data
  <2> QED
    BY <2>1, OwnWorkReturns
<1>6. CASE p = "uuid"
  <2>1. ApiScript(p) = ezcfg_api_uuid1_string /\ p \notin Remote
    BY <1>6 DEF ApiScript, Remote
  <2> QED
    BY <2>1, OwnWorkReturns
<1>7. CASE p = "agent_start"
  <2>1. ApiScript(p) = ezcfg_api_agent_start /\ p \notin Remote
    BY <1>7 DEF ApiScript, Remote
  <2> QED
    BY <2>1, OwnWorkReturns
<1> QED
  BY <1>0, <1>1, <1>2, <1>3, <1>4, <1>5, <1>6, <1>7 DEF Calls
=============================================================================
