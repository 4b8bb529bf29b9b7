-------------------------- MODULE RunControl_proofs --------------------------
(***************************************************************************)
(* Proofs about RunControl for any number of rc programs and any jobs that *)
(* are asked for together: the semaphore and the queue number are given    *)
(* back as they were taken, and no daemon is started beside itself.        *)
(*                                                                         *)
(* The second rests on what every script has in common, which is proved    *)
(* first, script by script: a daemon that is guarded is only started under *)
(* the name that is looked for.                                            *)
(***************************************************************************)
EXTENDS RunControl, FiniteSetTheorems, SequenceTheorems, TLAPS

(* Commands over the words of A that start a guarded daemon only after a   *)
(* look for it.                                                            *)
Careful(A) ==
  {c \in [op : A, arg : A, exe : A, skip : Nat] :
     /\ c.op = "start" /\ c.exe \in Guarded => c.arg = c.exe
     /\ c.op = "spawn" => c.arg \notin Guarded}

IsScript(s) == \E A : s \in Seq(Careful(A))
IsProgram(s) == IsScript(s) /\ s # <<>>
IsCondition(c) == \E A : \E x \in Careful(A) : c = <<x>> /\ x.op # "start" /\ x.op # "spawn"

-----------------------------------------------------------------------------
(* What scripts are made of *)

(* A larger set of words allows more commands. *)
LEMMA MoreWords ==
  ASSUME NEW A, NEW B, A \subseteq B
  PROVE  Careful(A) \subseteq Careful(B)
BY DEF Careful

(* Two scripts one after the other are a script. *)
LEMMA Joined ==
  /\ \A a, b : IsScript(a) /\ IsScript(b) => IsScript(a \o b)
  /\ \A a, b : IsProgram(a) /\ IsScript(b) => IsProgram(a \o b)
  /\ \A a, b : IsScript(a) /\ IsProgram(b) => IsProgram(a \o b)
<1>1. ASSUME NEW a, NEW b, IsScript(a), IsScript(b)
      PROVE  IsScript(a \o b) /\ (a # <<>> \/ b # <<>> => a \o b # <<>>)
  <2>1. PICK A : a \in Seq(Careful(A))
    BY <1>1 DEF IsScript
  <2>2. PICK B : b \in Seq(Careful(B))
    BY <1>1 DEF IsScript
  <2> DEFINE C == Careful(A \union B)
  <2>3. Careful(A) \subseteq C /\ Careful(B) \subseteq C
    BY MoreWords
  <2> HIDE DEF C
  <2>4. a \in Seq(C) /\ b \in Seq(C)
    BY <2>1, <2>2, <2>3
  <2>5. a \o b \in Seq(C)
    BY <2>4
  <2>6. a # <<>> \/ b # <<>> => a \o b # <<>>
    BY <2>4
  <2> QED
    BY <2>5, <2>6 DEF IsScript, C
<1> QED
  BY <1>1 DEF IsProgram

(* A single command that starts nothing guarded. *)
LEMMA Single ==
  ASSUME NEW op, NEW x, op # "start", op = "spawn" => x \notin Guarded
  PROVE  /\ IsProgram(<<Cmd(op, x)>>)
         /\ op # "spawn" => IsCondition(<<Cmd(op, x)>>)
<1> DEFINE A == {op, x, ""}
<1>1. /\ Cmd(op, x) \in [op : A, arg : A, exe : A, skip : Nat]
      /\ Cmd(op, x).op = op /\ Cmd(op, x).arg = x
  BY DEF Cmd
<1> HIDE DEF A
<1>2. Cmd(op, x) \in Careful(A)
  BY <1>1 DEF Careful
<1>3. <<Cmd(op, x)>> \in Seq(Careful(A)) /\ <<Cmd(op, x)>> # <<>>
  BY <1>2
<1> QED
  BY <1>1, <1>2, <1>3 DEF IsProgram, IsScript, IsCondition

(* start-stop-daemon with one name for the look and the start, or with a   *)
(* program that is not guarded.                                            *)
LEMMA Started ==
  ASSUME NEW n, NEW x, n = x \/ x \notin Guarded
  PROVE  IsProgram(Start(n, x))
<1> DEFINE A == {"start", n, x, ""}
           c == [Cmd("start", n) EXCEPT !.exe = x]
<1>1. /\ c \in [op : A, arg : A, exe : A, skip : Nat]
      /\ c.op = "start" /\ c.arg = n /\ c.exe = x
  BY DEF Cmd
<1> HIDE DEF A, c
<1>2. c \in Careful(A)
  BY <1>1 DEF Careful
<1>3. <<c>> \in Seq(Careful(A)) /\ <<c>> # <<>>
  BY <1>2
<1> QED
  BY <1>3 DEF IsProgram, IsScript, Start, c

(* The commands of RcCommand. *)
LEMMA Commands ==
  /\ \A x : IsProgram(Test(x)) /\ IsCondition(Test(x))
  /\ \A x : IsProgram(Need(x)) /\ IsCondition(Need(x))
  /\ \A x : IsProgram(Lack(x)) /\ IsCondition(Lack(x))
  /\ \A x : IsProgram(Open(x)) /\ IsCondition(Open(x))
  /\ \A x : IsProgram(OpenRead(x)) /\ IsCondition(OpenRead(x))
  /\ \A x : IsProgram(HasLine(x)) /\ IsCondition(HasLine(x))
  /\ \A x : IsProgram(Add(x)) /\ IsProgram(Del(x)) /\ IsProgram(Fill(x))
  /\ \A x : IsProgram(Rename(x)) /\ IsProgram(Unlink(x)) /\ IsProgram(Exec(x))
  /\ \A x : IsProgram(Term(x)) /\ IsProgram(Kill(x)) /\ IsProgram(NoProc(x))
  /\ \A x : IsProgram(TermUntilGone(x)) /\ IsProgram(AwaitUp(x))
  /\ \A x : x \notin Guarded => IsProgram(Spawn(x))
  /\ \A x : IsProgram(Start(x, x))
  /\ \A x, y : y \notin Guarded => IsProgram(Start(x, y))
  /\ IsProgram(Sleep) /\ IsProgram(Return) /\ IsProgram(Fail) /\ IsProgram(Exit)
<1>1. /\ \A x : IsProgram(Test(x)) /\ IsCondition(Test(x))
      /\ \A x : IsProgram(Need(x)) /\ IsCondition(Need(x))
      /\ \A x : IsProgram(Lack(x)) /\ IsCondition(Lack(x))
      /\ \A x : IsProgram(Open(x)) /\ IsCondition(Open(x))
      /\ \A x : IsProgram(OpenRead(x)) /\ IsCondition(OpenRead(x))
      /\ \A x : IsProgram(HasLine(x)) /\ IsCondition(HasLine(x))
  BY Single DEF Test, Need, Lack, Open, OpenRead, HasLine
<1>2. /\ \A x : IsProgram(Add(x)) /\ IsProgram(Del(x)) /\ IsProgram(Fill(x))
      /\ \A x : IsProgram(Rename(x)) /\ IsProgram(Unlink(x)) /\ IsProgram(Exec(x))
      /\ \A x : IsProgram(Term(x)) /\ IsProgram(Kill(x)) /\ IsProgram(NoProc(x))
      /\ \A x : IsProgram(TermUntilGone(x)) /\ IsProgram(AwaitUp(x))
  BY Single DEF Add, Del, Fill, Rename, Unlink, Exec, Term, Kill, NoProc, TermUntilGone, AwaitUp
<1>3. /\ \A x : x \notin Guarded => IsProgram(Spawn(x))
      /\ IsProgram(Sleep) /\ IsProgram(Return) /\ IsProgram(Fail) /\ IsProgram(Exit)
  BY Single DEF Spawn, Sleep, Return, Fail, Exit
<1>4. /\ \A x : IsProgram(Start(x, x))
      /\ \A x, y : y \notin Guarded => IsProgram(Start(x, y))
  BY Started
<1> QED
  BY <1>1, <1>2, <1>3, <1>4

(* Another skip changes nothing that matters here. *)
LEMMA Reskipped ==
  ASSUME NEW A, NEW c \in Careful(A), NEW k \in Nat
  PROVE  [c EXCEPT !.skip = k] \in Careful(A)
BY DEF Careful

(* A call whose result is dropped or handed on. *)
LEMMA Callees ==
  \A s : /\ IsScript(s) => IsScript(Ignore(s)) /\ IsScript(Call(s))
         /\ IsProgram(s) => IsProgram(Ignore(s)) /\ IsProgram(Call(s))
<1>1. ASSUME NEW s, NEW ops, IsScript(s)
      PROVE  IsScript(ToEnd(s, ops)) /\ (s # <<>> => ToEnd(s, ops) # <<>>)
  <2>1. PICK A : s \in Seq(Careful(A))
    BY <1>1 DEF IsScript
  <2>2. /\ Len(s) \in Nat /\ DOMAIN s = 1 .. Len(s)
        /\ \A i \in 1 .. Len(s) : s[i] \in Careful(A) /\ Len(s) - i + 1 \in Nat
    BY <2>1
  <2>3. \A i \in 1 .. Len(s) : [s[i] EXCEPT !.skip = Len(s) - i + 1] \in Careful(A)
    BY <2>2, Reskipped
  <2>4. ToEnd(s, ops) \in [1 .. Len(s) -> Careful(A)]
    BY <2>2, <2>3 DEF ToEnd
  <2>5. ToEnd(s, ops) \in Seq(Careful(A)) /\ Len(ToEnd(s, ops)) = Len(s)
    BY <2>2, <2>4
  <2> QED
    BY <2>1, <2>5 DEF IsScript
<1> QED
  BY <1>1 DEF Ignore, Call, IsProgram

(* Conditions. *)
LEMMA Branches ==
  /\ \A c, s : IsCondition(c) /\ IsScript(s) => IsProgram(If(c, s))
  /\ \A c, s, t : IsCondition(c) /\ IsScript(s) /\ IsScript(t) => IsProgram(IfElse(c, s, t))
  /\ \A x, s : IsScript(s) => IsProgram(Run(x, s))
<1>1. ASSUME NEW c, NEW s, IsCondition(c), IsScript(s)
      PROVE  IsProgram(If(c, s))
  <2>1. PICK A : \E x \in Careful(A) : c = <<x>>
    BY <1>1 DEF IsCondition
  <2>2. PICK x \in Careful(A) : c = <<x>>
    BY <2>1
  <2>3. Len(s) + 1 \in Nat
    BY <1>1 DEF IsScript
  <2>4. [x EXCEPT !.skip = Len(s) + 1] \in Careful(A)
    BY <2>2, <2>3, Reskipped
  <2> DEFINE d == [x EXCEPT !.skip = Len(s) + 1]
  <2>5. If(c, s) = <<d>> \o s
    BY <2>2 DEF If
  <2> HIDE DEF d
  <2>6. <<d>> \in Seq(Careful(A)) /\ <<d>> # <<>>
    BY <2>4 DEF d
  <2>7. IsProgram(<<d>>)
    BY <2>6 DEF IsProgram, IsScript
  <2> QED
    BY <1>1, <2>5, <2>7, Joined
<1>2. ASSUME NEW c, NEW s, NEW t, IsCondition(c), IsScript(s), IsScript(t)
      PROVE  IsProgram(IfElse(c, s, t))
  <2>1. PICK A : \E x \in Careful(A) : c = <<x>>
    BY <1>2 DEF IsCondition
  <2>2. PICK x \in Careful(A) : c = <<x>>
    BY <2>1
  <2>3. Len(t) + 1 \in Nat
    BY <1>2 DEF IsScript
  <2> DEFINE B == A \union {"jump"}
             d == [c[1] EXCEPT !.op = "jump", !.skip = Len(t) + 1]
  <2>4. d \in [op : B, arg : B, exe : B, skip : Nat] /\ d.op = "jump"
    BY <2>2, <2>3 DEF Careful
  <2>5. IfElse(c, s, t) = If(c, s \o <<d>>) \o t
    BY DEF IfElse
  <2> HIDE DEF B, d
  <2>6. d \in Careful(B)
    BY <2>4 DEF Careful
  <2>7. <<d>> \in Seq(Careful(B))
    BY <2>6
  <2>8. IsScript(<<d>>)
    BY <2>7 DEF IsScript
  <2> QED
    BY <1>1, <1>2, <2>5, <2>8, Joined
<1> QED
  BY <1>1, <1>2, Commands DEF Run

(* A condition of several commands. *)
LEMMA ReadyBranches ==
  \A r, s, t : IsScript(r) /\ IsScript(s) /\ IsScript(t) => IsScript(IfReady(r, s, t))
<1> SUFFICES ASSUME NEW r, NEW s, NEW t, IsScript(r), IsScript(s), IsScript(t)
             PROVE  IsScript(IfReady(r, s, t))
  OBVIOUS
<1> DEFINE d == [Cmd("jump", "") EXCEPT !.skip = Len(t) + 1]
           then == s \o <<d>>
           q == [i \in DOMAIN r |-> [r[i] EXCEPT !.skip = Len(r) - i + 1 + Len(then)]]
<1>1. IfReady(r, s, t) = (q \o then) \o t
  BY DEF IfReady
<1>2. IsScript(<<d>>)
  <2> DEFINE A == {"jump", ""}
  <2>1. Len(t) + 1 \in Nat
    BY DEF IsScript
  <2>2. d \in [op : A, arg : A, exe : A, skip : Nat] /\ d.op = "jump"
    BY <2>1 DEF Cmd
  <2> HIDE DEF A, d
  <2>3. d \in Careful(A)
    BY <2>2 DEF Careful
  <2>4. <<d>> \in Seq(Careful(A))
    BY <2>3
  <2> QED
    BY <2>4 DEF IsScript
<1> HIDE DEF d
<1>3. IsScript(then)
  BY <1>2, Joined
<1> HIDE DEF then
<1>4. IsScript(q)
  <2>1. PICK A : r \in Seq(Careful(A))
    BY DEF IsScript
  <2>2. Len(then) \in Nat
    BY <1>3 DEF IsScript
  <2>3. /\ Len(r) \in Nat /\ DOMAIN r = 1 .. Len(r)
        /\ \A i \in 1 .. Len(r) : r[i] \in Careful(A) /\ Len(r) - i + 1 + Len(then) \in Nat
    BY <2>1, <2>2
  <2>4. q \in [1 .. Len(r) -> Careful(A)]
    BY <2>3, Reskipped
  <2>5. q \in Seq(Careful(A))
    BY <2>3, <2>4
  <2> QED
    BY <2>5 DEF IsScript
<1> HIDE DEF q
<1> QED
  BY <1>1, <1>3, <1>4, Joined

(* An empty part, a part for some action words, a file that is written. *)
LEMMA Parts ==
  /\ IsScript(<<>>)
  /\ \A s : IsProgram(s) => IsScript(s)
  /\ \A act, acts, s : IsScript(s) => IsScript(On(act, acts, s))
  /\ \A act, acts : IsScript(NoAct(act, acts))
  /\ \A f : IsProgram(WriteFile(f)) /\ IsProgram(MkDir(f))
  /\ \A f, flag, flags : IsProgram(Fonly(f, flag, flags))
  /\ IsProgram(InitApi)
<1>1. IsScript(<<>>)
  <2>1. <<>> \in Seq(Careful({}))
    OBVIOUS
  <2> QED
    BY <2>1 DEF IsScript
<1>2. \A act, acts, s : IsScript(s) => IsScript(On(act, acts, s))
  BY <1>1 DEF On
<1>3. \A s : IsProgram(s) => IsScript(s)
  BY DEF IsProgram
<1>4. \A act, acts : IsScript(NoAct(act, acts))
  BY <1>2, <1>3, Commands DEF NoAct
<1>5. \A f : IsProgram(WriteFile(f)) /\ IsProgram(MkDir(f))
  BY <1>3, Joined, Commands DEF WriteFile, MkDir
<1>6. \A f, flag, flags : IsProgram(Fonly(f, flag, flags))
  BY <1>2, <1>3, Joined, Commands DEF Fonly
<1> QED
  BY <1>1, <1>2, <1>3, <1>4, <1>5, <1>6, Commands DEF InitApi

-----------------------------------------------------------------------------
(* The scripts *)

(* ezcd/src/pop, whatever the flag. *)
LEMMA Populating ==
  /\ \A f : IsScript(pop_etc_banner(f))
  /\ \A f : IsScript(pop_etc_cgconfig_conf(f))
  /\ \A f : IsScript(pop_etc_freeradius2_clients_conf(f))
  /\ \A f : IsScript(pop_etc_freeradius2_dictionary(f))
  /\ \A f : IsScript(pop_etc_freeradius2_eap_conf(f))
  /\ \A f : IsScript(pop_etc_freeradius2_radiusd_conf(f))
  /\ \A f : IsScript(pop_etc_inittab(f))
  /\ \A f : IsScript(pop_etc_mdev_conf(f))
  /\ \A f : IsScript(pop_etc_ppp_pppoe_server_options(f))
  /\ \A f : IsScript(pop_etc_ppp_rp_pppoe_options(f))
  /\ \A f : IsScript(pop_etc_profile(f))
  /\ \A f : IsScript(pop_etc_protocols(f))
  /\ \A f : IsScript(pop_etc_hostname(f))
  /\ \A f : IsScript(pop_etc_cgrules_conf(f))
  /\ \A f : IsScript(pop_etc_chilli_conf(f))
  /\ \A f : IsScript(pop_etc_lxc_lxc_conf(f))
  /\ \A f : IsScript(pop_etc_mactab(f))
  /\ \A f : IsScript(pop_etc_dhid_conf(f))
  /\ \A f : IsScript(pop_etc_dhis_db(f))
  /\ \A f : IsScript(pop_etc_dhisd_conf(f))
  /\ \A f : IsScript(pop_etc_dnsmasq_conf(f))
  /\ \A f : IsScript(pop_etc_radvd_conf(f))
  /\ \A f : IsScript(pop_etc_group(f))
  /\ \A f : IsScript(pop_etc_passwd(f))
  /\ \A f : IsScript(pop_etc_dillo_dillorc(f))
  /\ \A f : IsScript(pop_etc_hosts(f))
  /\ \A f : IsScript(pop_etc_network_interfaces(f))
  /\ \A f : IsScript(pop_etc_modules(f))
  /\ \A f : IsScript(pop_etc_iptables_modules(f))
  /\ \A f : IsScript(pop_etc_ppp_chap_secrets(f))
  /\ \A f : IsScript(pop_etc_ppp_pap_secrets(f))
  /\ \A f : IsScript(pop_etc_iptables_firewall(f))
  /\ \A f : IsScript(pop_etc_resolv_conf(f))
  /\ \A f : IsScript(pop_etc_ssl_openssl_cnf(f))
  /\ \A f : IsScript(pop_etc_keys_data_partition_key(f))
  /\ \A f : IsScript(pop_etc_ezcd_conf(f))
  /\ \A f : IsScript(pop_etc_mtab(f))
  /\ \A f : IsScript(pop_etc_ezcfg_igrsd(f))
  /\ \A f : IsScript(pop_etc_wpa_supplicant_conf(f))
  /\ \A f : IsScript(pop_etc_l7_protocols(f))
<1> USE Joined, Commands, Callees, Branches, Parts
<1>1. /\ \A f : IsScript(pop_etc_banner(f))
      /\ \A f : IsScript(pop_etc_cgconfig_conf(f))
      /\ \A f : IsScript(pop_etc_freeradius2_clients_conf(f))
      /\ \A f : IsScript(pop_etc_freeradius2_dictionary(f))
      /\ \A f : IsScript(pop_etc_freeradius2_eap_conf(f))
      /\ \A f : IsScript(pop_etc_freeradius2_radiusd_conf(f))
  BY DEF pop_etc_banner, pop_etc_cgconfig_conf, pop_etc_freeradius2_clients_conf,
         pop_etc_freeradius2_dictionary, pop_etc_freeradius2_eap_conf,
         pop_etc_freeradius2_radiusd_conf
<1>2. /\ \A f : IsScript(pop_etc_inittab(f))
      /\ \A f : IsScript(pop_etc_mdev_conf(f))
      /\ \A f : IsScript(pop_etc_ppp_pppoe_server_options(f))
      /\ \A f : IsScript(pop_etc_ppp_rp_pppoe_options(f))
      /\ \A f : IsScript(pop_etc_profile(f))
      /\ \A f : IsScript(pop_etc_protocols(f))
  BY DEF pop_etc_inittab, pop_etc_mdev_conf, pop_etc_ppp_pppoe_server_options,
         pop_etc_ppp_rp_pppoe_options, pop_etc_profile, pop_etc_protocols
<1>3. /\ \A f : IsScript(pop_etc_hostname(f))
      /\ \A f : IsScript(pop_etc_cgrules_conf(f))
      /\ \A f : IsScript(pop_etc_chilli_conf(f))
      /\ \A f : IsScript(pop_etc_lxc_lxc_conf(f))
      /\ \A f : IsScript(pop_etc_mactab(f))
      /\ \A f : IsScript(pop_etc_dhid_conf(f))
  BY DEF pop_etc_hostname, pop_etc_cgrules_conf, pop_etc_chilli_conf, pop_etc_lxc_lxc_conf,
         pop_etc_mactab, pop_etc_dhid_conf
<1>4. /\ \A f : IsScript(pop_etc_dhis_db(f))
      /\ \A f : IsScript(pop_etc_dhisd_conf(f))
      /\ \A f : IsScript(pop_etc_dnsmasq_conf(f))
      /\ \A f : IsScript(pop_etc_radvd_conf(f))
      /\ \A f : IsScript(pop_etc_group(f))
      /\ \A f : IsScript(pop_etc_passwd(f))
  BY DEF pop_etc_dhis_db, pop_etc_dhisd_conf, pop_etc_dnsmasq_conf, pop_etc_radvd_conf,
         pop_etc_group, pop_etc_passwd
<1>5. /\ \A f : IsScript(pop_etc_dillo_dillorc(f))
      /\ \A f : IsScript(pop_etc_hosts(f))
      /\ \A f : IsScript(pop_etc_network_interfaces(f))
      /\ \A f : IsScript(pop_etc_modules(f))
      /\ \A f : IsScript(pop_etc_iptables_modules(f))
      /\ \A f : IsScript(pop_etc_ppp_chap_secrets(f))
  BY DEF pop_etc_dillo_dillorc, pop_etc_hosts, pop_etc_network_interfaces, pop_etc_modules,
         pop_etc_iptables_modules, pop_etc_ppp_chap_secrets
<1>6. /\ \A f : IsScript(pop_etc_ppp_pap_secrets(f))
      /\ \A f : IsScript(pop_etc_iptables_firewall(f))
      /\ \A f : IsScript(pop_etc_resolv_conf(f))
      /\ \A f : IsScript(pop_etc_ssl_openssl_cnf(f))
      /\ \A f : IsScript(pop_etc_keys_data_partition_key(f))
      /\ \A f : IsScript(pop_etc_ezcd_conf(f))
  BY DEF pop_etc_ppp_pap_secrets, pop_etc_iptables_firewall, pop_etc_resolv_conf,
         pop_etc_ssl_openssl_cnf, pop_etc_keys_data_partition_key, pop_etc_ezcd_conf
<1>7. /\ \A f : IsScript(pop_etc_mtab(f))
      /\ \A f : IsScript(pop_etc_ezcfg_igrsd(f))
      /\ \A f : IsScript(pop_etc_wpa_supplicant_conf(f))
      /\ \A f : IsScript(pop_etc_l7_protocols(f))
  BY DEF pop_etc_mtab, pop_etc_ezcfg_igrsd, pop_etc_wpa_supplicant_conf, pop_etc_l7_protocols
<1> QED
  BY <1>1, <1>2, <1>3, <1>4, <1>5, <1>6, <1>7

(* The device descriptions of the upnp service. *)
LEMMA PopulatingUpnpd ==
  /\ \A f : IsScript(gen_igd1_InternetGatewayDevice1_xml(f))
  /\ \A f : IsScript(gen_igd1_service_Layer3Forwarding1_xml(f))
  /\ \A f : IsScript(gen_igd1_service_WANCommonInterfaceConfig1_xml(f))
  /\ \A f : IsScript(gen_igd1_service_WANEthernetLinkConfig1_xml(f))
  /\ \A f : IsScript(gen_igd1_service_WANPPPConnection1_xml(f))
  /\ \A f : IsScript(gen_igd1_service_WANIPConnection1_xml(f))
  /\ \A f : IsScript(gen_igd1_service_LANHostConfigManagement1_xml(f))
<1> USE Joined, Commands, Callees, Branches, Parts
<1>1. /\ \A f : IsScript(gen_igd1_InternetGatewayDevice1_xml(f))
      /\ \A f : IsScript(gen_igd1_service_Layer3Forwarding1_xml(f))
      /\ \A f : IsScript(gen_igd1_service_WANCommonInterfaceConfig1_xml(f))
      /\ \A f : IsScript(gen_igd1_service_WANEthernetLinkConfig1_xml(f))
      /\ \A f : IsScript(gen_igd1_service_WANPPPConnection1_xml(f))
      /\ \A f : IsScript(gen_igd1_service_WANIPConnection1_xml(f))
      /\ \A f : IsScript(gen_igd1_service_LANHostConfigManagement1_xml(f))
  BY DEF gen_igd1_InternetGatewayDevice1_xml, gen_igd1_service_Layer3Forwarding1_xml,
         gen_igd1_service_WANCommonInterfaceConfig1_xml,
         gen_igd1_service_WANEthernetLinkConfig1_xml, gen_igd1_service_WANPPPConnection1_xml,
         gen_igd1_service_WANIPConnection1_xml, gen_igd1_service_LANHostConfigManagement1_xml
<1> QED
  BY <1>1

(* The directories of the upnp service. *)
LEMMA PopulatingUpnpdDirs == \A f : IsScript(pop_etc_ezcfg_upnpd(f))
<1>1. \A f : IsScript(pop_etc_ezcfg_upnpd_igd1(f))
  BY PopulatingUpnpd, Joined, Commands, Parts DEF pop_etc_ezcfg_upnpd_igd1
<1> QED
  BY <1>1, Joined, Commands, Parts DEF pop_etc_ezcfg_upnpd

(* ezcd/src/rcso/rc_*.c, for every word. *)
LEMMA RcFunctionsGuard ==
  /\ \A act : IsProgram(rc_dnsmasq(act))
  /\ \A act : IsProgram(rc_dhid(act))
  /\ \A act : IsProgram(rc_dhisd(act))
  /\ \A act : IsProgram(rc_pppoe_server(act))
  /\ \A act : IsProgram(rc_freeradius2_server(act))
  /\ \A act : IsProgram(rc_wpa_supplicant(act))
  /\ \A act : IsProgram(rc_radvd(act))
  /\ \A act : IsProgram(rc_dillo(act))
  /\ \A act : IsProgram(rc_telnetd(act))
  /\ \A act : IsProgram(rc_upnp_monitor(act))
  /\ \A act : IsProgram(rc_coova_chilli(act))
  /\ \A act : IsProgram(rc_lxc(act))
  /\ \A act : IsProgram(rc_ezctp(act))
  /\ \A act : IsProgram(rc_ldconfig(act))
  /\ \A act : IsProgram(rc_mdev(act))
  /\ \A act : IsProgram(rc_resolv_conf(act))
  /\ \A act : IsProgram(rc_realtime(act))
  /\ \A act : IsProgram(rc_ezcfg_httpd(act))
  /\ \A act : IsProgram(rc_ezcfg_igrsd(act))
  /\ \A act : IsProgram(rc_ezcfg_upnpd(act))
  /\ \A act : IsProgram(rc_init(act))
  /\ \A act : IsProgram(rc_exec(act))
  /\ \A act : IsProgram(rc_system(act))
  /\ \A act : IsProgram(rc_env(act))
  /\ \A act : IsProgram(rc_bridge(act))
<1> USE Joined, Commands, Parts
<1>1. \A act : IsProgram(rc_dnsmasq(act))
  <2>1. IsScript(Ignore(pop_etc_dnsmasq_conf("start")))
    BY Callees, Populating
  <2> QED
    BY <2>1 DEF rc_dnsmasq
<1>2. \A act : IsProgram(rc_dhid(act))
  <2>1. IsScript(Ignore(pop_etc_dhid_conf("start")))
    BY Callees, Populating
  <2> QED
    BY <2>1 DEF rc_dhid
<1>3. \A act : IsProgram(rc_dhisd(act))
  <2>1. /\ IsScript(Ignore(pop_etc_dhisd_conf("start")))
        /\ IsScript(Ignore(pop_etc_dhis_db("start")))
    BY Callees, Populating
  <2> QED
    BY <2>1 DEF rc_dhisd, Guarded
<1>4. \A act : IsProgram(rc_pppoe_server(act))
  <2>1. IsScript(Ignore(pop_etc_ppp_pppoe_server_options("start")))
    BY Callees, Populating
  <2> QED
    BY <2>1 DEF rc_pppoe_server
<1>5. \A act : IsProgram(rc_freeradius2_server(act))
  <2>1. /\ IsScript(Ignore(pop_etc_freeradius2_radiusd_conf("start")))
        /\ IsScript(Ignore(pop_etc_freeradius2_clients_conf("start")))
        /\ IsScript(Ignore(pop_etc_freeradius2_dictionary("start")))
        /\ IsScript(Ignore(pop_etc_freeradius2_eap_conf("start")))
    BY Callees, Populating
  <2> QED
    BY <2>1 DEF rc_freeradius2_server
<1>6. \A act : IsProgram(rc_wpa_supplicant(act))
  <2>1. IsScript(Ignore(pop_etc_wpa_supplicant_conf("start")))
    BY Callees, Populating
  <2> QED
    BY <2>1 DEF rc_wpa_supplicant
<1>7. \A act : IsProgram(rc_radvd(act))
  <2>1. IsScript(Ignore(pop_etc_radvd_conf("start")))
    BY Callees, Populating
  <2> QED
    BY <2>1 DEF rc_radvd
<1>8. \A act : IsProgram(rc_dillo(act))
  <2>1. IsScript(Ignore(pop_etc_dillo_dillorc("start")))
    BY Callees, Populating
  <2> QED
    BY <2>1 DEF rc_dillo
<1>9. \A act : IsProgram(rc_telnetd(act))
  BY DEF rc_telnetd
<1>10. \A act : IsProgram(rc_upnp_monitor(act))
  BY DEF rc_upnp_monitor, Guarded
<1>11. \A act : IsProgram(rc_coova_chilli(act))
  <2>1. IsScript(Ignore(pop_etc_chilli_conf("start")))
    BY Callees, Populating
  <2> QED
    BY <2>1 DEF rc_coova_chilli
<1>12. \A act : IsProgram(rc_lxc(act))
  <2>1. IsScript(Ignore(pop_etc_lxc_lxc_conf("start")))
    BY Callees, Populating
  <2> QED
    BY <2>1 DEF rc_lxc
<1>13. \A act : IsProgram(rc_ezctp(act))
  BY DEF rc_ezctp
<1>14. \A act : IsProgram(rc_ldconfig(act))
  BY Branches DEF rc_ldconfig
<1>15. \A act : IsProgram(rc_mdev(act))
  <2>1. \A act : IsScript(Ignore(pop_etc_mdev_conf(act)))
    BY Callees, Populating
  <2> QED
    BY <2>1, Branches DEF rc_mdev
<1>16. \A act : IsProgram(rc_resolv_conf(act))
  <2>1. /\ IsScript(Ignore(pop_etc_resolv_conf("stop")))
        /\ IsScript(Ignore(pop_etc_resolv_conf("start")))
    BY Callees, Populating
  <2> QED
    BY <2>1 DEF rc_resolv_conf
<1>17. \A act : IsProgram(rc_realtime(act))
  BY Branches DEF rc_realtime
<1>18. \A act : IsProgram(rc_ezcfg_httpd(act))
  BY DEF rc_ezcfg_httpd, InsertSocket, RemoveSocket
<1>19. \A act : IsProgram(rc_ezcfg_igrsd(act))
  <2>1. \A act : IsScript(Ignore(pop_etc_ezcfg_igrsd(act)))
    BY Callees, Populating
  <2> QED
    BY <2>1 DEF rc_ezcfg_igrsd, InsertSocket, RemoveSocket
<1>20. \A act : IsProgram(rc_ezcfg_upnpd(act))
  <2>1. \A act : IsScript(Ignore(pop_etc_ezcfg_upnpd(act)))
    BY Callees, PopulatingUpnpdDirs
  <2> QED
    BY <2>1 DEF rc_ezcfg_upnpd, InsertSocket, RemoveSocket
<1>21. \A act : IsProgram(rc_init(act))
  <2>1. \A act : IsScript(Ignore(pop_etc_inittab(act)))
    BY Callees, Populating
  <2> QED
    BY <2>1, Branches DEF rc_init
<1>22. \A act : IsProgram(rc_exec(act))
  BY DEF rc_exec
<1>23. \A act : IsProgram(rc_system(act))
  BY DEF rc_system
<1>24. \A act : IsProgram(rc_env(act))
  BY DEF rc_env
<1>25. \A act : IsProgram(rc_bridge(act))
  BY DEF rc_bridge
<1> QED
  BY <1>1, <1>2, <1>3, <1>4, <1>5, <1>6, <1>7, <1>8, <1>9, <1>10, <1>11, <1>12, <1>13, <1>14,
     <1>15, <1>16, <1>17, <1>18, <1>19, <1>20, <1>21, <1>22, <1>23, <1>24, <1>25

(* ezcd/src/utils and the helpers of the actions. *)
LEMMA Utilities ==
  /\ IsScript(utils_boot_partition_is_ready)
  /\ IsScript(utils_data_partition_is_ready)
  /\ IsScript(utils_umount_boot_partition)
  /\ IsScript(utils_mount_boot_partition_readonly)
  /\ IsScript(utils_mount_boot_partition_writable)
  /\ IsScript(utils_mount_data_partition_writable)
  /\ IsScript(utils_umount_data_partition)
  /\ IsScript(utils_mount_dmcrypt_data_partition_writable)
  /\ IsScript(utils_umount_dmcrypt_data_partition)
  /\ IsScript(utils_swap_partition_on)
  /\ IsScript(utils_swap_partition_off)
  /\ IsScript(utils_sync_cfg_with_nvram)
  /\ IsScript(utils_sync_nvram_with_cfg)
  /\ IsScript(utils_remount_boot_partition_readonly)
  /\ IsScript(utils_remount_boot_partition_writable)
  /\ IsScript(generate_fdisk_command)
  /\ IsScript(generate_grub_cfg)
  /\ IsScript(config_wan_static)
  /\ IsScript(deconfig_wan_static)
  /\ IsScript(start_wan)
  /\ IsScript(stop_wan)
  /\ \A d, act : IsScript(OverlayDir(d, act)) /\ IsProgram(InterfaceAction(d, act))
  /\ \A act : IsScript(load_iptables_modules(act)) /\ IsScript(iptables_firewall(act))
  /\ \A act : IsScript(lan_iptables(act)) /\ IsScript(wan_iptables(act))
<1> USE Joined, Commands, Callees, Branches, Parts, Populating
<1>1. /\ IsScript(utils_boot_partition_is_ready)
      /\ IsScript(utils_data_partition_is_ready)
      /\ IsScript(utils_umount_boot_partition)
      /\ IsScript(utils_mount_boot_partition_readonly)
      /\ IsScript(utils_mount_boot_partition_writable)
  BY DEF utils_boot_partition_is_ready, utils_data_partition_is_ready,
         utils_umount_boot_partition, utils_mount_boot_partition_readonly,
         utils_mount_boot_partition_writable
<1>2. /\ IsScript(utils_mount_data_partition_writable)
      /\ IsScript(utils_umount_data_partition)
      /\ IsScript(utils_mount_dmcrypt_data_partition_writable)
      /\ IsScript(utils_umount_dmcrypt_data_partition)
      /\ IsScript(utils_swap_partition_on)
  BY DEF utils_mount_data_partition_writable, utils_umount_data_partition,
         utils_mount_dmcrypt_data_partition_writable, utils_umount_dmcrypt_data_partition,
         utils_swap_partition_on
<1>3. /\ IsScript(utils_swap_partition_off)
      /\ IsScript(utils_sync_cfg_with_nvram)
      /\ IsScript(utils_sync_nvram_with_cfg)
  BY DEF utils_swap_partition_off, utils_sync_cfg_with_nvram, utils_sync_nvram_with_cfg
<1>4. /\ IsScript(utils_remount_boot_partition_readonly)
      /\ IsScript(utils_remount_boot_partition_writable)
      /\ IsScript(generate_fdisk_command)
      /\ IsScript(generate_grub_cfg)
      /\ IsScript(config_wan_static)
  BY <1>1, <1>2, <1>3 DEF utils_remount_boot_partition_readonly,
         utils_remount_boot_partition_writable, generate_fdisk_command, generate_grub_cfg,
         config_wan_static
<1>5. /\ IsScript(deconfig_wan_static)
  BY <1>1, <1>2, <1>3 DEF deconfig_wan_static
<1>6. /\ IsScript(start_wan)
      /\ IsScript(stop_wan)
  BY <1>4, <1>5 DEF start_wan, stop_wan
<1>7. \A d, act : IsScript(OverlayDir(d, act)) /\ IsProgram(InterfaceAction(d, act))
  BY DEF OverlayDir, InterfaceAction
<1>8. \A act : IsScript(load_iptables_modules(act)) /\ IsScript(iptables_firewall(act))
  BY DEF load_iptables_modules, iptables_firewall
<1>9. \A act : IsScript(lan_iptables(act)) /\ IsScript(wan_iptables(act))
  BY DEF lan_iptables, wan_iptables
<1> QED
  BY <1>1, <1>2, <1>3, <1>4, <1>5, <1>6, <1>7, <1>8, <1>9

(* ezcd/src/rcso/env_action_*.c, for every word. *)
LEMMA ActionsGuard ==
  /\ \A act : IsProgram(env_action_data_partition(act))
  /\ \A act : IsProgram(env_action_dmcrypt_data_partition(act))
  /\ \A act : IsProgram(env_action_data_storage(act))
  /\ \A act : IsProgram(env_action_overlay_rootfs(act))
  /\ \A act : IsProgram(env_action_swap_partition(act))
  /\ \A act : IsProgram(env_action_nvram(act))
  /\ \A act : IsProgram(env_action_preboot(act))
  /\ \A act : IsProgram(env_action_bootstrap(act))
  /\ \A act : IsProgram(env_action_load_modules(act))
  /\ \A act : IsProgram(env_action_loopback(act))
  /\ \A act : IsProgram(env_action_eth_lan_if(act))
  /\ \A act : IsProgram(env_action_eth_wan_if(act))
  /\ \A act : IsProgram(env_action_wan_if(act))
  /\ \A act : IsProgram(env_action_wifi_lan_if(act))
  /\ \A act : IsProgram(env_action_lan(act))
  /\ \A act : IsProgram(env_action_br_lan_if(act))
  /\ \A act : IsProgram(env_action_wan(act))
  /\ \A act : IsProgram(env_action_klogd(act))
  /\ \A act : IsProgram(env_action_syslogd(act))
  /\ \A act : IsProgram(env_action_ppp_rp_pppoe(act))
  /\ \A act : IsProgram(env_action_shelld(act))
  /\ \A act : IsProgram(env_action_base_files(act))
  /\ \A act : IsProgram(env_action_cgroup(act))
  /\ \A act : IsProgram(env_action_netbase(act))
  /\ \A act : IsProgram(env_action_openssl(act))
  /\ \A act : IsProgram(env_action_ppp_chap_secrets(act))
  /\ \A act : IsProgram(env_action_ppp_pap_secrets(act))
  /\ \A act : IsProgram(env_action_login(act))
  /\ \A act : IsProgram(env_action_mount_system_fs(act))
  /\ \A act : IsProgram(env_action_udev_pop_nodes(act))
  /\ \A act : IsProgram(env_action_ezcm(act))
  /\ \A act : IsProgram(env_action_state(act))
  /\ \A act : IsProgram(env_action_system(act))
<1> USE Joined, Commands, Parts
<1>1. \A act : IsProgram(env_action_data_partition(act))
  <2>1. /\ IsScript(Ignore(utils_mount_data_partition_writable))
        /\ IsScript(Ignore(utils_umount_data_partition))
    BY Callees, Utilities
  <2> QED
    BY <2>1, Utilities DEF env_action_data_partition
<1>2. \A act : IsProgram(env_action_dmcrypt_data_partition(act))
  <2>1. /\ IsScript(Ignore(pop_etc_keys_data_partition_key("boot")))
        /\ IsScript(Ignore(utils_mount_dmcrypt_data_partition_writable))
        /\ IsScript(Ignore(pop_etc_keys_data_partition_key("stop")))
        /\ IsScript(Ignore(utils_umount_dmcrypt_data_partition))
    BY Callees, Populating, Utilities
  <2> QED
    BY <2>1, Utilities DEF env_action_dmcrypt_data_partition
<1>3. \A act : IsProgram(env_action_data_storage(act))
  BY Utilities DEF env_action_data_storage
<1>4. \A act : IsProgram(env_action_overlay_rootfs(act))
  BY Utilities DEF env_action_overlay_rootfs
<1>5. \A act : IsProgram(env_action_swap_partition(act))
  <2>1. /\ IsScript(Ignore(utils_swap_partition_on))
        /\ IsScript(Ignore(utils_swap_partition_off))
    BY Callees, Utilities
  <2> QED
    BY <2>1, Utilities DEF env_action_swap_partition
<1>6. \A act : IsProgram(env_action_nvram(act))
  <2>1. /\ IsScript(Call(utils_sync_nvram_with_cfg))
        /\ IsScript(Ignore(utils_remount_boot_partition_writable))
        /\ IsScript(Ignore(utils_sync_cfg_with_nvram))
        /\ IsScript(Ignore(utils_remount_boot_partition_readonly))
    BY Callees, Utilities
  <2> QED
    BY <2>1 DEF env_action_nvram
<1>7. \A act : IsProgram(env_action_preboot(act))
  <2>1. /\ IsScript(Ignore(utils_mount_boot_partition_writable))
        /\ IsScript(Ignore(utils_umount_boot_partition))
        /\ IsScript(Ignore(utils_remount_boot_partition_readonly))
    BY Callees, Utilities
  <2>2. IsScript(SwitchRoot)
    BY Callees, Branches DEF SwitchRoot, utils_switch_root_device
  <2>3. IsScript(RestoreBootCfg)
    BY Branches DEF RestoreBootCfg
  <2> QED
    BY <2>1, <2>2, <2>3, Branches, ReadyBranches, Callees, Utilities DEF env_action_preboot
<1>8. \A act : IsProgram(env_action_bootstrap(act))
  <2>1. /\ IsScript(Ignore(generate_fdisk_command))
        /\ IsScript(Ignore(generate_grub_cfg))
    BY Callees, Utilities
  <2> QED
    BY <2>1, Branches DEF env_action_bootstrap
<1>9. \A act : IsProgram(env_action_load_modules(act))
  <2>1. \A act : IsScript(Ignore(pop_etc_modules(act)))
    BY Callees, Populating
  <2> QED
    BY <2>1, Branches DEF env_action_load_modules
<1>10. \A act : IsProgram(env_action_loopback(act))
  BY Utilities DEF env_action_loopback
<1>11. \A act : IsProgram(env_action_eth_lan_if(act))
  BY Utilities DEF env_action_eth_lan_if
<1>12. \A act : IsProgram(env_action_eth_wan_if(act))
  BY Utilities DEF env_action_eth_wan_if
<1>13. \A act : IsProgram(env_action_wan_if(act))
  BY Utilities DEF env_action_wan_if
<1>14. \A act : IsProgram(env_action_wifi_lan_if(act))
  BY Utilities DEF env_action_wifi_lan_if
<1>15. \A act : IsProgram(env_action_lan(act))
  BY Utilities DEF env_action_lan
<1>16. \A act : IsProgram(env_action_br_lan_if(act))
  BY Branches DEF env_action_br_lan_if
<1>17. \A act : IsProgram(env_action_wan(act))
  BY Utilities DEF env_action_wan
<1>18. \A act : IsProgram(env_action_klogd(act))
  BY DEF env_action_klogd
<1>19. \A act : IsProgram(env_action_syslogd(act))
  BY DEF env_action_syslogd
<1>20. \A act : IsProgram(env_action_ppp_rp_pppoe(act))
  <2>1. IsScript(Ignore(pop_etc_ppp_rp_pppoe_options("start")))
    BY Callees, Populating
  <2> QED
    BY <2>1 DEF env_action_ppp_rp_pppoe
<1>21. \A act : IsProgram(env_action_shelld(act))
  BY DEF env_action_shelld, Guarded
<1>22. \A act : IsProgram(env_action_base_files(act))
  <2>1. /\ IsScript(Ignore(pop_etc_hostname("start")))
        /\ IsScript(Ignore(pop_etc_profile("start")))
        /\ IsScript(Ignore(pop_etc_banner("start")))
        /\ IsScript(Ignore(pop_etc_mtab("start")))
    BY Callees, Populating
  <2> QED
    BY <2>1 DEF env_action_base_files
<1>23. \A act : IsProgram(env_action_cgroup(act))
  <2>1. /\ IsScript(Ignore(pop_etc_cgconfig_conf("start")))
        /\ IsScript(Ignore(pop_etc_cgrules_conf("start")))
    BY Callees, Populating
  <2> QED
    BY <2>1 DEF env_action_cgroup
<1>24. \A act : IsProgram(env_action_netbase(act))
  <2>1. /\ IsScript(Ignore(pop_etc_network_interfaces("start")))
        /\ IsScript(Ignore(pop_etc_hosts("start")))
        /\ IsScript(Ignore(pop_etc_protocols("start")))
        /\ IsScript(Ignore(pop_etc_mactab("start")))
    BY Callees, Populating
  <2> QED
    BY <2>1 DEF env_action_netbase
<1>25. \A act : IsProgram(env_action_openssl(act))
  <2>1. /\ IsScript(Ignore(pop_etc_ssl_openssl_cnf("stop")))
        /\ IsScript(Ignore(pop_etc_ssl_openssl_cnf("start")))
    BY Callees, Populating
  <2> QED
    BY <2>1 DEF env_action_openssl
<1>26. \A act : IsProgram(env_action_ppp_chap_secrets(act))
  <2>1. /\ IsScript(Ignore(pop_etc_ppp_chap_secrets("stop")))
        /\ IsScript(Ignore(pop_etc_ppp_chap_secrets("start")))
    BY Callees, Populating
  <2> QED
    BY <2>1 DEF env_action_ppp_chap_secrets
<1>27. \A act : IsProgram(env_action_ppp_pap_secrets(act))
  <2>1. /\ IsScript(Ignore(pop_etc_ppp_pap_secrets("stop")))
        /\ IsScript(Ignore(pop_etc_ppp_pap_secrets("start")))
    BY Callees, Populating
  <2> QED
    BY <2>1 DEF env_action_ppp_pap_secrets
<1>28. \A act : IsProgram(env_action_login(act))
  <2>1. /\ \A act : IsScript(Ignore(pop_etc_passwd(act)))
        /\ \A act : IsScript(Ignore(pop_etc_group(act)))
    BY Callees, Populating
  <2> QED
    BY <2>1, Branches DEF env_action_login
<1>29. \A act : IsProgram(env_action_mount_system_fs(act))
  BY Branches DEF env_action_mount_system_fs
<1>30. \A act : IsProgram(env_action_udev_pop_nodes(act))
  BY DEF env_action_udev_pop_nodes
<1>31. \A act : IsProgram(env_action_ezcm(act))
  BY DEF env_action_ezcm
<1>32. \A act : IsProgram(env_action_state(act))
  BY DEF env_action_state
<1>33. \A act : IsProgram(env_action_system(act))
  BY DEF env_action_system
<1> QED
  BY <1>1, <1>2, <1>3, <1>4, <1>5, <1>6, <1>7, <1>8, <1>9, <1>10, <1>11, <1>12, <1>13, <1>14,
     <1>15, <1>16, <1>17, <1>18, <1>19, <1>20, <1>21, <1>22, <1>23, <1>24, <1>25, <1>26, <1>27,
     <1>28, <1>29, <1>30, <1>31, <1>32, <1>33

(* The actions on ezcd itself, and on the firewall. *)
LEMMA OtherActionsGuard ==
  /\ \A act \in RcActs : IsProgram(env_action_ezcd(act))
  /\ \A act : \A part \in {"load", "firewall", "lan", "wan"} : IsProgram(env_action_iptables(part, act))
<1> USE Joined, Commands, Callees, Parts, Populating, Utilities
<1>1. ASSUME NEW act \in RcActs
      PROVE  IsProgram(env_action_ezcd(act))
  <2> DEFINE s1 == InitApi \o NoAct(act, {"boot", "stop", "reload"})
             s2 == On(act, {"boot", "reload"}, Ignore(pop_etc_ezcd_conf(act)))
             s3 == On(act, {"boot"}, Spawn("ezcd"))
             s4 == On(act, {"boot", "reload"}, AwaitUp("ezcd"))
             s5 == On(act, {"stop"}, TermUntilGone("ezcd"))
  <2>1. IsScript(s1) /\ IsScript(s2) /\ IsScript(s3) /\ IsScript(s4) /\ IsScript(s5)
    BY DEF Guarded
  <2>2. IsProgram(s1)
    OBVIOUS
  <2>3. env_action_ezcd(act) = s1 \o s2 \o s3 \o s4 \o s5
    BY DEF env_action_ezcd
  <2> HIDE DEF s1, s2, s3, s4, s5
  <2> QED
    BY <2>1, <2>2, <2>3
<1>2. \A act : \A part \in {"load", "firewall", "lan", "wan"} : IsProgram(env_action_iptables(part, act))
  BY DEF env_action_iptables
<1> QED
  BY <1>1, <1>2

(* Every action that can be called by name. *)
LEMMA CallsGuard ==
  \A name \in ActionFunctions, act \in RcActs : IsProgram(call_action_function(name, act))
BY ActionsGuard, OtherActionsGuard DEF ActionFunctions, call_action_function

(* Every rc function that can be loaded. *)
LEMMA LoadsGuard == \A name \in RcFunctions : \A act : IsProgram(rc_function(name, act))
BY RcFunctionsGuard DEF RcFunctions, rc_function

(* The script of every job is a program that looks before it starts. *)
LEMMA ScriptsGuard == \A job \in UNION JobFamilies : IsProgram(Script(job))
<1> SUFFICES ASSUME NEW job \in UNION JobFamilies
             PROVE  IsProgram(Script(job))
  OBVIOUS
<1>1. /\ job[1] \in {"agent"} \union RcFunctions \union ActionFunctions
      /\ job[2] \in RcActs
  BY RcAssumption
<1>2. IsProgram(rc_agent(job[2]))
  <2>1. \A name \in ActionFunctions : IsScript(AgentLine(name, "stop"))
    BY CallsGuard, Callees, Parts DEF AgentLine, RcActs
  <2>2. IsScript(agent_stop_file)
    BY <2>1, Joined DEF agent_stop_file, ActionFunctions
  <2> QED
    BY <2>2, Joined, Commands, Parts DEF rc_agent
<1> QED
  BY <1>1, <1>2, LoadsGuard, CallsGuard DEF Script

-----------------------------------------------------------------------------
(* The rc programs *)

Pcs == {"idle", "sem", "delay", "run", "launch", "release", "dequeue", "gone"}
InScript == {"run", "launch"}
Jobs == {Idle.job} \union (UNION JobFamilies)
JobScripts == {Script(job) : job \in UNION JobFamilies} \union {<<>>}
RcRecord == [pc : Pcs, job : Jobs, script : JobScripts, i : Nat, ver : Nat, ok : BOOLEAN]

(* Types of what rc_main() works on, and where a program is in its script. *)
RcInv ==
  /\ jobs \subseteq UNION JobFamilies
  /\ nvver \in Nat /\ sem \in Nat /\ queue \in Int
  /\ rc \in [Rcs -> RcRecord]
  /\ \A r \in Rcs :
       /\ rc[r].pc \in {"sem", "delay"} => rc[r].script # <<>>
       /\ rc[r].pc \in InScript => rc[r].i \in 1 .. Len(rc[r].script)

(* A program about to launch a guarded daemon has seen none, and nobody    *)
(* else can have started one since.                                        *)
ProcInv ==
  /\ procs \in [ProcNames -> [up : Nat, term : Nat, kill : Nat]]
  /\ \A r \in Rcs :
       rc[r].pc = "launch" =>
         /\ Command(r).op = "start"
         /\ Command(r).exe \in Guarded => Gone(Command(r).exe)

(* The inductive invariant. *)
IndInv == RcInv /\ GivesBackWhatItTook /\ ProcInv /\ SingleInstance

(* Only program r goes on. *)
Others(r) == \A q \in Rcs : q # r => rc'[q] = rc[q]

(* An idle program. *)
LEMMA IdleRecord == Idle \in RcRecord /\ Idle.pc = "idle"
<1>1. \A S, x : x \in S \union {x}
  OBVIOUS
<1>2. Idle.job \in Jobs
  BY DEF Jobs
<1>3. <<>> \in JobScripts
  BY <1>1, Zenon DEF JobScripts
<1>4. "idle" \in Pcs
  BY DEF Pcs
<1> QED
  BY <1>2, <1>3, <1>4 DEF Idle, RcRecord

(* A program in its script is at one of its commands. *)
LEMMA CommandFacts ==
  ASSUME RcInv, NEW r \in Rcs, rc[r].pc \in InScript
  PROVE  /\ Command(r).skip \in Nat
         /\ Command(r).op = "start" /\ Command(r).exe \in Guarded => Command(r).arg = Command(r).exe
         /\ Command(r).op = "spawn" => Command(r).arg \notin Guarded
<1>1. rc[r].i \in 1 .. Len(rc[r].script) /\ rc[r].script \in JobScripts
  BY DEF RcInv, RcRecord
<1>2. IsScript(rc[r].script)
  BY <1>1, ScriptsGuard, Parts DEF JobScripts
<1>3. PICK A : rc[r].script \in Seq(Careful(A))
  BY <1>2 DEF IsScript
<1>4. Command(r) \in Careful(A)
  BY <1>1, <1>3 DEF Command
<1> QED
  BY <1>4 DEF Careful

(* Leaving a script or going on in it. *)
LEMMA ScriptMoves ==
  ASSUME RcInv, NEW r \in Rcs, rc[r].pc \in InScript, UNCHANGED NotScripted,
         \/ \E b \in BOOLEAN : Leave(r, b)
         \/ rc[r].pc = "run" /\ \E k \in Nat : Advance(r, k)
         \/ rc[r].pc = "run" /\ Refuse(r)
         \/ rc' = rc
         \/ rc' = [rc EXCEPT ![r].pc = "launch"]
         \/ rc' = [rc EXCEPT ![r].pc = "gone"]
         \/ rc[r].i # Len(rc[r].script) /\ rc' = [rc EXCEPT ![r].pc = "run", ![r].i = @ + 1]
  PROVE  /\ RcInv' /\ Others(r)
         /\ rc'[r].pc \in {"run", "launch", "release", "gone"}
         /\ rc'[r].pc = "launch" => \/ rc' = rc
                                    \/ rc' = [rc EXCEPT ![r].pc = "launch"]
<1> DEFINE Good == /\ rc' \in [Rcs -> RcRecord] /\ Others(r)
                   /\ rc'[r].pc \in {"run", "launch", "release", "gone"}
                   /\ rc'[r].pc \in InScript => rc'[r].i \in 1 .. Len(rc'[r].script)
                   /\ rc'[r].pc = "launch" => \/ rc' = rc
                                              \/ rc' = [rc EXCEPT ![r].pc = "launch"]
<1>0. /\ rc \in [Rcs -> RcRecord] /\ rc[r] \in RcRecord
      /\ rc[r].i \in 1 .. Len(rc[r].script) /\ rc[r].i \in Nat /\ Len(rc[r].script) \in Nat
  <2>1. rc \in [Rcs -> RcRecord] /\ rc[r] \in RcRecord /\ rc[r].i \in 1 .. Len(rc[r].script)
    BY DEF RcInv
  <2>2. IsScript(rc[r].script)
    BY <2>1, ScriptsGuard, Parts DEF JobScripts, RcRecord
  <2>3. Len(rc[r].script) \in Nat
    BY <2>2 DEF IsScript
  <2> QED
    BY <2>1, <2>3
<1>1. ASSUME NEW b \in BOOLEAN, Leave(r, b)
      PROVE  Good
  <2>1. rc' = [rc EXCEPT ![r] = [@ EXCEPT !.pc = "release", !.ok = b, !.script = <<>>, !.i = 0]]
    BY <1>0, <1>1 DEF Leave
  <2>2. [rc[r] EXCEPT !.pc = "release", !.ok = b, !.script = <<>>, !.i = 0] \in RcRecord
    BY <1>0 DEF RcRecord, JobScripts, Pcs
  <2>3. rc'[r].pc = "release"
    BY <1>0, <2>1 DEF RcRecord
  <2> QED
    BY <1>0, <2>1, <2>2, <2>3 DEF Others, InScript
<1>2. ASSUME NEW k \in Nat, rc[r].pc = "run", Advance(r, k)
      PROVE  Good
  <2>1. CASE rc[r].i + k > Len(rc[r].script)
    BY <1>1, <1>2, <2>1 DEF Advance
  <2>2. CASE ~(rc[r].i + k > Len(rc[r].script))
    <3>1. rc' = [rc EXCEPT ![r] = [@ EXCEPT !.i = rc[r].i + k]]
      BY <1>0, <1>2, <2>2 DEF Advance
    <3>2. rc[r].i + k \in Nat /\ rc[r].i + k \in 1 .. Len(rc[r].script)
      BY <1>0, <2>2
    <3>3. [rc[r] EXCEPT !.i = rc[r].i + k] \in RcRecord
      BY <1>0, <3>2 DEF RcRecord
    <3>4. /\ rc'[r].pc = "run" /\ rc'[r].script = rc[r].script /\ rc'[r].i = rc[r].i + k
      BY <1>0, <1>2, <3>1 DEF RcRecord
    <3> QED
      BY <1>0, <3>1, <3>2, <3>3, <3>4 DEF Others
  <2> QED
    BY <2>1, <2>2
<1>3. ASSUME rc[r].pc = "run", Refuse(r)
      PROVE  Good
  BY <1>1, <1>2, <1>3, CommandFacts DEF Refuse
<1>4. ASSUME rc' = rc
      PROVE  Good
  BY <1>0, <1>4 DEF Others, InScript
<1>5. ASSUME NEW p \in {"launch", "gone"}, rc' = [rc EXCEPT ![r].pc = p]
      PROVE  Good
  <2>1. rc' = [rc EXCEPT ![r] = [@ EXCEPT !.pc = p]]
    BY <1>0, <1>5
  <2>2. [rc[r] EXCEPT !.pc = p] \in RcRecord
    BY <1>0 DEF RcRecord, Pcs
  <2>3. rc'[r].pc = p /\ rc'[r].script = rc[r].script /\ rc'[r].i = rc[r].i
    BY <1>0, <2>1 DEF RcRecord
  <2> QED
    BY <1>0, <1>5, <2>1, <2>2, <2>3 DEF Others, InScript
<1>6. ASSUME rc[r].i # Len(rc[r].script), rc' = [rc EXCEPT ![r].pc = "run", ![r].i = @ + 1]
      PROVE  Good
  <2>1. rc' = [rc EXCEPT ![r] = [@ EXCEPT !.pc = "run", !.i = rc[r].i + 1]]
    BY <1>0, <1>6 DEF RcRecord
  <2>2. rc[r].i + 1 \in Nat /\ rc[r].i + 1 \in 1 .. Len(rc[r].script)
    BY <1>0, <1>6
  <2>3. [rc[r] EXCEPT !.pc = "run", !.i = rc[r].i + 1] \in RcRecord
    BY <1>0, <2>2 DEF RcRecord, Pcs
  <2>4. rc'[r].pc = "run" /\ rc'[r].script = rc[r].script /\ rc'[r].i = rc[r].i + 1
    BY <1>0, <2>1 DEF RcRecord
  <2> QED
    BY <1>0, <2>1, <2>2, <2>3, <2>4 DEF Others
<1>7. Good
  BY <1>1, <1>2, <1>3, <1>4, <1>5, <1>6
<1> HIDE DEF Good
<1>8. RcInv'
  <2>1. rc'[r].pc \notin {"sem", "delay"} /\ Others(r) /\ rc' \in [Rcs -> RcRecord]
        /\ (rc'[r].pc \in InScript => rc'[r].i \in 1 .. Len(rc'[r].script))
    BY <1>7 DEF Good
  <2>2. jobs' = jobs /\ nvver' = nvver /\ sem' = sem /\ queue' = queue
    BY DEF NotScripted
  <2> QED
    BY <2>1, <2>2 DEF RcInv, Others
<1> QED
  BY <1>7, <1>8 DEF Good

(* A command of a script leaves the semaphore and the queue number alone. *)
LEMMA ScriptStepMoves ==
  ASSUME RcInv, NEW r \in Rcs, ScriptStep(r)
  PROVE  /\ RcInv' /\ Others(r)
         /\ rc[r].pc \in InScript /\ rc'[r].pc \in {"run", "launch", "release", "gone"}
         /\ UNCHANGED NotScripted
         /\ rc'[r].pc = "launch" => \/ rc' = rc
                                    \/ LookFor(r) /\ rc' = [rc EXCEPT ![r].pc = "launch"]
<1>1. rc[r].pc \in InScript /\ UNCHANGED NotScripted
  BY DEF ScriptStep, Decide, Jump, Establish, OpenFile, WriteFiles, LookFor, Launch, Signal,
         SleepOne, SignalUntilGone, AwaitProcess, ExecProgram, Running, InScript
<1>2. Command(r).skip \in Nat
  BY <1>1, CommandFacts
<1> DEFINE Went == \/ \E b \in BOOLEAN : Leave(r, b)
                   \/ rc[r].pc = "run" /\ \E k \in Nat : Advance(r, k)
                   \/ rc[r].pc = "run" /\ Refuse(r)
                   \/ rc' = rc
                   \/ LookFor(r) /\ rc' = [rc EXCEPT ![r].pc = "launch"]
                   \/ rc' = [rc EXCEPT ![r].pc = "gone"]
                   \/ /\ rc[r].i # Len(rc[r].script)
                      /\ rc' = [rc EXCEPT ![r].pc = "run", ![r].i = @ + 1]
<1>3. Went
  <2>1. CASE Decide(r) \/ Jump(r) \/ Establish(r) \/ OpenFile(r) \/ WriteFiles(r)
    BY <1>2, <2>1 DEF Decide, Jump, Establish, OpenFile, WriteFiles, Running
  <2>2. CASE LookFor(r)
    BY <2>2 DEF LookFor, Running
  <2>3. CASE Launch(r)
    BY <2>3 DEF Launch
  <2>4. CASE Signal(r) \/ SleepOne(r) \/ SignalUntilGone(r) \/ AwaitProcess(r) \/ ExecProgram(r)
    BY <2>4 DEF Signal, SleepOne, SignalUntilGone, AwaitProcess, ExecProgram, Running
  <2> QED
    BY <2>1, <2>2, <2>3, <2>4 DEF ScriptStep
<1>4. \/ \E b \in BOOLEAN : Leave(r, b)
      \/ rc[r].pc = "run" /\ \E k \in Nat : Advance(r, k)
      \/ rc[r].pc = "run" /\ Refuse(r)
      \/ rc' = rc
      \/ rc' = [rc EXCEPT ![r].pc = "launch"]
      \/ rc' = [rc EXCEPT ![r].pc = "gone"]
      \/ rc[r].i # Len(rc[r].script) /\ rc' = [rc EXCEPT ![r].pc = "run", ![r].i = @ + 1]
  BY <1>3
<1>5. /\ RcInv' /\ Others(r)
      /\ rc'[r].pc \in {"run", "launch", "release", "gone"}
      /\ rc'[r].pc = "launch" => \/ rc' = rc
                                 \/ rc' = [rc EXCEPT ![r].pc = "launch"]
  BY <1>1, <1>4, ScriptMoves
<1>6. ASSUME rc' = [rc EXCEPT ![r].pc = "launch"], rc' # rc
      PROVE  LookFor(r)
  <2>1. rc \in [Rcs -> RcRecord] /\ rc'[r].pc = "launch"
    BY <1>6 DEF RcInv, RcRecord
  <2>2. rc[r].pc = "run"
    <3>1. rc[r].pc # "launch"
      BY <1>6, <2>1 DEF RcRecord
    <3> QED
      BY <1>1, <3>1 DEF InScript
  <2> SUFFICES ASSUME ~LookFor(r)
               PROVE  FALSE
    OBVIOUS
  <2>3. \A b \in BOOLEAN : Leave(r, b) => rc'[r].pc = "release"
    BY <2>1 DEF Leave, RcRecord
  <2>4. \A k \in Nat : Advance(r, k) => rc'[r].pc \in {"run", "release"}
    BY <2>1, <2>2, <2>3 DEF Advance, RcRecord
  <2>5. Refuse(r) => rc'[r].pc \in {"run", "release"}
    BY <1>2, <2>3, <2>4 DEF Refuse
  <2>6. /\ rc' = [rc EXCEPT ![r].pc = "gone"] => rc'[r].pc = "gone"
        /\ rc' = [rc EXCEPT ![r].pc = "run", ![r].i = @ + 1] => rc'[r].pc = "run"
    BY <2>1 DEF RcRecord
  <2> QED
    BY <1>3, <1>6, <2>1, <2>3, <2>4, <2>5, <2>6
<1> QED
  BY <1>1, <1>5, <1>6

(* One rc program moves, and the semaphore and the queue number with it.   *)
Took(r, from, to, s, q) ==
  /\ rc[r].pc \in from /\ rc'[r].pc \in to /\ Others(r)
  /\ sem' = sem + s /\ queue' = queue + q

(* What a step of rc.c does to the semaphore, the queue number and the     *)
(* programs: no other moves than these.                                    *)
LEMMA Moves ==
  ASSUME IndInv, [Next]_vars
  PROVE  /\ RcInv'
         /\ \/ UNCHANGED <<rc, sem, queue>>
            \/ \E r \in Rcs :
                 \/ Took(r, {"idle"}, {"sem"}, 0, 1)
                 \/ Took(r, {"sem"}, {"delay"}, -1, 0)
                 \/ Took(r, {"sem"}, {"dequeue"}, 0, 0)
                 \/ Took(r, {"delay"}, {"run"}, 0, 0)
                 \/ Took(r, InScript, {"run", "launch", "release", "gone"}, 0, 0) /\ ScriptStep(r)
                 \/ Took(r, {"release"}, {"dequeue"}, 1, 0)
                 \/ Took(r, {"dequeue"}, {"idle"}, 0, -1)
<1> USE RcAssumption
<1>0. RcInv /\ sem \in Nat /\ queue \in Int /\ rc \in [Rcs -> RcRecord]
  BY DEF IndInv, RcInv
<1>1. ASSUME NEW r \in Rcs, IncreaseQueue(r)
      PROVE  RcInv' /\ Took(r, {"idle"}, {"sem"}, 0, 1)
  <2>1. PICK job \in jobs :
          /\ jobs' = jobs \ {job}
          /\ rc' = [rc EXCEPT ![r].pc = "sem", ![r].job = job, ![r].script = Script(job)]
    BY <1>1 DEF IncreaseQueue
  <2>2. job \in UNION JobFamilies
    BY <1>0 DEF RcInv
  <2>3. rc' = [rc EXCEPT ![r] = [@ EXCEPT !.pc = "sem", !.job = job, !.script = Script(job)]]
    BY <1>0, <2>1
  <2>4. rc[r] \in RcRecord /\ Script(job) \in JobScripts /\ job \in Jobs
    BY <1>0, <2>2 DEF JobScripts, Jobs
  <2>5. [rc[r] EXCEPT !.pc = "sem", !.job = job, !.script = Script(job)] \in RcRecord
    BY <2>4 DEF RcRecord, Pcs
  <2>6. rc'[r].pc = "sem" /\ rc'[r].script = Script(job) /\ Script(job) # <<>>
    <3>1. IsProgram(Script(job))
      BY <2>2, ScriptsGuard
    <3> HIDE DEF Script
    <3> QED
      BY <1>0, <2>3, <2>4, <3>1 DEF RcRecord, IsProgram
  <2>7. rc' \in [Rcs -> RcRecord] /\ Others(r)
    BY <1>0, <2>3, <2>5 DEF Others
  <2>8. RcInv'
    BY <1>0, <1>1, <2>1, <2>6, <2>7 DEF IncreaseQueue, RcInv, Others, InScript, machine
  <2> QED
    BY <1>0, <1>1, <2>6, <2>7, <2>8 DEF IncreaseQueue, Took
<1>2. ASSUME NEW r \in Rcs, NEW p \in {"delay", "dequeue"},
             rc' = [rc EXCEPT ![r].pc = p], UNCHANGED <<jobs, queue, nvver>>,
             sem' \in Nat, p = "delay" => rc[r].pc = "sem"
      PROVE  RcInv' /\ Others(r) /\ rc'[r].pc = p
  <2>1. rc' = [rc EXCEPT ![r] = [@ EXCEPT !.pc = p]]
    BY <1>0, <1>2
  <2>2. [rc[r] EXCEPT !.pc = p] \in RcRecord
    BY <1>0 DEF RcRecord, Pcs
  <2>3. rc' \in [Rcs -> RcRecord] /\ Others(r)
    BY <1>0, <2>1, <2>2 DEF Others
  <2>4. rc'[r].pc = p /\ rc'[r].script = rc[r].script
    BY <1>0, <2>1 DEF RcRecord
  <2>5. RcInv'
    BY <1>0, <1>2, <2>3, <2>4 DEF RcInv, Others, InScript
  <2> QED
    BY <2>3, <2>4, <2>5
<1>3. ASSUME NEW r \in Rcs, RequireSemaphore(r)
      PROVE  RcInv' /\ Took(r, {"sem"}, {"delay"}, -1, 0)
  <2>1. /\ rc' = [rc EXCEPT ![r].pc = "delay"] /\ UNCHANGED <<jobs, queue, nvver>>
        /\ sem' = sem + (-1) /\ sem' \in Nat /\ rc[r].pc = "sem" /\ queue' = queue + 0
    BY <1>0, <1>3 DEF RequireSemaphore
  <2>2. RcInv' /\ Others(r) /\ rc'[r].pc = "delay"
    BY <1>2, <2>1, Zenon
  <2> QED
    BY <2>1, <2>2 DEF Took
<1>4. ASSUME NEW r \in Rcs, SemaphoreError(r)
      PROVE  RcInv' /\ Took(r, {"sem"}, {"dequeue"}, 0, 0)
  <2>1. /\ rc' = [rc EXCEPT ![r].pc = "dequeue"] /\ UNCHANGED <<jobs, queue, nvver>>
        /\ sem' = sem + 0 /\ sem' \in Nat /\ rc[r].pc = "sem" /\ queue' = queue + 0
    BY <1>0, <1>4 DEF SemaphoreError
  <2>2. RcInv' /\ Others(r) /\ rc'[r].pc = "dequeue"
    BY <1>2, <2>1, Zenon
  <2> QED
    BY <2>1, <2>2 DEF Took
<1>5. ASSUME NEW r \in Rcs, ReleaseSemaphore(r)
      PROVE  RcInv' /\ Took(r, {"release"}, {"dequeue"}, 1, 0)
  <2>1. /\ rc' = [rc EXCEPT ![r].pc = "dequeue"] /\ UNCHANGED <<jobs, queue, nvver>>
        /\ sem' = sem + 1 /\ sem' \in Nat /\ rc[r].pc = "release" /\ queue' = queue + 0
    BY <1>0, <1>5 DEF ReleaseSemaphore
  <2>2. RcInv' /\ Others(r) /\ rc'[r].pc = "dequeue"
    BY <1>2, <2>1, Zenon
  <2> QED
    BY <2>1, <2>2 DEF Took
<1>6. ASSUME NEW r \in Rcs, Delay(r)
      PROVE  RcInv' /\ Took(r, {"delay"}, {"run"}, 0, 0)
  <2>1. rc' = [rc EXCEPT ![r] = [@ EXCEPT !.pc = "run", !.i = 1, !.ver = nvver]]
    BY <1>0, <1>6 DEF Delay
  <2>2. [rc[r] EXCEPT !.pc = "run", !.i = 1, !.ver = nvver] \in RcRecord
    BY <1>0 DEF RcInv, RcRecord, Pcs
  <2>3. rc' \in [Rcs -> RcRecord] /\ Others(r)
    BY <1>0, <2>1, <2>2 DEF Others
  <2>4. rc'[r].pc = "run" /\ rc'[r].i = 1 /\ rc'[r].script = rc[r].script
    BY <1>0, <2>1 DEF RcRecord
  <2>5. 1 \in 1 .. Len(rc[r].script)
    <3>1. rc[r].script \in JobScripts /\ rc[r].script # <<>>
      BY <1>0, <1>6 DEF RcInv, RcRecord, Delay
    <3>2. IsScript(rc[r].script)
      BY <3>1, ScriptsGuard, Parts DEF JobScripts
    <3>3. PICK A : rc[r].script \in Seq(Careful(A))
      BY <3>2 DEF IsScript
    <3> QED
      BY <3>1, <3>3, LenProperties, EmptySeq
  <2>6. RcInv'
    BY <1>0, <1>6, <2>3, <2>4, <2>5 DEF Delay, RcInv, Others, machine
  <2> QED
    BY <1>0, <1>6, <2>3, <2>4, <2>6 DEF Delay, Took
<1>7. ASSUME NEW r \in Rcs, DecreaseQueue(r)
      PROVE  RcInv' /\ Took(r, {"dequeue"}, {"idle"}, 0, -1)
  <2>1. Idle \in RcRecord /\ Idle.pc = "idle"
    BY IdleRecord
  <2>2. rc' \in [Rcs -> RcRecord] /\ Others(r) /\ rc'[r].pc = "idle"
    BY <1>0, <1>7, <2>1 DEF DecreaseQueue, Others
  <2>3. RcInv'
    BY <1>0, <1>7, <2>2 DEF DecreaseQueue, RcInv, Others, InScript, machine
  <2> QED
    BY <1>0, <1>7, <2>2, <2>3 DEF DecreaseQueue, Took
<1>8. ASSUME NEW r \in Rcs, ScriptStep(r)
      PROVE  RcInv' /\ Took(r, InScript, {"run", "launch", "release", "gone"}, 0, 0)
  BY <1>0, <1>8, ScriptStepMoves DEF Took, NotScripted
<1>9. ASSUME \/ \E n \in ProcNames : Die(n)
             \/ NvramChange
             \/ UNCHANGED vars
      PROVE  RcInv' /\ UNCHANGED <<rc, sem, queue>>
  <2>1. UNCHANGED <<jobs, rc, sem, queue>>
    BY <1>9 DEF Die, NvramChange, vars
  <2>2. nvver' \in Nat
    <3>1. nvver \in Nat
      BY <1>0 DEF RcInv
    <3>2. nvver' = nvver \/ nvver' = nvver + 1
      BY <1>9 DEF Die, NvramChange, vars
    <3> QED
      BY <3>1, <3>2
  <2> QED
    BY <1>0, <2>1, <2>2 DEF RcInv
<1> QED
  BY <1>1, <1>3, <1>4, <1>5, <1>6, <1>7, <1>8, <1>9 DEF Next, RcStep

-----------------------------------------------------------------------------
(* Giving back what was taken *)

(* The semaphore admits one program at a time. *)
LEMMA Exclusive ==
  ASSUME RcInv, GivesBackWhatItTook, NEW p \in Rcs, NEW q \in Rcs, Holding(p), Holding(q)
  PROVE  p = q
<1> DEFINE H == {r \in Rcs : Holding(r)}
<1>1. IsFiniteSet(H) /\ H \subseteq Rcs
  BY RcAssumption, FS_Subset
<1>2. Cardinality(H) \in Nat /\ Cardinality(H) <= 1
  BY <1>1, FS_CardinalityType DEF RcInv, GivesBackWhatItTook
<1> SUFFICES ASSUME p # q
             PROVE  FALSE
  OBVIOUS
<1>3. /\ IsFiniteSet(H \ {p}) /\ Cardinality(H \ {p}) = Cardinality(H) - 1
  BY <1>1, FS_RemoveElement
<1>4. /\ IsFiniteSet((H \ {p}) \ {q})
      /\ Cardinality((H \ {p}) \ {q}) = Cardinality(H \ {p}) - 1
  BY <1>3, FS_RemoveElement
<1> HIDE DEF H
<1> QED
  BY <1>2, <1>3, <1>4, FS_CardinalityType

(* One element more, one less, or none. *)
LEMMA OneOff ==
  ASSUME NEW S, IsFiniteSet(S), NEW T, NEW x
  PROVE  /\ x \notin S /\ T = S \union {x} => Cardinality(T) = Cardinality(S) + 1
         /\ x \in S /\ T = S \ {x} => Cardinality(T) = Cardinality(S) - 1
         /\ Cardinality(S) \in Nat
BY FS_AddElement, FS_RemoveElement, FS_CardinalityType

(* Every step of rc_main() takes one thing or gives one back. *)
LEMMA GivesBackStep ==
  ASSUME IndInv, [Next]_vars
  PROVE  GivesBackWhatItTook'
<1> DEFINE H == {r \in Rcs : Holding(r)}
           C == {r \in Rcs : Counted(r)}
<1>1. IsFiniteSet(H) /\ IsFiniteSet(C) /\ Cardinality(H) \in Nat /\ Cardinality(C) \in Nat
  BY RcAssumption, FS_Subset, FS_CardinalityType
<1>2. /\ sem + Cardinality(H) = 1 /\ queue = Cardinality(C) /\ sem \in Nat /\ queue \in Int
  BY DEF IndInv, RcInv, GivesBackWhatItTook
<1> SUFFICES sem' + Cardinality(H') = 1 /\ queue' = Cardinality(C')
  BY DEF GivesBackWhatItTook
<1>3. CASE UNCHANGED <<rc, sem, queue>>
  <2>1. H' = H /\ C' = C
    BY <1>3 DEF Holding, Counted
  <2> QED
    BY <1>2, <1>3, <2>1
<1>4. ASSUME NEW r \in Rcs, Others(r), (rc'[r].pc = "idle") = (rc[r].pc = "idle")
      PROVE  C' = C
  BY <1>4 DEF Others, Counted
<1>5. ASSUME NEW r \in Rcs, Others(r), Holding(r)' = Holding(r)
      PROVE  H' = H
  BY <1>5 DEF Others, Holding
<1>6. ASSUME NEW r \in Rcs, Took(r, {"idle"}, {"sem"}, 0, 1)
      PROVE  sem' + Cardinality(H') = 1 /\ queue' = Cardinality(C')
  <2>1. H' = H
    BY <1>6 DEF Took, Others, Holding
  <2>2. r \notin C /\ C' = C \union {r}
    BY <1>6 DEF Took, Others, Counted
  <2>3. sem' = sem + 0 /\ queue' = queue + 1
    BY <1>6 DEF Took
  <2> HIDE DEF H, C
  <2> QED
    BY <1>1, <1>2, <2>1, <2>2, <2>3, OneOff
<1>7. ASSUME NEW r \in Rcs, Took(r, {"sem"}, {"delay"}, -1, 0)
      PROVE  sem' + Cardinality(H') = 1 /\ queue' = Cardinality(C')
  <2>1. C' = C
    BY <1>7 DEF Took, Others, Counted
  <2>2. r \notin H /\ H' = H \union {r}
    BY <1>7 DEF Took, Others, Holding
  <2>3. sem' = sem + (-1) /\ queue' = queue + 0
    BY <1>7 DEF Took
  <2> HIDE DEF H, C
  <2> QED
    BY <1>1, <1>2, <2>1, <2>2, <2>3, OneOff
<1>8. ASSUME NEW r \in Rcs, Took(r, {"release"}, {"dequeue"}, 1, 0)
      PROVE  sem' + Cardinality(H') = 1 /\ queue' = Cardinality(C')
  <2>1. C' = C
    BY <1>8 DEF Took, Others, Counted
  <2>2. r \in H /\ H' = H \ {r}
    BY <1>8 DEF Took, Others, Holding
  <2>3. sem' = sem + 1 /\ queue' = queue + 0
    BY <1>8 DEF Took
  <2> HIDE DEF H, C
  <2> QED
    BY <1>1, <1>2, <2>1, <2>2, <2>3, OneOff
<1>9. ASSUME NEW r \in Rcs, Took(r, {"dequeue"}, {"idle"}, 0, -1)
      PROVE  sem' + Cardinality(H') = 1 /\ queue' = Cardinality(C')
  <2>1. H' = H
    BY <1>9 DEF Took, Others, Holding
  <2>2. r \in C /\ C' = C \ {r}
    BY <1>9 DEF Took, Others, Counted
  <2>3. sem' = sem + 0 /\ queue' = queue + (-1)
    BY <1>9 DEF Took
  <2> HIDE DEF H, C
  <2> QED
    BY <1>1, <1>2, <2>1, <2>2, <2>3, OneOff
<1>10. ASSUME NEW r \in Rcs,
              \/ Took(r, {"sem"}, {"dequeue"}, 0, 0)
              \/ Took(r, {"delay"}, {"run"}, 0, 0)
              \/ Took(r, InScript, {"run", "launch", "release", "gone"}, 0, 0)
       PROVE  sem' + Cardinality(H') = 1 /\ queue' = Cardinality(C')
  <2>1. H' = H
    BY <1>10 DEF Took, Others, Holding, InScript
  <2>2. C' = C
    BY <1>10 DEF Took, Others, Counted, InScript
  <2>3. sem' = sem + 0 /\ queue' = queue + 0
    BY <1>10 DEF Took
  <2> HIDE DEF H, C
  <2> QED
    BY <1>1, <1>2, <2>1, <2>2, <2>3
<1> HIDE DEF H, C
<1> QED
  BY Moves, <1>3, <1>6, <1>7, <1>8, <1>9, <1>10, Zenon

-----------------------------------------------------------------------------
(* One process of a guarded daemon *)

Process == [up : Nat, term : Nat, kill : Nat]

(* A process that is signalled stays one process. *)
LEMMA ToldFacts ==
  ASSUME procs \in [ProcNames -> Process], NEW n, NEW signal, procs' = Told(n, signal)
  PROVE  /\ procs' \in [ProcNames -> Process]
         /\ \A m \in ProcNames : procs'[m].up + procs'[m].term + procs'[m].kill
                                   = procs[m].up + procs[m].term + procs[m].kill
         /\ \A m \in ProcNames : Gone(m) => Gone(m)'
<1> DEFINE New(p) == IF signal = "kill"
                     THEN [up |-> 0, term |-> 0, kill |-> p.up + p.term + p.kill]
                     ELSE [p EXCEPT !.up = 0, !.term = p.up + p.term]
<1>1. ASSUME NEW p \in Process
      PROVE  /\ New(p) \in Process
             /\ New(p).up + New(p).term + New(p).kill = p.up + p.term + p.kill
             /\ p = NoProcess => New(p) = NoProcess
  <2>1. CASE signal = "kill"
    BY <2>1 DEF Process, NoProcess
  <2>2. CASE signal # "kill"
    <3>1. New(p) = [up |-> 0, term |-> p.up + p.term, kill |-> p.kill]
      BY <2>2 DEF Process
    <3> HIDE DEF New
    <3> QED
      BY <3>1 DEF Process, NoProcess
  <2> QED
    BY <2>1, <2>2
<1>2. procs' = [m \in ProcNames |-> IF m = n THEN New(procs[m]) ELSE procs[m]]
  BY DEF Told
<1> HIDE DEF New
<1> QED
  BY <1>1, <1>2 DEF Gone

(* start-stop-daemon and the other launches. *)
LEMMA LaunchKeeps ==
  ASSUME IndInv, NEW r \in Rcs, Launch(r)
  PROVE  /\ procs' \in [ProcNames -> Process]
         /\ SingleInstance'
<1> DEFINE n == IF Command(r).op = "spawn" THEN Command(r).arg ELSE Command(r).exe
<1>0. procs \in [ProcNames -> Process]
  BY DEF IndInv, ProcInv, Process
<1>1. procs' = [m \in ProcNames |-> IF m = n THEN [procs[m] EXCEPT !.up = @ + 1] ELSE procs[m]]
  BY <1>0 DEF Launch
<1>2. n \in Guarded => Gone(n)
  <2>1. CASE rc[r].pc = "launch"
    BY <2>1 DEF IndInv, ProcInv
  <2>2. CASE rc[r].pc = "run" /\ Command(r).op = "spawn"
    BY <2>2, CommandFacts DEF IndInv, InScript
  <2> QED
    BY <2>1, <2>2 DEF Launch, Running
<1> HIDE DEF n
<1>3. procs' \in [ProcNames -> Process]
  BY <1>0, <1>1 DEF Process
<1>4. ASSUME NEW m \in Guarded
      PROVE  procs'[m].up + procs'[m].term + procs'[m].kill <= 1
  <2>1. m \in ProcNames
    BY DEF Guarded, ProcNames
  <2>2. CASE m = n
    BY <1>0, <1>1, <1>2, <2>1, <2>2 DEF Gone, NoProcess, Process
  <2>3. CASE m # n
    BY <1>0, <1>1, <2>1, <2>3 DEF IndInv, SingleInstance
  <2> QED
    BY <2>2, <2>3
<1> QED
  BY <1>3, <1>4 DEF SingleInstance

(* What a step other than a launch does to the processes. *)
LEMMA ProcsMove ==
  ASSUME IndInv, [Next]_vars, \A r \in Rcs : ~Launch(r)
  PROVE  /\ procs' \in [ProcNames -> Process]
         /\ SingleInstance'
         /\ \A m \in ProcNames : Gone(m) => Gone(m)'
<1>0. procs \in [ProcNames -> Process] /\ SingleInstance
  BY DEF IndInv, ProcInv, Process
<1>1. CASE procs' = procs
  BY <1>0, <1>1 DEF SingleInstance, Gone
<1>2. ASSUME NEW n, NEW signal, procs' = Told(n, signal)
      PROVE  /\ procs' \in [ProcNames -> Process]
             /\ SingleInstance'
             /\ \A m \in ProcNames : Gone(m) => Gone(m)'
  <2>1. Guarded \subseteq ProcNames
    BY DEF Guarded, ProcNames
  <2> HIDE DEF Guarded, ProcNames
  <2> QED
    BY <1>0, <1>2, <2>1, ToldFacts DEF SingleInstance
<1>3. ASSUME NEW n \in ProcNames, Die(n)
      PROVE  /\ procs' \in [ProcNames -> Process]
             /\ SingleInstance'
             /\ \A m \in ProcNames : Gone(m) => Gone(m)'
  <2>1. procs' = [procs EXCEPT ![n] = [@ EXCEPT !.term = 0, !.kill = 0]]
    BY <1>0, <1>3 DEF Die, Process
  <2>2. [procs[n] EXCEPT !.term = 0, !.kill = 0] \in Process
    BY <1>0 DEF Process
  <2>3. procs' \in [ProcNames -> Process]
    BY <1>0, <2>1, <2>2
  <2>4. SingleInstance'
    <3> SUFFICES ASSUME NEW m \in Guarded
                 PROVE  procs'[m].up + procs'[m].term + procs'[m].kill <= 1
      BY DEF SingleInstance
    <3>1. m \in ProcNames /\ procs[m].up + procs[m].term + procs[m].kill <= 1
      BY <1>0 DEF Guarded, ProcNames, SingleInstance
    <3> QED
      BY <1>0, <2>1, <3>1 DEF Process
  <2>5. ~Gone(n)
    BY <1>3 DEF Die, Gone, NoProcess
  <2> QED
    BY <1>0, <2>1, <2>3, <2>4, <2>5 DEF Gone
<1>4. ASSUME NEW r \in Rcs, ScriptStep(r)
      PROVE  procs' = procs \/ \E n, signal : procs' = Told(n, signal)
  BY <1>4 DEF ScriptStep, Decide, Jump, Establish, OpenFile, WriteFiles, LookFor, Signal,
              SleepOne, SignalUntilGone, AwaitProcess, ExecProgram, machine
<1>5. ASSUME NEW r \in Rcs, IncreaseQueue(r) \/ RequireSemaphore(r) \/ SemaphoreError(r)
                            \/ Delay(r) \/ ReleaseSemaphore(r) \/ DecreaseQueue(r)
      PROVE  procs' = procs
  BY <1>5 DEF IncreaseQueue, RequireSemaphore, SemaphoreError, Delay, ReleaseSemaphore,
              DecreaseQueue, machine
<1>6. ASSUME NvramChange \/ UNCHANGED vars
      PROVE  procs' = procs
  BY <1>6 DEF NvramChange, vars, machine
<1>7. \/ procs' = procs \/ \E n, signal : procs' = Told(n, signal)
      \/ \E n \in ProcNames : Die(n)
  BY <1>4, <1>5, <1>6, Zenon DEF Next, RcStep
<1> QED
  BY <1>1, <1>2, <1>3, <1>7, Zenon

(* What start-stop-daemon has seen still holds when it launches. *)
LEMMA SeenStillHolds ==
  ASSUME IndInv, [Next]_vars, NEW r \in Rcs, rc'[r].pc = "launch"
  PROVE  ( /\ Command(r).op = "start"
           /\ Command(r).exe \in Guarded => Gone(Command(r).exe) )'
<1>0. /\ RcInv /\ GivesBackWhatItTook /\ rc \in [Rcs -> RcRecord]
      /\ Guarded \subseteq ProcNames
  BY DEF IndInv, RcInv, Guarded, ProcNames
<1>1. CASE rc'[r] = rc[r]
  <2>1. rc[r].pc = "launch" /\ Holding(r) /\ Command(r)' = Command(r)
    BY <1>1 DEF Holding, Command
  <2>2. /\ Command(r).op = "start"
        /\ Command(r).exe \in Guarded => Gone(Command(r).exe)
    BY <2>1 DEF IndInv, ProcInv
  <2>3. ASSUME NEW q \in Rcs, Launch(q)
        PROVE  FALSE
    <3>1. rc[q].pc \in InScript
      BY <2>3 DEF Launch, Running, InScript
    <3>2. q = r
      BY <1>0, <2>1, <3>1, Exclusive DEF Holding, InScript
    <3>3. rc'[r].pc # "launch"
      BY <1>0, <2>3, <3>2 DEF Launch, Leave, RcRecord
    <3> QED
      BY <3>3
  <2>4. \A m \in ProcNames : Gone(m) => Gone(m)'
    BY <2>3, ProcsMove
  <2> QED
    BY <1>0, <2>1, <2>2, <2>4
<1>2. CASE rc'[r] # rc[r]
  <2>1. ScriptStep(r)
    BY <1>2, Moves DEF Took, Others
  <2>2. LookFor(r) /\ rc' = [rc EXCEPT ![r].pc = "launch"] /\ rc[r].pc \in InScript
    BY <1>0, <1>2, <2>1, ScriptStepMoves
  <2>3. Command(r)' = Command(r)
    BY <1>0, <2>2 DEF Command, RcRecord
  <2>4. procs' = procs /\ Command(r).op = "start"
    BY <2>2 DEF LookFor, machine
  <2>5. Gone(Command(r).arg)
    <3> SUFFICES ASSUME ~Gone(Command(r).arg)
                 PROVE  FALSE
      OBVIOUS
    <3>1. Advance(r, 1) /\ rc[r].pc = "run"
      BY <2>2 DEF LookFor, Running
    <3>2. rc'[r].pc # "launch"
      BY <1>0, <3>1 DEF Advance, Leave, RcRecord
    <3> QED
      BY <3>2
  <2>6. Command(r).exe \in Guarded => Command(r).arg = Command(r).exe
    BY <1>0, <2>2, <2>4, CommandFacts
  <2> QED
    BY <2>3, <2>4, <2>5, <2>6 DEF Gone
<1> QED
  BY <1>1, <1>2

-----------------------------------------------------------------------------
(* The theorems *)

(* The inductive invariant holds in every initial state. *)
LEMMA InitInv == Init => IndInv
<1> SUFFICES ASSUME Init
             PROVE  IndInv
  OBVIOUS
<1>1. Idle \in RcRecord /\ Idle.pc = "idle"
  BY IdleRecord
<1>2. rc = [r \in Rcs |-> Idle] /\ sem = 1 /\ queue = 0 /\ nvver = 1 /\ jobs \in JobFamilies
      /\ procs = [n \in ProcNames |-> NoProcess]
  BY DEF Init
<1> HIDE DEF Idle
<1>3. RcInv
  BY <1>1, <1>2 DEF RcInv, InScript
<1>4. GivesBackWhatItTook
  <2>1. {r \in Rcs : Holding(r)} = {} /\ {r \in Rcs : Counted(r)} = {}
    BY <1>1, <1>2 DEF Holding, Counted
  <2> QED
    BY <1>2, <2>1, FS_EmptySet DEF GivesBackWhatItTook
<1>5. ProcInv
  BY <1>1, <1>2 DEF ProcInv, NoProcess
<1>6. SingleInstance
  BY <1>2 DEF SingleInstance, NoProcess, Guarded, ProcNames
<1> QED
  BY <1>3, <1>4, <1>5, <1>6 DEF IndInv

(* Every step keeps it. *)
LEMMA StepInv == IndInv /\ [Next]_vars => IndInv'
<1> SUFFICES ASSUME IndInv, [Next]_vars
             PROVE  IndInv'
  OBVIOUS
<1>1. RcInv' /\ GivesBackWhatItTook'
  BY Moves, GivesBackStep
<1>2. procs' \in [ProcNames -> Process] /\ SingleInstance'
  BY LaunchKeeps, ProcsMove
<1>3. ProcInv'
  BY <1>2, SeenStillHolds DEF ProcInv, Process
<1> QED
  BY <1>1, <1>2, <1>3 DEF IndInv

(* Any number of rc programs, any jobs asked of them, any failure on the   *)
(* way in or in a script: the semaphore and the queue number are given     *)
(* back exactly as taken (rc_main() of rc.c).                              *)
THEOREM RcGivesBack == Spec => []GivesBackWhatItTook
<1>1. IndInv => GivesBackWhatItTook
  BY DEF IndInv
<1> QED
  BY InitInv, StepInv, <1>1, PTL DEF Spec

(* start-stop-daemon -S looks before it starts, and the semaphore keeps    *)
(* everybody else out in between: a guarded daemon is never there twice,   *)
(* whatever scripts run in whatever order.                                 *)
THEOREM NeverTwice == Spec => []SingleInstance
<1>1. IndInv => SingleInstance
  BY DEF IndInv
<1> QED
  BY InitInv, StepInv, <1>1, PTL DEF Spec
=============================================================================
