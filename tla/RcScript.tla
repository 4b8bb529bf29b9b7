------------------------------ MODULE RcScript ------------------------------
(***************************************************************************)
(* ezcd/src/rcso/rc_*.c: the run-control functions of the services.  Each  *)
(* is the sequence of commands it issues for the action word "act".  The   *)
(* checks of argc and argv[0] that every function starts with are left     *)
(* out: the callers pass well-formed arguments.  A service bound to an     *)
(* interface begins with the test of its binding, whatever the action: the *)
(* stop of a service is skipped too when nvram no longer binds it.         *)
(***************************************************************************)
EXTENDS RcPop

InitApi == Test("utils_init_ezcfg_api")
NoAct(act, acts) == On(act, RcActs \ acts, Fail)
Stops == {"stop", "restart"}
StartStopRestart == {"start", "stop", "restart"}

(* Mutant: the daemon is started without a look for a running one.         *)
DnsmasqUnguarded(act) ==
  InitApi \o Test("DNSMASQ_BINDING") \o NoAct(act, StartStopRestart)
    \o On(act, Stops, Term("dnsmasq"))
    \o On(act, {"stop"}, Return)
    \o Test("DNSMASQ_ENABLE")
    \o Ignore(pop_etc_dnsmasq_conf("start"))
    \o Spawn("dnsmasq")

(* Services stopped with SIGTERM, and started again without a look at the  *)
(* process that was told to end.                                           *)
rc_dnsmasq(act) ==
  InitApi \o Test("DNSMASQ_BINDING") \o NoAct(act, StartStopRestart)
    \o On(act, Stops, Term("dnsmasq"))
    \o On(act, {"stop"}, Return)
    \o Test("DNSMASQ_ENABLE")
    \o Ignore(pop_etc_dnsmasq_conf("start"))
    \o Start("dnsmasq", "dnsmasq")

rc_dhid(act) ==
  InitApi \o NoAct(act, StartStopRestart)
    \o On(act, Stops, Term("dhid"))
    \o On(act, {"stop"}, Return)
    \o Test("DHID_ENABLE")
    \o Ignore(pop_etc_dhid_conf("start"))
    \o Start("dhid", "dhid")

(* The daemon that is looked for is dhisd, the program started is dhid.    *)
rc_dhisd(act) ==
  InitApi \o NoAct(act, StartStopRestart)
    \o On(act, Stops, Term("dhisd"))
    \o On(act, {"stop"}, Return)
    \o Test("DHISD_ENABLE")
    \o Ignore(pop_etc_dhisd_conf("start"))
    \o Ignore(pop_etc_dhis_db("start"))
    \o MkDir("/var/run/dhis") \o MkDir("/var/log/dhis")
    \o Start("dhisd", "dhid")

rc_pppoe_server(act) ==
  InitApi \o Test("PPPOE_SERVER_BINDING") \o NoAct(act, StartStopRestart)
    \o On(act, Stops, Term("pppoe-server"))
    \o On(act, {"stop"}, Return)
    \o Test("PPPOE_SERVER_ENABLE") \o Test("ifname, addresses, limits")
    \o MkDir("/etc/ppp")
    \o Ignore(pop_etc_ppp_pppoe_server_options("start"))
    \o Start("pppoe-server", "pppoe-server")

rc_freeradius2_server(act) ==
  InitApi \o Test("RADIUSD_BINDING") \o NoAct(act, StartStopRestart)
    \o On(act, Stops, Term("radiusd"))
    \o On(act, {"stop"}, Return)
    \o Test("RADIUSD_ENABLE") \o Test("ipaddr, port")
    \o MkDir("/etc/freeradius2")
    \o Ignore(pop_etc_freeradius2_radiusd_conf("start"))
    \o Ignore(pop_etc_freeradius2_clients_conf("start"))
    \o Ignore(pop_etc_freeradius2_dictionary("start"))
    \o Ignore(pop_etc_freeradius2_eap_conf("start"))
    \o Start("radiusd", "radiusd")

rc_wpa_supplicant(act) ==
  InitApi \o NoAct(act, StartStopRestart)
    \o On(act, Stops, Term("wpa_supplicant"))
    \o On(act, {"stop"}, Return)
    \o On(act, {"restart"}, Sleep)
    \o Test("WPA_SUPPLICANT_ENABLE") \o Test("ifname")
    \o Ignore(pop_etc_wpa_supplicant_conf("start"))
    \o Start("wpa_supplicant", "wpa_supplicant")

(* Mutant: the file is populated for the word the script was given.        *)
RadvdPopsItsWord(act) ==
  InitApi \o NoAct(act, StartStopRestart)
    \o On(act, {"stop"}, Term("radvd") \o Return)
    \o On(act, {"restart"}, Sleep)
    \o Test("RADVD_ENABLE")
    \o Ignore(pop_etc_radvd_conf(act))
    \o Start("radvd", "radvd")

(* A restart waits, and tells no process to end.                           *)
rc_radvd(act) ==
  InitApi \o NoAct(act, StartStopRestart)
    \o On(act, {"stop"}, Term("radvd") \o Return)
    \o On(act, {"restart"}, Sleep)
    \o Test("RADVD_ENABLE")
    \o Ignore(pop_etc_radvd_conf("start"))
    \o Start("radvd", "radvd")

(* Mutant: no second passes between the kill and the start.                *)
DilloNoSleep(act) ==
  InitApi \o NoAct(act, StartStopRestart)
    \o On(act, Stops, Kill("dillo"))
    \o On(act, {"stop"}, Return)
    \o Test("DILLO_ENABLE")
    \o MkDir("/etc/dillo")
    \o Ignore(pop_etc_dillo_dillorc("start"))
    \o Start("dillo", "dillo")

(* Services stopped with SIGKILL, and started a second later.              *)
rc_dillo(act) ==
  InitApi \o NoAct(act, StartStopRestart)
    \o On(act, Stops, Kill("dillo"))
    \o On(act, {"stop"}, Return)
    \o On(act, {"restart"}, Sleep)
    \o Test("DILLO_ENABLE")
    \o MkDir("/etc/dillo")
    \o Ignore(pop_etc_dillo_dillorc("start"))
    \o Start("dillo", "dillo")

rc_telnetd(act) ==
  InitApi \o Test("TELNETD_BINDING, ipaddr") \o NoAct(act, StartStopRestart)
    \o On(act, Stops, Kill("telnetd"))
    \o On(act, {"stop"}, Return)
    \o On(act, {"restart"}, Sleep)
    \o Test("TELNETD_ENABLE")
    \o Start("telnetd", "telnetd")

(* upnp_monitor is told to end until it is gone, and awaited when started. *)
(* Nothing asks whether it runs already.                                   *)
rc_upnp_monitor(act) ==
  Test("UPNPD_BINDING, ipaddr") \o InitApi \o NoAct(act, StartStopRestart)
    \o On(act, Stops, Sleep \o TermUntilGone("upnp_monitor"))
    \o On(act, {"stop"}, Return)
    \o Test("UPNPD_ENABLE")
    \o MkDir("/etc/upnp_monitor")
    \o Spawn("upnp_monitor") \o AwaitUp("upnp_monitor")

(* Services that only write their files.                                   *)
rc_coova_chilli(act) ==
  InitApi \o NoAct(act, StartStopRestart)
    \o On(act, {"stop"}, Return)
    \o On(act, {"restart"}, Sleep)
    \o Test("COOVA_CHILLI_ENABLE") \o NoProc("chilli")
    \o Ignore(pop_etc_chilli_conf("start"))

rc_lxc(act) ==
  InitApi \o NoAct(act, StartStopRestart)
    \o On(act, {"stop"}, Return)
    \o On(act, {"restart"}, Sleep)
    \o Test("LXC_ENABLE") \o MkDir("/etc/lxc")
    \o Ignore(pop_etc_lxc_lxc_conf("start"))

rc_ezctp(act) ==
  InitApi \o NoAct(act, StartStopRestart)
    \o On(act, {"stop"}, Return)
    \o Test("EZCTP_ENABLE")

rc_ldconfig(act) ==
  InitApi \o NoAct(act, StartStopRestart)
    \o On(act, Stops, Unlink("ld.so.conf"))
    \o On(act, {"stop"}, Return)
    \o If(Test("LD_LIBRARY_PATH"),
          If(Open("ld.so.conf"), Fill("ld.so.conf")))

rc_mdev(act) ==
  InitApi \o NoAct(act, {"boot"} \union StartStopRestart)
    \o On(act, {"boot", "start", "restart"},
          Ignore(pop_etc_mdev_conf(act)) \o If(Open("hotplug"), Fill("hotplug")))
    \o On(act, {"stop"}, If(Open("hotplug"), <<>>))

rc_resolv_conf(act) ==
  InitApi \o NoAct(act, {"boot"} \union StartStopRestart)
    \o On(act, Stops, Ignore(pop_etc_resolv_conf("stop")))
    \o On(act, {"stop"}, Return)
    \o Ignore(pop_etc_resolv_conf("start"))

(* The kernel modules of the real-time system: all of those nvram names,   *)
(* through emc_module_helper, whose result is dropped.                     *)
rc_realtime(act) ==
  InitApi \o NoAct(act, StartStopRestart)
    \o On(act, Stops, If(Test("EMC2_MODULES"), Del("rtai")))
    \o On(act, {"stop"}, Return)
    \o On(act, {"restart"}, Sleep)
    \o Test("EMC2_MODPATH")
    \o If(Test("EMC2_MODULES"), Add("rtai"))
    \o If(Test("RTAPI_DEBUG"), If(Open("rtapi_debug"), Fill("rtapi_debug")))

(* The services of ezcd itself: their sockets are entries of nvram.  The   *)
(* setters between two of them allocate and may fail, which leaves the     *)
(* rest undone.                                                            *)
InsertSocket(s) == Test("set socket") \o Add(s)
RemoveSocket(s) == Test("set socket") \o Del(s)

rc_ezcfg_httpd(act) ==
  InitApi \o Test("HTTPD_BINDING, ipaddr") \o NoAct(act, StartStopRestart)
    \o On(act, Stops, RemoveSocket("http") \o RemoveSocket("https")
                        \o RemoveSocket("https ssl"))
    \o On(act, {"stop"}, Return)
    \o Test("HTTPD_ENABLE")
    \o InsertSocket("http") \o InsertSocket("https") \o InsertSocket("https ssl")

rc_ezcfg_igrsd(act) ==
  InitApi \o Test("IGRSD_BINDING, ipaddr") \o NoAct(act, StartStopRestart)
    \o On(act, Stops, RemoveSocket("isdp"))
    \o On(act, {"stop"}, Return)
    \o Test("IGRSD_ENABLE")
    \o Ignore(pop_etc_ezcfg_igrsd(act))
    \o InsertSocket("isdp")

rc_ezcfg_upnpd(act) ==
  InitApi \o Test("UPNPD_BINDING, ipaddr") \o NoAct(act, StartStopRestart)
    \o On(act, Stops, RemoveSocket("ssdp") \o RemoveSocket("upnp http")
                        \o RemoveSocket("gena"))
    \o On(act, {"stop"}, Return)
    \o Test("UPNPD_ENABLE")
    \o Ignore(pop_etc_ezcfg_upnpd(act))
    \o InsertSocket("ssdp") \o InsertSocket("upnp http") \o InsertSocket("gena")

(* Scripts that act on the machine as a whole.  init and exec replace the  *)
(* rc program while it holds the semaphore.                                *)
rc_init(act) ==
  InitApi \o NoAct(act, {"boot", "start", "stop"})
    \o On(act, {"stop"}, Return)
    \o Ignore(pop_etc_inittab(act))
    \o If(Test("execv"), Exec("init"))

rc_exec(act) ==
  InitApi \o Test("interpreter, script") \o Test("execv") \o Exec("script")

rc_system(act) ==
  Test("geteuid") \o InitApi \o NoAct(act, Stops)
    \o Add(IF act = "stop" THEN "poweroff" ELSE "reboot")

rc_env(act) == InitApi \o NoAct(act, {"start", "stop", "usrdef"})
rc_bridge(act) == InitApi \o NoAct(act, {"boot", "stop", "usrdef"})

RcFunctions == {"dnsmasq", "dhid", "dhisd", "pppoe_server",
  "freeradius2_server", "wpa_supplicant", "radvd", "dillo", "telnetd",
  "upnp_monitor", "coova_chilli", "lxc", "ezctp", "ldconfig", "mdev",
  "resolv_conf", "realtime", "ezcfg_httpd", "ezcfg_igrsd", "ezcfg_upnpd",
  "init", "exec", "system", "env", "bridge"}

(* dlsym(): the function rc_<name> of rc_<name>.so.                        *)
rc_function(name, act) ==
  CASE name = "dnsmasq" -> rc_dnsmasq(act)
    [] name = "dhid" -> rc_dhid(act)
    [] name = "dhisd" -> rc_dhisd(act)
    [] name = "pppoe_server" -> rc_pppoe_server(act)
    [] name = "freeradius2_server" -> rc_freeradius2_server(act)
    [] name = "wpa_supplicant" -> rc_wpa_supplicant(act)
    [] name = "radvd" -> rc_radvd(act)
    [] name = "dillo" -> rc_dillo(act)
    [] name = "telnetd" -> rc_telnetd(act)
    [] name = "upnp_monitor" -> rc_upnp_monitor(act)
    [] name = "coova_chilli" -> rc_coova_chilli(act)
    [] name = "lxc" -> rc_lxc(act)
    [] name = "ezctp" -> rc_ezctp(act)
    [] name = "ldconfig" -> rc_ldconfig(act)
    [] name = "mdev" -> rc_mdev(act)
    [] name = "resolv_conf" -> rc_resolv_conf(act)
    [] name = "realtime" -> rc_realtime(act)
    [] name = "ezcfg_httpd" -> rc_ezcfg_httpd(act)
    [] name = "ezcfg_igrsd" -> rc_ezcfg_igrsd(act)
    [] name = "ezcfg_upnpd" -> rc_ezcfg_upnpd(act)
    [] name = "init" -> rc_init(act)
    [] name = "exec" -> rc_exec(act)
    [] name = "system" -> rc_system(act)
    [] name = "env" -> rc_env(act)
    [] name = "bridge" -> rc_bridge(act)
=============================================================================
