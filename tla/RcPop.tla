------------------------------- MODULE RcPop -------------------------------
(***************************************************************************)
(* ezcd/src/pop: the functions that populate the configuration files of    *)
(* the services from nvram.  Each opens its file with "w", so that the old *)
(* content is gone before anything is known of the new one, and most fill  *)
(* it only for some action words.  What is printed is abstracted to the    *)
(* version of nvram it is printed from; the conditions on single options   *)
(* inside a file are left out, the conditions on the file as a whole kept. *)
(***************************************************************************)
EXTENDS RcCommand

Fonly(f, flag, flags) == Open(f) \o On(flag, flags, Fill(f))

(* Files that are filled whatever the flag.                                *)
pop_etc_banner(flag)         == WriteFile("banner")
pop_etc_cgconfig_conf(flag)  == WriteFile("cgconfig.conf")
pop_etc_freeradius2_clients_conf(flag) == WriteFile("radius_clients")
pop_etc_freeradius2_dictionary(flag)   == WriteFile("radius_dictionary")
pop_etc_freeradius2_eap_conf(flag)     == WriteFile("radius_eap")
pop_etc_freeradius2_radiusd_conf(flag) == WriteFile("radiusd.conf")
pop_etc_inittab(flag)        == WriteFile("inittab")
pop_etc_mdev_conf(flag)      == WriteFile("mdev.conf")
pop_etc_ppp_pppoe_server_options(flag) == WriteFile("pppoe-server-options")
pop_etc_ppp_rp_pppoe_options(flag)     == WriteFile("rp-pppoe-options")
pop_etc_profile(flag)        == WriteFile("profile")
pop_etc_protocols(flag)      == WriteFile("protocols")
pop_etc_hostname(flag) ==
  If(Open("hostname"), Fill("hostname"))
    \o If(Open("kernel_hostname"), Fill("kernel_hostname"))

(* Files that are opened, and left empty, whatever the flag.               *)
pop_etc_cgrules_conf(flag)   == Open("cgrules.conf")
pop_etc_chilli_conf(flag)    == Open("chilli.conf")
pop_etc_lxc_lxc_conf(flag)   == Open("lxc.conf")
pop_etc_mactab(flag)         == Open("mactab")

(* Files that are filled for the flags of their switch only: any other     *)
(* flag leaves the truncated file behind.                                  *)
pop_etc_dhid_conf(flag)      == Fonly("dhid.conf", flag, {"start"})
pop_etc_dhis_db(flag)        == Fonly("dhis.db", flag, {"start"})
pop_etc_dhisd_conf(flag)     == Fonly("dhisd.conf", flag, {"start"})
pop_etc_dnsmasq_conf(flag)   == Fonly("dnsmasq.conf", flag, {"start"})
pop_etc_radvd_conf(flag)     == Fonly("radvd.conf", flag, {"start"})
pop_etc_group(flag)          == Fonly("group", flag, {"boot", "start"})
pop_etc_passwd(flag)         == Fonly("passwd", flag, {"boot", "start"})
pop_etc_dillo_dillorc(flag) ==
  Open("dillorc") \o IF flag = "start" THEN Fill("dillorc") ELSE Fail
pop_etc_hosts(flag) ==
  Open("hosts")
    \o IF flag \in {"boot", "start", "restart"} THEN Fill("hosts") ELSE Fail
pop_etc_network_interfaces(flag) ==
  Open("interfaces")
    \o IF flag \in {"boot", "start"} THEN Fill("interfaces") ELSE Fail

(* The lists of kernel modules: a line per module nvram (or boot.cfg)      *)
(* names, and no line for "stop".                                          *)
pop_etc_modules(flag) ==
  Open("modules") \o On(flag, {"boot", "start", "restart"},
                        If(Test("SYS_MODULES"), Fill("modules")))
pop_etc_iptables_modules(flag) ==
  Open("ipt_modules") \o On(flag, {"boot", "start", "restart"},
                            If(Test("SYS_IPTABLES_MODULES"), Fill("ipt_modules")))

(* The secrets are followed by a chmod(), whose failure is the function's. *)
pop_etc_ppp_chap_secrets(flag) ==
  Fonly("chap-secrets", flag, {"boot", "start"}) \o Test("chmod")
pop_etc_ppp_pap_secrets(flag) ==
  Fonly("pap-secrets", flag, {"boot", "start"}) \o Test("chmod")

(* The firewall rules: a table that cannot be built takes the file away.   *)
pop_etc_iptables_firewall(flag) ==
  Open("firewall") \o
  (CASE flag = "stop" -> <<>>
     [] flag \in {"start", "restart"} ->
          IfElse(Test("tables"), Fill("firewall"), Unlink("firewall") \o Fail)
     [] OTHER -> Unlink("firewall") \o Fail)

(* Files whose "stop" removes them.                                        *)
pop_etc_resolv_conf(flag) ==
  CASE flag \in {"boot", "start", "restart"} -> WriteFile("resolv.conf")
    [] flag = "stop" -> Unlink("resolv.conf")
    [] OTHER -> Fail
pop_etc_ssl_openssl_cnf(flag) ==
  CASE flag \in {"boot", "start", "restart"} ->
         MkDir("/etc/ssl") \o WriteFile("openssl.cnf")
    [] flag = "stop" -> Unlink("openssl.cnf")
    [] OTHER -> Fail

(* The key of the encrypted data partition: written for "boot", removed    *)
(* for "stop", and nothing for the others.                                 *)
pop_etc_keys_data_partition_key(flag) ==
  CASE flag = "boot" -> WriteFile("data_partition_key")
    [] flag = "stop" -> Unlink("data_partition_key")
    [] OTHER -> <<>>

(* Mutant: ezcd.conf is written in place.                                  *)
EzcdConfInPlace(flag) ==
  On(flag, {"boot", "start", "reload", "restart"}, WriteFile("ezcd.conf"))

(* ezcd.conf is written beside the file in use and renamed over it.        *)
pop_etc_ezcd_conf(flag) ==
  On(flag, {"boot", "start", "reload", "restart"},
     WriteFile("ezcd.conf.new") \o Rename("ezcd.conf"))

(* /etc/mtab is a link to /proc/mounts.                                    *)
pop_etc_mtab(flag) == Unlink("mtab") \o Test("symlink") \o Fill("mtab")

(* Directories and device descriptions of the igrs and upnp services.      *)
pop_etc_ezcfg_igrsd(flag) ==
  IF flag \in {"boot", "start", "reload", "restart"}
  THEN MkDir("/etc/ezcfg_igrsd") ELSE Fail

gen_igd1_InternetGatewayDevice1_xml(flag)            == WriteFile("igd.xml")
gen_igd1_service_Layer3Forwarding1_xml(flag)         == WriteFile("l3f.xml")
gen_igd1_service_WANCommonInterfaceConfig1_xml(flag) == WriteFile("wcic.xml")
gen_igd1_service_WANEthernetLinkConfig1_xml(flag)    == WriteFile("welc.xml")
gen_igd1_service_WANPPPConnection1_xml(flag)         == WriteFile("wpc.xml")
gen_igd1_service_WANIPConnection1_xml(flag)          == WriteFile("wic.xml")
gen_igd1_service_LANHostConfigManagement1_xml(flag)  == WriteFile("lhcm.xml")

pop_etc_ezcfg_upnpd_igd1(flag) ==
  IF flag \in {"boot", "start", "reload", "restart"}
  THEN MkDir("/etc/ezcfg_upnpd/igd1")
         \o gen_igd1_InternetGatewayDevice1_xml(flag)
         \o gen_igd1_service_Layer3Forwarding1_xml(flag)
         \o gen_igd1_service_WANCommonInterfaceConfig1_xml(flag)
         \o gen_igd1_service_WANEthernetLinkConfig1_xml(flag)
         \o gen_igd1_service_WANPPPConnection1_xml(flag)
         \o gen_igd1_service_WANIPConnection1_xml(flag)
         \o gen_igd1_service_LANHostConfigManagement1_xml(flag)
  ELSE Fail

pop_etc_ezcfg_upnpd(flag) ==
  IF flag \in {"boot", "start", "reload", "restart"}
  THEN MkDir("/etc/ezcfg_upnpd") \o pop_etc_ezcfg_upnpd_igd1(flag)
  ELSE Fail

(* wpa_supplicant reads the name of its interface again before it opens.   *)
pop_etc_wpa_supplicant_conf(flag) ==
  Test("WIFI_LAN_IFNAME") \o Fonly("wpa_supplicant.conf", flag, {"start"})

(* Nothing is populated for the layer 7 protocols.                         *)
pop_etc_l7_protocols(flag) == <<>>
=============================================================================
