---------------------------- MODULE MCRunControl ----------------------------
(* The families of jobs for TLC.  The daemons and the files that several   *)
(* scripts share are asked for by two rc programs at once; a script that   *)
(* only its own earlier run could disturb is run alone for every word.     *)
EXTENDS RunControl

Once(names, acts) == {{<<n, a>>} : n \in names, a \in acts}
Pairs(names, acts, other) == {{<<n, a>>, <<n, other>>} : n \in names, a \in acts}

MCJobFamilies ==
  Pairs({"dnsmasq", "pppoe_server", "wpa_supplicant", "radvd", "dillo",
         "telnetd", "upnp_monitor", "klogd", "syslogd", "ppp_rp_pppoe"},
        {"start", "stop"}, "restart")
  \union
  Pairs({"ezcd"}, {"stop", "reload"}, "boot")
  \union
  { {<<"dnsmasq", "start">>, <<"dnsmasq", "stop">>, <<"dnsmasq", "restart">>},
    {<<"dillo", "start">>, <<"dillo", "stop">>, <<"dillo", "restart">>},
    {<<"dhid", "start">>, <<"dhisd", "start">>},
    {<<"dhid", "restart">>, <<"dhisd", "stop">>},
    {<<"preboot", "boot">>, <<"dmcrypt_data_partition", "boot">>},
    {<<"preboot", "boot">>, <<"data_partition", "boot">>, <<"data_storage", "boot">>},
    {<<"preboot", "boot">>, <<"nvram", "reload">>},
    {<<"nvram", "stop">>, <<"nvram", "reload">>},
    {<<"preboot", "boot">>, <<"swap_partition", "start">>},
    {<<"login", "start">>, <<"login", "restart">>},
    {<<"bootstrap", "start">>, <<"nvram", "reload">>},
    {<<"load_modules", "start">>, <<"load_modules", "stop">>},
    {<<"exec", "start">>, <<"dnsmasq", "start">>},
    {<<"agent", "stop">>} }
  \union
  Once({"freeradius2_server", "coova_chilli", "lxc", "ezctp", "ldconfig",
        "realtime", "ezcfg_httpd", "ezcfg_igrsd", "ezcfg_upnpd", "init",
        "iptables_firewall", "iptables_load", "iptables_lan", "iptables_wan",
        "ppp_chap_secrets", "ppp_pap_secrets", "mdev", "resolv_conf",
        "openssl", "shelld", "loopback", "eth_lan_if", "eth_wan_if", "wan_if",
        "wifi_lan_if", "lan", "br_lan_if", "wan", "system", "env", "bridge",
        "state"},
       {"start", "stop", "restart"})
  \union
  Once({"mdev", "netbase", "mount_system_fs", "udev_pop_nodes", "ezcm",
        "login", "cgroup", "base_files", "overlay_rootfs"}, {"boot", "start"})
=============================================================================
