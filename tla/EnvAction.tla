----------------------------- MODULE EnvAction -----------------------------
(***************************************************************************)
(* ezcd/src/rcso/env_action_*.c, the actions that build up and take down   *)
(* the environment (partitions, modules, interfaces, system daemons), with *)
(* the functions of ezcd/src/utils they share.  Scripts are written as in  *)
(* RcScript.                                                               *)
(*                                                                         *)
(* boot_dev, boot_image, data_dev and disk are facts of the machine: the   *)
(* kernel command line names the device, and the boot partition holds a    *)
(* boot.cfg with its keywords, a kernel and a root file system.            *)
(***************************************************************************)
EXTENDS RcScript

(* Partitions.  /boot is mounted "boot ro" or "boot rw", /data from the    *)
(* plain device or from the mapped one.                                    *)
utils_boot_partition_is_ready ==
  Need("boot_dev") \o Need("boot mounted") \o Need("boot_image")

utils_data_partition_is_ready == Need("data_dev") \o Need("data mounted")

utils_umount_boot_partition ==
  Need("boot_dev") \o Del("boot rw") \o Del("boot mounted")

(* A second mount of a mounted partition is refused by mount(8).           *)
utils_mount_boot_partition_readonly ==
  Need("boot_dev") \o Test("stat dev") \o If(Lack("boot mounted"), Add("boot mounted"))

utils_mount_boot_partition_writable ==
  Need("boot_dev") \o Test("stat dev")
    \o If(Lack("boot mounted"), Add("boot mounted") \o Add("boot rw"))

utils_remount_boot_partition_readonly ==
  Ignore(utils_umount_boot_partition) \o Sleep \o utils_mount_boot_partition_readonly

utils_remount_boot_partition_writable ==
  Ignore(utils_umount_boot_partition) \o Sleep \o utils_mount_boot_partition_writable

utils_mount_data_partition_writable ==
  Need("data_dev") \o Test("stat dev") \o Run("mount", Add("data mounted"))

utils_umount_data_partition == Need("data_dev") \o Del("data mounted")

(* The key file is read by cryptsetup; the mounted device is not the one   *)
(* utils_data_partition_is_ready looks for.                                *)
utils_mount_dmcrypt_data_partition_writable ==
  Need("data_dev") \o Test("stat dev")
    \o If(OpenRead("data_partition_key"), If(HasLine("data_partition_key"),
          Run("luksOpen", Add("data_crypt"))))
    \o Need("data_crypt") \o Run("mount", Add("crypt data mounted"))

utils_umount_dmcrypt_data_partition ==
  Del("crypt data mounted") \o Del("data_crypt")

utils_swap_partition_on  == Need("swap_dev") \o Add("swap")
utils_swap_partition_off == Need("swap_dev") \o Del("swap")

(* boot.cfg is rewritten with nvram's values beside itself and moved over. *)
utils_sync_cfg_with_nvram ==
  OpenRead("boot.cfg") \o Open("boot.cfg.new") \o Fill("boot.cfg.new")
    \o Rename("boot.cfg")

utils_sync_nvram_with_cfg == OpenRead("boot.cfg")

env_action_data_partition(act) ==
  utils_boot_partition_is_ready \o InitApi \o NoAct(act, {"boot", "stop"})
    \o On(act, {"boot"}, Ignore(utils_mount_data_partition_writable))
    \o On(act, {"stop"}, Ignore(utils_umount_data_partition))

env_action_dmcrypt_data_partition(act) ==
  utils_boot_partition_is_ready \o InitApi \o NoAct(act, {"boot", "stop"})
    \o On(act, {"boot"},
          MkDir("/etc/keys")
            \o Ignore(pop_etc_keys_data_partition_key("boot"))
            \o Ignore(utils_mount_dmcrypt_data_partition_writable)
            \o Ignore(pop_etc_keys_data_partition_key("stop")))
    \o On(act, {"stop"}, Ignore(utils_umount_dmcrypt_data_partition))

env_action_data_storage(act) ==
  utils_data_partition_is_ready \o InitApi \o NoAct(act, {"boot"})
    \o Add("/data/rootfs/var dirs")

OverlayDir(dir, act) ==
  If(Test("stat dir"),
     On(act, {"boot"}, Add(dir)) \o On(act, {"stop"}, Del(dir)))
env_action_overlay_rootfs(act) ==
  utils_data_partition_is_ready \o InitApi \o NoAct(act, {"boot", "stop"})
    \o OverlayDir("/bin", act) \o OverlayDir("/lib", act) \o OverlayDir("/sbin", act)
    \o OverlayDir("/usr", act) \o OverlayDir("/var", act) \o OverlayDir("/home", act)
    \o OverlayDir("/root", act)

env_action_swap_partition(act) ==
  utils_boot_partition_is_ready \o InitApi \o NoAct(act, {"start", "stop"})
    \o On(act, {"start"}, Ignore(utils_swap_partition_on))
    \o On(act, {"stop"}, Ignore(utils_swap_partition_off))

(* nvram is loaded from boot.cfg at boot and saved to it on a read-write   *)
(* /boot, which is read-only again when the action ends.                   *)
env_action_nvram(act) ==
  InitApi \o NoAct(act, {"boot", "reload", "stop", "usrdef"})
    \o On(act, {"boot"}, Call(utils_sync_nvram_with_cfg))
    \o On(act, {"reload", "stop"},
          Ignore(utils_remount_boot_partition_writable)
            \o Ignore(utils_sync_cfg_with_nvram)
            \o Ignore(utils_remount_boot_partition_readonly))
    \o On(act, {"usrdef"}, Test("nvram set, unset"))

(* switch_root replaces the program; when its execv() fails, the program   *)
(* exits.                                                                  *)
utils_switch_root_device == If(Test("execv"), Exec("init"))
SwitchRoot ==
  Ignore(Test("switch_root_is_ready") \o Add("root mounted")
           \o Del("preboot dirs") \o utils_switch_root_device \o Exit)

(* boot.cfg is copied from its default when there is none.                 *)
RestoreBootCfg ==
  IfElse(OpenRead("boot.cfg"), <<>>,
         If(Test("boot.cfg.dft"), Unlink("boot.cfg") \o Run("cp", Fill("boot.cfg"))))

(* preboot leaves through switch_root, and then never returns; otherwise   *)
(* it mounts /boot read-write, restores boot.cfg from its default and ends *)
(* with a read-only /boot, if /boot is a boot partition.                   *)
env_action_preboot(act) ==
  InitApi \o NoAct(act, {"boot"})
    \o MkDir("preboot dirs")
    \o If(Test("kernel modules"), Add("kernel modules"))
    \o Add("device nodes")
    \o If(Test("kernel_init"), SwitchRoot)
    \o Ignore(utils_mount_boot_partition_writable)
    \o IfReady(utils_boot_partition_is_ready, <<>>,
               Ignore(utils_umount_boot_partition))
    \o RestoreBootCfg
    \o IfReady(utils_boot_partition_is_ready,
               Ignore(utils_remount_boot_partition_readonly), <<>>)

(* The installation of a new disk: it is partitioned, and each file system *)
(* made, mounted under /mnt, filled and unmounted.  No result is looked at.*)
generate_fdisk_command == WriteFile("fdisk_command")
generate_grub_cfg == Test("boot_args, distro_name, software_version") \o WriteFile("grub.cfg")
env_action_bootstrap(act) ==
  InitApi \o Need("disk") \o Need("boot_image") \o NoAct(act, {"start"})
    \o Ignore(generate_fdisk_command) \o Unlink("fdisk_command")
    \o Run("mkfs, mount", Add("/mnt/boot"))
    \o Ignore(generate_grub_cfg) \o Del("/mnt/boot")
    \o Run("mkfs, mount", Add("/mnt/root")) \o Del("/mnt/root")
    \o Run("mkfs, mount", Add("/mnt/data")) \o Del("/mnt/data")

-----------------------------------------------------------------------------

(* Kernel modules: the list in a file is written, read back and acted on.  *)
(* For "stop" the list just written has no line.                           *)
env_action_load_modules(act) ==
  InitApi \o Ignore(pop_etc_modules(act))
    \o OpenRead("modules") \o NoAct(act, {"boot", "start", "stop"})
    \o HasLine("modules")
    \o On(act, {"boot", "start"}, Run("modprobe", Add("modules loaded")))
    \o On(act, {"stop"}, Run("rmmod", Del("modules loaded")))

load_iptables_modules(act) ==
  NoAct(act, {"boot"} \union StartStopRestart)
    \o On(act, {"boot"}, MkDir("/etc/l7-protocols") \o MkDir("/etc/iptables") \o Return)
    \o On(act, Stops, Ignore(pop_etc_iptables_modules("stop"))
                        \o OpenRead("ipt_modules")
                        \o If(HasLine("ipt_modules"),
                              Run("rmmod", Del("ipt_modules loaded"))))
    \o On(act, {"stop"}, Return)
    \o Ignore(pop_etc_iptables_modules("start"))
    \o OpenRead("ipt_modules")
    \o HasLine("ipt_modules")
    \o Run("modprobe", Add("ipt_modules loaded"))

iptables_firewall(act) ==
  NoAct(act, StartStopRestart)
    \o On(act, Stops, Ignore(pop_etc_iptables_firewall("stop"))
                        \o Run("iptables -F, -X", Del("firewall rules")))
    \o On(act, {"stop"}, Return)
    \o Ignore(pop_etc_iptables_firewall("start"))
    \o Open("ip_forward") \o Fill("ip_forward")
    \o If(OpenRead("firewall"), Run("iptables-restore", Add("firewall rules")))

lan_iptables(act) == Test("IPTABLES_ENABLE") \o NoAct(act, StartStopRestart)
wan_iptables(act) == Test("IPTABLES_ENABLE") \o NoAct(act, StartStopRestart)

env_action_iptables(part, act) ==
  InitApi \o (CASE part = "load" -> load_iptables_modules(act)
                [] part = "firewall" -> iptables_firewall(act)
                [] part = "lan" -> lan_iptables(act)
                [] part = "wan" -> wan_iptables(act))

(* Interfaces: taken down, and up again, with a tool that may fail.        *)
InterfaceAction(ifname, act) ==
  NoAct(act, {"boot"} \union StartStopRestart)
    \o On(act, Stops, Run("ip link down", Del(ifname)))
    \o On(act, {"stop"}, Return)
    \o Run("ip link up", Add(ifname))

env_action_loopback(act) == InitApi \o InterfaceAction("lo", act)
env_action_eth_lan_if(act) ==
  InitApi \o Test("ETH_LAN_IFNAME") \o InterfaceAction("eth_lan", act)
env_action_eth_wan_if(act) ==
  InitApi \o Test("ETH_WAN_IFNAME") \o InterfaceAction("eth_wan", act)
env_action_wan_if(act) ==
  InitApi \o Test("WAN_IFNAME") \o InterfaceAction("wan_if", act)
env_action_wifi_lan_if(act) ==
  InitApi \o Test("WIFI_LAN_IFNAME") \o InterfaceAction("wifi_lan", act)
env_action_lan(act) ==
  InitApi \o Test("LAN_IFNAME") \o InterfaceAction("lan", act)

(* The bridge: ports are detached before it is deleted, and attached after *)
(* it is made.  brctl knows a port only of a bridge that exists.           *)
env_action_br_lan_if(act) ==
  InitApi \o Test("BR_LAN_IFNAME, IFNAMES")
    \o NoAct(act, {"boot", "usrdef"} \union StartStopRestart)
    \o On(act, {"usrdef"}, Return)
    \o On(act, Stops, Run("ip link down", Del("br_lan up"))
                        \o Run("brctl delif", Del("br_lan port"))
                        \o Run("brctl delbr",
                               If(Lack("br_lan up"), Del("br_lan port") \o Del("br_lan"))))
    \o On(act, {"stop"}, Return)
    \o Run("brctl addbr", Add("br_lan"))
    \o Run("brctl addif", If(Need("br_lan"), Add("br_lan port")))
    \o Run("ip link up", If(Need("br_lan"), Add("br_lan up")))

(* The wan connection: the tool of its type, and for a static address the  *)
(* nvram entries and resolv.conf that a dhcp client would have written.    *)
config_wan_static == Add("wan address") \o Ignore(pop_etc_resolv_conf("start"))
deconfig_wan_static == Ignore(pop_etc_resolv_conf("stop")) \o Del("wan address")
start_wan ==
  Test("wan_type, ifname") \o Run("ip link up", Add("wan"))
    \o If(Test("WAN_TYPE_STATIC"), config_wan_static)
stop_wan ==
  Test("wan_type, ifname") \o If(Test("WAN_TYPE_STATIC"), deconfig_wan_static)
    \o Run("ip link down", Del("wan"))
env_action_wan(act) ==
  InitApi \o NoAct(act, {"boot"} \union StartStopRestart)
    \o On(act, Stops, stop_wan)
    \o On(act, {"stop"}, Return)
    \o start_wan

-----------------------------------------------------------------------------

(* Daemons of the system.                                                  *)
env_action_klogd(act) ==
  InitApi \o NoAct(act, StartStopRestart)
    \o On(act, Stops, Term("klogd"))
    \o On(act, {"stop"}, Return)
    \o Test("KLOGD_ENABLE") \o Start("klogd", "klogd")

env_action_syslogd(act) ==
  InitApi \o NoAct(act, StartStopRestart)
    \o On(act, Stops, Term("syslogd"))
    \o On(act, {"stop"}, Return)
    \o Test("SYSLOGD_ENABLE") \o Start("syslogd", "syslogd")

env_action_ppp_rp_pppoe(act) ==
  InitApi \o Test("PPP_RP_PPPOE_BINDING") \o NoAct(act, StartStopRestart)
    \o On(act, Stops, Term("pppd"))
    \o On(act, {"stop"}, Return)
    \o Test("PPP_RP_PPPOE_ENABLE") \o Test("ifname, addresses, sessions")
    \o MkDir("/etc/ppp")
    \o Ignore(pop_etc_ppp_rp_pppoe_options("start"))
    \o Start("pppd", "pppd")

(* ezcd is told to end until it is gone, then awaited down; a boot starts  *)
(* another one whatever runs and awaits an answer of nvram.                *)
env_action_ezcd(act) ==
  InitApi \o NoAct(act, {"boot", "stop", "reload"})
    \o On(act, {"boot", "reload"}, Ignore(pop_etc_ezcd_conf(act)))
    \o On(act, {"boot"}, Spawn("ezcd"))
    \o On(act, {"boot", "reload"}, AwaitUp("ezcd"))
    \o On(act, {"stop"}, TermUntilGone("ezcd"))

env_action_shelld(act) ==
  InitApi \o NoAct(act, {"boot"} \union StartStopRestart)
    \o On(act, {"stop"}, Return)
    \o Spawn("shelld")

-----------------------------------------------------------------------------

(* Files of the system.                                                    *)
env_action_base_files(act) ==
  InitApi \o NoAct(act, {"start"})
    \o Ignore(pop_etc_hostname("start")) \o Ignore(pop_etc_profile("start"))
    \o Ignore(pop_etc_banner("start")) \o Ignore(pop_etc_mtab("start"))

env_action_cgroup(act) ==
  InitApi \o NoAct(act, {"start"})
    \o Ignore(pop_etc_cgconfig_conf("start")) \o Ignore(pop_etc_cgrules_conf("start"))

env_action_netbase(act) ==
  InitApi \o NoAct(act, {"boot", "start", "restart"})
    \o On(act, {"boot"}, MkDir("/etc/network") \o Return)
    \o Ignore(pop_etc_network_interfaces("start")) \o Ignore(pop_etc_hosts("start"))
    \o Ignore(pop_etc_protocols("start")) \o Ignore(pop_etc_mactab("start"))

env_action_openssl(act) ==
  InitApi \o NoAct(act, {"boot"} \union StartStopRestart)
    \o On(act, Stops, Ignore(pop_etc_ssl_openssl_cnf("stop")))
    \o On(act, {"stop"}, Return)
    \o Ignore(pop_etc_ssl_openssl_cnf("start"))

env_action_ppp_chap_secrets(act) ==
  InitApi \o NoAct(act, StartStopRestart)
    \o On(act, Stops, Ignore(pop_etc_ppp_chap_secrets("stop")))
    \o On(act, {"stop"}, Return)
    \o MkDir("/etc/ppp") \o Ignore(pop_etc_ppp_chap_secrets("start"))

env_action_ppp_pap_secrets(act) ==
  InitApi \o NoAct(act, StartStopRestart)
    \o On(act, Stops, Ignore(pop_etc_ppp_pap_secrets("stop")))
    \o On(act, {"stop"}, Return)
    \o MkDir("/etc/ppp") \o Ignore(pop_etc_ppp_pap_secrets("start"))

(* The passwords pass through a file that is unlinked when they are set.   *)
env_action_login(act) ==
  InitApi \o NoAct(act, {"boot", "start", "restart"})
    \o On(act, {"boot", "start"},
          Ignore(pop_etc_passwd(act)) \o Ignore(pop_etc_group(act)))
    \o On(act, {"boot"}, Return)
    \o Test("auth_number, user, secret")
    \o WriteFile("chpasswd") \o Run("chpasswd", Add("passwords set"))
    \o Unlink("chpasswd")

env_action_mount_system_fs(act) ==
  InitApi \o NoAct(act, {"boot", "start"})
    \o If(Test("support_fs debugfs"), If(Lack("debugfs"), Add("debugfs")))
    \o If(Test("support_fs usbfs"), Add("usbfs"))

env_action_udev_pop_nodes(act) ==
  InitApi \o NoAct(act, {"boot", "start"}) \o Add("device nodes")

(* Actions that change nothing but their result.                           *)
env_action_ezcm(act) == InitApi \o NoAct(act, {"boot", "reload"})
env_action_state(act) == InitApi \o NoAct(act, {"start", "stop", "usrdef"})
env_action_system(act) ==
  Test("geteuid") \o InitApi \o NoAct(act, Stops)
    \o Add(IF act = "stop" THEN "poweroff" ELSE "reboot")

-----------------------------------------------------------------------------

ActionFunctions == {"data_partition", "dmcrypt_data_partition", "data_storage",
  "overlay_rootfs", "swap_partition", "nvram", "preboot", "bootstrap",
  "load_modules", "loopback", "eth_lan_if", "eth_wan_if", "wan_if",
  "wifi_lan_if", "lan", "br_lan_if", "wan", "klogd", "syslogd", "ppp_rp_pppoe",
  "ezcd", "shelld", "base_files", "cgroup", "netbase", "openssl",
  "ppp_chap_secrets", "ppp_pap_secrets", "login", "mount_system_fs",
  "udev_pop_nodes", "ezcm", "state", "system", "iptables_load",
  "iptables_firewall", "iptables_lan", "iptables_wan"}

(* call_action_function(): the action of that name.                        *)
call_action_function(name, act) ==
  CASE name = "data_partition" -> env_action_data_partition(act)
    [] name = "dmcrypt_data_partition" -> env_action_dmcrypt_data_partition(act)
    [] name = "data_storage" -> env_action_data_storage(act)
    [] name = "overlay_rootfs" -> env_action_overlay_rootfs(act)
    [] name = "swap_partition" -> env_action_swap_partition(act)
    [] name = "nvram" -> env_action_nvram(act)
    [] name = "preboot" -> env_action_preboot(act)
    [] name = "bootstrap" -> env_action_bootstrap(act)
    [] name = "load_modules" -> env_action_load_modules(act)
    [] name = "loopback" -> env_action_loopback(act)
    [] name = "eth_lan_if" -> env_action_eth_lan_if(act)
    [] name = "eth_wan_if" -> env_action_eth_wan_if(act)
    [] name = "wan_if" -> env_action_wan_if(act)
    [] name = "wifi_lan_if" -> env_action_wifi_lan_if(act)
    [] name = "lan" -> env_action_lan(act)
    [] name = "br_lan_if" -> env_action_br_lan_if(act)
    [] name = "wan" -> env_action_wan(act)
    [] name = "klogd" -> env_action_klogd(act)
    [] name = "syslogd" -> env_action_syslogd(act)
    [] name = "ppp_rp_pppoe" -> env_action_ppp_rp_pppoe(act)
    [] name = "ezcd" -> env_action_ezcd(act)
    [] name = "shelld" -> env_action_shelld(act)
    [] name = "base_files" -> env_action_base_files(act)
    [] name = "cgroup" -> env_action_cgroup(act)
    [] name = "netbase" -> env_action_netbase(act)
    [] name = "openssl" -> env_action_openssl(act)
    [] name = "ppp_chap_secrets" -> env_action_ppp_chap_secrets(act)
    [] name = "ppp_pap_secrets" -> env_action_ppp_pap_secrets(act)
    [] name = "login" -> env_action_login(act)
    [] name = "mount_system_fs" -> env_action_mount_system_fs(act)
    [] name = "udev_pop_nodes" -> env_action_udev_pop_nodes(act)
    [] name = "ezcm" -> env_action_ezcm(act)
    [] name = "state" -> env_action_state(act)
    [] name = "system" -> env_action_system(act)
    [] name = "iptables_load" -> env_action_iptables("load", act)
    [] name = "iptables_firewall" -> env_action_iptables("firewall", act)
    [] name = "iptables_lan" -> env_action_iptables("lan", act)
    [] name = "iptables_wan" -> env_action_iptables("wan", act)

(* An action file of the env agent.  rc_agent runs its lines in order and   *)
(* goes on after an action that failed.                                    *)
AgentLine(name, act) == Ignore(call_action_function(name, act))
agent_stop_file ==
  AgentLine("ppp_rp_pppoe", "stop") \o AgentLine("wan", "stop")
    \o AgentLine("openssl", "stop") \o AgentLine("lan", "stop")
    \o AgentLine("syslogd", "stop") \o AgentLine("klogd", "stop")
    \o AgentLine("state", "stop") \o AgentLine("nvram", "stop")
rc_agent(action) ==
  Test("action file") \o NoAct(action, {"stop"}) \o agent_stop_file
=============================================================================
