----------------------------- MODULE RunControl -----------------------------
(***************************************************************************)
(* The rc programs of ezcd.  Every service of the box is started, stopped  *)
(* and restarted by an rc program of its own (ezcd/src/rc.c), which loads  *)
(* the script, counts itself in the rc queue, takes the one semaphore of   *)
(* all rc programs, runs the script and gives back what it took.  The      *)
(* scripts are those of RcScript and EnvAction.  Around them nvram         *)
(* changes, and processes that were told to end do so in their own time.   *)
(***************************************************************************)
EXTENDS EnvAction, FiniteSets, TLC

CONSTANTS
  Rcs,         \* the rc programs that may exist at a time
  JobFamilies, \* sets of jobs <<script, act>> that are asked for together
  MaxVer       \* bound: versions of nvram

ASSUME RcAssumption ==
  /\ IsFiniteSet(Rcs) /\ Rcs # {}
  /\ MaxVer \in Nat \ {0}
  /\ UNION JobFamilies \subseteq
       ({"agent"} \union RcFunctions \union ActionFunctions) \X RcActs

VARIABLES
  jobs,   \* the jobs that will still be asked for, each once
  rc,     \* the rc programs
  sem,    \* value of the rc semaphore
  queue,  \* rc queue number in shared memory
  procs,  \* per process name: running, told to end, killed
  conf,   \* configuration files: version of nvram they hold, 0 when empty
  lost,   \* files whose last fopen() for writing failed
  world,  \* facts the scripts have established
  nvver   \* version of nvram

vars == <<jobs, rc, sem, queue, procs, conf, lost, world, nvver>>
machine == <<procs, conf, lost, world>>

-----------------------------------------------------------------------------

(* dlopen() of rc_<name>.so; the actions of the env agent are loaded by   *)
(* rc_agent and can be asked for one at a time as well.                    *)
Script(job) ==
  CASE job[1] = "agent"       -> rc_agent(job[2])
    [] job[1] \in RcFunctions -> rc_function(job[1], job[2])
    [] OTHER                  -> call_action_function(job[1], job[2])

Idle == [pc |-> "idle", job |-> <<"", "">>, script |-> <<>>, i |-> 0, ver |-> 0,
         ok |-> FALSE]
Command(r) == rc[r].script[rc[r].i]
Running(r) == rc[r].pc = "run"

(* The processes the scripts handle.                                       *)
ProcNames == {"dnsmasq", "dhid", "dhisd", "pppoe-server", "radiusd",
              "wpa_supplicant", "radvd", "dillo", "telnetd", "upnp_monitor",
              "chilli", "klogd", "syslogd", "pppd", "ezcd", "shelld"}
NoProcess == [up |-> 0, term |-> 0, kill |-> 0]
Gone(n) == procs[n] = NoProcess

(* A machine with all its partitions and a boot.cfg, and one with neither. *)
Devices == {"boot_dev", "boot_image", "data_dev", "swap_dev", "disk"}

Init ==
  /\ jobs \in JobFamilies
  /\ rc = [r \in Rcs |-> Idle]
  /\ sem = 1 /\ queue = 0
  /\ procs = [n \in ProcNames |-> NoProcess]
  /\ lost = {}
  /\ \/ world = Devices /\ conf = [f \in {"boot.cfg"} |-> 1]
     \/ world = {} /\ conf = [f \in {} |-> 0]
  /\ nvver = 1

-----------------------------------------------------------------------------

(* rc_main().  The queue number is raised, the semaphore taken, the wait   *)
(* the caller asked for slept through, the script run, and what was taken  *)
(* given back.  Each may fail, and then only what was taken is given back. *)
IncreaseQueue(r) ==
  /\ rc[r].pc = "idle"
  /\ queue' = queue + 1
  /\ \E job \in jobs :
       /\ jobs' = jobs \ {job}
       /\ rc' = [rc EXCEPT ![r].pc = "sem", ![r].job = job, ![r].script = Script(job)]
  /\ UNCHANGED <<sem, machine, nvver>>

RequireSemaphore(r) ==
  /\ rc[r].pc = "sem"
  /\ sem > 0
  /\ sem' = sem - 1
  /\ rc' = [rc EXCEPT ![r].pc = "delay"]
  /\ UNCHANGED <<jobs, queue, machine, nvver>>

(* Mutant: the way out releases a semaphore that was not taken.            *)
ReleasesUntaken(r) ==
  /\ rc[r].pc = "sem"
  /\ rc' = [rc EXCEPT ![r].pc = "release"]
  /\ UNCHANGED <<jobs, sem, queue, machine, nvver>>

(* ftok(), semget() or the path of the semaphore file failed.              *)
SemaphoreError(r) ==
  /\ rc[r].pc = "sem"
  /\ rc' = [rc EXCEPT ![r].pc = "dequeue"]
  /\ UNCHANGED <<jobs, sem, queue, machine, nvver>>

Delay(r) ==
  /\ rc[r].pc = "delay"
  /\ rc' = [rc EXCEPT ![r].pc = "run", ![r].i = 1, ![r].ver = nvver]
  /\ UNCHANGED <<jobs, sem, queue, machine, nvver>>

ReleaseSemaphore(r) ==
  /\ rc[r].pc = "release"
  /\ sem' = sem + 1
  /\ rc' = [rc EXCEPT ![r].pc = "dequeue"]
  /\ UNCHANGED <<jobs, queue, machine, nvver>>

DecreaseQueue(r) ==
  /\ rc[r].pc = "dequeue"
  /\ queue' = queue - 1
  /\ rc' = [rc EXCEPT ![r] = Idle]
  /\ UNCHANGED <<jobs, sem, machine, nvver>>

-----------------------------------------------------------------------------

(* The commands of a script.                                               *)

(* The script goes on after its k-th next command, or ends.                *)
Leave(r, success) ==
  rc' = [rc EXCEPT ![r].pc = "release", ![r].ok = success,
                     ![r].script = <<>>, ![r].i = 0]

Advance(r, k) ==
  IF rc[r].i + k > Len(rc[r].script)
  THEN Leave(r, TRUE)
  ELSE rc' = [rc EXCEPT ![r].i = @ + k]
Refuse(r) ==
  IF Command(r).skip = 0 THEN Leave(r, FALSE) ELSE Advance(r, Command(r).skip)

NotScripted == <<jobs, sem, queue, nvver>>

(* Conditions.  A test looks at state outside the model and may go either  *)
(* way.                                                                    *)
Holds(c) ==
  CASE c.op = "test"     -> BOOLEAN
    [] c.op = "need"     -> {c.arg \in world}
    [] c.op = "lack"     -> {c.arg \notin world}
    [] c.op = "openread" -> {c.arg \in DOMAIN conf}
    [] c.op = "hasline"  -> {c.arg \in DOMAIN conf /\ conf[c.arg] # 0}
    [] c.op = "noproc"   -> {Gone(c.arg)}
    [] c.op = "fail"     -> {FALSE}
    [] OTHER             -> {}
Decide(r) ==
  /\ Running(r)
  /\ \E h \in Holds(Command(r)) : IF h THEN Advance(r, 1) ELSE Refuse(r)
  /\ UNCHANGED <<NotScripted, machine>>

(* return, and the jump over an else branch.                               *)
Jump(r) ==
  /\ Running(r)
  /\ Command(r).op \in {"return", "jump"}
  /\ IF Command(r).skip = 0 THEN Leave(r, TRUE) ELSE Advance(r, Command(r).skip)
  /\ UNCHANGED <<NotScripted, machine>>

(* Facts.                                                                  *)
Establish(r) ==
  LET c == Command(r) IN
  /\ Running(r) /\ c.op \in {"add", "del"}
  /\ world' = IF c.op = "add" THEN world \union {c.arg} ELSE world \ {c.arg}
  /\ Advance(r, 1)
  /\ UNCHANGED <<NotScripted, procs, conf, lost>>

(* Files.  What is filled in is taken from nvram as it is now.             *)
OpenFile(r) ==
  LET f == Command(r).arg IN
  /\ Running(r) /\ Command(r).op = "open"
  /\ \/ /\ conf' = (f :> 0) @@ conf
        /\ lost' = lost \ {f}
        /\ Advance(r, 1)
     \/ /\ lost' = lost \union {f}
        /\ Refuse(r)
        /\ UNCHANGED conf
  /\ UNCHANGED <<NotScripted, procs, world>>

Without(f) == [g \in DOMAIN conf \ {f} |-> conf[g]]
WriteFiles(r) ==
  LET c == Command(r) IN
  /\ Running(r) /\ c.op \in {"fill", "rename", "unlink"}
  /\ conf' = CASE c.op = "fill"   -> (c.arg :> nvver) @@ conf
               [] c.op = "unlink" -> Without(c.arg)
               [] c.op = "rename" -> (c.arg :> conf[c.arg \o ".new"])
                                       @@ Without(c.arg \o ".new")
  /\ Advance(r, 1)
  /\ UNCHANGED <<NotScripted, procs, lost, world>>

(* Processes.  start-stop-daemon looks for a process of that name and      *)
(* starts one when it has seen none.                                       *)
LookFor(r) ==
  LET c == Command(r) IN
  /\ Running(r) /\ c.op = "start"
  /\ IF Gone(c.arg) THEN rc' = [rc EXCEPT ![r].pc = "launch"] ELSE Advance(r, 1)
  /\ UNCHANGED <<NotScripted, machine>>

Launch(r) ==
  LET c == Command(r) IN
  /\ \/ rc[r].pc = "launch"
     \/ Running(r) /\ c.op = "spawn"
  /\ procs' = [procs EXCEPT ![IF c.op = "spawn" THEN c.arg ELSE c.exe].up = @ + 1]
  /\ IF rc[r].i = Len(rc[r].script)
     THEN Leave(r, TRUE)
     ELSE rc' = [rc EXCEPT ![r].pc = "run", ![r].i = @ + 1]
  /\ UNCHANGED <<NotScripted, conf, lost, world>>

Told(n, signal) ==
  [procs EXCEPT ![n] = IF signal = "kill"
                       THEN [up |-> 0, term |-> 0, kill |-> @.up + @.term + @.kill]
                       ELSE [@ EXCEPT !.up = 0, !.term = procs[n].up + procs[n].term]]
Signal(r) ==
  LET c == Command(r) IN
  /\ Running(r) /\ c.op \in {"term", "kill"}
  /\ procs' = Told(c.arg, c.op)
  /\ Advance(r, 1)
  /\ UNCHANGED <<NotScripted, conf, lost, world>>

(* A killed process is gone within the second a script sleeps.             *)
SleepOne(r) ==
  /\ Running(r) /\ Command(r).op = "sleep"
  /\ \A n \in ProcNames : procs[n].kill = 0
  /\ Advance(r, 1)
  /\ UNCHANGED <<NotScripted, machine>>

(* Mutant: the loop looks for the process and does not signal it.          *)
LookUntilGone(r) ==
  /\ Running(r) /\ Command(r).op = "untilgone"
  /\ Gone(Command(r).arg)
  /\ Advance(r, 1)
  /\ UNCHANGED <<NotScripted, machine>>

SignalUntilGone(r) ==
  LET n == Command(r).arg IN
  /\ Running(r) /\ Command(r).op = "untilgone"
  /\ \/ /\ procs[n].up > 0
        /\ procs' = Told(n, "term")
        /\ UNCHANGED rc
     \/ /\ Gone(n)
        /\ Advance(r, 1)
        /\ UNCHANGED procs
  /\ UNCHANGED <<NotScripted, conf, lost, world>>

AwaitProcess(r) ==
  /\ Running(r) /\ Command(r).op = "awaitup"
  /\ procs[Command(r).arg].up > 0
  /\ Advance(r, 1)
  /\ UNCHANGED <<NotScripted, machine>>

(* The program is another one from here on, or has exited: nothing of      *)
(* rc_main() is left to give the semaphore back.                           *)
ExecProgram(r) ==
  /\ Running(r) /\ Command(r).op \in {"exec", "exit"}
  /\ rc' = [rc EXCEPT ![r].pc = "gone"]
  /\ UNCHANGED <<NotScripted, machine>>

ScriptStep(r) ==
  \/ Decide(r) \/ Jump(r) \/ Establish(r)
  \/ OpenFile(r) \/ WriteFiles(r)
  \/ LookFor(r) \/ Launch(r) \/ Signal(r) \/ SleepOne(r)
  \/ SignalUntilGone(r) \/ AwaitProcess(r) \/ ExecProgram(r)

-----------------------------------------------------------------------------

(* A process that was told to end does.                                    *)
Die(n) ==
  /\ procs[n].term + procs[n].kill > 0
  /\ procs' = [procs EXCEPT ![n].term = 0, ![n].kill = 0]
  /\ UNCHANGED <<jobs, rc, sem, queue, conf, lost, world, nvver>>

(* A client of ezcd changes nvram.                                         *)
NvramChange ==
  /\ nvver < MaxVer
  /\ nvver' = nvver + 1
  /\ UNCHANGED <<jobs, rc, sem, queue, machine>>

RcStep(r) ==
  \/ RequireSemaphore(r) \/ SemaphoreError(r) \/ Delay(r) \/ ScriptStep(r)
  \/ ReleaseSemaphore(r) \/ DecreaseQueue(r)

Next ==
  \/ \E r \in Rcs : IncreaseQueue(r) \/ RcStep(r)
  \/ \E n \in ProcNames : Die(n)
  \/ NvramChange

Fairness ==
  /\ \A r \in Rcs : WF_vars(RcStep(r))
  /\ \A n \in ProcNames : WF_vars(Die(n))

Spec == Init /\ [][Next]_vars /\ Fairness

-----------------------------------------------------------------------------

(* Type invariant.                                                         *)
TypeOK ==
  /\ jobs \subseteq UNION JobFamilies /\ nvver \in 1..MaxVer
  /\ sem \in 0..1 /\ queue \in 0..Cardinality(Rcs)
  /\ \A r \in Rcs :
       /\ rc[r].pc \in {"idle", "sem", "delay", "run", "launch", "release",
                        "dequeue", "gone"}
       /\ rc[r].pc \in {"run", "launch"} => rc[r].i \in 1..Len(rc[r].script)
  /\ \A n \in ProcNames : procs[n] \in [up : Nat, term : Nat, kill : Nat]
  /\ \A f \in DOMAIN conf : conf[f] \in 0..nvver

Holding(r) == rc[r].pc \in {"delay", "run", "launch", "release", "gone"}
Counted(r) == rc[r].pc # "idle"
NoScript == sem = 1

(* rc.c: whatever fails on the way in, an rc program gives back exactly    *)
(* what it took: the semaphore is held by at most one program, is free     *)
(* when none holds it, and the queue number counts the programs present.   *)
GivesBackWhatItTook ==
  /\ sem + Cardinality({r \in Rcs : Holding(r)}) = 1
  /\ queue = Cardinality({r \in Rcs : Counted(r)})

(* The daemons that are started with start-stop-daemon under the name it   *)
(* looks for.  (dhid is not: rc_dhisd starts it too, and looks for dhisd.) *)
Guarded == {"dnsmasq", "pppoe-server", "radiusd", "wpa_supplicant", "radvd",
            "dillo", "telnetd", "klogd", "syslogd", "pppd"}

(* start-stop-daemon -S looks first and starts then; with the semaphore    *)
(* around it, two rc programs never start the same daemon twice, however   *)
(* starts, stops and restarts follow each other.                           *)
SingleInstance ==
  \A n \in Guarded : procs[n].up + procs[n].term + procs[n].kill <= 1

(* The daemon of a script, and the files it reads when it starts.          *)
DaemonOf == [dnsmasq |-> "dnsmasq", dhid |-> "dhid",
  pppoe_server |-> "pppoe-server", freeradius2_server |-> "radiusd",
  wpa_supplicant |-> "wpa_supplicant", radvd |-> "radvd", dillo |-> "dillo",
  telnetd |-> "telnetd", upnp_monitor |-> "upnp_monitor", klogd |-> "klogd",
  syslogd |-> "syslogd", ppp_rp_pppoe |-> "pppd", ezcd |-> "ezcd"]
ConfigOf == [dnsmasq |-> {"dnsmasq.conf"}, dhid |-> {"dhid.conf"},
  dhisd |-> {"dhisd.conf", "dhis.db"},
  pppoe_server |-> {"pppoe-server-options"},
  freeradius2_server |-> {"radiusd.conf", "radius_clients",
                          "radius_dictionary", "radius_eap"},
  wpa_supplicant |-> {"wpa_supplicant.conf"}, radvd |-> {"radvd.conf"},
  dillo |-> {"dillorc"}, ppp_rp_pppoe |-> {"rp-pppoe-options"},
  ezcd |-> {"ezcd.conf"}]

(* A stop that reports success leaves no daemon of the service that was    *)
(* not told to end, whatever another rc program had under way.             *)
StopLeavesNone ==
  \A r \in Rcs :
    ( /\ rc[r].pc = "release" /\ rc[r].ok
      /\ rc[r].job[2] = "stop" /\ rc[r].job[1] \in DOMAIN DaemonOf )
    => procs[DaemonOf[rc[r].job[1]]].up = 0

(* A daemon that is started reads files no older than its script: each was *)
(* written after the script began, from the nvram of that moment or later. *)
(* A file that could not be opened is the exception the scripts accept, as *)
(* is wpa_supplicant's when its interface has lost its name.               *)
StartsOnFreshFiles ==
  [][\A r \in Rcs :
       (rc[r].pc = "launch" /\ rc'[r].pc # "launch"
          /\ rc[r].job[1] \in DOMAIN ConfigOf \ {"wpa_supplicant"})
       => \A f \in ConfigOf[rc[r].job[1]] \ lost :
            f \in DOMAIN conf /\ conf[f] >= rc[r].ver]_vars

(* The services that are killed, or told to end until they are gone,       *)
(* before a restart starts them: the old process never makes the start a   *)
(* no-op, so that the daemon runs when the restart reports success.        *)
RestartRuns ==
  \A r \in Rcs :
    ( /\ rc[r].pc = "release" /\ rc[r].ok /\ rc[r].job[2] = "restart"
      /\ rc[r].job[1] \in {"dillo", "telnetd", "upnp_monitor"} )
    => procs[DaemonOf[rc[r].job[1]]].up > 0

(* The key of the data partition, the passwords for chpasswd and the input *)
(* for fdisk are there only while their script runs: no failure on its way *)
(* leaves them behind.                                                     *)
SecretsRemoved ==
  NoScript => DOMAIN conf \intersect
                {"data_partition_key", "chpasswd", "fdisk_command"} = {}

(* /boot is written by one script at a time and is read-only, or not       *)
(* mounted, whenever none runs.                                            *)
BootReadonly == NoScript => "boot rw" \notin world

(* boot.cfg and ezcd.conf are replaced as a whole: no reader, at any       *)
(* moment, finds an empty one, even if the new one could not be written.   *)
NeverTorn ==
  \A f \in DOMAIN conf \intersect {"boot.cfg", "ezcd.conf"} : conf[f] # 0

(* The three ways in which an rc program keeps the semaphore: it has       *)
(* become another program (rc_init, rc_exec, switch_root), it has exited   *)
(* in the middle of its script (env_action_preboot.c:157, when switch_root *)
(* cannot be executed), or it waits for a daemon that nobody has started.  *)
Stuck ==
  \E r \in Rcs :
    \/ rc[r].pc = "gone"
    \/ /\ Running(r) /\ Command(r).op = "awaitup"
       /\ procs[Command(r).arg].up = 0

(* Every rc program that is asked for ends, unless one is stuck with the   *)
(* semaphore: no script waits for another, and no loop in one runs for     *)
(* ever.                                                                   *)
JobsEnd == \A r \in Rcs : rc[r].pc # "idle" ~> (rc[r].pc = "idle" \/ Stuck)

(* A command that reports success has had its effect on the daemon: none   *)
(* is left by a stop, and one runs after a restart.                        *)
DaemonAsAsked == StopLeavesNone /\ RestartRuns

(* What scripts leave behind in the file system, whatever failed in them:  *)
(* no secret, no writable /boot, no empty boot.cfg or ezcd.conf.           *)
FilesSound == TypeOK /\ SecretsRemoved /\ BootReadonly /\ NeverTorn
=============================================================================
