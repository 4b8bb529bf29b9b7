----------------------------- MODULE RcCommand -----------------------------
(***************************************************************************)
(* The steps a run-control script is made of.  A script (a function of     *)
(* ezcd/src/rcso, ezcd/src/pop or ezcd/src/utils) is the sequence of the   *)
(* commands it issues, in order, for one action word; the module           *)
(* RunControl executes it.                                                 *)
(*                                                                         *)
(* A command that cannot go on leaves its function: with skip = 0 that is  *)
(* "return (EXIT_FAILURE)" of the script itself.                           *)
(***************************************************************************)
EXTENDS Script

(* The action words utils_get_rc_act_type() knows.  Any other word, or     *)
(* none, is RC_ACT_UNKNOWN.                                                *)
RcActs == {"boot", "start", "stop", "restart", "reload", "combined",
           "usrdef", "unknown"}

Cmd(op, arg) == [op |-> op, arg |-> arg, exe |-> "", skip |-> 0]

(* A condition on nvram, on the kernel command line or on the result of a  *)
(* program: another client may have changed it since the last look, so     *)
(* each test goes either way.                                              *)
Test(what) == <<Cmd("test", what)>>

(* Conditions on the state the scripts themselves build.                   *)
Need(fact) == <<Cmd("need", fact)>>
Lack(fact) == <<Cmd("lack", fact)>>
Add(fact)  == <<Cmd("add", fact)>>
Del(fact)  == <<Cmd("del", fact)>>

(* Files: fopen(f, "w") truncates or fails, fprintf() fills, rename() puts *)
(* f.new in the place of f, unlink() removes.                              *)
Open(f)   == <<Cmd("open", f)>>
Fill(f)   == <<Cmd("fill", f)>>
Rename(f) == <<Cmd("rename", f)>>
Unlink(f) == <<Cmd("unlink", f)>>
(* fopen(f, "r") needs the file; a loop over its lines needs one.          *)
OpenRead(f) == <<Cmd("openread", f)>>
HasLine(f)  == <<Cmd("hasline", f)>>

(* Processes.  Start(n, x) is start-stop-daemon -S -n n -a x: nothing when *)
(* a process named n exists, a dying one included.  Spawn(n) runs n        *)
(* whatever exists.  Term and Kill send the signal to every process of     *)
(* that name.                                                              *)
Start(n, x) == <<[Cmd("start", n) EXCEPT !.exe = x]>>
Spawn(n)    == <<Cmd("spawn", n)>>
Term(n)     == <<Cmd("term", n)>>
Kill(n)     == <<Cmd("kill", n)>>
Sleep       == <<Cmd("sleep", "")>>
NoProc(n)   == <<Cmd("noproc", n)>>

(* Loops: signal and look again until the process is gone; look until the  *)
(* process is up.                                                          *)
TermUntilGone(n) == <<Cmd("untilgone", n)>>
AwaitUp(n)       == <<Cmd("awaitup", n)>>

(* execv(): the rc program is replaced by another one.                     *)
Exec(x) == <<Cmd("exec", x)>>
(* exit() from within a script: the rc program is gone.                    *)
Exit == <<Cmd("exit", "")>>
(* return (EXIT_SUCCESS) and return (EXIT_FAILURE).                        *)
Return == <<Cmd("return", "")>>
Fail   == <<Cmd("fail", "")>>

-----------------------------------------------------------------------------

On(act, acts, s) == IF act \in acts THEN s ELSE <<>>

FailingOps == {"test", "need", "lack", "open", "openread", "hasline", "noproc",
               "fail"}

(* A call whose result the caller drops.                                   *)
Ignore(s) == ToEnd(s, FailingOps \union {"return"})

(* A call whose EXIT_FAILURE the caller returns at once.                   *)
Call(s) == ToEnd(s, {"return"})

(* if (r) { s } else { t }, for a condition r that is a call of several    *)
(* commands: every one of them must go on.                                 *)
IfReady(r, s, t) ==
  LET then == s \o <<[Cmd("jump", "") EXCEPT !.skip = Len(t) + 1]>>
  IN  [i \in DOMAIN r |-> [r[i] EXCEPT !.skip = Len(r) - i + 1 + Len(then)]]
        \o then \o t

(* A program run with utils_system().  It may fail, and then it has changed *)
(* nothing; the script goes on, for utils_execute() answers with an exit   *)
(* status or with errno, and the callers only look for a negative answer.  *)
Run(prog, s) == If(Test(prog), s)

(* mkdir() of a directory unless it is one already; always succeeds.       *)
MkDir(d) == Add(d)

(* fopen(f, "w"), print, fclose: what most pop_ functions do.              *)
WriteFile(f) == Open(f) \o Fill(f)
=============================================================================
