--------------------------- MODULE AndroidRunner ----------------------------
(***************************************************************************)
(* The programs that tasks run against an Android device: launch and       *)
(* monkey (packages/launch/android_launch.py,                              *)
(* packages/monkey/android_monkey.py) and install                          *)
(* (packages/install/android_install.py), with tasklib/apklib.py, as       *)
(* workers/macos/worker.py starts and stops them.                          *)
(*                                                                         *)
(* All runs of a worker share one device.  adb does not hand on the exit   *)
(* code of a command, so the command line has the device write it to       *)
(* /data/local/tmp/ret, and the program reads that file afterwards.  A     *)
(* command outlives the adb that started it, a program may outlive the     *)
(* shell that the worker terminates, and the file outlives them all.       *)
(***************************************************************************)
EXTENDS Integers

CONSTANT NumRuns  \* tasks that the worker executes, one after the other

Runs == 1..NumRuns
Codes == {"zero", "nonzero"}

VARIABLES
  installs,   \* runs of android_install; the others launch or monkey
  run,        \* Runs -> where the program is, and its "ret", exit code, tries
  verdict,    \* Runs -> the exit code that the worker reports
  shell,      \* runs whose command the device is executing
  ret,        \* what is in /data/local/tmp/ret
  installed,  \* runs whose .apk is on the device
  own,        \* history: the code with which each run's command ended
  phrase,     \* runs whose output has one of ERROR_PHRASES
  timedOut,   \* history: runs whose command ran out of time
  fault,      \* history: runs in which adb, or reading a file, failed
  left,       \* history: runs whose uninstall failed
  mixed       \* history: runs that waited while another command was executed

Program(pc, code, pending, again) ==
  [pc |-> pc, ret |-> code, pending |-> pending, again |-> again]

device == <<installs, shell, ret, installed, own>>
history == <<phrase, timedOut, fault, left, mixed>>
runnerVars == <<run, verdict, device, history>>

RunnerInit ==
  /\ installs \in SUBSET Runs
  /\ run = [r \in Runs |-> Program("queued", "zero", "zero", FALSE)]
  /\ verdict = [r \in Runs |-> "none"]
  /\ shell = {}
  /\ ret \in Codes \union {"none"}
  /\ installed = {}
  /\ own = [r \in Runs |-> "none"]
  /\ phrase = {} /\ timedOut = {} /\ fault = {} /\ left = {} /\ mixed = {}

At(r, pc) == run[r].pc = pc
Goto(r, pc) == run' = [run EXCEPT ![r].pc = pc]

(* The program ends; the worker hears of it if it still waits.             *)
Exit(r, code) ==
  /\ Goto(r, "exited")
  /\ verdict' = [verdict EXCEPT ![r] = IF @ = "none" THEN code ELSE @]

-----------------------------------------------------------------------------
(* The worker: a task after the other, each until it ends or is timed out. *)

(* A program reads the manifest first, or fails.                           *)
StartProgram(r) ==
  /\ At(r, "queued")
  /\ \A q \in 1..(r - 1) : verdict[q] # "none"
  /\ \/ Goto(r, IF r \in installs THEN "adb" ELSE "install") /\ UNCHANGED <<verdict, fault>>
     \/ Exit(r, "nonzero") /\ fault' = fault \union {r}
  /\ UNCHANGED <<device, phrase, timedOut, left, mixed>>

(* It terminates the shell of the task's command.  The program dies with   *)
(* it without its "finally", or is left running.                           *)
TerminateProgram(r) ==
  /\ ~At(r, "queued")
  /\ verdict[r] = "none"
  /\ verdict' = [verdict EXCEPT ![r] = "killed"]
  /\ \/ Goto(r, "exited")
     \/ UNCHANGED run
  /\ UNCHANGED <<device, history>>

-----------------------------------------------------------------------------
(* All programs.                                                           *)

(* CheckAdbShellExitCode: no file, or one that is not a number, is an      *)
(* error, as is a failing adb.                                             *)
ExitCodeIs(r, code) ==
  \/ code = "zero" /\ ret = "zero" /\ UNCHANGED fault
  \/ code = "nonzero" /\ ret # "zero" /\ UNCHANGED fault
  \/ code = "nonzero" /\ fault' = fault \union {r}

(* Mutant: the command line does not write its code to the file.           *)
CommandEndsSilent(r, code) ==
  /\ r \in shell
  /\ shell' = shell \ {r}
  /\ own' = [own EXCEPT ![r] = code]
  /\ phrase' \in (IF At(r, "poll") THEN {phrase, phrase \union {r}} ELSE {phrase})
  /\ UNCHANGED <<run, verdict, installs, ret, installed, timedOut, fault, left, mixed>>

(* The command ends on the device, and the rest of its line writes its     *)
(* code, though nobody may wait for it any more.                           *)
CommandEnds(r, code) ==
  /\ r \in shell
  /\ shell' = shell \ {r}
  /\ ret' = code
  /\ own' = [own EXCEPT ![r] = code]
  /\ phrase' \in (IF At(r, "poll") THEN {phrase, phrase \union {r}} ELSE {phrase})
  /\ UNCHANGED <<run, verdict, installs, installed, timedOut, fault, left, mixed>>

-----------------------------------------------------------------------------
(* Launch and monkey.                                                      *)

(* adb install; if it fails, once more with the .apk signed.               *)
InstallApk(r) ==
  /\ At(r, "install")
  /\ \/ installed' = installed \union {r} /\ Goto(r, "command") /\ UNCHANGED <<verdict, fault>>
     \/ Exit(r, "nonzero") /\ fault' = fault \union {r} /\ UNCHANGED installed
  /\ UNCHANGED <<installs, shell, ret, own, phrase, timedOut, left, mixed>>

RunCommand(r) ==
  /\ At(r, "command")
  /\ Goto(r, "poll")
  /\ shell' = shell \union {r}
  /\ mixed' = mixed \union {q \in Runs : At(q, "poll") \/ At(q, "check")}
                   \union (IF shell = {} THEN {} ELSE {r})
  /\ UNCHANGED <<verdict, installs, ret, installed, own, phrase, timedOut, fault, left>>

(* Mutant: when adb fails its code is not kept.                            *)
PollZero(r) ==
  /\ At(r, "poll")
  /\ \/ /\ r \notin shell
        /\ Goto(r, "check")
        /\ UNCHANGED <<shell, timedOut, fault>>
     \/ /\ run' = [run EXCEPT ![r].pc = "check", ![r].ret = "zero"]
        /\ fault' = fault \union {r}
        /\ UNCHANGED <<shell, timedOut>>
     \/ /\ Goto(r, "check")
        /\ timedOut' = timedOut \union {r}
        /\ shell' \in {shell, shell \ {r}}
        /\ UNCHANGED fault
  /\ UNCHANGED <<verdict, installs, ret, installed, own, phrase, left, mixed>>

(* adb returns 0 when the command has ended, or fails; or the time is up   *)
(* and it is terminated, which counts as 0 and may stop the command.       *)
Poll(r) ==
  /\ At(r, "poll")
  /\ \/ /\ r \notin shell
        /\ Goto(r, "check")
        /\ UNCHANGED <<shell, timedOut, fault>>
     \/ /\ run' = [run EXCEPT ![r].pc = "check", ![r].ret = "nonzero"]
        /\ fault' = fault \union {r}
        /\ UNCHANGED <<shell, timedOut>>
     \/ /\ Goto(r, "check")
        /\ timedOut' = timedOut \union {r}
        /\ shell' \in {shell, shell \ {r}}
        /\ UNCHANGED fault
  /\ UNCHANGED <<verdict, installs, ret, installed, own, phrase, left, mixed>>

(* The code in the file, then that of adb; sys.exit runs the "finally".    *)
CheckExitCode(r, code) ==
  /\ At(r, "check")
  /\ ExitCodeIs(r, code)
  /\ run' = [run EXCEPT ![r].pc = "cleanup",
                        ![r].pending = IF code = "zero" THEN run[r].ret ELSE code]
  /\ UNCHANGED <<verdict, device, phrase, timedOut, left, mixed>>

(* "finally": uninstall, which may fail unnoticed, and read the logs       *)
(* (DumpAndCheckErrorLogs): an error phrase, or a log that cannot be read, *)
(* replaces the exit code.                                                 *)
CleanUp(r) ==
  /\ At(r, "cleanup")
  /\ \/ installed' = installed \ {r} /\ UNCHANGED left
     \/ left' = left \union {r} /\ UNCHANGED installed
  /\ \/ Exit(r, IF r \in phrase THEN "nonzero" ELSE run[r].pending) /\ UNCHANGED fault
     \/ Exit(r, "nonzero") /\ fault' = fault \union {r}
  /\ UNCHANGED <<installs, shell, ret, own, phrase, timedOut, mixed>>

-----------------------------------------------------------------------------
(* Install.                                                                *)

(* "adb install" writes no code to the file; it returns, or is terminated, *)
(* and the .apk is there or is not.                                        *)
RunInstall(r) ==
  /\ At(r, "adb")
  /\ installed' \in {installed, installed \union {r}}
  /\ \/ \E code \in Codes : /\ run' = [run EXCEPT ![r].pc = "verify", ![r].ret = code]
                            /\ UNCHANGED timedOut
     \/ /\ run' = [run EXCEPT ![r].pc = "verify", ![r].ret = "zero"]
        /\ timedOut' = timedOut \union {r}
  /\ UNCHANGED <<verdict, installs, shell, ret, own, phrase, fault, left, mixed>>

(* Whatever the file says, of whichever command: once more with the .apk   *)
(* signed if it is an error, then the end.                                 *)
VerifyInstall(r, code) ==
  /\ At(r, "verify")
  /\ ExitCodeIs(r, code)
  /\ IF code = "nonzero" /\ ~run[r].again
     THEN run' = [run EXCEPT ![r].pc = "adb", ![r].again = TRUE] /\ UNCHANGED verdict
     ELSE IF code = "nonzero" \/ run[r].ret = "nonzero" THEN Exit(r, "nonzero")
     ELSE Goto(r, "remove") /\ UNCHANGED verdict
  /\ UNCHANGED <<device, phrase, timedOut, left, mixed>>

RemoveInstalled(r) ==
  /\ At(r, "remove")
  /\ Exit(r, "zero")
  /\ \/ installed' = installed \ {r} /\ UNCHANGED left
     \/ left' = left \union {r} /\ UNCHANGED installed
  /\ UNCHANGED <<installs, shell, ret, own, phrase, timedOut, fault, mixed>>

-----------------------------------------------------------------------------
ProgramStep(r) ==
  \/ InstallApk(r) \/ RunCommand(r) \/ Poll(r)
  \/ CleanUp(r) \/ RunInstall(r) \/ RemoveInstalled(r)
  \/ \E code \in Codes : CheckExitCode(r, code) \/ VerifyInstall(r, code)

RunnerNext ==
  \E r \in Runs :
    \/ StartProgram(r) \/ TerminateProgram(r) \/ ProgramStep(r)
    \/ \E code \in Codes : CommandEnds(r, code)

RunnerSpec == RunnerInit /\ [][RunnerNext]_runnerVars

-----------------------------------------------------------------------------
(* The types of the variables.                                             *)
RunnerTypeOK ==
  /\ run \in [Runs -> [pc : {"queued", "install", "command", "poll", "check",
                             "cleanup", "adb", "verify", "remove", "exited"},
                       ret : Codes, pending : Codes, again : BOOLEAN]]
  /\ verdict \in [Runs -> Codes \union {"none", "killed"}]
  /\ installs \subseteq Runs
  /\ shell \subseteq Runs /\ installed \subseteq Runs
  /\ ret \in Codes \union {"none"}
  /\ own \in [Runs -> Codes \union {"none"}]
  /\ phrase \subseteq Runs /\ timedOut \subseteq Runs /\ fault \subseteq Runs
  /\ left \subseteq Runs /\ mixed \subseteq Runs

(* Runs of which the device executed the command alone and to its end.     *)
Undisturbed == (Runs \ installs) \ (timedOut \union mixed)

(* The task of a launch or monkey succeeds only if its own command ended   *)
(* with 0 and without an error phrase, although the code is read from a    *)
(* file that every run on the device shares; and it fails only if its      *)
(* command did, or adb: not for what an earlier run left on the device.    *)
VerdictIsOwn ==
  \A r \in Undisturbed :
    /\ verdict[r] = "zero" => own[r] = "zero" /\ r \notin phrase
    /\ verdict[r] = "nonzero" => own[r] = "nonzero" \/ r \in phrase \union fault

-----------------------------------------------------------------------------
(* The inductive invariant that VerdictIsOwn rests on: while an            *)
(* undisturbed run waits, the device executes no command but its own, so   *)
(* that the file has the code of that one as soon as it has ended; unless  *)
(* adb failed, and then the run is not to succeed.                         *)
HasEnded(r, code) == r \notin shell /\ own[r] = code

Explains(r, code, blamed) ==
  IF code = "zero" THEN HasEnded(r, "zero")
  ELSE HasEnded(r, "nonzero") \/ r \in blamed

OwnRun(r) ==
  /\ run[r].pc \notin {"adb", "verify", "remove"}
  /\ At(r, "poll") \/ At(r, "check") => shell \subseteq {r}
  /\ At(r, "poll") /\ r \notin shell => own[r] = ret /\ ret # "none"
  /\ At(r, "check") /\ run[r].ret = "zero" => HasEnded(r, ret) /\ ret # "none"
  /\ run[r].ret = "nonzero" => r \in fault
  /\ At(r, "cleanup") => Explains(r, run[r].pending, fault)
  /\ verdict[r] \in Codes =>
       At(r, "exited") /\ Explains(r, verdict[r], phrase \union fault)
  /\ verdict[r] = "zero" => r \notin phrase

RunnerInv == RunnerTypeOK /\ \A r \in Undisturbed : OwnRun(r)
=============================================================================
