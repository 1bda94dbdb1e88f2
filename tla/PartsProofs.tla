----------------------------- MODULE PartsProofs -----------------------------
(***************************************************************************)
(* Theorems about parts of the system that share no state: the programs    *)
(* that run on Android devices, the files of results and their export, the *)
(* quotas of shards, the timeouts of tasks, the readers of blobs and those *)
(* of the datastore.                                                       *)
(***************************************************************************)
EXTENDS Results, AndroidRunner, TaskTimeout, Quota, BlobReaders, InputReaders, SetFacts,
        SequenceTheorems, TLAPS

-----------------------------------------------------------------------------
(* AndroidRunner.  The device executes one command at a time for runs that *)
(* are left undisturbed, and a run that has been disturbed stays so.       *)

PCs == {"queued", "install", "command", "poll", "check", "cleanup", "adb",
        "verify", "remove", "exited"}
ProgramType == [pc : PCs, ret : Codes, pending : Codes, again : BOOLEAN]

(* What an action leaves of the state of a program that it changes. *)
LEMMA GotoType ==
  ASSUME NEW x \in ProgramType, NEW pc \in PCs
  PROVE  /\ [x EXCEPT !.pc = pc] \in ProgramType
         /\ [x EXCEPT !.pc = pc].pc = pc
         /\ [x EXCEPT !.pc = pc].ret = x.ret
         /\ [x EXCEPT !.pc = pc].pending = x.pending
         /\ [x EXCEPT !.pc = pc].again = x.again
  BY DEF ProgramType

RunType == /\ run \in [Runs -> ProgramType]
           /\ verdict \in [Runs -> Codes \union {"none", "killed"}]

DeviceType ==
  /\ installs \subseteq Runs
  /\ shell \subseteq Runs /\ installed \subseteq Runs
  /\ ret \in Codes \union {"none"}
  /\ own \in [Runs -> Codes \union {"none"}]
  /\ phrase \subseteq Runs /\ timedOut \subseteq Runs /\ fault \subseteq Runs
  /\ left \subseteq Runs /\ mixed \subseteq Runs

LEMMA TypeParts == /\ RunnerTypeOK <=> RunType /\ DeviceType
                   /\ RunnerTypeOK' <=> RunType' /\ DeviceType'
  BY DEF RunnerTypeOK, RunType, DeviceType, ProgramType, PCs

LEMMA GotoKeepsType ==
  ASSUME RunType, NEW r \in Runs, NEW pc \in PCs, Goto(r, pc)
  PROVE  /\ run' \in [Runs -> ProgramType]
         /\ \A q \in Runs \ {r} : run'[q] = run[q]
         /\ run'[r] = [run[r] EXCEPT !.pc = pc]
  <1>1. run[r] \in ProgramType
    BY DEF RunType
  <1>2. [run[r] EXCEPT !.pc = pc] \in ProgramType
    BY <1>1, GotoType
  <1>3. run' = [run EXCEPT ![r] = [run[r] EXCEPT !.pc = pc]]
    BY DEF Goto
  <1> QED
    BY <1>2, <1>3 DEF RunType

LEMMA ExitKeepsType ==
  ASSUME RunType, NEW r \in Runs, NEW code \in Codes, Exit(r, code)
  PROVE  /\ RunType'
         /\ \A q \in Runs \ {r} : run'[q] = run[q] /\ verdict'[q] = verdict[q]
         /\ run'[r] = [run[r] EXCEPT !.pc = "exited"]
         /\ verdict'[r] = IF verdict[r] = "none" THEN code ELSE verdict[r]
  <1>1. Goto(r, "exited") /\ "exited" \in PCs
    BY DEF Exit, PCs
  <1>2. verdict' = [verdict EXCEPT ![r] = IF verdict[r] = "none" THEN code
                                          ELSE verdict[r]]
    BY DEF Exit
  <1> QED
    BY <1>1, <1>2, GotoKeepsType DEF RunType

(* Every step keeps what the step of one run does not touch. *)
LEMMA RunnerTypeStep ==
  ASSUME RunnerTypeOK, [RunnerNext]_runnerVars
  PROVE  RunnerTypeOK'
<1> USE TypeParts
<1>1. ASSUME NEW r \in Runs, StartProgram(r) PROVE RunnerTypeOK'
  <2>1. DeviceType'
    BY <1>1 DEF StartProgram, DeviceType, device
  <2>2. CASE Exit(r, "nonzero")
    BY <2>1, <2>2, ExitKeepsType DEF Codes
  <2>3. CASE Goto(r, IF r \in installs THEN "adb" ELSE "install") /\ UNCHANGED verdict
    <3>1. (IF r \in installs THEN "adb" ELSE "install") \in PCs
      BY DEF PCs
    <3> QED
      BY <2>1, <2>3, <3>1, GotoKeepsType DEF RunType
  <2> QED
    BY <1>1, <2>2, <2>3 DEF StartProgram
<1>2. ASSUME NEW r \in Runs, TerminateProgram(r) PROVE RunnerTypeOK'
  <2>1. DeviceType'
    BY <1>2 DEF TerminateProgram, DeviceType, device, history
  <2>2. verdict' \in [Runs -> Codes \union {"none", "killed"}]
    BY <1>2 DEF TerminateProgram, RunType
  <2>3. run' \in [Runs -> ProgramType]
    BY <1>2, GotoKeepsType DEF TerminateProgram, RunType, PCs
  <2> QED
    BY <2>1, <2>2, <2>3 DEF RunType
<1>3. ASSUME NEW r \in Runs, NEW code \in Codes, CommandEnds(r, code) PROVE RunnerTypeOK'
  <2>1. phrase' \subseteq Runs
    BY <1>3 DEF CommandEnds, DeviceType
  <2>2. DeviceType'
    BY <1>3, <2>1 DEF CommandEnds, DeviceType
  <2>3. RunType'
    BY <1>3 DEF CommandEnds, RunType
  <2> QED
    BY <2>2, <2>3
<1>4. ASSUME NEW r \in Runs, InstallApk(r) PROVE RunnerTypeOK'
  <2>1. DeviceType'
    BY <1>4 DEF InstallApk, DeviceType
  <2>2. CASE Exit(r, "nonzero")
    BY <2>1, <2>2, ExitKeepsType DEF Codes
  <2>3. CASE Goto(r, "command") /\ UNCHANGED verdict
    BY <2>1, <2>3, GotoKeepsType DEF RunType, PCs
  <2> QED
    BY <1>4, <2>2, <2>3 DEF InstallApk
<1>5. ASSUME NEW r \in Runs, RunCommand(r) PROVE RunnerTypeOK'
  <2>1. DeviceType'
    BY <1>5 DEF RunCommand, DeviceType
  <2> QED
    BY <1>5, <2>1, GotoKeepsType DEF RunCommand, RunType, PCs
<1>6. ASSUME NEW r \in Runs, Poll(r) PROVE RunnerTypeOK'
  <2>1. DeviceType'
    BY <1>6 DEF Poll, DeviceType
  <2>2. verdict' \in [Runs -> Codes \union {"none", "killed"}]
    BY <1>6 DEF Poll, RunType
  <2>3. CASE Goto(r, "check")
    BY <2>1, <2>2, <2>3, GotoKeepsType DEF RunType, PCs
  <2>4. CASE run' = [run EXCEPT ![r].pc = "check", ![r].ret = "nonzero"]
    <3>1. [run[r] EXCEPT !.pc = "check", !.ret = "nonzero"] \in ProgramType
      BY DEF RunType, ProgramType, PCs, Codes
    <3> QED
      BY <2>1, <2>2, <2>4, <3>1 DEF RunType
  <2> QED
    BY <1>6, <2>3, <2>4 DEF Poll
<1>7. ASSUME NEW r \in Runs, NEW code \in Codes, CheckExitCode(r, code) PROVE RunnerTypeOK'
  <2>1. DeviceType'
    BY <1>7 DEF CheckExitCode, ExitCodeIs, DeviceType, device
  <2> DEFINE pending == IF code = "zero" THEN run[r].ret ELSE code
  <2>2. pending \in Codes /\ run[r] \in ProgramType
    BY DEF RunType, ProgramType
  <2>3. run' = [run EXCEPT ![r].pc = "cleanup", ![r].pending = pending]
    BY <1>7 DEF CheckExitCode
  <2> HIDE DEF pending
  <2>4. [run[r] EXCEPT !.pc = "cleanup", !.pending = pending] \in ProgramType
    BY <2>2 DEF ProgramType, PCs
  <2>5. run' \in [Runs -> ProgramType]
    BY <2>3, <2>4 DEF RunType
  <2> QED
    BY <1>7, <2>1, <2>5 DEF CheckExitCode, RunType
<1>8. ASSUME NEW r \in Runs, CleanUp(r) PROVE RunnerTypeOK'
  <2>1. DeviceType'
    BY <1>8 DEF CleanUp, DeviceType
  <2>2. \E code \in Codes : Exit(r, code)
    BY <1>8 DEF CleanUp, RunType, ProgramType, Codes
  <2> QED
    BY <2>1, <2>2, ExitKeepsType
<1>9. ASSUME NEW r \in Runs, RunInstall(r) PROVE RunnerTypeOK'
  <2>1. DeviceType'
    BY <1>9 DEF RunInstall, DeviceType
  <2>2. PICK code \in Codes : run' = [run EXCEPT ![r].pc = "verify", ![r].ret = code]
    BY <1>9 DEF RunInstall, Codes
  <2>3. [run[r] EXCEPT !.pc = "verify", !.ret = code] \in ProgramType
    BY DEF RunType, ProgramType, PCs
  <2>4. run' \in [Runs -> ProgramType]
    BY <2>2, <2>3 DEF RunType
  <2> QED
    BY <1>9, <2>1, <2>4 DEF RunInstall, RunType
<1>10. ASSUME NEW r \in Runs, NEW code \in Codes, VerifyInstall(r, code) PROVE RunnerTypeOK'
  <2>1. DeviceType'
    BY <1>10 DEF VerifyInstall, ExitCodeIs, DeviceType, device
  <2>2. CASE run' = [run EXCEPT ![r].pc = "adb", ![r].again = TRUE] /\ UNCHANGED verdict
    <3>1. [run[r] EXCEPT !.pc = "adb", !.again = TRUE] \in ProgramType
      BY DEF RunType, ProgramType, PCs
    <3> QED
      BY <2>1, <2>2, <3>1 DEF RunType
  <2>3. CASE Exit(r, "nonzero")
    BY <2>1, <2>3, ExitKeepsType DEF Codes
  <2>4. CASE Goto(r, "remove") /\ UNCHANGED verdict
    BY <2>1, <2>4, GotoKeepsType DEF RunType, PCs
  <2> QED
    BY <1>10, <2>2, <2>3, <2>4 DEF VerifyInstall
<1>11. ASSUME NEW r \in Runs, RemoveInstalled(r) PROVE RunnerTypeOK'
  <2>1. DeviceType'
    BY <1>11 DEF RemoveInstalled, DeviceType
  <2> QED
    BY <1>11, <2>1, ExitKeepsType DEF RemoveInstalled, Codes
<1>12. CASE UNCHANGED runnerVars
  BY <1>12 DEF runnerVars, device, history, RunType, DeviceType
<1> QED
  BY <1>1, <1>2, <1>3, <1>4, <1>5, <1>6, <1>7, <1>8, <1>9, <1>10, <1>11, <1>12
     DEF RunnerNext, ProgramStep

(* A run that was disturbed stays so; causes of failure stay, too. *)
LEMMA DisturbedStays ==
  ASSUME RunnerTypeOK, [RunnerNext]_runnerVars
  PROVE  /\ Undisturbed' \subseteq Undisturbed
         /\ fault \subseteq fault' /\ phrase \subseteq phrase'
<1>1. /\ installs' = installs /\ timedOut \subseteq timedOut'
      /\ mixed \subseteq mixed' /\ fault \subseteq fault' /\ phrase \subseteq phrase'
  <2>1. ASSUME NEW r \in Runs,
               \/ StartProgram(r) \/ TerminateProgram(r) \/ InstallApk(r)
               \/ RunCommand(r) \/ Poll(r) \/ CleanUp(r) \/ RunInstall(r)
               \/ RemoveInstalled(r)
        PROVE  <1>1!:
    BY <2>1 DEF StartProgram, TerminateProgram, InstallApk, RunCommand, Poll,
       CleanUp, RunInstall, RemoveInstalled, device, history
  <2>2. ASSUME NEW r \in Runs, NEW code \in Codes,
               CheckExitCode(r, code) \/ VerifyInstall(r, code) \/ CommandEnds(r, code)
        PROVE  <1>1!:
    BY <2>2 DEF CheckExitCode, VerifyInstall, CommandEnds, ExitCodeIs, device
  <2> QED
    BY <2>1, <2>2 DEF RunnerNext, ProgramStep, runnerVars, device, history
<1> QED
  BY <1>1 DEF Undisturbed

(* What leaves a run and the device alone leaves what holds of the run. *)
LEMMA OtherRun ==
  ASSUME NEW q \in Runs, OwnRun(q),
         run'[q] = run[q], verdict'[q] = verdict[q], own'[q] = own[q],
         ret' = ret, shell' \subseteq shell, q \in shell <=> q \in shell',
         q \in phrase <=> q \in phrase', fault \subseteq fault'
  PROVE  OwnRun(q)'
  BY DEF OwnRun, At, Explains, HasEnded

(* A run ends with an exit code that is accounted for. *)
LEMMA ExitOwn ==
  ASSUME RunnerInv, NEW r \in Runs, OwnRun(r), NEW code \in Codes, Exit(r, code),
         UNCHANGED <<shell, ret, own, phrase>>, fault \subseteq fault',
         Explains(r, code, phrase \union fault'), code = "zero" => r \notin phrase
  PROVE  OwnRun(r)'
<1>1. RunType
  BY TypeParts DEF RunnerInv
<1>2. /\ run'[r] = [run[r] EXCEPT !.pc = "exited"]
      /\ verdict'[r] = IF verdict[r] = "none" THEN code ELSE verdict[r]
  BY <1>1, ExitKeepsType
<1>3. run'[r].pc = "exited" /\ run'[r].ret = run[r].ret
  BY <1>1, <1>2 DEF RunType, ProgramType
<1>4. verdict'[r] \in Codes => Explains(r, verdict'[r], phrase \union fault')
  BY <1>2 DEF OwnRun, Explains
<1>5. verdict'[r] = "zero" => r \notin phrase
  BY <1>2 DEF OwnRun
<1> QED
  BY <1>3, <1>4, <1>5 DEF OwnRun, At, Explains, HasEnded

(* A run that has no verdict goes on to where it neither waits nor ends.   *)
LEMMA GotoOwn ==
  ASSUME RunnerInv, NEW r \in Runs, OwnRun(r), ~At(r, "exited"),
         NEW pc \in {"install", "command"}, Goto(r, pc),
         UNCHANGED <<verdict, shell, ret, own, phrase, fault>>
  PROVE  OwnRun(r)'
<1>1. RunType
  BY TypeParts DEF RunnerInv
<1>2. run'[r] = [run[r] EXCEPT !.pc = pc]
  BY <1>1, GotoKeepsType DEF PCs
<1>3. run'[r].pc = pc /\ run'[r].ret = run[r].ret
  BY <1>1, <1>2 DEF RunType, ProgramType
<1>4. verdict[r] \notin Codes
  BY DEF OwnRun
<1> QED
  BY <1>3, <1>4 DEF OwnRun, At, Codes

(* A step of the program or of the worker, other than RunCommand. *)
LEMMA OwnStep ==
  ASSUME RunnerInv, RunnerTypeOK', NEW q \in Runs \ installs, OwnRun(q),
         q \notin mixed', q \notin timedOut', NEW r \in Runs,
         \/ StartProgram(r) \/ TerminateProgram(r) \/ InstallApk(r) \/ Poll(r)
         \/ CleanUp(r) \/ RunInstall(r) \/ RemoveInstalled(r)
         \/ \E code \in Codes : CheckExitCode(r, code) \/ VerifyInstall(r, code)
  PROVE  OwnRun(q)'
<1> USE TypeParts
<1>1. CASE q # r
  <2>1. run'[q] = run[q] /\ verdict'[q] = verdict[q]
    BY <1>1 DEF RunnerInv, RunType, StartProgram, TerminateProgram, InstallApk, Poll,
       CleanUp, RunInstall, RemoveInstalled, CheckExitCode, VerifyInstall, Goto, Exit
  <2>2. /\ own' = own /\ ret' = ret /\ phrase' = phrase /\ fault \subseteq fault'
        /\ shell' \subseteq shell /\ shell \subseteq shell' \union {r}
    BY DEF StartProgram, TerminateProgram, InstallApk, Poll, CleanUp, RunInstall,
       RemoveInstalled, CheckExitCode, VerifyInstall, ExitCodeIs, device, history
  <2> QED
    BY <1>1, <2>1, <2>2, OtherRun
<1>2. CASE q = r
  <2>0. run[r] \in ProgramType /\ verdict[r] \in Codes \union {"none", "killed"}
    BY DEF RunnerInv, RunType
  <2>1. CASE StartProgram(r)
    <3>1. CASE Exit(r, "nonzero") /\ fault' = fault \union {r}
      BY <1>2, <2>1, <3>1, ExitOwn DEF StartProgram, Explains, Codes, device
    <3>2. CASE Goto(r, "install") /\ UNCHANGED <<verdict, fault>>
      BY <1>2, <2>1, <3>2, GotoOwn DEF StartProgram, At, device
    <3> QED
      BY <1>2, <2>1, <3>1, <3>2 DEF StartProgram
  <2>2. CASE TerminateProgram(r)
    <3>1. verdict'[r] = "killed" /\ UNCHANGED <<device, history>>
      BY <2>2 DEF TerminateProgram, RunnerInv, RunType
    <3>2. CASE UNCHANGED run
      BY <1>2, <3>1, <3>2 DEF OwnRun, At, Explains, HasEnded, Codes, device, history
    <3>3. CASE Goto(r, "exited")
      <4>1. run'[r] = [run[r] EXCEPT !.pc = "exited"]
        BY <3>3, GotoKeepsType DEF RunnerInv, PCs
      <4>2. run'[r].pc = "exited" /\ run'[r].ret = run[r].ret
        BY <2>0, <4>1 DEF ProgramType
      <4> QED
        BY <1>2, <3>1, <4>2 DEF OwnRun, At, Codes, device, history
    <3> QED
      BY <2>2, <3>2, <3>3 DEF TerminateProgram
  <2>3. CASE InstallApk(r)
    <3>1. CASE Exit(r, "nonzero") /\ fault' = fault \union {r}
      BY <1>2, <2>3, <3>1, ExitOwn DEF InstallApk, Explains, Codes
    <3>2. CASE Goto(r, "command") /\ UNCHANGED <<verdict, fault>>
      BY <1>2, <2>3, <3>2, GotoOwn DEF InstallApk, At
    <3> QED
      BY <2>3, <3>1, <3>2 DEF InstallApk
  <2>4. CASE Poll(r)
    <3>1. CASE r \notin shell /\ Goto(r, "check") /\ UNCHANGED <<shell, timedOut, fault>>
      <4>1. run'[r] = [run[r] EXCEPT !.pc = "check"]
        BY <3>1, GotoKeepsType DEF RunnerInv, PCs
      <4>2. run'[r].pc = "check" /\ run'[r].ret = run[r].ret
        BY <2>0, <4>1 DEF ProgramType
      <4>3. At(r, "poll") /\ UNCHANGED <<verdict, ret, own, phrase>>
        BY <2>4 DEF Poll
      <4> QED
        BY <1>2, <3>1, <4>2, <4>3 DEF OwnRun, At, HasEnded
    <3>2. CASE /\ run' = [run EXCEPT ![r].pc = "check", ![r].ret = "nonzero"]
               /\ fault' = fault \union {r}
               /\ UNCHANGED <<shell, timedOut>>
      <4>1. run'[r].pc = "check" /\ run'[r].ret = "nonzero"
        BY <2>0, <3>2 DEF RunnerInv, RunType, ProgramType
      <4> QED
        BY <1>2, <2>4, <3>2, <4>1
           DEF Poll, OwnRun, At, Explains, HasEnded, Codes
    <3>3. CASE r \in timedOut'
      BY <1>2, <3>3
    <3> QED
      BY <2>4, <3>1, <3>2, <3>3 DEF Poll
  <2>5. CASE CleanUp(r)
    <3>1. CASE Exit(r, IF r \in phrase THEN "nonzero" ELSE run[r].pending)
               /\ UNCHANGED fault
      <4> DEFINE code == IF r \in phrase THEN "nonzero" ELSE run[r].pending
      <4>1. code \in Codes
        BY <2>0 DEF ProgramType, Codes
      <4>2. At(r, "cleanup") /\ UNCHANGED <<shell, ret, own, phrase, fault>>
        BY <2>5, <3>1 DEF CleanUp
      <4>3. Explains(r, code, phrase \union fault) /\ (code = "zero" => r \notin phrase)
        BY <1>2, <4>2 DEF OwnRun, Explains, At
      <4>4. Exit(r, code)
        BY <3>1
      <4> HIDE DEF code
      <4> QED
        BY <1>2, <4>1, <4>2, <4>3, <4>4, ExitOwn
    <3>2. CASE Exit(r, "nonzero") /\ fault' = fault \union {r}
      BY <1>2, <2>5, <3>2, ExitOwn DEF CleanUp, Explains, Codes
    <3> QED
      BY <2>5, <3>1, <3>2 DEF CleanUp
  <2>6. ASSUME NEW code \in Codes, CheckExitCode(r, code) PROVE OwnRun(q)'
    <3> DEFINE pending == IF code = "zero" THEN run[r].ret ELSE code
    <3>1. /\ At(r, "check") /\ ExitCodeIs(r, code)
          /\ UNCHANGED <<verdict, shell, ret, own, phrase>>
      BY <2>6 DEF CheckExitCode, device
    <3>2. pending \in Codes
      BY <2>0, <2>6 DEF ProgramType
    <3>3. Explains(r, pending, fault')
      <4>1. CASE code = "nonzero"
        <5>1. pending = "nonzero"
          BY <4>1
        <5>2. r \in fault' \/ (ret # "zero" /\ fault' = fault)
          BY <3>1, <4>1 DEF ExitCodeIs
        <5>3. r \in fault \/ run[r].ret = "zero"
          BY <1>2, <2>0 DEF OwnRun, ProgramType, Codes
        <5>4. ret \in Codes \union {"none"}
          BY DEF RunnerInv, DeviceType
        <5>5. r \in fault' \/ HasEnded(r, "nonzero")
          BY <1>2, <3>1, <5>2, <5>3, <5>4 DEF OwnRun, HasEnded, Codes
        <5> QED
          BY <5>1, <5>5 DEF Explains
      <4>2. CASE code = "zero"
        <5>1. ret = "zero" /\ fault' = fault /\ pending = run[r].ret
          BY <3>1, <4>2 DEF ExitCodeIs
        <5>2. run[r].ret = "nonzero" => r \in fault
          BY <1>2 DEF OwnRun
        <5>3. run[r].ret = "zero" => HasEnded(r, "zero")
          BY <1>2, <3>1, <5>1 DEF OwnRun
        <5> QED
          BY <3>2, <5>1, <5>2, <5>3 DEF Explains, Codes
      <4> QED
        BY <4>1, <4>2 DEF Codes
    <3>4. run' = [run EXCEPT ![r].pc = "cleanup", ![r].pending = pending]
      BY <2>6 DEF CheckExitCode
    <3> HIDE DEF pending
    <3>5. /\ run'[r].pc = "cleanup" /\ run'[r].pending = pending
          /\ run'[r].ret = run[r].ret
      BY <2>0, <3>4 DEF RunnerInv, RunType, ProgramType
    <3>6. fault \subseteq fault'
      BY <3>1 DEF ExitCodeIs
    <3> QED
      BY <1>2, <3>1, <3>3, <3>5, <3>6 DEF OwnRun, At, Explains, HasEnded, Codes
  <2>7. CASE RunInstall(r) \/ RemoveInstalled(r)
             \/ \E code \in Codes : VerifyInstall(r, code)
    BY <1>2, <2>7 DEF RunInstall, RemoveInstalled, VerifyInstall, OwnRun, At
  <2> QED
    BY <2>1, <2>2, <2>3, <2>4, <2>5, <2>6, <2>7
<1> QED
  BY <1>1, <1>2

(* A command begins on the device: nobody who waits stays undisturbed, and *)
(* only if the device was idle whoever begins it.                          *)
LEMMA RunCommandStep ==
  ASSUME RunnerInv, NEW q \in Runs \ installs, OwnRun(q),
         q \notin mixed', NEW r \in Runs, RunCommand(r)
  PROVE  OwnRun(q)'
<1> USE TypeParts
<1>1. /\ ~At(q, "poll") /\ ~At(q, "check") /\ (q = r => shell = {})
      /\ shell' = shell \union {r}
      /\ UNCHANGED <<verdict, ret, own, phrase, fault>>
  BY DEF RunCommand
<1>2. CASE q # r
  <2>1. run'[q] = run[q]
    BY <1>2 DEF RunCommand, Goto, RunnerInv, RunType
  <2> QED
    BY <1>1, <1>2, <2>1 DEF OwnRun, At, Explains, HasEnded
<1>3. CASE q = r
  <2>1. run[r] \in ProgramType /\ At(r, "command")
    BY DEF RunnerInv, RunType, RunCommand
  <2>2. run'[r] = [run[r] EXCEPT !.pc = "poll"]
    BY GotoKeepsType DEF RunCommand, RunnerInv, PCs
  <2>3. verdict'[q] \notin Codes
    BY <1>1, <1>3, <2>1 DEF OwnRun, At
  <2> QED
    BY <1>1, <1>3, <2>1, <2>2, <2>3 DEF OwnRun, At, Explains, HasEnded, ProgramType, Codes
<1> QED
  BY <1>2, <1>3

(* A command ends on the device: an undisturbed run that waits has begun   *)
(* it itself.                                                              *)
LEMMA CommandEndsStep ==
  ASSUME RunnerInv, NEW q \in Runs \ installs, OwnRun(q),
         NEW r \in Runs, NEW code \in Codes, CommandEnds(r, code)
  PROVE  OwnRun(q)'
<1> USE TypeParts
<1>1. /\ r \in shell /\ shell' = shell \ {r} /\ ret' = code
      /\ own' = [own EXCEPT ![r] = code]
      /\ phrase' \in {phrase, phrase \union {r}}
      /\ phrase' # phrase => At(r, "poll")
      /\ UNCHANGED <<run, verdict, fault>>
  BY DEF CommandEnds
<1>2. own \in [Runs -> Codes \union {"none"}]
  BY DEF RunnerInv, DeviceType
<1>3. CASE q # r
  <2>1. ~At(q, "poll") /\ ~(At(q, "check") /\ run[q].ret = "zero")
        /\ (At(q, "check") => shell \subseteq {q})
    BY <1>1, <1>3 DEF OwnRun
  <2>2. own'[q] = own[q] /\ (q \in phrase <=> q \in phrase')
    BY <1>1, <1>2, <1>3
  <2> QED
    BY <1>1, <1>3, <2>1, <2>2 DEF OwnRun, At, Explains, HasEnded
<1>4. CASE q = r
  <2>1. own'[r] = code /\ code # "none"
    BY <1>1, <1>2 DEF Codes
  <2>2. At(r, "check") => run[r].ret # "zero"
    BY <1>1, <1>4 DEF OwnRun, HasEnded
  <2>3. verdict[q] # "zero"
    BY <1>1, <1>4 DEF OwnRun, Explains, HasEnded, Codes
  <2>4. At(q, "cleanup") => Explains(q, run[q].pending, fault)'
    BY <1>1, <1>4 DEF OwnRun, Explains, HasEnded, At
  <2>5. verdict[q] \in Codes => Explains(q, verdict[q], phrase \union fault)'
    BY <1>1, <1>4 DEF OwnRun, Explains, HasEnded, At
  <2> QED
    BY <1>1, <1>4, <2>1, <2>2, <2>3, <2>4, <2>5 DEF OwnRun, At
<1> QED
  BY <1>3, <1>4

LEMMA RunnerInvStep ==
  ASSUME RunnerInv, [RunnerNext]_runnerVars
  PROVE  RunnerInv'
<1>1. RunnerTypeOK /\ RunnerTypeOK'
  BY RunnerTypeStep DEF RunnerInv
<1>2. ASSUME NEW q \in Undisturbed' PROVE OwnRun(q)'
  <2>1. /\ q \in Runs \ installs /\ OwnRun(q)
        /\ q \notin mixed' /\ q \notin timedOut'
    <3>1. q \in Undisturbed
      BY <1>1, DisturbedStays
    <3> QED
      BY <1>2, <3>1 DEF RunnerInv, Undisturbed
  <2>2. CASE UNCHANGED runnerVars
    BY <2>1, <2>2, OtherRun DEF runnerVars, device, history
  <2>3. ASSUME NEW r \in Runs,
               \/ StartProgram(r) \/ TerminateProgram(r) \/ InstallApk(r) \/ Poll(r)
               \/ CleanUp(r) \/ RunInstall(r) \/ RemoveInstalled(r)
               \/ \E code \in Codes : CheckExitCode(r, code) \/ VerifyInstall(r, code)
        PROVE  OwnRun(q)'
    BY <1>1, <2>1, <2>3, OwnStep
  <2>4. ASSUME NEW r \in Runs, RunCommand(r) PROVE OwnRun(q)'
    BY <2>1, <2>4, RunCommandStep
  <2>5. ASSUME NEW r \in Runs, NEW code \in Codes, CommandEnds(r, code)
        PROVE  OwnRun(q)'
    BY <2>1, <2>5, CommandEndsStep
  <2> QED
    BY <2>2, <2>3, <2>4, <2>5 DEF RunnerNext, ProgramStep
<1> QED
  BY <1>1, <1>2 DEF RunnerInv

LEMMA RunnerInvInit == RunnerInit => RunnerInv
<1> SUFFICES ASSUME RunnerInit PROVE RunnerInv
  OBVIOUS
<1>1. Program("queued", "zero", "zero", FALSE) \in ProgramType
  BY DEF Program, ProgramType, PCs, Codes
<1>2. RunnerTypeOK
  BY <1>1, TypeParts DEF RunnerInit, RunType, DeviceType
<1>3. ASSUME NEW r \in Runs PROVE OwnRun(r)
  BY DEF RunnerInit, OwnRun, At, Program, Codes
<1> QED
  BY <1>2, <1>3 DEF RunnerInv, Undisturbed

(* RunnerInv is inductive: the device executes one command at a time for   *)
(* whoever waits undisturbed, so that the file that all runs share has the *)
(* code of that command when it is read.                                   *)
THEOREM RunnerInvariance == RunnerSpec => []RunnerInv
  BY RunnerInvInit, RunnerInvStep, PTL DEF RunnerSpec

(* For any number of runs on a device: a launch or monkey succeeds or      *)
(* fails for what its own command, its output or adb did.                  *)
THEOREM VerdictsAreOwn == RunnerSpec => []VerdictIsOwn
<1>1. RunnerInv => VerdictIsOwn
  BY DEF RunnerInv, VerdictIsOwn, OwnRun, Explains, HasEnded, Codes
<1> QED
  BY <1>1, RunnerInvariance, PTL

(* The programs and the device are in states that AndroidRunner names. *)
THEOREM RunnerTypeCorrect == RunnerSpec => []RunnerTypeOK
<1>1. RunnerInv => RunnerTypeOK
  BY DEF RunnerInv
<1> QED
  BY <1>1, RunnerInvariance, PTL

-----------------------------------------------------------------------------
(* Results.  The types of the variables of the server, and of the client.  *)

CommitType == [what : {"complete", "delete"}, task : Tasks]
PostType == [pc : {"unsent", "called", "answered"}, task : Tasks, fields : SUBSET Fields]

RecordsType ==
  /\ state \in [Tasks -> {"running", "complete", "deleted"}]
  /\ time \in [Tasks -> 0..NumTasks]
  /\ result \in [Tasks -> Posts \union {NoPost}]
  /\ log \in Seq(CommitType)
  /\ applied \in 0..Len(log)
  /\ skewed \in BOOLEAN

UploadsType ==
  /\ post \in [Posts -> PostType]
  /\ blob \subseteq Posts \X Fields
  /\ leaked \subseteq Posts /\ unsure \subseteq Posts

ClientType ==
  /\ client \in [pc : {"idle", "first", "next", "done", "died"},
                  next : 0..NumTasks, last : -1..NumTasks]
  /\ out \in Seq(Tasks) /\ torn \subseteq 1..Len(out)
  /\ begun \subseteq Tasks /\ seen \subseteq Tasks

(* A commit is a new last element of the log. *)
LEMMA Appended ==
  ASSUME NEW l \in Seq(CommitType), NEW c \in CommitType
  PROVE  /\ Append(l, c) \in Seq(CommitType) /\ Len(Append(l, c)) = Len(l) + 1
         /\ Len(l) \in Nat
         /\ \A i \in 1..Len(l) : Append(l, c)[i] = l[i]
         /\ Append(l, c)[Len(l) + 1] = c
  OBVIOUS

(* What the actions of the server do to the tasks, and to the uploads. *)
Completes(p, moment) ==
  LET t == post[p].task IN
  /\ state[t] = "running"
  /\ state' = [state EXCEPT ![t] = "complete"]
  /\ time' = [time EXCEPT ![t] = moment]
  /\ result' = [result EXCEPT ![t] = p]
  /\ log' = Append(log, Commit("complete", t))
  /\ skewed' = (skewed \/ \E u \in Tasks : time[u] > moment)
  /\ applied' = applied

Deletes(t) ==
  /\ state[t] # "deleted"
  /\ state' = [state EXCEPT ![t] = "deleted"]
  /\ log' = Append(log, Commit("delete", t))
  /\ UNCHANGED <<time, result, applied, skewed>>

records == <<state, time, result, log, skewed>>
uploads == <<post, blob, leaked, unsure>>

Stores(p, t, fields) ==
  /\ post[p].pc = "unsent"
  /\ post' = [post EXCEPT ![p] = Post("called", t, fields)]
  /\ blob' = blob \union ({p} \X fields)
  /\ UNCHANGED <<leaked, unsure>>

Answers(p) ==
  /\ post[p].pc = "called"
  /\ post' = [post EXCEPT ![p].pc = "answered"]
  /\ UNCHANGED unsure
  /\ \/ blob' = blob \ FilesOf(p) /\ UNCHANGED leaked
     \/ leaked' = leaked \union {p} /\ UNCHANGED blob

Keeps(p) ==
  /\ post[p].pc = "called"
  /\ \/ post' = [post EXCEPT ![p].pc = "answered"] /\ UNCHANGED unsure
     \/ unsure' = unsure \union {p} /\ UNCHANGED post
  /\ UNCHANGED <<blob, leaked>>

(* Every step is one of these. *)
LEMMA ResultsSteps ==
  ASSUME [ResultsNext]_resultVars
  PROVE  \/ /\ \E p \in Posts, t \in Tasks, fields \in Uploads : Stores(p, t, fields)
            /\ UNCHANGED <<records, applied, export>>
         \/ /\ \E p \in Posts : Answers(p)
            /\ UNCHANGED <<records, applied, export>>
         \/ /\ \E p \in Posts, moment \in Clock : Keeps(p) /\ Completes(p, moment)
            /\ UNCHANGED export
         \/ /\ applied < Len(log) /\ applied' = applied + 1
            /\ UNCHANGED <<records, uploads, export>>
         \/ /\ \E t \in Tasks : Deletes(t)
            /\ UNCHANGED <<uploads, export>>
         \/ /\ \/ BeginExport \/ FirstPage \/ FirstPageFails \/ NextPage \/ EndExport
               \/ \E n \in 1..MaxTorn : NextPageBreaks(n)
            /\ UNCHANGED server
         \/ UNCHANGED resultVars
<1> USE DEF server, export, records, uploads
<1>1. ASSUME NEW p \in Posts, NEW t \in Tasks, NEW fields \in Uploads,
             StoreFiles(p, t, fields)
      PROVE  Stores(p, t, fields) /\ UNCHANGED <<records, applied, export>>
  BY <1>1 DEF StoreFiles, Stores
<1>2. ASSUME NEW p \in Posts, BadRequest(p) \/ PostRaises(p) \/ RejectResult(p)
      PROVE  Answers(p) /\ UNCHANGED <<records, applied, export>>
  BY <1>2 DEF BadRequest, PostRaises, RejectResult, DeleteBlobs, Escape, Answers
<1>3. ASSUME NEW p \in Posts, NEW moment \in Clock, RecordResult(p, moment)
      PROVE  Keeps(p) /\ Completes(p, moment) /\ UNCHANGED export
  BY <1>3 DEF RecordResult, Keeps, Completes
<1>4. ASSUME Apply
      PROVE  /\ applied < Len(log) /\ applied' = applied + 1
             /\ UNCHANGED <<records, uploads, export>>
  BY <1>4 DEF Apply
<1>5. ASSUME NEW t \in Tasks, DeleteTask(t)
      PROVE  Deletes(t) /\ UNCHANGED <<uploads, export>>
  BY <1>5 DEF DeleteTask, Deletes
<1>6. ASSUME BeginExport \/ FirstPage \/ FirstPageFails \/ NextPage \/ EndExport
      PROVE  UNCHANGED server
  BY <1>6 DEF BeginExport, FirstPage, FirstPageFails, NextPage, EndExport
<1>7. ASSUME NEW n \in 1..MaxTorn, NextPageBreaks(n) PROVE UNCHANGED server
  BY <1>7 DEF NextPageBreaks
<1> QED
  BY <1>1, <1>2, <1>3, <1>4, <1>5, <1>6, <1>7 DEF ResultsNext

LEMMA RecordsTypeStep ==
  ASSUME RecordsType, UploadsType, [ResultsNext]_resultVars
  PROVE  RecordsType'
<1>1. ASSUME NEW p \in Posts, NEW moment \in Clock, Completes(p, moment)
      PROVE  RecordsType'
  <2> DEFINE t == post[p].task
  <2>1. t \in Tasks
    BY DEF UploadsType, PostType
  <2>2. moment \in 0..NumTasks
    BY DEF Clock
  <2>3. Commit("complete", t) \in CommitType
    BY <2>1 DEF Commit, CommitType
  <2>4. log' = Append(log, Commit("complete", t)) /\ applied' = applied
    BY <1>1 DEF Completes
  <2>5. log' \in Seq(CommitType) /\ Len(log') = Len(log) + 1 /\ Len(log) \in Nat
    BY <2>3, <2>4, Appended DEF RecordsType
  <2>6. applied' \in 0..Len(log')
    BY <2>4, <2>5 DEF RecordsType
  <2>7. /\ state' = [state EXCEPT ![t] = "complete"]
        /\ time' = [time EXCEPT ![t] = moment]
        /\ result' = [result EXCEPT ![t] = p]
        /\ skewed' \in BOOLEAN
    BY <1>1 DEF Completes
  <2> HIDE DEF t
  <2> QED
    BY <2>1, <2>2, <2>5, <2>6, <2>7 DEF RecordsType
<1>2. ASSUME NEW t \in Tasks, Deletes(t) PROVE RecordsType'
  <2>1. Commit("delete", t) \in CommitType
    BY DEF Commit, CommitType
  <2>2. log' = Append(log, Commit("delete", t)) /\ applied' = applied
    BY <1>2 DEF Deletes
  <2>3. log' \in Seq(CommitType) /\ Len(log') = Len(log) + 1 /\ Len(log) \in Nat
    BY <2>1, <2>2, Appended DEF RecordsType
  <2>4. applied' \in 0..Len(log')
    BY <2>2, <2>3 DEF RecordsType
  <2> QED
    BY <1>2, <2>3, <2>4 DEF Deletes, RecordsType
<1>3. CASE applied < Len(log) /\ applied' = applied + 1 /\ UNCHANGED records
  <2>1. Len(log) \in Nat
    BY DEF RecordsType
  <2>2. applied' \in 0..Len(log)
    BY <1>3, <2>1 DEF RecordsType
  <2> QED
    BY <1>3, <2>2 DEF RecordsType, records
<1>4. CASE UNCHANGED <<records, applied>>
  BY <1>4 DEF RecordsType, records
<1> QED
  BY <1>1, <1>2, <1>3, <1>4, ResultsSteps DEF server, resultVars, records

LEMMA UploadsTypeStep ==
  ASSUME UploadsType, [ResultsNext]_resultVars
  PROVE  UploadsType'
<1>1. ASSUME NEW p \in Posts, NEW t \in Tasks, NEW fields \in Uploads, Stores(p, t, fields)
      PROVE  UploadsType'
  <2>1. fields \subseteq Fields
    BY ResultsAssumption
  <2>2. Post("called", t, fields) \in PostType
    BY <2>1 DEF Post, PostType
  <2> QED
    BY <1>1, <2>1, <2>2 DEF Stores, UploadsType
<1>2. ASSUME NEW p \in Posts, Answers(p) \/ Keeps(p) PROVE UploadsType'
  <2>1. [post[p] EXCEPT !.pc = "answered"] \in PostType
    BY DEF UploadsType, PostType
  <2>2. post' \in [Posts -> PostType]
    BY <1>2, <2>1 DEF Answers, Keeps, UploadsType
  <2>3. blob' \subseteq Posts \X Fields /\ leaked' \subseteq Posts /\ unsure' \subseteq Posts
    BY <1>2 DEF Answers, Keeps, UploadsType
  <2> QED
    BY <2>2, <2>3 DEF UploadsType
<1>3. CASE UNCHANGED uploads
  BY <1>3 DEF uploads, UploadsType
<1> QED
  BY <1>1, <1>2, <1>3, ResultsSteps DEF server, resultVars, uploads

-----------------------------------------------------------------------------
(* The files of results.                                                   *)

LEMMA FilesStep ==
  ASSUME RecordsType, UploadsType, FilesInv, [ResultsNext]_resultVars
  PROVE  FilesInv'
<1> USE DEF FilesInv
<1>0. \A p \in Posts : FilesOf(p) = {p} \X post[p].fields /\ FilesOf(p)' = {p} \X post'[p].fields
  BY DEF FilesOf
<1>1. ASSUME NEW p \in Posts, NEW t \in Tasks, NEW fields \in Uploads,
             Stores(p, t, fields), UNCHANGED records
      PROVE  FilesInv'
  <2>1. /\ post[p].pc = "unsent" /\ post'[p].pc = "called" /\ post'[p].fields = fields
        /\ \A q \in Posts \ {p} : post'[q] = post[q]
        /\ blob' = blob \union ({p} \X fields)
    BY <1>1 DEF Stores, UploadsType, Post
  <2>2. UNCHANGED <<state, result, leaked, unsure>>
    BY <1>1 DEF Stores, records
  <2>3. \A u \in Tasks : result[u] # NoPost => result[u] \in Posts \ {p}
    BY <2>1 DEF ResultIsFinal, RecordsType
  <2>4. \A f \in blob : f[1] \in Posts \ {p}
    BY <2>1 DEF BlobsArePosted, UploadsType
  <2>5. ResultIsFinal'
    BY <2>1, <2>2, <2>3 DEF ResultIsFinal
  <2>6. BlobsArePosted'
    <3>1. \A f \in blob' : f \in blob \/ (f[1] = p /\ f[2] \in fields)
      BY <2>1
    <3> QED
      BY <1>0, <2>1, <2>4, <3>1 DEF BlobsArePosted
  <2>7. FilesBelongToResults'
    <3>1. \A f \in blob' : f \in blob \/ f[1] = p
      BY <2>1
    <3> QED
      BY <1>0, <2>1, <2>2, <2>3, <2>4, <3>1 DEF FilesBelongToResults
  <2> QED
    BY <2>5, <2>6, <2>7
<1>2. ASSUME NEW p \in Posts, Answers(p), UNCHANGED records
      PROVE  FilesInv'
  <2>1. /\ post[p].pc = "called" /\ post'[p].pc = "answered"
        /\ post'[p].fields = post[p].fields
        /\ \A q \in Posts \ {p} : post'[q] = post[q]
    BY <1>2 DEF Answers, UploadsType, PostType
  <2>2. /\ UNCHANGED <<state, result, unsure>> /\ leaked \subseteq leaked'
        /\ blob' \subseteq blob /\ blob \ FilesOf(p) \subseteq blob'
        /\ \/ blob' = blob \ FilesOf(p)
           \/ p \in leaked'
    BY <1>2 DEF Answers, records
  <2>3. \A u \in Tasks : result[u] # NoPost /\ result[u] \notin unsure =>
                           result[u] \in Posts \ {p}
    BY <2>1 DEF ResultIsFinal, RecordsType
  <2>4. \A q \in Posts \ {p} : FilesOf(q) \intersect FilesOf(p) = {}
    BY <1>0
  <2>5. ResultIsFinal'
    BY <2>1, <2>2 DEF ResultIsFinal, RecordsType
  <2>6. BlobsArePosted'
    <3>1. \A f \in blob' : f[1] \in Posts /\ f \in blob
      BY <2>2 DEF UploadsType
    <3>2. \A f \in blob' : post'[f[1]].pc # "unsent" /\ f[2] \in post'[f[1]].fields
      BY <2>1, <3>1 DEF BlobsArePosted
    <3>3. ASSUME NEW q \in Posts, post'[q].pc = "called" PROVE FilesOf(q)' \subseteq blob'
      <4>1. q # p /\ post[q].pc = "called"
        BY <2>1, <3>3
      <4>2. FilesOf(q)' = FilesOf(q) /\ FilesOf(q) \subseteq blob
        BY <1>0, <2>1, <4>1 DEF BlobsArePosted
      <4> QED
        BY <2>2, <2>4, <4>1, <4>2
    <3> QED
      BY <3>2, <3>3 DEF BlobsArePosted
  <2>7. FilesBelongToResults'
    <3>1. ASSUME NEW u \in Tasks, result[u] # NoPost, result[u] \notin unsure
          PROVE  FilesOf(result[u])' \subseteq blob'
      <4>1. result[u] \in Posts \ {p} /\ FilesOf(result[u]) \subseteq blob
        BY <2>3, <3>1 DEF FilesBelongToResults
      <4>2. FilesOf(result[u])' = FilesOf(result[u])
        BY <2>1, <2>2, <4>1 DEF FilesOf
      <4> QED
        BY <2>2, <2>4, <4>1, <4>2
    <3>2. ASSUME NEW f \in blob'
          PROVE  \/ post'[f[1]].pc = "called"
                 \/ \E u \in Tasks : result[u] = f[1]
                 \/ f[1] \in leaked'
      <4>1. f \in blob /\ f[1] \in Posts /\ f = <<f[1], f[2]>>
        BY <2>2 DEF UploadsType
      <4>2. CASE f[1] # p
        BY <2>1, <2>2, <4>1, <4>2 DEF FilesBelongToResults
      <4>3. CASE f[1] = p
        <5>1. f \in FilesOf(p)
          BY <1>0, <4>1, <4>3 DEF BlobsArePosted
        <5> QED
          BY <2>2, <4>3, <5>1
      <4> QED
        BY <4>2, <4>3
    <3> QED
      BY <2>2, <3>1, <3>2 DEF FilesBelongToResults
  <2> QED
    BY <2>5, <2>6, <2>7
<1>3. ASSUME NEW p \in Posts, NEW moment \in Clock, Keeps(p), Completes(p, moment)
      PROVE  FilesInv'
  <2> DEFINE t == post[p].task
  <2>1. t \in Tasks /\ state[t] = "running" /\ p # NoPost
    BY <1>3 DEF Completes, UploadsType, PostType, Posts, NoPost
  <2>2. /\ post[p].pc = "called" /\ post'[p].fields = post[p].fields
        /\ \A q \in Posts \ {p} : post'[q] = post[q]
        /\ post'[p].pc \in {"called", "answered"}
        /\ p \in unsure' \/ post'[p].pc = "answered"
        /\ unsure \subseteq unsure' /\ UNCHANGED <<blob, leaked>>
    BY <1>3 DEF Keeps, UploadsType, PostType
  <2>3. state' = [state EXCEPT ![t] = "complete"] /\ result' = [result EXCEPT ![t] = p]
    BY <1>3 DEF Completes
  <2> HIDE DEF t
  <2>4. result[t] = NoPost
    BY <2>1 DEF ResultIsFinal
  <2>5. /\ state'[t] = "complete" /\ result'[t] = p
        /\ \A u \in Tasks \ {t} : state'[u] = state[u] /\ result'[u] = result[u]
    BY <2>1, <2>3 DEF RecordsType
  <2>6. \A q \in Posts : FilesOf(q)' = FilesOf(q)
    BY <1>0, <2>2
  <2>7. \A u \in Tasks : result[u] # NoPost => result[u] \in Posts
    BY DEF RecordsType
  <2>8. ResultIsFinal'
    <3>1. ASSUME NEW u \in Tasks \ {t}, result[u] # NoPost
          PROVE  /\ state'[u] # "running"
                 /\ post'[result[u]].pc # "unsent"
                 /\ result[u] \in unsure' \/ post'[result[u]].pc = "answered"
      <4>1. CASE result[u] = p
        BY <2>2, <2>5, <3>1, <4>1 DEF ResultIsFinal
      <4>2. CASE result[u] # p
        BY <2>2, <2>5, <2>7, <3>1, <4>2 DEF ResultIsFinal
      <4> QED
        BY <4>1, <4>2
    <3> QED
      BY <2>2, <2>5, <3>1 DEF ResultIsFinal
  <2>9. BlobsArePosted'
    <3>1. \A f \in blob : f[1] \in Posts
      BY DEF UploadsType
    <3>2. \A f \in blob : post'[f[1]].pc # "unsent" /\ f[2] \in post'[f[1]].fields
      BY <2>2, <3>1 DEF BlobsArePosted
    <3>3. \A q \in Posts : post'[q].pc = "called" => FilesOf(q) \subseteq blob
      BY <2>2 DEF BlobsArePosted
    <3> QED
      BY <2>2, <2>6, <3>2, <3>3 DEF BlobsArePosted
  <2>10. FilesBelongToResults'
    <3>1. FilesOf(p) \subseteq blob
      BY <2>2 DEF BlobsArePosted
    <3>2. \A u \in Tasks : result'[u] # NoPost /\ result'[u] \notin unsure' =>
            FilesOf(result[u])' \subseteq blob'
      <4>1. SUFFICES ASSUME NEW u \in Tasks, result'[u] # NoPost, result'[u] \notin unsure'
                     PROVE  FilesOf(result[u])' \subseteq blob'
        OBVIOUS
      <4>2. CASE u = t
        <5>1. result'[u] = p /\ blob' = blob
          BY <2>2, <2>5, <4>2
        <5>2. FilesOf(result[u])' = FilesOf(p)
          BY <2>2, <5>1 DEF FilesOf
        <5> QED
          BY <3>1, <5>1, <5>2
      <4>3. CASE u # t
        <5>1. result'[u] = result[u] /\ result[u] \in Posts /\ result[u] \notin unsure
          BY <2>2, <2>5, <2>7, <4>1, <4>3
        <5>2. FilesOf(result[u]) \subseteq blob
          BY <4>1, <5>1 DEF FilesBelongToResults
        <5>3. post'[result[u]].fields = post[result[u]].fields
          BY <2>2, <5>1
        <5>4. FilesOf(result[u])' = FilesOf(result[u])
          BY <5>1, <5>3 DEF FilesOf
        <5> QED
          BY <2>2, <5>2, <5>4
      <4> QED
        BY <4>2, <4>3
    <3>3. ASSUME NEW f \in blob
          PROVE  \/ post'[f[1]].pc = "called"
                 \/ \E u \in Tasks : result'[u] = f[1]
                 \/ f[1] \in leaked
      <4>1. f[1] \in Posts
        BY DEF UploadsType
      <4>2. CASE f[1] = p
        BY <2>1, <2>5, <4>2
      <4>3. CASE f[1] # p
        <5>1. ASSUME NEW u \in Tasks, result[u] = f[1] PROVE result'[u] = f[1]
          <6>1. u # t
            BY <2>4, <4>1, <5>1 DEF Posts, NoPost
          <6> QED
            BY <2>5, <5>1, <6>1
        <5> QED
          BY <2>2, <4>1, <4>3, <5>1 DEF FilesBelongToResults
      <4> QED
        BY <4>2, <4>3
    <3>4. UNCHANGED <<blob, leaked>>
      BY <2>2
    <3> QED
      BY <3>2, <3>3, <3>4 DEF FilesBelongToResults
  <2> QED
    BY <2>8, <2>9, <2>10
<1>4. ASSUME NEW t \in Tasks, Deletes(t), UNCHANGED uploads PROVE FilesInv'
  <2>1. /\ \A u \in Tasks : state[u] # "running" => state'[u] # "running"
        /\ UNCHANGED <<result, post, blob, leaked, unsure>>
    BY <1>4 DEF Deletes, RecordsType, uploads
  <2> QED
    BY <2>1 DEF ResultIsFinal, BlobsArePosted, FilesBelongToResults, FilesOf
<1>5. CASE UNCHANGED <<records, uploads>>
  <2>1. UNCHANGED <<state, result, post, blob, leaked, unsure>>
    BY <1>5 DEF records, uploads
  <2> QED
    BY <2>1 DEF ResultIsFinal, BlobsArePosted, FilesBelongToResults, FilesOf
<1> QED
  BY <1>1, <1>2, <1>3, <1>4, <1>5, ResultsSteps DEF server, resultVars, records, uploads

LEMMA ServerInit ==
  ASSUME ResultsInit
  PROVE  RecordsType /\ UploadsType
<1>1. <<>> \in Seq(CommitType) /\ Len(<<>>) = 0
  OBVIOUS
<1>2. /\ state \in [Tasks -> {"running", "complete", "deleted"}]
      /\ time \in [Tasks -> 0..NumTasks]
      /\ result \in [Tasks -> Posts \union {NoPost}]
  BY ResultsAssumption DEF ResultsInit
<1>3. RecordsType
  <2>1. log = <<>> /\ applied = 0 /\ skewed = FALSE
    BY DEF ResultsInit
  <2>2. Len(log) = 0 /\ log \in Seq(CommitType)
    BY <1>1, <2>1
  <2>3. applied \in 0..Len(log)
    BY <2>1, <2>2
  <2> QED
    BY <1>2, <2>1, <2>2, <2>3 DEF RecordsType
<1>4. 1 \in Tasks
  BY ResultsAssumption DEF Tasks
<1>5. Post("unsent", 1, {}) \in PostType
  BY <1>4 DEF Post, PostType
<1> QED
  BY <1>3, <1>5 DEF ResultsInit, UploadsType

(* What the server stores keeps its type, and every result its files, for  *)
(* any number of requests and tasks.                                       *)
THEOREM FilesInvariance == ResultsSpec => [](RecordsType /\ UploadsType /\ FilesInv)
<1>1. ResultsInit => RecordsType /\ UploadsType /\ FilesInv
  <2> SUFFICES ASSUME ResultsInit PROVE RecordsType /\ UploadsType /\ FilesInv
    OBVIOUS
  <2>1. FilesInv
    BY DEF ResultsInit, FilesInv, ResultIsFinal, BlobsArePosted, FilesBelongToResults, Post
  <2> QED
    BY <2>1, ServerInit
<1>2. RecordsType /\ UploadsType /\ FilesInv /\ [ResultsNext]_resultVars
        => (RecordsType /\ UploadsType /\ FilesInv)'
  BY RecordsTypeStep, UploadsTypeStep, FilesStep
<1> QED
  BY <1>1, <1>2, PTL DEF ResultsSpec

(* The blobstore holds the files of every result whose commit was not      *)
(* reported as a conflict, and none that belongs to no result and to no    *)
(* request but one that post does not answer.                              *)
THEOREM FilesBelong == ResultsSpec => []FilesBelongToResults
<1>1. FilesInv => FilesBelongToResults
  BY DEF FilesInv
<1> QED
  BY <1>1, FilesInvariance, PTL

-----------------------------------------------------------------------------
(* The export.  What the query sees, by places in the log.                 *)

SeenIn(l, n) == {t \in Tasks : /\ \E i \in 1..n : l[i] = Commit("complete", t)
                               /\ \A i \in 1..n : l[i] # Commit("delete", t)}

LEMMA FirstCommits ==
  ASSUME NEW l \in Seq(CommitType), NEW n \in 0..Len(l)
  PROVE  \A c : c \in ToSet(SubSeq(l, 1, n)) <=> \E i \in 1..n : l[i] = c
<1>1. Len(l) \in Nat /\ n \in Nat /\ n <= Len(l)
  OBVIOUS
<1>2. Len(SubSeq(l, 1, n)) = n /\ SubSeq(l, 1, n) \in Seq(CommitType)
      /\ \A i \in 1..n : SubSeq(l, 1, n)[i] = l[i]
  BY <1>1
<1>3. DOMAIN SubSeq(l, 1, n) = 1..n
  BY <1>2
<1> QED
  BY <1>2, <1>3 DEF ToSet

LEMMA IndexIs ==
  /\ RecordsType => index = SeenIn(log, applied)
  /\ RecordsType' => index' = SeenIn(log', applied')
<1>1. ASSUME RecordsType PROVE index = SeenIn(log, applied)
  <2>1. log \in Seq(CommitType) /\ applied \in 0..Len(log)
    BY <1>1 DEF RecordsType
  <2>2. \A c : c \in ToSet(SubSeq(log, 1, applied)) <=> \E i \in 1..applied : log[i] = c
    BY <2>1, FirstCommits
  <2> QED
    BY <2>2 DEF index, SeenIn
<1>2. ASSUME RecordsType' PROVE index' = SeenIn(log', applied')
  <2>1. log' \in Seq(CommitType) /\ applied' \in 0..Len(log')
    BY <1>2 DEF RecordsType
  <2>2. \A c : c \in ToSet(SubSeq(log', 1, applied')) <=> \E i \in 1..applied' : log'[i] = c
    BY <2>1, FirstCommits
  <2> QED
    BY <2>2 DEF index, SeenIn
<1> QED
  BY <1>1, <1>2

(* A task has appeared when its completion is among the commits seen.      *)
LEMMA AppearedIs ==
  /\ RecordsType => \A t : t \in Appeared <=>
       \E i \in 1..applied : log[i].what = "complete" /\ log[i].task = t
  /\ RecordsType' => \A t : t \in Appeared' <=>
       \E i \in 1..applied' : log'[i].what = "complete" /\ log'[i].task = t
<1>1. ASSUME RecordsType PROVE applied \in Nat /\ Len(log) \in Nat /\ applied <= Len(log)
  BY <1>1 DEF RecordsType
<1>2. ASSUME RecordsType' PROVE applied' \in Nat /\ Len(log') \in Nat /\ applied' <= Len(log')
  BY <1>2 DEF RecordsType
<1> QED
  BY <1>1, <1>2 DEF Appeared, Completed

LEMMA LogTypes ==
  ASSUME RecordsType
  PROVE  /\ applied \in Nat /\ Len(log) \in Nat /\ applied <= Len(log)
         /\ \A i \in 1..Len(log) : /\ log[i].what \in {"complete", "delete"}
                                   /\ log[i].task \in Tasks
                                   /\ log[i] = Commit(log[i].what, log[i].task)
         /\ \A t \in Tasks : time[t] \in Nat
<1>1. \A i \in 1..Len(log) : log[i] \in CommitType
  BY DEF RecordsType
<1> QED
  BY <1>1 DEF RecordsType, CommitType, Commit

(* What the query sees has appeared; what has appeared was not running any *)
(* more, and is seen unless it was deleted.                                *)
LEMMA SeenAppeared ==
  ASSUME RecordsType, LogIsState
  PROVE  /\ index \subseteq Appeared /\ Appeared \subseteq Tasks
         /\ \A t \in Appeared : /\ state[t] # "running" /\ time[t] > 0
                                /\ state[t] = "complete" => t \in index
<1>1. \A t : t \in Appeared <=>
        \E i \in 1..applied : log[i].what = "complete" /\ log[i].task = t
  BY AppearedIs
<1>2. \A i \in 1..applied : i \in 1..Len(log)
  BY LogTypes
<1>3. index = SeenIn(log, applied)
  BY IndexIs
<1>4. index \subseteq Appeared
  BY <1>1, <1>3 DEF SeenIn, Commit
<1>5. Appeared \subseteq Tasks
  BY <1>1, <1>2, LogTypes
<1>6. ASSUME NEW t \in Appeared
      PROVE  /\ state[t] # "running" /\ time[t] > 0
             /\ state[t] = "complete" => t \in index
  <2>1. PICK i \in 1..applied : log[i].what = "complete" /\ log[i].task = t
    BY <1>1
  <2>2. i \in Completed
    BY <1>2, <2>1 DEF Completed
  <2>3. state[t] # "running" /\ time[t] > 0
    BY <1>2, <2>1, <2>2 DEF LogIsState
  <2>4. ASSUME state[t] = "complete" PROVE t \in index
    <3>1. log[i] = Commit("complete", t)
      BY <1>2, <2>1, LogTypes
    <3>2. \A k \in 1..applied : log[k] # Commit("delete", t)
      BY <1>2, <2>4 DEF LogIsState, Commit
    <3> QED
      BY <1>3, <1>5, <3>1, <3>2 DEF SeenIn
  <2> QED
    BY <2>3, <2>4
<1> QED
  BY <1>4, <1>5, <1>6

(* The steps of the server: the log grows at its end, with a task that     *)
(* was running and is completed at a time that no task has, or with one    *)
(* that was not deleted; or the query sees one commit more.                *)
LEMMA LogStep ==
  ASSUME RecordsType, UploadsType, LogIsState, TimesDiffer, [ResultsNext]_resultVars
  PROVE  LogIsState' /\ TimesDiffer'
<1>1. ASSUME NEW p \in Posts, NEW moment \in Clock, Completes(p, moment)
      PROVE  LogIsState' /\ TimesDiffer'
  <2> DEFINE t == post[p].task
             n == Len(log)
  <2>1. t \in Tasks /\ state[t] = "running"
    BY <1>1 DEF Completes, UploadsType, PostType
  <2>2. moment \in Nat /\ moment > 0 /\ \A u \in Tasks : time[u] # moment
    BY DEF Clock
  <2>3. /\ state' = [state EXCEPT ![t] = "complete"]
        /\ time' = [time EXCEPT ![t] = moment]
        /\ log' = Append(log, Commit("complete", t))
        /\ skewed' = (skewed \/ \E u \in Tasks : time[u] > moment)
    BY <1>1 DEF Completes
  <2> HIDE DEF t
  <2>4. /\ state'[t] = "complete" /\ time'[t] = moment
        /\ \A u \in Tasks \ {t} : state'[u] = state[u] /\ time'[u] = time[u]
    BY <2>1, <2>3 DEF RecordsType
  <2>5. Commit("complete", t) \in CommitType
    BY <2>1 DEF Commit, CommitType
  <2>6. /\ n \in Nat /\ Len(log') = n + 1
        /\ \A i \in 1..n : log'[i] = log[i]
        /\ log'[n + 1] = Commit("complete", t)
    BY <2>3, <2>5, Appended DEF RecordsType
  <2>7. \A i \in 1..n : /\ log[i].task \in Tasks \ {t}
                        /\ log[i].what \in {"complete", "delete"}
    BY <2>1, LogTypes DEF LogIsState
  <2> HIDE DEF n
  <2>8. \A i \in 1..(n + 1) : i \in 1..n \/ i = n + 1
    BY <2>6
  <2>9. log'[n + 1].what = "complete" /\ log'[n + 1].task = t
    BY <2>6 DEF Commit
  <2>10. /\ Completed = {i \in 1..n : log[i].what = "complete"}
         /\ Completed' = {i \in 1..(n + 1) : log'[i].what = "complete"}
    BY <2>6 DEF Completed, n
  <2>11. /\ \A i \in Completed : i \in 1..n
         /\ \A i \in Completed' : i \in Completed \/ i = n + 1
    BY <2>6, <2>8, <2>10
  <2>12. LogIsState'
    <3>1. \A i \in 1..(n + 1) : state'[log'[i].task] # "running"
      <4>1. \A i \in 1..n : state'[log'[i].task] # "running"
        BY <2>4, <2>6, <2>7 DEF LogIsState, n
      <4> QED
        BY <2>4, <2>8, <2>9, <4>1
    <3>2. \A i \in Completed' : time'[log'[i].task] > 0
      <4>1. \A i \in Completed : time'[log'[i].task] > 0
        BY <2>4, <2>6, <2>7, <2>11 DEF LogIsState
      <4> QED
        BY <2>2, <2>4, <2>9, <2>11, <4>1
    <3>3. \A i \in 1..(n + 1) : log'[i].what = "delete" => state'[log'[i].task] = "deleted"
      <4>1. \A i \in 1..n : log'[i].what = "delete" => state'[log'[i].task] = "deleted"
        BY <2>4, <2>6, <2>7 DEF LogIsState, n
      <4> QED
        BY <2>8, <2>9, <4>1
    <3> QED
      BY <2>6, <3>1, <3>2, <3>3 DEF LogIsState
  <2>13. \A u, v \in Tasks : time'[u] = time'[v] /\ time'[u] > 0 => u = v
    <3> SUFFICES ASSUME NEW u \in Tasks, NEW v \in Tasks, time'[u] = time'[v], time'[u] > 0
                 PROVE  u = v
      OBVIOUS
    <3>1. CASE u # t /\ v # t
      BY <2>4, <3>1 DEF TimesDiffer
    <3>2. CASE u = t \/ v = t
      BY <2>2, <2>4, <3>2
    <3> QED
      BY <3>1, <3>2
  <2>14. ASSUME ~skewed', NEW i \in Completed', NEW j \in Completed', i < j
         PROVE  time'[log'[i].task] < time'[log'[j].task]
    <3>1. ~skewed /\ \A u \in Tasks : ~(time[u] > moment)
      BY <2>3, <2>14
    <3>2. i \in Completed /\ i \in 1..n
      BY <2>6, <2>10, <2>11, <2>14
    <3>3. log'[i] = log[i] /\ time'[log[i].task] = time[log[i].task] /\ log[i].task \in Tasks
      BY <2>4, <2>6, <2>7, <3>2
    <3>4. CASE j \in Completed
      <4>1. log'[j] = log[j] /\ time'[log[j].task] = time[log[j].task]
        BY <2>4, <2>6, <2>7, <2>11, <3>4
      <4>2. time[log[i].task] < time[log[j].task]
        BY <2>14, <3>1, <3>2, <3>4 DEF TimesDiffer
      <4> QED
        BY <3>3, <4>1, <4>2
    <3>5. CASE j = n + 1
      <4>1. time'[log'[j].task] = moment
        BY <2>4, <2>9, <3>5
      <4>2. time[log[i].task] \in Nat
        BY <3>3, LogTypes
      <4>3. ~(time[log[i].task] > moment) /\ time[log[i].task] # moment
        BY <2>2, <3>1, <3>3
      <4>4. time[log[i].task] < moment
        BY <2>2, <4>2, <4>3
      <4> QED
        BY <3>3, <4>1, <4>4
    <3> QED
      BY <2>11, <3>4, <3>5
  <2> QED
    BY <2>12, <2>13, <2>14 DEF TimesDiffer
<1>2. ASSUME NEW t \in Tasks, Deletes(t)
      PROVE  LogIsState' /\ TimesDiffer'
  <2> DEFINE n == Len(log)
  <2>1. /\ state' = [state EXCEPT ![t] = "deleted"] /\ UNCHANGED <<time, skewed>>
        /\ log' = Append(log, Commit("delete", t))
    BY <1>2 DEF Deletes
  <2>2. Commit("delete", t) \in CommitType
    BY DEF Commit, CommitType
  <2>3. /\ n \in Nat /\ Len(log') = n + 1
        /\ \A i \in 1..n : log'[i] = log[i]
        /\ log'[n + 1] = Commit("delete", t)
    BY <2>1, <2>2, Appended DEF RecordsType
  <2>4. log'[n + 1].what = "delete" /\ log'[n + 1].task = t
    BY <2>3 DEF Commit
  <2>5. state'[t] = "deleted" /\ \A u \in Tasks \ {t} : state'[u] = state[u]
    BY <2>1 DEF RecordsType
  <2>6. /\ Completed = {i \in 1..n : log[i].what = "complete"}
        /\ Completed' = {i \in 1..(n + 1) : log'[i].what = "complete"}
    BY <2>3 DEF Completed
  <2>7. \A i \in 1..n : log[i].task \in Tasks
    BY LogTypes
  <2>8. LogIsState => /\ \A i \in 1..n : state[log[i].task] # "running"
                      /\ \A i \in Completed : time[log[i].task] > 0
                      /\ \A i \in 1..n : log[i].what = "delete" => state[log[i].task] = "deleted"
    BY DEF LogIsState
  <2> HIDE DEF n
  <2>9. \A i \in 1..(n + 1) : i \in 1..n \/ i = n + 1
    BY <2>3
  <2>10. Completed' = Completed /\ \A i \in Completed : log'[i] = log[i]
    BY <2>3, <2>4, <2>6, <2>9
  <2>11. \A i \in 1..(n + 1) : /\ state'[log'[i].task] # "running"
                               /\ log'[i].what = "delete" => state'[log'[i].task] = "deleted"
    <3>1. \A i \in 1..n : /\ state'[log'[i].task] # "running"
                          /\ log'[i].what = "delete" => state'[log'[i].task] = "deleted"
      BY <2>3, <2>5, <2>7, <2>8
    <3> QED
      BY <2>4, <2>5, <2>9, <3>1
  <2>12. LogIsState'
    BY <2>1, <2>3, <2>8, <2>10, <2>11 DEF LogIsState
  <2>13. TimesDiffer'
    BY <2>1, <2>10 DEF TimesDiffer
  <2> QED
    BY <2>12, <2>13
<1>3. CASE UNCHANGED <<state, time, log, skewed>>
  BY <1>3 DEF LogIsState, TimesDiffer, Completed
<1> QED
  BY <1>1, <1>2, <1>3, ResultsSteps DEF server, resultVars, records

(* A step of the server changes no time that the export may have read, and *)
(* makes the query see a new task only by applying its completion.         *)
LEMMA ServerKeeps ==
  ASSUME RecordsType, UploadsType, LogIsState, [ResultsNext]_resultVars, UNCHANGED export
  PROVE  /\ \A t \in Appeared : /\ t \in Appeared' /\ time'[t] = time[t]
                                /\ state'[t] = "complete" => state[t] = "complete"
         /\ skewed => skewed'
         /\ \A t \in index' \ index :
              /\ \E i \in Completed : i > applied /\ log[i].task = t
              /\ UNCHANGED time
<1>1. ASSUME NEW p \in Posts, NEW moment \in Clock, Completes(p, moment)
      PROVE  /\ \A t \in Tasks : /\ state[t] # "running" => time'[t] = time[t] /\ state'[t] = state[t]
             /\ skewed => skewed'
             /\ applied' = applied /\ \A i \in 1..Len(log) : log'[i] = log[i]
  <2>1. Commit("complete", post[p].task) \in CommitType
    BY DEF Commit, CommitType, UploadsType, PostType
  <2>2. log' = Append(log, Commit("complete", post[p].task)) /\ applied' = applied
    BY <1>1 DEF Completes
  <2>3. \A i \in 1..Len(log) : log'[i] = log[i]
    BY <2>1, <2>2, Appended DEF RecordsType
  <2>4. \A t \in Tasks : state[t] # "running" => time'[t] = time[t] /\ state'[t] = state[t]
    BY <1>1 DEF Completes, RecordsType
  <2>5. skewed => skewed'
    BY <1>1 DEF Completes
  <2> QED
    BY <2>2, <2>3, <2>4, <2>5
<1>2. ASSUME NEW t \in Tasks, Deletes(t)
      PROVE  /\ \A u \in Tasks : time'[u] = time[u] /\ state'[u] \in {state[u], "deleted"}
             /\ skewed => skewed'
             /\ applied' = applied /\ \A i \in 1..Len(log) : log'[i] = log[i]
  <2>1. Commit("delete", t) \in CommitType
    BY DEF Commit, CommitType
  <2>2. log' = Append(log, Commit("delete", t)) /\ applied' = applied
    BY <1>2 DEF Deletes
  <2>3. \A i \in 1..Len(log) : log'[i] = log[i]
    BY <2>1, <2>2, Appended DEF RecordsType
  <2>4. UNCHANGED <<time, skewed>> /\ \A u \in Tasks : state'[u] \in {state[u], "deleted"}
    BY <1>2 DEF Deletes, RecordsType
  <2> QED
    BY <2>2, <2>3, <2>4
<1>3. RecordsType'
  BY RecordsTypeStep
<1>4. /\ Appeared \subseteq Tasks
      /\ \A t \in Appeared : state[t] # "running"
      /\ \A t : t \in Appeared <=>
           \E i \in 1..applied : log[i].what = "complete" /\ log[i].task = t
      /\ \A t : t \in Appeared' <=>
           \E i \in 1..applied' : log'[i].what = "complete" /\ log'[i].task = t
      /\ index = SeenIn(log, applied) /\ index' = SeenIn(log', applied')
      /\ applied \in Nat /\ Len(log) \in Nat /\ applied <= Len(log)
  BY <1>3, SeenAppeared, AppearedIs, IndexIs, LogTypes
<1>5. CASE applied' = applied /\ \A i \in 1..Len(log) : log'[i] = log[i]
  <2>1. \A i \in 1..applied : log'[i] = log[i]
    BY <1>4, <1>5
  <2>2. index' = index
    BY <1>4, <1>5, <2>1 DEF SeenIn
  <2>3. \A t \in Appeared : t \in Appeared'
    BY <1>4, <1>5, <2>1
  <2>4. /\ \A t \in Tasks : state[t] # "running" =>
             time'[t] = time[t] /\ state'[t] \in {state[t], "deleted"}
        /\ skewed => skewed'
    <3>1. CASE UNCHANGED records
      BY <3>1 DEF records
    <3> QED
      BY <1>1, <1>2, <3>1, <1>5, <1>4, ResultsSteps DEF server, resultVars, records
  <2> QED
    BY <1>4, <2>2, <2>3, <2>4
<1>6. CASE applied' = applied + 1 /\ UNCHANGED records
  <2>1. UNCHANGED <<state, time, log, skewed>> /\ applied' = applied + 1
    BY <1>6 DEF records
  <2>2. \A t \in Appeared : t \in Appeared'
    BY <1>4, <2>1
  <2>3. ASSUME NEW t \in index' \ index
        PROVE  \E i \in Completed : i > applied /\ log[i].task = t
    <3>1. t \in Tasks /\ \A i \in 1..applied : log[i] # Commit("delete", t)
      BY <1>4, <2>1, <2>3 DEF SeenIn
    <3>2. PICK i \in 1..applied' : log[i] = Commit("complete", t)
      BY <1>4, <2>1, <2>3 DEF SeenIn
    <3>3. i \notin 1..applied
      BY <1>4, <2>3, <3>1, <3>2 DEF SeenIn
    <3>4. applied' \in 0..Len(log)
      BY <1>3, <2>1 DEF RecordsType
    <3>5. i \in 1..Len(log) /\ i > applied
      BY <1>4, <2>1, <3>3, <3>4
    <3>6. log[i].what = "complete" /\ log[i].task = t
      BY <3>2 DEF Commit
    <3> QED
      BY <3>5, <3>6 DEF Completed
  <2> QED
    BY <2>1, <2>2, <2>3
<1> QED
  BY <1>1, <1>2, <1>5, <1>6, ResultsSteps DEF server, resultVars, records

(* Therefore a step of the server leaves what the export relies on.        *)
LEMMA ServerStep ==
  ASSUME RecordsType, UploadsType, ClientType, ExportInv,
         [ResultsNext]_resultVars, UNCHANGED export
  PROVE  CursorIsSeen' /\ PagesInOrder' /\ WrittenSoFar'
<1> USE DEF ExportInv
<1>1. /\ \A t \in Appeared : /\ t \in Appeared' /\ time'[t] = time[t]
                             /\ state'[t] = "complete" => state[t] = "complete"
      /\ skewed => skewed'
      /\ \A t \in index' \ index :
           /\ \E i \in Completed : i > applied /\ log[i].task = t
           /\ UNCHANGED time
  BY ServerKeeps
<1>2. UNCHANGED <<client, out, torn, begun, seen>>
      /\ Intact' = Intact /\ Written' = Written
  BY DEF export, Intact, Written
<1>3. /\ index \subseteq Appeared /\ Appeared \subseteq Tasks
      /\ \A t \in Appeared : time[t] > 0
      /\ \A t \in Tasks : time[t] \in Nat
  BY SeenAppeared, LogTypes
<1>4. /\ out \in Seq(Tasks) /\ client.next \in Nat /\ Len(out) \in Nat
      /\ \A i \in 1..Len(out) : out[i] \in ToSet(out)
  BY DEF ClientType, ToSet
<1>5. CursorIsSeen'
  BY <1>1, <1>2 DEF CursorIsSeen
<1>6. PagesInOrder'
  <2>1. ToSet(out) \subseteq Appeared /\ begun \subseteq Appeared /\ seen \subseteq Appeared
    BY DEF PagesInOrder
  <2>2. \A i \in 1..Len(out) : out[i] \in Appeared
    BY <1>4, <2>1
  <2>3. \A i \in 1..Len(out) : time'[out[i]] = time[out[i]]
    BY <1>1, <2>2
  <2>4. ToSet(out)' = ToSet(out)
    BY <1>2 DEF ToSet
  <2>5. (ToSet(out) \union begun \union seen)' \subseteq Appeared'
    BY <1>1, <1>2, <2>1, <2>4
  <2>6. Intact \subseteq 1..Len(out)
    BY DEF Intact
  <2> QED
    BY <1>2, <2>3, <2>5, <2>6 DEF PagesInOrder
<1>7. WrittenSoFar'
  <2>1. \A t : Wrote(t)' <=> Wrote(t)
    BY <1>2 DEF Wrote
  <2>2. begun \subseteq Appeared /\ seen \subseteq Appeared
    BY DEF PagesInOrder
  <2>3. \A t \in begun : state'[t] = "complete" /\ time'[t] <= client'.next => Wrote(t)
    BY <1>1, <1>2, <2>2 DEF WrittenSoFar
  <2>4. ASSUME ~skewed', NEW t \in index', state'[t] = "complete", time'[t] <= client'.next
        PROVE  Wrote(t)
    <3>1. CASE t \in index
      <4>1. t \in Appeared
        BY <1>3, <3>1
      <4> QED
        BY <1>1, <1>2, <2>4, <3>1, <4>1 DEF WrittenSoFar
    <3>2. CASE t \notin index
      <4>1. PICK i \in Completed : i > applied /\ log[i].task = t
        BY <1>1, <2>4, <3>2
      <4>2. time[t] <= client.next /\ ~skewed
        BY <1>1, <1>2, <2>4, <3>2
      <4>3. i \in 1..Len(log) /\ t \in Tasks
        BY <4>1, LogTypes DEF Completed
      <4>4. time[t] > 0 /\ time[t] \in Nat
        BY <1>3, <4>1, <4>3 DEF LogIsState
      <4>5. client.next # 0
        BY <4>2, <4>4
      <4>6. PICK u \in Appeared : client.next = time[u]
        BY <4>5 DEF CursorIsSeen
      <4>7. PICK k \in 1..applied : log[k].what = "complete" /\ log[k].task = u
        BY <4>6, AppearedIs
      <4>8. k \in Completed /\ k < i
        BY <4>1, <4>3, <4>7, LogTypes DEF Completed
      <4>9. time[u] < time[t]
        BY <4>1, <4>2, <4>7, <4>8 DEF TimesDiffer
      <4>10. time[u] \in Nat
        BY <1>3
      <4> QED
        BY <4>2, <4>4, <4>6, <4>9, <4>10
    <3> QED
      BY <3>1, <3>2
  <2>5. ASSUME client.pc = "done" \/ (client.pc = "next" /\ client.next = client.last)
        PROVE  /\ \A t \in begun : state'[t] = "complete" => Wrote(t)
               /\ ~skewed' => \A t \in seen : state'[t] = "complete" => Wrote(t)
    <3>1. /\ \A t \in begun : state[t] = "complete" => Wrote(t)
          /\ ~skewed => \A t \in seen : state[t] = "complete" => Wrote(t)
      BY <2>5 DEF WrittenSoFar
    <3> QED
      BY <1>1, <2>2, <3>1
  <2> QED
    BY <1>2, <2>1, <2>3, <2>4, <2>5 DEF WrittenSoFar
<1> QED
  BY <1>5, <1>6, <1>7

-----------------------------------------------------------------------------
(* A page: the first tasks after the cursor.                               *)

Later(c) == {t \in index : time[t] > c}

LEMMA PageIsPlaces ==
  \A c : /\ PageAfter(c) = {t \in Later(c) : Place(time, Later(c), t) <= Limit}
         /\ \A S : ByTime(S) = InPlace(time, S)
BY DEF PageAfter, Later, Place, UpTo, ByTime, InPlace

LEMMA LaterType ==
  ASSUME RecordsType, LogIsState, TimesDiffer, NEW c
  PROVE  /\ Later(c) \subseteq index /\ index \subseteq Tasks
         /\ IsFiniteSet(Later(c)) /\ Orders(time, Later(c))
         /\ \A t \in Later(c) : time[t] \in Nat /\ time[t] > c
<1>1. IsFiniteSet(Tasks)
  BY FS_Interval, ResultsAssumption DEF Tasks
<1>2. Later(c) \subseteq index /\ index \subseteq Tasks
  BY SeenAppeared DEF Later
<1>3. IsFiniteSet(Later(c))
  BY <1>1, <1>2, FS_Subset
<1>4. \A t \in Later(c) : time[t] \in Nat /\ time[t] > c /\ time[t] > 0
  BY <1>2, SeenAppeared, LogTypes DEF Later
<1>5. Orders(time, Later(c))
  BY <1>2, <1>4 DEF Orders, TimesDiffer
<1> QED
  BY <1>2, <1>3, <1>4, <1>5

(* The new cursor is the time of the page's last task.  A task that is not *)
(* behind it was in the page, or behind the old cursor; and an empty page  *)
(* means that nothing is left.                                             *)
LEMMA PageIsNext ==
  ASSUME RecordsType, LogIsState, TimesDiffer, NEW c \in Nat, NEW page, page = PageAfter(c),
         NEW next, next = CursorAfter(page, c)
  PROVE  /\ page \subseteq Later(c)
         /\ next \in Nat /\ c <= next
         /\ page = {} => next = c /\ Later(c) = {}
         /\ page # {} => /\ c < next /\ \E t \in page : next = time[t]
                         /\ \A t \in page : time[t] <= next
         /\ \A t \in Later(c) : time[t] <= next => t \in page
<1>1. page = {t \in Later(c) : Place(time, Later(c), t) <= Limit}
  BY PageIsPlaces
<1>2. /\ IsFiniteSet(Later(c)) /\ Orders(time, Later(c))
      /\ \A t \in Later(c) : time[t] \in Nat /\ time[t] > c
  BY LaterType
<1>3. Limit \in Nat /\ Limit > 0
  BY ResultsAssumption
<1>4. CASE page = {}
  <2>1. next = c
    BY <1>4 DEF CursorAfter
  <2>2. Later(c) = {}
    <3>1. SUFFICES ASSUME Later(c) # {} PROVE FALSE
      OBVIOUS
    <3>2. Cardinality(Later(c)) \in Nat /\ Cardinality(Later(c)) # 0
      BY <1>2, <3>1, FS_CardinalityType, FS_EmptySet
    <3>3. 1 \in 1..Cardinality(Later(c))
      BY <3>2
    <3>4. PICK t \in Later(c) : Place(time, Later(c), t) = 1
      BY <1>2, <3>3, PlacesFilled DEF Filled
    <3> QED
      BY <1>1, <1>3, <1>4, <3>4
  <2> QED
    BY <1>1, <1>4, <2>1, <2>2
<1>5. CASE page # {}
  <2>1. page \subseteq Later(c) /\ IsFiniteSet(page)
    BY <1>1, <1>2, FS_Subset
  <2>2. PICK t \in page : \A u \in page : time[u] <= time[t]
    <3>1. \A u \in page : time[u] \in Int
      BY <1>2, <2>1
    <3>2. HasLast(time, page)
      BY <1>5, <2>1, <3>1, LastExists
    <3> QED
      BY <3>2 DEF HasLast
  <2>3. next \in {time[u] : u \in page} /\ \A u \in page : time[u] <= next
    <3>1. \E x \in {time[u] : u \in page} : \A u \in page : time[u] <= x
      BY <2>2
    <3>2. next = CHOOSE x \in {time[u] : u \in page} : \A u \in page : time[u] <= x
      BY <1>5 DEF CursorAfter
    <3> QED
      BY <3>1, <3>2
  <2>4. PICK w \in page : next = time[w]
    BY <2>3
  <2>5. next \in Nat /\ c < next
    BY <1>2, <2>1, <2>4
  <2>6. ASSUME NEW u \in Later(c), time[u] <= next PROVE u \in page
    <3> DEFINE x == Place(time, Later(c), u)
               y == Place(time, Later(c), w)
    <3>1. w \in Later(c)
      BY <2>1, <2>4
    <3>2. x \in 1..Cardinality(Later(c)) /\ y \in 1..Cardinality(Later(c))
      BY <1>2, <3>1, PlaceType
    <3>3. Cardinality(Later(c)) \in Nat
      BY <1>2, FS_CardinalityType
    <3>4. y < x <=> time[w] < time[u]
      BY <1>2, <3>1, PlaceIsOrder
    <3>5. ~(time[w] < time[u])
      BY <1>2, <2>4, <2>6, <3>1
    <3>6. y <= Limit
      BY <1>1, <2>4
    <3>7. x \in Nat /\ y \in Nat
      BY <3>2, <3>3
    <3> HIDE DEF x, y
    <3>8. x <= Limit
      BY <1>3, <3>4, <3>5, <3>6, <3>7
    <3> QED
      BY <1>1, <3>8 DEF x
  <2> QED
    BY <1>5, <2>1, <2>3, <2>4, <2>5, <2>6
<1> QED
  BY <1>4, <1>5

(* Its rows: every task of the page that has one, in the order of time.    *)
LEMMA RowsInOrder ==
  ASSUME RecordsType, LogIsState, TimesDiffer, NEW c, NEW page, page \subseteq Later(c),
         NEW rows, rows = Rows(page)
  PROVE  /\ rows \in Seq(Tasks) /\ Len(rows) \in Nat
         /\ \A i \in 1..Len(rows) : rows[i] \in page
         /\ \A i, j \in 1..Len(rows) : i < j => time[rows[i]] < time[rows[j]]
         /\ \A t \in page : t \in Macos \/ \E i \in 1..Len(rows) : rows[i] = t
<1> DEFINE S == page \ Macos
<1>1. /\ IsFiniteSet(Later(c)) /\ Orders(time, Later(c))
      /\ Later(c) \subseteq Tasks
  BY LaterType
<1>2. S \subseteq Later(c) /\ S \subseteq Tasks /\ S \subseteq page
  BY <1>1
<1>3. IsFiniteSet(S)
  BY <1>1, <1>2, FS_Subset
<1>4. Orders(time, S)
  BY <1>1, <1>2 DEF Orders
<1>5. rows = InPlace(time, S)
  BY PageIsPlaces DEF Rows
<1>6. \A t \in page : t \in Macos \/ t \in S
  OBVIOUS
<1> HIDE DEF S
<1>7. /\ Cardinality(S) \in Nat
      /\ rows \in Seq(S) /\ Len(rows) = Cardinality(S)
      /\ \A i \in 1..Cardinality(S) : rows[i] \in S
      /\ \A i, j \in 1..Cardinality(S) : i < j => time[rows[i]] < time[rows[j]]
      /\ \A t \in S : \E i \in 1..Cardinality(S) : rows[i] = t
  BY <1>3, <1>4, <1>5, InPlaceInOrder
<1>8. rows \in Seq(Tasks)
  BY <1>2, <1>7
<1> QED
  BY <1>2, <1>6, <1>7, <1>8

(* What both actions that get a page do. *)
GetsPage(last) ==
  /\ seen' = index /\ begun' = begun /\ torn' = torn
  /\ out' = out \o Rows(PageAfter(client.next))
  /\ client' = Client("next", CursorAfter(PageAfter(client.next), client.next), last)

LEMMA PageSteps ==
  ASSUME RecordsType, LogIsState, TimesDiffer, PagesInOrder
  PROVE  /\ FirstPage => GetsPage(-1)
         /\ NextPage => GetsPage(client.next)
<1>1. ASSUME FirstPage PROVE GetsPage(-1)
  <2>1. out = <<>> /\ client.next = 0
    BY <1>1 DEF FirstPage, PagesInOrder
  <2>2. Rows(PageAfter(0)) \in Seq(Tasks)
    BY RowsInOrder, PageIsNext
  <2>3. out \o Rows(PageAfter(0)) = Rows(PageAfter(0))
    BY <2>1, <2>2
  <2> QED
    BY <1>1, <2>1, <2>3 DEF FirstPage, GetsPage
<1>2. ASSUME NextPage PROVE GetsPage(client.next)
  BY <1>2 DEF NextPage, GetsPage
<1> QED
  BY <1>1, <1>2

LEMMA PageStep ==
  ASSUME RecordsType, ClientType, ExportInv, UNCHANGED server,
         NEW last \in {-1, client.next}, GetsPage(last)
  PROVE  ClientType' /\ CursorIsSeen' /\ PagesInOrder' /\ WrittenSoFar'
<1> DEFINE c == client.next
           page == PageAfter(c)
           next == CursorAfter(page, c)
           rows == Rows(page)
           n == Len(out)
           m == Len(rows)
<1> USE DEF ExportInv
<1>1. c \in Nat /\ c \in 0..NumTasks /\ out \in Seq(Tasks) /\ n \in Nat
  BY DEF ClientType
<1>2. /\ page \subseteq Later(c)
      /\ next \in Nat /\ c <= next
      /\ page = {} => next = c /\ Later(c) = {}
      /\ page # {} => /\ c < next /\ \E t \in page : next = time[t]
                      /\ \A t \in page : time[t] <= next
      /\ \A t \in Later(c) : time[t] <= next => t \in page
  <2>1. LogIsState /\ TimesDiffer /\ c \in Nat
    BY <1>1
  <2>2. page = PageAfter(c) /\ next = CursorAfter(page, c)
    OBVIOUS
  <2> HIDE DEF c, page, next, ExportInv
  <2> QED
    BY <2>1, <2>2, PageIsNext
<1>3. /\ rows \in Seq(Tasks) /\ m \in Nat
      /\ \A i \in 1..m : rows[i] \in page
      /\ \A i, j \in 1..m : i < j => time[rows[i]] < time[rows[j]]
      /\ \A t \in page : t \in Macos \/ \E i \in 1..m : rows[i] = t
  BY <1>2, RowsInOrder
<1>4. /\ seen' = index /\ begun' = begun /\ torn' = torn
      /\ out' = out \o rows
      /\ client'.pc = "next" /\ client'.next = next /\ client'.last = last
      /\ client' = Client("next", next, last)
  BY DEF GetsPage, Client
<1>5. /\ \A t \in Later(c) : t \in index /\ t \in Tasks /\ time[t] \in Nat /\ time[t] > c
      /\ \A t \in index : t \in Later(c) \/ time[t] <= c
      /\ \A t \in Tasks : time[t] \in 0..NumTasks /\ time[t] \in Nat
      /\ index \subseteq Appeared /\ Appeared \subseteq Tasks
      /\ \A t \in Appeared : state[t] = "complete" => t \in index
  <2>1. \A t \in Tasks : time[t] \in 0..NumTasks /\ time[t] \in Nat
    BY LogTypes DEF RecordsType
  <2>2. \A t \in index : t \in Later(c) \/ time[t] <= c
    <3>1. index \subseteq Tasks
      BY SeenAppeared
    <3>2. ASSUME NEW t \in index PROVE time[t] > c \/ time[t] <= c
      <4>1. time[t] \in Nat
        BY <2>1, <3>1
      <4> QED
        BY <1>1, <4>1
    <3> QED
      BY <3>2 DEF Later
  <2> QED
    BY <2>1, <2>2, LaterType, SeenAppeared
<1>6. UNCHANGED <<state, time, log, applied, skewed>> /\ index' = index /\ Appeared' = Appeared
  BY DEF server, index, Appeared, Completed
<1> HIDE DEF c, page, next, rows, n, m
<1>7. /\ Len(out') = n + m
      /\ \A i \in 1..n : out'[i] = out[i]
      /\ \A i \in 1..m : out'[n + i] = rows[i]
      /\ \A i \in 1..(n + m) : i \in 1..n \/ (i - n) \in 1..m
      /\ out' \in Seq(Tasks)
  BY <1>1, <1>3, <1>4 DEF n, m
<1>8. \A i \in 1..(n + m) : \/ i \in 1..n /\ out'[i] = out[i]
                            \/ i - n \in 1..m /\ out'[i] = rows[i - n]
  <2>1. \A i \in 1..(n + m) : n + (i - n) = i
    BY <1>1, <1>3
  <2> QED
    BY <1>7, <2>1
<1>9. /\ \A t : Wrote(t) <=> t \in Macos \/ \E i \in (1..n) \ torn : out[i] = t
      /\ \A t : Wrote(t)' <=> t \in Macos \/ \E i \in (1..(n + m)) \ torn : out'[i] = t
      /\ \A t : t \in ToSet(out) <=> \E i \in 1..n : out[i] = t
      /\ \A t : t \in ToSet(out)' <=> \E i \in 1..(n + m) : out'[i] = t
  <2>1. DOMAIN out = 1..n
    BY <1>1 DEF n
  <2>2. DOMAIN out' = 1..(n + m)
    BY <1>7
  <2>3. \A t : t \in ToSet(out) <=> \E i \in 1..n : out[i] = t
    BY <2>1 DEF ToSet
  <2>4. \A t : t \in ToSet(out)' <=> \E i \in 1..(n + m) : out'[i] = t
    BY <2>2 DEF ToSet
  <2>5. Intact = (1..n) \ torn /\ Intact' = (1..(n + m)) \ torn
    BY <1>4, <1>7 DEF Intact, n
  <2> QED
    BY <2>3, <2>4, <2>5 DEF Wrote, Written
<1>10. \A t : Wrote(t) => Wrote(t)'
  <2>1. \A i \in 1..n : i \in 1..(n + m)
    BY <1>1, <1>3
  <2> QED
    BY <1>7, <1>9, <2>1
<1>11. \A t \in page : Wrote(t)'
  <2>1. \A i \in 1..m : n + i \in (1..(n + m)) \ torn
    <3>1. torn \subseteq 1..n
      BY DEF ClientType, n
    <3>2. \A i \in 1..m : n + i \in 1..(n + m) /\ n + i \notin 1..n
      BY <1>1, <1>3
    <3> QED
      BY <3>1, <3>2
  <2> QED
    BY <1>3, <1>7, <1>9, <2>1
<1>12. ClientType'
  <2>1. next \in 0..NumTasks
    <3>1. page = {} => next = c
      BY <1>2
    <3>2. page # {} => \E t \in Tasks : next = time[t]
      BY <1>2, <1>5
    <3> QED
      BY <1>1, <1>5, <3>1, <3>2
  <2>2. last \in -1..NumTasks
    BY <1>1, ResultsAssumption DEF c
  <2>3. seen' \subseteq Tasks /\ begun' \subseteq Tasks
    BY <1>4, <1>5 DEF ClientType
  <2>4. torn' \subseteq 1..Len(out')
    <3>1. torn \subseteq 1..n /\ 1..n \subseteq 1..(n + m)
      BY <1>1, <1>3 DEF ClientType, n
    <3> QED
      BY <1>4, <1>7, <3>1
  <2> QED
    BY <1>4, <1>7, <2>1, <2>2, <2>3, <2>4 DEF ClientType, Client
<1>13. CursorIsSeen'
  <2>1. page # {} => \E t \in Appeared : next = time[t]
    BY <1>2, <1>5
  <2>2. page = {} => next = c
    BY <1>2
  <2> QED
    BY <1>4, <1>6, <2>1, <2>2 DEF CursorIsSeen, c
<1>14. /\ \A i \in 1..n : out[i] \in Appeared
       /\ \A i \in (1..n) \ torn : time[out[i]] <= c
  BY <1>9 DEF PagesInOrder, Intact, n, c
<1>15. \A i \in 1..m : c < time[rows[i]] /\ time[rows[i]] <= next /\ rows[i] \in Appeared
  BY <1>2, <1>3, <1>5
<1>16. PagesInOrder'
  <2>1. ASSUME NEW i \in (1..(n + m)) \ torn, NEW j \in (1..(n + m)) \ torn, i < j
        PROVE  time[out'[i]] < time[out'[j]]
    <3>1. CASE j \in 1..n
      <4>1. i \in 1..n
        BY <1>1, <2>1, <3>1
      <4>2. time[out[i]] < time[out[j]]
        BY <2>1, <3>1, <4>1 DEF PagesInOrder, Intact, n
      <4> QED
        BY <1>7, <3>1, <4>1, <4>2
    <3>2. CASE i \in 1..n /\ j \notin 1..n
      <4>1. j - n \in 1..m /\ out'[j] = rows[j - n]
        BY <1>8, <3>2
      <4>2. time[out[i]] <= c /\ c < time[out'[j]] /\ out[i] \in Tasks /\ out'[j] \in Tasks
        BY <1>5, <1>14, <1>15, <3>2, <4>1
      <4>3. time[out[i]] \in Nat /\ time[out'[j]] \in Nat
        BY <1>5, <4>2
      <4>4. time[out[i]] < time[out'[j]]
        BY <1>1, <4>2, <4>3
      <4> QED
        BY <1>7, <3>2, <4>4
    <3>3. CASE i \notin 1..n /\ j \notin 1..n
      <4>1. /\ i - n \in 1..m /\ out'[i] = rows[i - n]
            /\ j - n \in 1..m /\ out'[j] = rows[j - n]
        BY <1>8, <3>3
      <4>2. i - n < j - n
        BY <1>1, <2>1
      <4> QED
        BY <1>3, <4>1, <4>2
    <3> QED
      BY <3>1, <3>2, <3>3
  <2>2. ASSUME NEW i \in (1..(n + m)) \ torn
        PROVE  time[out'[i]] <= next
    <3>1. CASE i \in 1..n /\ out'[i] = out[i]
      <4>1. time[out[i]] <= c /\ out[i] \in Appeared
        BY <1>14, <3>1
      <4>2. time[out[i]] \in Nat
        BY <1>5, <4>1
      <4>3. time[out[i]] <= next
        BY <1>1, <1>2, <4>1, <4>2
      <4> QED
        BY <3>1, <4>3
    <3>2. CASE i - n \in 1..m /\ out'[i] = rows[i - n]
      BY <1>15, <3>2
    <3> QED
      BY <1>8, <3>1, <3>2
  <2>3. (ToSet(out) \union begun \union seen)' \subseteq Appeared'
    <3>1. ToSet(out)' \subseteq Appeared
      BY <1>8, <1>9, <1>14, <1>15
    <3>2. begun' \subseteq Appeared /\ seen' \subseteq Appeared
      BY <1>4, <1>5 DEF PagesInOrder
    <3> QED
      BY <1>6, <3>1, <3>2
  <2>4. torn \subseteq 1..(n + m)
    <3>1. torn \subseteq 1..n /\ 1..n \subseteq 1..(n + m)
      BY <1>1, <1>3 DEF ClientType, n
    <3> QED
      BY <3>1
  <2>5. Intact' = (1..(n + m)) \ torn
    BY <1>4, <1>7 DEF Intact
  <2> QED
    BY <1>4, <1>6, <1>7, <2>1, <2>2, <2>3, <2>4, <2>5 DEF PagesInOrder
<1>17. WrittenSoFar'
  <2>1. ASSUME NEW t \in begun, state[t] = "complete", time[t] <= next PROVE Wrote(t)'
    <3>1. t \in index
      BY <1>5, <2>1 DEF PagesInOrder
    <3>2. CASE time[t] <= c
      BY <1>10, <2>1, <3>2 DEF WrittenSoFar, c
    <3>3. CASE t \in Later(c)
      BY <1>2, <1>11, <2>1, <3>3
    <3> QED
      BY <1>5, <3>1, <3>2, <3>3
  <2>2. ASSUME ~skewed, NEW t \in index, state[t] = "complete", time[t] <= next
        PROVE  Wrote(t)'
    <3>1. CASE time[t] <= c
      BY <1>10, <2>2, <3>1 DEF WrittenSoFar, c
    <3>2. CASE t \in Later(c)
      BY <1>2, <1>11, <2>2, <3>2
    <3> QED
      BY <1>5, <3>1, <3>2
  <2>3. ASSUME next = last
        PROVE  /\ \A t \in begun : state[t] = "complete" => Wrote(t)'
               /\ ~skewed => \A t \in index : state[t] = "complete" => Wrote(t)'
    <3>1. next = c
      BY <1>2, <2>3 DEF c
    <3>2. Later(c) = {}
      BY <1>1, <1>2, <3>1
    <3>3. \A t \in index : time[t] <= next
      BY <1>5, <3>1, <3>2
    <3>4. \A t \in begun : state[t] = "complete" => t \in index
      BY <1>5 DEF PagesInOrder
    <3> QED
      BY <2>1, <2>2, <3>3, <3>4
  <2> QED
    BY <1>4, <1>6, <2>1, <2>2, <2>3 DEF WrittenSoFar
<1> QED
  BY <1>12, <1>13, <1>16, <1>17

(* What a sequence of tasks and another are, one after the other. *)
LEMMA OneAfterTheOther ==
  ASSUME NEW a \in Seq(Tasks), NEW b \in Seq(Tasks)
  PROVE  /\ a \o b \in Seq(Tasks) /\ Len(a \o b) = Len(a) + Len(b)
         /\ \A i \in 1..Len(a) : (a \o b)[i] = a[i]
         /\ \A i \in 1..Len(b) : (a \o b)[Len(a) + i] = b[i]
  OBVIOUS

(* A page that fails as it is written adds only places that do not count.  *)
LEMMA BrokenPageStep ==
  ASSUME RecordsType, ClientType, ExportInv, NEW n \in 1..MaxTorn, NextPageBreaks(n)
  PROVE  ClientType' /\ CursorIsSeen' /\ PagesInOrder' /\ WrittenSoFar'
<1> DEFINE page == PageAfter(client.next)
           rows == Rows(page)
           part == SubSeq(rows, 1, n)
           k == Len(out)
<1> USE DEF ExportInv
<1>1. /\ out \in Seq(Tasks) /\ k \in Nat /\ n \in Nat /\ torn \subseteq 1..k
      /\ client.next \in Nat
  BY DEF ClientType
<1>2. page \subseteq Later(client.next)
  BY <1>1, PageIsNext
<1>3. /\ rows \in Seq(Tasks) /\ Len(rows) \in Nat
      /\ \A i \in 1..Len(rows) : rows[i] \in page
  BY <1>2, RowsInOrder
<1>4. /\ UNCHANGED <<state, time, log, applied, skewed, client, begun, seen>>
      /\ n \in 1..Len(rows)
      /\ out' = out \o part
      /\ torn' = torn \union ((k + 1)..(k + n))
      /\ client.pc = "next" /\ client.next # client.last
  BY DEF NextPageBreaks, server
<1>5. index' = index /\ Appeared' = Appeared
  BY <1>4 DEF index, Appeared, Completed
<1>6. page \subseteq Appeared
  BY <1>2, SeenAppeared DEF Later
<1> HIDE DEF page, rows, k
<1>7. part \in Seq(Tasks) /\ Len(part) = n /\ \A i \in 1..n : part[i] = rows[i]
  BY <1>3, <1>4
<1> HIDE DEF part
<1>8. /\ out' \in Seq(Tasks) /\ Len(out') = k + n
      /\ \A i \in 1..k : out'[i] = out[i]
      /\ \A i \in 1..n : out'[k + i] = part[i]
      /\ \A i \in 1..(k + n) : i \in 1..k \/ (i - k \in 1..n /\ k + (i - k) = i)
  <2>1. out' = out \o part /\ Len(part) = n /\ Len(out) = k
    BY <1>4, <1>7 DEF k
  <2>2. /\ out' \in Seq(Tasks) /\ Len(out') = k + n
        /\ \A i \in 1..k : out'[i] = out[i]
        /\ \A i \in 1..n : out'[k + i] = part[i]
    <3>1. /\ out \o part \in Seq(Tasks) /\ Len(out \o part) = Len(out) + Len(part)
          /\ \A i \in 1..Len(out) : (out \o part)[i] = out[i]
          /\ \A i \in 1..Len(part) : (out \o part)[Len(out) + i] = part[i]
      BY <1>1, <1>7, OneAfterTheOther
    <3> QED
      BY <2>1, <3>1
  <2>3. \A i \in 1..(k + n) : i \in 1..k \/ (i - k \in 1..n /\ k + (i - k) = i)
    BY <1>1
  <2> QED
    BY <2>2, <2>3
<1>9. torn' \subseteq 1..Len(out')
  BY <1>1, <1>4, <1>8
<1>10. Intact' = Intact /\ Intact \subseteq 1..k
  <2>1. (1..(k + n)) \ (torn \union ((k + 1)..(k + n))) = (1..k) \ torn
    BY <1>1
  <2> QED
    BY <1>4, <1>8, <2>1 DEF Intact, k
<1>11. Written' = Written
  BY <1>8, <1>10 DEF Written
<1>12. ToSet(out)' \subseteq Appeared
  <2>1. \A i \in 1..k : out[i] \in Appeared
    <3>1. DOMAIN out = 1..k
      BY <1>1 DEF k
    <3> QED
      BY <3>1 DEF PagesInOrder, ToSet
  <2>2. \A i \in 1..n : part[i] \in Appeared
    BY <1>1, <1>3, <1>4, <1>6, <1>7
  <2>3. \A i \in 1..(k + n) : out'[i] \in Appeared
    BY <1>8, <2>1, <2>2
  <2>4. DOMAIN out' = 1..(k + n)
    BY <1>8
  <2> QED
    BY <2>3, <2>4 DEF ToSet
<1>13. ClientType'
  BY <1>4, <1>8, <1>9 DEF ClientType
<1>14. CursorIsSeen'
  BY <1>4, <1>5 DEF CursorIsSeen
<1>15. PagesInOrder'
  <2>1. \A i \in Intact : out'[i] = out[i]
    BY <1>8, <1>10
  <2>2. (ToSet(out) \union begun \union seen)' \subseteq Appeared'
    BY <1>4, <1>5, <1>12 DEF PagesInOrder
  <2> QED
    BY <1>4, <1>9, <1>10, <2>1, <2>2 DEF PagesInOrder
<1>16. WrittenSoFar'
  BY <1>4, <1>5, <1>11 DEF WrittenSoFar, Wrote
<1> QED
  BY <1>13, <1>14, <1>15, <1>16

LEMMA ExportInvStep ==
  ASSUME RecordsType, UploadsType, ClientType, ExportInv, [ResultsNext]_resultVars
  PROVE  ClientType' /\ ExportInv'
<1>1. LogIsState' /\ TimesDiffer'
  BY LogStep DEF ExportInv
<1>2. ASSUME UNCHANGED export
      PROVE  ClientType' /\ CursorIsSeen' /\ PagesInOrder' /\ WrittenSoFar'
  BY <1>2, ServerStep DEF ClientType, export
<1>3. ASSUME FirstPage \/ NextPage
      PROVE  ClientType' /\ CursorIsSeen' /\ PagesInOrder' /\ WrittenSoFar'
  <2>1. UNCHANGED server
    BY <1>3 DEF FirstPage, NextPage
  <2>2. GetsPage(-1) \/ GetsPage(client.next)
    BY <1>3, PageSteps DEF ExportInv
  <2> QED
    BY <2>1, <2>2, PageStep
<1>4. ASSUME BeginExport \/ FirstPageFails \/ EndExport
      PROVE  ClientType' /\ CursorIsSeen' /\ PagesInOrder' /\ WrittenSoFar'
  <2> USE DEF ExportInv
  <2>1. UNCHANGED <<state, time, log, applied, skewed, out, torn, seen>>
    BY <1>4 DEF BeginExport, FirstPageFails, EndExport, server
  <2>2. /\ index' = index /\ Appeared' = Appeared /\ ToSet(out)' = ToSet(out)
        /\ Intact' = Intact /\ Written' = Written
    BY <2>1 DEF index, Appeared, Completed, ToSet, Intact, Written
  <2>3. \A t : Wrote(t)' <=> Wrote(t)
    BY <2>1, <2>2 DEF Wrote
  <2>4. /\ client'.next = client.next /\ client'.last = client.last
        /\ client' \in [pc : {"idle", "first", "next", "done", "died"},
                         next : 0..NumTasks, last : -1..NumTasks]
        /\ \/ client.pc = "idle" /\ client'.pc = "first" /\ begun' = index
           \/ client'.pc = "died" /\ begun' = begun
           \/ /\ client.pc = "next" /\ client.next = client.last
              /\ client'.pc = "done" /\ begun' = begun
    BY <1>4 DEF BeginExport, FirstPageFails, EndExport, ClientType
  <2>5. /\ index \subseteq Appeared /\ Appeared \subseteq Tasks
        /\ \A t \in Appeared : time[t] > 0
        /\ \A t \in Tasks : time[t] \in Nat
    BY SeenAppeared, LogTypes
  <2>6. ClientType'
    BY <2>1, <2>4, <2>5 DEF ClientType
  <2>7. CursorIsSeen'
    BY <2>1, <2>2, <2>4 DEF CursorIsSeen
  <2>8. PagesInOrder'
    <3>1. (ToSet(out) \union begun \union seen)' \subseteq Appeared'
      BY <2>1, <2>2, <2>4, <2>5 DEF PagesInOrder
    <3> QED
      BY <2>1, <2>2, <2>4, <3>1 DEF PagesInOrder
  <2>9. \A t \in begun' : state[t] = "complete" /\ time[t] <= client.next => Wrote(t)
    <3>1. CASE client.pc = "idle" /\ begun' = index
      <4>1. client.next = 0
        BY <3>1 DEF PagesInOrder
      <4>2. \A t \in index : ~(time[t] <= 0)
        BY <2>5
      <4> QED
        BY <3>1, <4>1, <4>2
    <3>2. CASE begun' = begun
      BY <3>2 DEF WrittenSoFar
    <3> QED
      BY <2>4, <3>1, <3>2
  <2>10. WrittenSoFar'
    BY <2>1, <2>2, <2>3, <2>4, <2>9 DEF WrittenSoFar
  <2> QED
    BY <2>6, <2>7, <2>8, <2>10
<1>5. ASSUME NEW n \in 1..MaxTorn, NextPageBreaks(n)
      PROVE  ClientType' /\ CursorIsSeen' /\ PagesInOrder' /\ WrittenSoFar'
  BY <1>5, BrokenPageStep
<1>6. ClientType' /\ CursorIsSeen' /\ PagesInOrder' /\ WrittenSoFar'
  BY <1>2, <1>3, <1>4, <1>5, ResultsSteps DEF resultVars
<1> QED
  BY <1>1, <1>6 DEF ExportInv

ServerInv == RecordsType /\ UploadsType

(* For any number of tasks, deletions and clocks that disagree: what lies  *)
(* behind the cursor has been written, and the cursor is a time that the   *)
(* query saw.                                                              *)
THEOREM ExportInvariance == ResultsSpec => [](ServerInv /\ ClientType /\ ExportInv)
<1>1. ResultsInit => ServerInv /\ ClientType /\ ExportInv
  <2> SUFFICES ASSUME ResultsInit PROVE ServerInv /\ ClientType /\ ExportInv
    OBVIOUS
  <2>1. ServerInv
    BY ServerInit DEF ServerInv
  <2>2. /\ log = <<>> /\ out = <<>> /\ torn = {} /\ begun = {} /\ seen = {}
        /\ client = Client("idle", 0, 0) /\ \A t \in Tasks : time[t] = 0
    BY DEF ResultsInit
  <2>3. Len(log) = 0 /\ Len(out) = 0 /\ out \in Seq(Tasks) /\ ToSet(out) = {}
    <3>1. Len(<<>>) = 0 /\ <<>> \in Seq(Tasks) /\ DOMAIN <<>> = {}
      OBVIOUS
    <3> QED
      BY <2>2, <3>1 DEF ToSet
  <2>4. client.pc = "idle" /\ client.next = 0 /\ client.last = 0
    BY <2>2 DEF Client
  <2>5. ClientType
    <3>1. 0 \in 0..NumTasks /\ 0 \in -1..NumTasks
      BY ResultsAssumption
    <3> QED
      BY <2>2, <2>3, <3>1 DEF ClientType, Client
  <2>6. Completed = {} /\ \A i \in 1..Len(log) : FALSE
    BY <2>3 DEF Completed
  <2>7. LogIsState /\ TimesDiffer
    BY <2>2, <2>6 DEF LogIsState, TimesDiffer
  <2>8. CursorIsSeen
    BY <2>4 DEF CursorIsSeen
  <2>9. PagesInOrder
    <3>1. \A i \in Intact : FALSE
      BY <2>3 DEF Intact
    <3> QED
      BY <2>2, <2>3, <2>4, <3>1 DEF PagesInOrder
  <2>10. \A t \in index : FALSE
    <3>1. index = SeenIn(log, applied) /\ applied \in 0..Len(log)
      BY <2>1, IndexIs DEF ServerInv, RecordsType
    <3>2. \A i \in 1..applied : FALSE
      BY <2>3, <3>1
    <3> QED
      BY <3>1, <3>2 DEF SeenIn
  <2>11. WrittenSoFar
    BY <2>2, <2>4, <2>10 DEF WrittenSoFar
  <2> QED
    BY <2>1, <2>5, <2>7, <2>8, <2>9, <2>11 DEF ExportInv
<1>2. ServerInv /\ ClientType /\ ExportInv /\ [ResultsNext]_resultVars
        => (ServerInv /\ ClientType /\ ExportInv)'
  BY RecordsTypeStep, UploadsTypeStep, ExportInvStep DEF ServerInv
<1> QED
  BY <1>1, <1>2, PTL DEF ResultsSpec

(* An export that ends has every row that was there when it began and is   *)
(* still there, in order and none twice; and, if no server's clock was     *)
(* behind, every row that its last query could see.                        *)
THEOREM ExportsAreWhole == ResultsSpec => []ExportIsWhole
<1>1. ClientType /\ ExportInv => ExportIsWhole
  BY DEF ClientType, ExportInv, PagesInOrder, WrittenSoFar, ExportIsWhole, Wanted, Wrote
<1> QED
  BY <1>1, ExportInvariance, PTL

(* The types of the variables. *)
THEOREM ResultsTypeCorrect == ResultsSpec => []ResultsTypeOK
<1>1. ServerInv /\ ClientType => ResultsTypeOK
  <2> SUFFICES ASSUME ServerInv, ClientType PROVE ResultsTypeOK
    OBVIOUS
  <2>1. \A i \in 1..Len(log) : log[i] \in CommitType
    BY DEF ServerInv, RecordsType
  <2>2. ToSet(out) \subseteq Tasks
    <3>1. DOMAIN out = 1..Len(out) /\ \A i \in 1..Len(out) : out[i] \in Tasks
      BY DEF ClientType
    <3> QED
      BY <3>1 DEF ToSet
  <2> QED
    BY <2>1, <2>2 DEF ServerInv, ClientType, RecordsType, UploadsType, CommitType, PostType,
                      ResultsTypeOK
<1> QED
  BY <1>1, ExportInvariance, PTL

-----------------------------------------------------------------------------
(* Quota.  What a step of one consumer does to the sum of the quota.       *)

LEMMA TakenIs ==
  /\ \A c \in Consumers :
       TakenBy[c] = held[c] + owed[c] + got[c] + (IF slice[c] = "next" THEN 1 ELSE 0)
  /\ \A c \in Consumers :
       TakenBy'[c] = held'[c] + owed'[c] + got'[c] + (IF slice'[c] = "next" THEN 1 ELSE 0)
BY DEF TakenBy, Taken

QuotaTypes == CountsAreNumbers /\ ConsumersType /\ PutsBackFirst

ConsumerStep(c) == \/ Check(c) \/ TakeHeld(c) \/ TakeBatch(c) \/ TakeFails(c)
                   \/ PutBack(c) \/ NextEntity(c) \/ Dispose(c) \/ Die(c)

(* What is granted is no more than what was asked for. *)
LEMMA GrantedType ==
  ASSUME NEW short \in Int
  PROVE  Granted(short) \in 0..Batch
  BY QuotaAssumption DEF Granted

(* One consumer's new values, if they are what a handler may hold. *)
Sets(c, w, h, o, g) ==
  /\ w \in {"none", "consume", "put", "next", "dispose"}
  /\ h \in 0..Batch /\ o \in 0..Batch /\ g \in 0..Batch
  /\ w = "put" => h = 0
  /\ w # "put" => o = 0 /\ g = 0
  /\ w = "next" => h < Batch
  /\ slice' = [slice EXCEPT ![c] = w] /\ held' = [held EXCEPT ![c] = h]
  /\ owed' = [owed EXCEPT ![c] = o] /\ got' = [got EXCEPT ![c] = g]

Became(c, w, h, o, g) ==
  /\ ConsumersType' /\ PutsBackFirst'
  /\ \A d \in Consumers \ {c} : TakenBy'[d] = TakenBy[d]
  /\ TakenBy'[c] = h + o + g + (IF w = "next" THEN 1 ELSE 0)

LEMMA ConsumerChanges ==
  ASSUME QuotaTypes, NEW c \in Consumers, NEW w, NEW h, NEW o, NEW g, Sets(c, w, h, o, g)
  PROVE  Became(c, w, h, o, g)
<1> USE DEF QuotaTypes, Sets
<1>1. ConsumersType'
  BY DEF ConsumersType
<1>2. /\ slice'[c] = w /\ held'[c] = h /\ owed'[c] = o /\ got'[c] = g
      /\ \A d \in Consumers \ {c} : /\ slice'[d] = slice[d] /\ held'[d] = held[d]
                                    /\ owed'[d] = owed[d] /\ got'[d] = got[d]
  BY DEF ConsumersType
<1>3. PutsBackFirst'
  BY <1>2 DEF PutsBackFirst
<1> QED
  BY <1>1, <1>2, <1>3, TakenIs DEF Became

LEMMA ConsumerKeeps ==
  ASSUME QuotaTypes, NEW c \in Consumers, ConsumerStep(c)
  PROVE  /\ QuotaTypes'
         /\ refilled' = refilled /\ unreliable' >= unreliable
         /\ \A d \in Consumers \ {c} : TakenBy'[d] = TakenBy[d]
         /\ TakenBy[c] \in Int /\ TakenBy'[c] \in Int
         /\ unreliable' = unreliable =>
              bucket' + TakenBy'[c] + served' + lost' = bucket + TakenBy[c] + served + lost
<1> USE DEF QuotaTypes, Became
<1>1. /\ held[c] \in 0..Batch /\ owed[c] \in 0..Batch /\ got[c] \in 0..Batch
      /\ slice[c] \in {"none", "consume", "put", "next", "dispose"}
      /\ slice[c] = "put" => held[c] = 0
      /\ slice[c] # "put" => owed[c] = 0 /\ got[c] = 0
      /\ slice[c] = "next" => held[c] < Batch
      /\ slice = [slice EXCEPT ![c] = slice[c]] /\ held = [held EXCEPT ![c] = held[c]]
      /\ owed = [owed EXCEPT ![c] = owed[c]] /\ got = [got EXCEPT ![c] = got[c]]
  BY DEF ConsumersType, PutsBackFirst
<1>2. /\ bucket \in Int /\ refilled \in Nat /\ served \in Nat /\ lost \in Nat /\ unreliable \in Nat
      /\ Batch \in Nat /\ Batch > 0
  BY QuotaAssumption DEF CountsAreNumbers
<1>3. TakenBy[c] = held[c] + owed[c] + got[c] + (IF slice[c] = "next" THEN 1 ELSE 0)
  BY TakenIs
<1>4. TakenBy[c] \in Int
  BY <1>1, <1>2, <1>3
<1>5. CASE Check(c)
  <2> DEFINE w == IF bucket >= 1 THEN "consume" ELSE "dispose"
  <2>1. /\ slice[c] = "none" /\ slice' = [slice EXCEPT ![c] = w]
        /\ UNCHANGED <<bucket, refilled, held, owed, got, served, lost, unreliable>>
    BY <1>5 DEF Check, Go
  <2>2. w \in {"consume", "dispose"}
    OBVIOUS
  <2> HIDE DEF w
  <2>3. Became(c, w, held[c], 0, 0)
    <3>1. Sets(c, w, held[c], 0, 0)
      BY <1>1, <1>2, <2>1, <2>2 DEF Sets
    <3> QED
      BY <3>1, ConsumerChanges
  <2>4. TakenBy'[c] = TakenBy[c]
    BY <1>1, <1>3, <2>1, <2>2, <2>3
  <2> QED
    BY <1>2, <1>4, <2>1, <2>3, <2>4 DEF CountsAreNumbers
<1>6. CASE TakeHeld(c)
  <2>1. /\ slice[c] = "consume" /\ held[c] >= 1
        /\ held' = [held EXCEPT ![c] = held[c] - 1] /\ slice' = [slice EXCEPT ![c] = "next"]
        /\ UNCHANGED <<bucket, refilled, owed, got, served, lost, unreliable>>
    BY <1>6 DEF TakeHeld, Go
  <2>2. held[c] - 1 \in 0..Batch /\ held[c] - 1 < Batch
    BY <1>1, <1>2, <2>1
  <2>3. Became(c, "next", held[c] - 1, 0, 0)
    <3>1. Sets(c, "next", held[c] - 1, 0, 0)
      BY <1>1, <2>1, <2>2 DEF Sets
    <3> QED
      BY <3>1, ConsumerChanges
  <2>4. TakenBy'[c] = TakenBy[c]
    BY <1>1, <1>3, <2>1, <2>3
  <2> QED
    BY <1>2, <1>4, <2>1, <2>3, <2>4 DEF CountsAreNumbers
<1>7. CASE TakeBatch(c)
  <2> DEFINE granted == Granted(Batch - bucket)
  <2>1. granted \in 0..Batch
    BY <1>2, GrantedType
  <2>2. /\ slice[c] = "consume" /\ held[c] < 1
        /\ bucket' = bucket - Batch
        /\ UNCHANGED <<refilled, served, lost, unreliable>>
        /\ \/ /\ granted = Batch
              /\ held' = [held EXCEPT ![c] = held[c] + Batch]
              /\ UNCHANGED <<slice, owed, got>>
           \/ /\ granted < Batch
              /\ owed' = [owed EXCEPT ![c] = Batch - granted]
              /\ got' = [got EXCEPT ![c] = granted]
              /\ slice' = [slice EXCEPT ![c] = "put"] /\ UNCHANGED held
    BY <1>7 DEF TakeBatch, Go
  <2> HIDE DEF granted
  <2>3. held[c] = 0 /\ owed[c] = 0 /\ got[c] = 0 /\ TakenBy[c] = 0
    BY <1>1, <1>2, <1>3, <2>2
  <2>4. /\ ConsumersType' /\ PutsBackFirst'
        /\ \A d \in Consumers \ {c} : TakenBy'[d] = TakenBy[d]
        /\ TakenBy'[c] = Batch
    <3>1. CASE granted = Batch /\ held' = [held EXCEPT ![c] = held[c] + Batch]
               /\ UNCHANGED <<slice, owed, got>>
      <4>1. held[c] + Batch = Batch /\ Batch \in 0..Batch /\ 0 \in 0..Batch
        BY <1>2, <2>3
      <4>0. held' = [held EXCEPT ![c] = Batch]
        BY <3>1, <4>1
      <4>2. slice' = [slice EXCEPT ![c] = "consume"] /\ owed' = [owed EXCEPT ![c] = 0]
            /\ got' = [got EXCEPT ![c] = 0]
        BY <1>1, <2>2, <2>3, <3>1
      <4>3. Became(c, "consume", Batch, 0, 0)
        <5>1. Sets(c, "consume", Batch, 0, 0)
          BY <4>0, <4>1, <4>2 DEF Sets
        <5> QED
          BY <5>1, ConsumerChanges
      <4> QED
        BY <1>2, <4>3
    <3>2. CASE /\ granted < Batch
               /\ owed' = [owed EXCEPT ![c] = Batch - granted]
               /\ got' = [got EXCEPT ![c] = granted]
               /\ slice' = [slice EXCEPT ![c] = "put"] /\ UNCHANGED held
      <4>1. Batch - granted \in 0..Batch /\ 0 \in 0..Batch
        BY <1>2, <2>1
      <4>2. held' = [held EXCEPT ![c] = 0]
        BY <1>1, <2>3, <3>2
      <4>3. Became(c, "put", 0, Batch - granted, granted)
        <5>1. Sets(c, "put", 0, Batch - granted, granted)
          BY <2>1, <3>2, <4>1, <4>2 DEF Sets
        <5> QED
          BY <5>1, ConsumerChanges
      <4> QED
        BY <1>2, <2>1, <4>3
    <3> QED
      BY <2>2, <3>1, <3>2
  <2>5. bucket' + Batch + served' + lost' = bucket + 0 + served + lost
    BY <1>2, <2>2
  <2> QED
    BY <1>2, <1>4, <2>2, <2>3, <2>4, <2>5 DEF CountsAreNumbers
<1>8. CASE TakeFails(c)
  <2>1. /\ slice[c] = "consume" /\ held[c] < 1 /\ unreliable' = unreliable + 1
        /\ owed' = [owed EXCEPT ![c] = Batch] /\ got' = [got EXCEPT ![c] = 0]
        /\ slice' = [slice EXCEPT ![c] = "put"]
        /\ UNCHANGED <<bucket, refilled, held, served, lost>>
    BY <1>8 DEF TakeFails, Go
  <2>2. held[c] = 0 /\ 0 \in 0..Batch /\ Batch \in 0..Batch
    BY <1>1, <1>2, <2>1
  <2>3. held' = [held EXCEPT ![c] = 0]
    BY <1>1, <2>1, <2>2
  <2>4. Became(c, "put", 0, Batch, 0)
    <3>1. Sets(c, "put", 0, Batch, 0)
      BY <2>1, <2>2, <2>3 DEF Sets
    <3> QED
      BY <3>1, ConsumerChanges
  <2>5. TakenBy'[c] \in Int
    BY <1>2, <2>4
  <2> QED
    BY <1>2, <1>4, <2>1, <2>4, <2>5 DEF CountsAreNumbers
<1>9. CASE PutBack(c)
  <2> DEFINE w == IF got[c] = 0 THEN "dispose" ELSE "consume"
  <2>1. /\ slice[c] = "put" /\ bucket' = bucket + owed[c]
        /\ owed' = [owed EXCEPT ![c] = 0] /\ got' = [got EXCEPT ![c] = 0]
        /\ held' = [held EXCEPT ![c] = held[c] + got[c]]
        /\ slice' = [slice EXCEPT ![c] = w]
        /\ UNCHANGED <<refilled, served, lost, unreliable>>
    BY <1>9 DEF PutBack, Go
  <2>2. w \in {"consume", "dispose"}
    OBVIOUS
  <2> HIDE DEF w
  <2>3. held[c] + got[c] \in 0..Batch /\ 0 \in 0..Batch /\ held[c] = 0
    BY <1>1, <1>2, <2>1
  <2>4. Became(c, w, held[c] + got[c], 0, 0)
    <3>1. Sets(c, w, held[c] + got[c], 0, 0)
      BY <2>1, <2>2, <2>3 DEF Sets
    <3> QED
      BY <3>1, ConsumerChanges
  <2>5. TakenBy'[c] = held[c] + got[c] /\ TakenBy[c] = held[c] + owed[c] + got[c]
    BY <1>1, <1>2, <1>3, <2>1, <2>2, <2>4
  <2>6. owed[c] \in Int /\ got[c] \in Int /\ held[c] \in Int
    BY <1>1, <1>2
  <2>7. bucket' + TakenBy'[c] + served' + lost' = bucket + TakenBy[c] + served + lost
    BY <1>2, <2>1, <2>5, <2>6
  <2>8. bucket' \in Int /\ TakenBy'[c] \in Int
    BY <1>2, <2>1, <2>5, <2>6
  <2> QED
    BY <1>2, <1>4, <2>1, <2>4, <2>7, <2>8 DEF CountsAreNumbers
<1>10. CASE NextEntity(c)
  <2>1. slice[c] = "next" /\ UNCHANGED <<bucket, refilled, owed, got, lost, unreliable>>
    BY <1>10 DEF NextEntity
  <2>2. TakenBy[c] = held[c] + 1
    BY <1>1, <1>2, <1>3, <2>1
  <2>3. CASE unread[c] = 0
    <3>1. /\ held' = [held EXCEPT ![c] = held[c] + 1] /\ slice' = [slice EXCEPT ![c] = "dispose"]
          /\ UNCHANGED served
      BY <1>10, <2>3 DEF NextEntity, Go
    <3>2. held[c] + 1 \in 0..Batch
      BY <1>1, <1>2, <2>1
    <3>3. Became(c, "dispose", held[c] + 1, 0, 0)
      <4>1. Sets(c, "dispose", held[c] + 1, 0, 0)
        BY <1>1, <2>1, <3>1, <3>2 DEF Sets
      <4> QED
        BY <4>1, ConsumerChanges
    <3>4. TakenBy'[c] = TakenBy[c]
      BY <1>1, <1>2, <2>2, <3>3
    <3> QED
      BY <1>2, <1>4, <2>1, <3>1, <3>3, <3>4 DEF CountsAreNumbers
  <2>4. CASE unread[c] # 0
    <3>1. /\ served' = served + 1 /\ UNCHANGED held
          /\ \E w \in {"consume", "dispose"} : slice' = [slice EXCEPT ![c] = w]
      BY <1>10, <2>4 DEF NextEntity, Go
    <3>2. PICK w \in {"consume", "dispose"} : slice' = [slice EXCEPT ![c] = w]
      BY <3>1
    <3>3. Became(c, w, held[c], 0, 0)
      <4>1. Sets(c, w, held[c], 0, 0)
        BY <1>1, <2>1, <3>1, <3>2 DEF Sets
      <4> QED
        BY <4>1, ConsumerChanges
    <3>4. TakenBy'[c] = held[c] /\ held[c] \in Int
      BY <1>1, <1>2, <3>2, <3>3
    <3>5. bucket + held[c] + (served + 1) + lost = bucket + (held[c] + 1) + served + lost
      BY <1>2, <3>4
    <3>6. served' \in Nat
      BY <1>2, <3>1
    <3> QED
      BY <1>2, <1>4, <2>1, <2>2, <3>1, <3>3, <3>4, <3>5, <3>6 DEF CountsAreNumbers
  <2> QED
    BY <2>3, <2>4
<1>11. CASE Dispose(c)
  <2>1. /\ slice[c] = "dispose" /\ bucket' = bucket + held[c]
        /\ held' = [held EXCEPT ![c] = 0] /\ slice' = [slice EXCEPT ![c] = "none"]
        /\ UNCHANGED <<refilled, owed, got, served, lost, unreliable>>
    BY <1>11 DEF Dispose, Go
  <2>2. 0 \in 0..Batch /\ TakenBy[c] = held[c] /\ held[c] \in Int
    BY <1>1, <1>2, <1>3, <2>1
  <2>3. Became(c, "none", 0, 0, 0)
    <3>1. Sets(c, "none", 0, 0, 0)
      BY <1>1, <2>1, <2>2 DEF Sets
    <3> QED
      BY <3>1, ConsumerChanges
  <2>4. TakenBy'[c] = 0
    BY <2>3
  <2>5. (bucket + held[c]) + 0 + served + lost = bucket + held[c] + served + lost
        /\ bucket + held[c] \in Int
    BY <1>2, <2>2
  <2> QED
    BY <1>2, <1>4, <2>1, <2>2, <2>3, <2>4, <2>5 DEF CountsAreNumbers
<1>12. CASE Die(c)
  <2>1. /\ lost' = lost + TakenBy[c]
        /\ held' = [held EXCEPT ![c] = 0] /\ owed' = [owed EXCEPT ![c] = 0]
        /\ got' = [got EXCEPT ![c] = 0] /\ slice' = [slice EXCEPT ![c] = "none"]
        /\ UNCHANGED <<bucket, refilled, served, unreliable>>
    BY <1>12 DEF Die, Go, TakenBy
  <2>2. 0 \in 0..Batch /\ TakenBy[c] \in Nat
    BY <1>1, <1>2, <1>3
  <2>3. Became(c, "none", 0, 0, 0)
    <3>1. Sets(c, "none", 0, 0, 0)
      BY <2>1, <2>2 DEF Sets
    <3> QED
      BY <3>1, ConsumerChanges
  <2>4. TakenBy'[c] = 0
    BY <2>3
  <2>5. bucket + 0 + served + (lost + TakenBy[c]) = bucket + TakenBy[c] + served + lost
        /\ lost + TakenBy[c] \in Nat
    BY <1>2, <2>2
  <2> QED
    BY <1>2, <1>4, <2>1, <2>3, <2>4, <2>5 DEF CountsAreNumbers
<1> QED
  BY <1>5, <1>6, <1>7, <1>8, <1>9, <1>10, <1>11, <1>12 DEF ConsumerStep

LEMMA ConsumersFinite == IsFiniteSet(Consumers)
  BY FS_Interval, QuotaAssumption DEF Consumers

LEMMA TotalIs == \A f : Total(f) = SumOf(f, Consumers)
  BY DEF Total, SumOf

LEMMA TakenIsInt ==
  ASSUME QuotaTypes
  PROVE  \A c \in Consumers : TakenBy[c] \in Int
<1> SUFFICES ASSUME NEW c \in Consumers PROVE TakenBy[c] \in Int
  OBVIOUS
<1>1. held[c] \in Int /\ owed[c] \in Int /\ got[c] \in Int
  BY QuotaAssumption DEF QuotaTypes, ConsumersType
<1> QED
  BY <1>1, TakenIs

(* Quota is neither made nor lost, however many consumers there are,       *)
(* whatever they ask for and whenever they put back.                       *)
THEOREM QuotaInvariance == QuotaSpec => []QuotaInv
<1>1. QuotaInit => QuotaInv
  <2> SUFFICES ASSUME QuotaInit PROVE QuotaInv
    OBVIOUS
  <2>1. CountsAreNumbers
    BY QuotaAssumption DEF QuotaInit, CountsAreNumbers
  <2>2. ConsumersType
    BY QuotaAssumption DEF QuotaInit, ConsumersType
  <2>3. PutsBackFirst
    BY DEF QuotaInit, PutsBackFirst
  <2>4. \A c \in Consumers : TakenBy[c] = 0
    BY TakenIs DEF QuotaInit
  <2>5. Total(TakenBy) = 0
    <3>1. SumOf(TakenBy, Consumers) = 0
      BY <2>4, ConsumersFinite, SumOfZeros
    <3> QED
      BY <3>1, TotalIs
  <2>6. QuotaConserved
    BY <2>5, QuotaAssumption DEF QuotaInit, QuotaConserved
  <2> QED
    BY <2>1, <2>2, <2>3, <2>6 DEF QuotaInv
<1>2. QuotaInv /\ [QuotaNext]_quotaVars => QuotaInv'
  <2> SUFFICES ASSUME QuotaInv, [QuotaNext]_quotaVars PROVE QuotaInv'
    OBVIOUS
  <2>1. QuotaTypes /\ \A c \in Consumers : TakenBy[c] \in Int
    BY TakenIsInt DEF QuotaInv, QuotaTypes
  <2> DEFINE total == SumOf(TakenBy, Consumers)
  <2>2. unreliable = 0 => bucket + total + served + lost = refilled * Refill
    BY TotalIs DEF QuotaInv, QuotaConserved
  <2>3. QuotaConserved' <=>
          (unreliable' = 0 => bucket' + Total(TakenBy') + served' + lost' = refilled' * Refill)
    BY DEF QuotaConserved
  <2>4. total \in Int
    BY <2>1, ConsumersFinite, SumIsInt
  <2>5. /\ bucket \in Int /\ refilled \in Nat /\ served \in Nat /\ lost \in Nat
        /\ unreliable \in Nat /\ Refill \in Nat
    BY <2>1, QuotaAssumption DEF QuotaTypes, CountsAreNumbers
  <2>6. Total(TakenBy') = SumOf(TakenBy', Consumers)
    BY TotalIs
  <2> HIDE DEF total
  <2>7. CASE RefillQuota
    <3>1. /\ bucket' = bucket + Refill /\ refilled' = refilled + 1
          /\ UNCHANGED <<slice, held, owed, got, served, lost, unreliable>>
      BY <2>7 DEF RefillQuota
    <3>2. TakenBy' = TakenBy
      BY <3>1 DEF TakenBy, Taken
    <3>3. Total(TakenBy') = total
      BY <2>6, <3>2 DEF total
    <3>4. (refilled + 1) * Refill = refilled * Refill + Refill /\ refilled * Refill \in Int
      BY <2>5
    <3>5. unreliable' = 0 => bucket' + total + served' + lost' = refilled' * Refill
      BY <2>2, <2>4, <2>5, <3>1, <3>4
    <3>6. QuotaTypes'
      BY <2>1, <2>5, <3>1 DEF QuotaTypes, CountsAreNumbers, ConsumersType, PutsBackFirst
    <3> QED
      BY <2>3, <3>3, <3>5, <3>6 DEF QuotaInv, QuotaTypes
  <2>8. CASE Evict
    <3>1. /\ unreliable' = unreliable + 1 /\ bucket' = 0
          /\ UNCHANGED <<refilled, slice, held, owed, got, served, lost>>
      BY <2>8 DEF Evict
    <3>2. QuotaTypes'
      BY <2>1, <2>5, <3>1 DEF QuotaTypes, CountsAreNumbers, ConsumersType, PutsBackFirst
    <3>3. unreliable' # 0
      BY <2>5, <3>1
    <3> QED
      BY <2>3, <3>2, <3>3 DEF QuotaInv, QuotaTypes
  <2>9. ASSUME NEW c \in Consumers, ConsumerStep(c) PROVE QuotaInv'
    <3>1. /\ QuotaTypes'
          /\ refilled' = refilled /\ unreliable' >= unreliable
          /\ \A d \in Consumers \ {c} : TakenBy'[d] = TakenBy[d]
          /\ TakenBy[c] \in Int /\ TakenBy'[c] \in Int
          /\ unreliable' = unreliable =>
               bucket' + TakenBy'[c] + served' + lost' = bucket + TakenBy[c] + served + lost
      BY <2>1, <2>9, ConsumerKeeps
    <3>0. PICK old \in Int, new \in Int : old = TakenBy[c] /\ new = TakenBy'[c]
      BY <3>1
    <3> DEFINE f == TakenBy
               g == TakenBy'
               sum == SumOf(g, Consumers)
    <3>2. sum = total + (new - old)
      <4>1. \A x \in Consumers : f[x] \in Int
        BY <2>1
      <4>2. g[c] \in Int /\ \A x \in Consumers \ {c} : g[x] = f[x]
        BY <3>1
      <4> HIDE DEF f, g
      <4>3. SumOf(g, Consumers) = SumOf(f, Consumers) + (g[c] - f[c])
        BY <4>1, <4>2, ConsumersFinite, SumChange
      <4> QED
        BY <3>0, <4>3 DEF f, g, total
    <3>3. old \in Int /\ new \in Int
      OBVIOUS
    <3>4. bucket' \in Int /\ served' \in Nat /\ lost' \in Nat /\ unreliable' \in Nat
      BY <3>1 DEF QuotaTypes, CountsAreNumbers
    <3>5. unreliable' = unreliable =>
            bucket' + new + served' + lost' = bucket + old + served + lost
      BY <3>0, <3>1
    <3>6. sum = Total(TakenBy')
      BY <2>6
    <3> HIDE DEF sum
    <3>7. ASSUME unreliable' = 0 PROVE bucket' + sum + served' + lost' = refilled' * Refill
      <4>1. unreliable' = unreliable /\ unreliable = 0 /\ refilled' = refilled
        BY <2>5, <3>1, <3>7
      <4>2. bucket + total + served + lost = refilled * Refill
        BY <2>2, <4>1
      <4>3. bucket' + new + served' + lost' = bucket + old + served + lost
        BY <3>5, <4>1
      <4>4. bucket' + (total + (new - old)) + served' + lost' = bucket + total + served + lost
        <5>1. /\ bucket \in Int /\ served \in Int /\ lost \in Int
              /\ bucket' \in Int /\ served' \in Int /\ lost' \in Int
          BY <2>5, <3>4
        <5>2. PICK b \in Int, s \in Int, l \in Int, b1 \in Int, s1 \in Int, l1 \in Int :
                /\ b = bucket /\ s = served /\ l = lost
                /\ b1 = bucket' /\ s1 = served' /\ l1 = lost'
          BY <5>1
        <5>3. PICK t \in Int : t = total
          BY <2>4
        <5>4. b1 + new + s1 + l1 = b + old + s + l
          BY <4>3, <5>2
        <5>5. b1 + (t + (new - old)) + s1 + l1 = b + t + s + l
          BY <5>4
        <5> QED
          BY <5>2, <5>3, <5>5
      <4> QED
        BY <3>2, <4>1, <4>2, <4>4
    <3> QED
      BY <2>3, <3>1, <3>6, <3>7 DEF QuotaInv, QuotaTypes
  <2>10. CASE UNCHANGED quotaVars
    <3>1. UNCHANGED <<bucket, refilled, slice, held, owed, got, served, lost, unreliable>>
      BY <2>10 DEF quotaVars
    <3>2. TakenBy' = TakenBy
      BY <3>1 DEF TakenBy, Taken
    <3>3. Total(TakenBy') = Total(TakenBy)
      BY <3>2
    <3>4. QuotaConserved'
      BY <2>3, <3>1, <3>3 DEF QuotaInv, QuotaConserved
    <3> QED
      BY <3>1, <3>4 DEF QuotaInv, CountsAreNumbers, ConsumersType, PutsBackFirst
  <2> QED
    BY <2>7, <2>8, <2>9, <2>10 DEF QuotaNext, ConsumerStep
<1> QED
  BY <1>1, <1>2, PTL DEF QuotaSpec

(* The bucket is safe to use from any number of clients: what it was given *)
(* is in it, held, served, or died with a slice.                           *)
THEOREM QuotaIsConserved == QuotaSpec => []QuotaConserved
<1>1. QuotaInv => QuotaConserved
  BY DEF QuotaInv
<1> QED
  BY <1>1, QuotaInvariance, PTL

(* No consumer holds more than a batch, and one has something to put back  *)
(* only while it puts it back.                                             *)
THEOREM QuotaTypeCorrect == QuotaSpec => []QuotaTypeOK
<1>1. QuotaInv => QuotaTypeOK
  BY DEF QuotaInv, CountsAreNumbers, ConsumersType, PutsBackFirst, QuotaTypeOK
<1> QED
  BY <1>1, QuotaInvariance, PTL

-----------------------------------------------------------------------------
(* TaskTimeout.  A unit that has been passed is not looked for again, so   *)
(* that the text is read as far as its units follow each other in order.   *)

Token == Numbers \X Units

LEMMA TextType ==
  ASSUME NEW t \in Texts, t # NoText
  PROVE  /\ t \in Seq(Token) /\ Len(t) \in Nat /\ DOMAIN t = 1..Len(t)
         /\ \A i \in 1..Len(t) : Worth(t)[i] = t[i][1] * SecondsOf(t[i][2]) /\ Worth(t)[i] \in Int
<1>1. PICK n \in 0..MaxTokens : t \in [1..n -> Token]
  <2> DEFINE F(n) == [1..n -> Numbers \X Units]
             All == UNION {F(n) : n \in 0..MaxTokens}
  <2>1. t \in All \union {NoText}
    BY DEF Texts
  <2>2. t # NoText
    OBVIOUS
  <2> HIDE DEF F
  <2>3. PICK n \in 0..MaxTokens : t \in F(n)
    <3> HIDE DEF All
    <3>1. t \in All
      BY <2>1, <2>2
    <3> USE DEF All
    <3>2. PICK S \in {F(n) : n \in 0..MaxTokens} : t \in S
      BY <3>1, Zenon
    <3> QED
      BY <3>2, Zenon
  <2> QED
    BY <2>3 DEF F, Token
<1>2. n \in Nat
  BY TimeoutAssumption
<1>3. t \in Seq(Token) /\ Len(t) = n /\ DOMAIN t = 1..n
  BY <1>1, <1>2
<1>4. ASSUME NEW i \in 1..n
      PROVE  Worth(t)[i] = t[i][1] * SecondsOf(t[i][2]) /\ Worth(t)[i] \in Int
  <2>1. t[i] \in Token
    BY <1>1
  <2>2. t[i][1] \in Int
    <3>1. \A x \in Token : x[1] \in Numbers
      BY DEF Token
    <3>2. t[i][1] \in Numbers /\ Numbers \subseteq Nat
      BY <2>1, <3>1, TimeoutAssumption
    <3>3. t[i][1] \in Nat
      BY <3>2
    <3> QED
      BY <3>3
  <2>3. SecondsOf(t[i][2]) \in Int
    BY DEF SecondsOf
  <2>4. Worth(t)[i] = t[i][1] * SecondsOf(t[i][2])
    BY <1>3 DEF Worth
  <2> QED
    BY <2>2, <2>3, <2>4
<1> QED
  BY <1>2, <1>3, <1>4

LEMMA SumToIs == \A t, n : SumTo(t, n) = SumOf(Worth(t), 1..n)
  BY DEF SumTo, SumOf

LEMMA SumToNext ==
  ASSUME NEW t \in Texts, t # NoText, NEW k \in 0..Len(t)
  PROVE  /\ SumTo(t, k) \in Int
         /\ k = 0 => SumTo(t, k) = 0
         /\ k < Len(t) => SumTo(t, k + 1) = SumTo(t, k) + Worth(t)[k + 1]
<1>1. Len(t) \in Nat /\ \A i \in 1..Len(t) : Worth(t)[i] \in Int
  BY TextType
<1>2. \A i \in 1..k : Worth(t)[i] \in Int
  BY <1>1
<1>3. k \in Nat /\ IsFiniteSet(1..k) /\ IsFiniteSet(1..(k + 1))
  BY <1>1, FS_Interval
<1>4. SumTo(t, k) \in Int
  BY <1>2, <1>3, SumIsInt, SumToIs
<1>5. ASSUME k = 0 PROVE SumTo(t, k) = 0
  <2>1. 1..k = {}
    BY <1>5
  <2> QED
    BY <2>1, SumToIs, SumEmpty
<1>6. ASSUME k < Len(t) PROVE SumTo(t, k + 1) = SumTo(t, k) + Worth(t)[k + 1]
  <2> DEFINE f == Worth(t)
  <2>1. \A i \in 1..(k + 1) : f[i] \in Int
    BY <1>1, <1>3, <1>6
  <2>2. k + 1 \in 1..(k + 1) /\ (1..(k + 1)) \ {k + 1} = 1..k
    BY <1>3
  <2> HIDE DEF f
  <2>3. SumOf(f, 1..(k + 1)) = f[k + 1] + SumOf(f, (1..(k + 1)) \ {k + 1})
    BY <1>3, <2>1, <2>2, SumAdds
  <2>4. SumOf(f, (1..(k + 1)) \ {k + 1}) = SumOf(f, 1..k)
    BY <2>2
  <2>5. f[k + 1] \in Int /\ SumOf(f, 1..k) \in Int
    BY <1>4, <2>1, <2>2, SumToIs DEF f
  <2>6. SumOf(f, 1..(k + 1)) = SumOf(f, 1..k) + f[k + 1]
    BY <2>3, <2>4, <2>5
  <2> QED
    BY <2>6, SumToIs DEF f
<1> QED
  BY <1>4, <1>5, <1>6

(* After the units up to rank r, the k first numbers of the text have been *)
(* read, and u is what is left.                                            *)
Stage(t, u, k, r) ==
  /\ k \in 0..Len(t)
  /\ u \in Seq(Token) /\ Len(u) = Len(t) - k
  /\ \A i \in 1..Len(u) : u[i] = t[k + i]
  /\ WellFormed(t, k) /\ \A i \in 1..k : Rank(t[i][2]) <= r
  /\ k < Len(t) => \/ Rank(t[k + 1][2]) > r
                   \/ k > 0 /\ Rank(t[k + 1][2]) <= Rank(t[k][2])

LEMMA RankType == \A unit : Rank(unit) \in 1..4
  BY DEF Rank

LEMMA AfterUnit ==
  ASSUME NEW t \in Texts, t # NoText, NEW u, NEW k, NEW r \in 0..2, Stage(t, u, k, r),
         NEW unit, unit \in {"hr", "m", "s"}, Rank(unit) = r + 1
  PROVE  \E j : /\ Stage(t, After(u, unit), j, r + 1)
                /\ Amount(u, unit) \in Int
                /\ SumTo(t, j) = SumTo(t, k) + Amount(u, unit)
<1>1. /\ Len(t) \in Nat /\ k \in 0..Len(t) /\ k \in Nat
      /\ u \in Seq(Token) /\ Len(u) \in Nat /\ Len(u) = Len(t) - k
      /\ \A i \in 1..Len(u) : u[i] = t[k + i]
      /\ WellFormed(t, k) /\ \A i \in 1..k : Rank(t[i][2]) <= r
      /\ k < Len(t) => \/ Rank(t[k + 1][2]) > r
                       \/ k > 0 /\ Rank(t[k + 1][2]) <= Rank(t[k][2])
  <2>1. Len(t) \in Nat
    BY TextType
  <2>2. u \in Seq(Token) /\ Len(u) \in Nat
    BY DEF Stage
  <2>3. k \in 0..Len(t) /\ k \in Nat
    BY <2>1 DEF Stage
  <2> QED
    BY <2>1, <2>2, <2>3 DEF Stage
<1>2. \A x : Rank(x) = r + 1 <=> x = unit
  BY DEF Rank
<1>3. \A x : Rank(x) \in 1..4
  BY RankType
<1>4. CASE Takes(u, unit)
  <2>1. u # <<>> /\ u[1][2] = unit
    BY <1>4 DEF Takes
  <2>2. Len(u) > 0
    BY <1>1, <2>1
  <2>3. k < Len(t) /\ u[1] = t[k + 1] /\ k + 1 \in 1..Len(t) /\ k + 1 \in 0..Len(t)
    BY <1>1, <2>2
  <2>4. After(u, unit) = Tail(u)
    BY <1>4 DEF After
  <2>5. /\ Tail(u) \in Seq(Token) /\ Len(Tail(u)) = Len(u) - 1
        /\ \A i \in 1..Len(Tail(u)) : Tail(u)[i] = u[i + 1]
    BY <1>1, <2>1
  <2>6. Len(Tail(u)) = Len(t) - (k + 1) /\ \A i \in 1..Len(Tail(u)) : Tail(u)[i] = t[(k + 1) + i]
    <3>1. Len(Tail(u)) = Len(t) - (k + 1)
      BY <1>1, <2>5
    <3>2. ASSUME NEW i \in 1..Len(Tail(u)) PROVE Tail(u)[i] = t[(k + 1) + i]
      <4>1. i + 1 \in 1..Len(u) /\ k + (i + 1) = (k + 1) + i
        BY <1>1, <2>5
      <4> QED
        BY <1>1, <2>5, <4>1
    <3> QED
      BY <3>1, <3>2
  <2>7. Rank(t[k + 1][2]) = r + 1
    BY <1>2, <2>1, <2>3
  <2>8. \A i \in 1..(k + 1) : i \in 1..k \/ i = k + 1
    BY <1>1
  <2>9. WellFormed(t, k + 1) /\ \A i \in 1..(k + 1) : Rank(t[i][2]) <= r + 1
    <3>1. ASSUME NEW x, Rank(x) <= r PROVE Rank(x) < r + 1 /\ Rank(x) <= r + 1
      <4>1. PICK n \in 1..4 : n = Rank(x)
        BY <1>3
      <4> QED
        BY <3>1, <4>1
    <3>2. \A i \in 1..k : Rank(t[i][2]) < r + 1 /\ Rank(t[i][2]) <= r + 1
      BY <1>1, <3>1
    <3>3. (k + 1) - 1 = k /\ r + 1 < 4 /\ r + 1 <= r + 1
      BY <1>1
    <3>4. \A i \in 1..(k + 1) : Rank(t[i][2]) <= r + 1
      BY <2>7, <2>8, <3>2, <3>3
    <3>5. ASSUME NEW i \in 1..(k + 1)
          PROVE  Rank(t[i][2]) < 4 /\ \A j \in 1..(i - 1) : Rank(t[j][2]) < Rank(t[i][2])
      <4>1. CASE i \in 1..k
        BY <1>1, <4>1 DEF WellFormed
      <4>2. CASE i = k + 1
        <5>1. i - 1 = k
          BY <3>3, <4>2
        <5>2. Rank(t[i][2]) = r + 1
          BY <2>7, <4>2
        <5> QED
          BY <3>2, <3>3, <5>1, <5>2
      <4> QED
        BY <2>8, <4>1, <4>2
    <3> QED
      BY <3>4, <3>5 DEF WellFormed
  <2>10. k + 1 > 0 /\ \A x : Rank(x) > r + 1 \/ Rank(x) <= Rank(t[k + 1][2])
    BY <1>1, <1>3, <2>7
  <2>11. Stage(t, After(u, unit), k + 1, r + 1)
    BY <2>3, <2>4, <2>5, <2>6, <2>9, <2>10 DEF Stage
  <2>12. Amount(u, unit) = Worth(t)[k + 1] /\ Worth(t)[k + 1] \in Int
    <3>1. Amount(u, unit) = u[1][1] * SecondsOf(unit)
      BY <1>4 DEF Amount
    <3>2. Worth(t)[k + 1] = t[k + 1][1] * SecondsOf(t[k + 1][2]) /\ Worth(t)[k + 1] \in Int
      BY <2>3, TextType
    <3>3. t[k + 1][1] = u[1][1] /\ t[k + 1][2] = unit
      BY <2>1, <2>3
    <3> QED
      BY <3>1, <3>2, <3>3
  <2>13. SumTo(t, k + 1) = SumTo(t, k) + Worth(t)[k + 1]
    BY <1>1, <2>3, SumToNext
  <2> QED
    BY <2>11, <2>12, <2>13
<1>5. CASE ~Takes(u, unit)
  <2>1. After(u, unit) = u /\ Amount(u, unit) = 0
    BY <1>5 DEF After, Amount
  <2>2. k < Len(t) => t[k + 1][2] # unit
    <3> SUFFICES ASSUME k < Len(t) PROVE t[k + 1][2] # unit
      OBVIOUS
    <3>1. Len(u) > 0 /\ 1 \in 1..Len(u)
      BY <1>1
    <3>2. u # <<>> /\ u[1] = t[k + 1]
      BY <1>1, <3>1
    <3> QED
      BY <1>5, <3>2 DEF Takes
  <2>3. \A i \in 1..k : Rank(t[i][2]) <= r + 1
    BY SMTT(30), <1>1, <1>3
  <2>4. k < Len(t) => \/ Rank(t[k + 1][2]) > r + 1
                      \/ k > 0 /\ Rank(t[k + 1][2]) <= Rank(t[k][2])
    <3> SUFFICES ASSUME k < Len(t), Rank(t[k + 1][2]) > r PROVE Rank(t[k + 1][2]) > r + 1
      BY <1>1
    <3>1. Rank(t[k + 1][2]) # r + 1 /\ Rank(t[k + 1][2]) \in 1..4
      BY <1>2, <1>3, <2>2
    <3> QED
      BY <3>1
  <2>5. Stage(t, After(u, unit), k, r + 1)
    BY <1>1, <2>1, <2>3, <2>4 DEF Stage
  <2>6. SumTo(t, k) \in Int
    BY <1>1, SumToNext
  <2>7. SumTo(t, k) = SumTo(t, k) + Amount(u, unit)
    BY <2>1, <2>6
  <2> QED
    BY <2>1, <2>5, <2>7
<1> QED
  BY <1>4, <1>5

(* What ParseTimeDelta makes of a text. *)
LEMMA TextParsed ==
  ASSUME NEW t \in Texts, t # NoText
  PROVE  \E n \in 0..Len(t) : /\ WellFormed(t, n) /\ (n < Len(t) => ~WellFormed(t, n + 1))
                              /\ ParseTimeDelta(t) = SumTo(t, n) /\ SumTo(t, n) \in Int
<1> DEFINE u == After(t, "hr")
           v == After(u, "m")
           w == After(v, "s")
<1>1. t \in Seq(Token) /\ Len(t) \in Nat
  BY TextType
<1>2. Rank("hr") = 1 /\ Rank("m") = 2 /\ Rank("s") = 3
  BY DEF Rank
<1>3. Stage(t, t, 0, 0)
  <2>1. \A i \in 1..0 : FALSE
    OBVIOUS
  <2>2. WellFormed(t, 0) /\ \A i \in 1..0 : Rank(t[i][2]) <= 0
    BY <2>1 DEF WellFormed
  <2>3. \A i \in 1..Len(t) : t[i] = t[0 + i]
    BY <1>1
  <2>4. Len(t) = Len(t) - 0 /\ 0 \in 0..Len(t)
    BY <1>1
  <2>5. \A x : Rank(x) > 0
    BY RankType
  <2> QED
    BY <1>1, <2>2, <2>3, <2>4, <2>5 DEF Stage
<1>4. PICK i : /\ Stage(t, u, i, 1) /\ Amount(t, "hr") \in Int
               /\ SumTo(t, i) = SumTo(t, 0) + Amount(t, "hr")
  BY <1>2, <1>3, AfterUnit
<1>5. PICK j : /\ Stage(t, v, j, 2) /\ Amount(u, "m") \in Int
               /\ SumTo(t, j) = SumTo(t, i) + Amount(u, "m")
  BY <1>2, <1>4, AfterUnit
<1>6. PICK n : /\ Stage(t, w, n, 3) /\ Amount(v, "s") \in Int
               /\ SumTo(t, n) = SumTo(t, j) + Amount(v, "s")
  BY <1>2, <1>5, AfterUnit
<1>7. /\ n \in 0..Len(t) /\ n \in Nat /\ WellFormed(t, n)
      /\ n < Len(t) => \/ Rank(t[n + 1][2]) > 3
                       \/ n > 0 /\ Rank(t[n + 1][2]) <= Rank(t[n][2])
  BY <1>1, <1>6 DEF Stage
<1>8. ASSUME n < Len(t), WellFormed(t, n + 1) PROVE FALSE
  <2>1. n + 1 \in 1..(n + 1) /\ (n > 0 => n \in 1..((n + 1) - 1))
    BY <1>7
  <2>2. Rank(t[n + 1][2]) < 4 /\ (n > 0 => Rank(t[n][2]) < Rank(t[n + 1][2]))
    BY <1>8, <2>1 DEF WellFormed
  <2>3. Rank(t[n + 1][2]) \in 1..4 /\ Rank(t[n][2]) \in 1..4
    BY RankType
  <2> QED
    BY <1>7, <1>8, <2>2, <2>3
<1>9. ParseTimeDelta(t) = Amount(t, "hr") + Amount(u, "m") + Amount(v, "s")
  BY DEF ParseTimeDelta
<1> HIDE DEF u, v, w
<1>10. SumTo(t, 0) = 0
  BY <1>1, SumToNext
<1>11. PICK a \in Int, b \in Int, c \in Int :
         a = Amount(t, "hr") /\ b = Amount(u, "m") /\ c = Amount(v, "s")
  BY <1>4, <1>5, <1>6
<1>12. SumTo(t, n) = ((0 + a) + b) + c
  BY <1>4, <1>5, <1>6, <1>10, <1>11
<1>13. ParseTimeDelta(t) = SumTo(t, n) /\ SumTo(t, n) \in Int
  BY <1>9, <1>11, <1>12
<1> QED
  BY <1>7, <1>8, <1>13

(* A group of the expression takes a natural number of seconds. *)
LEMMA AmountIs ==
  ASSUME NEW t \in Seq(Token), NEW unit
  PROVE  After(t, unit) \in Seq(Token) /\ Amount(t, unit) \in Nat
<1>1. CASE Takes(t, unit)
  <2>1. t # <<>> /\ t[1] \in Token /\ Tail(t) \in Seq(Token)
    <3>1. t # <<>>
      BY <1>1 DEF Takes
    <3>2. Len(t) \in Nat /\ Len(t) # 0
      BY <3>1, EmptySeq, LenProperties
    <3>3. t[1] \in Token
      BY <3>2, ElementOfSeq
    <3> QED
      BY <3>1, <3>3, HeadTailProperties
  <2>2. t[1][1] \in Nat
    <3>1. \A x \in Token : x[1] \in Numbers
      BY DEF Token
    <3> QED
      BY <2>1, <3>1, TimeoutAssumption
  <2>3. SecondsOf(unit) \in Nat
    BY DEF SecondsOf
  <2>4. t[1][1] * SecondsOf(unit) \in Nat
    BY <2>2, <2>3
  <2> QED
    BY <1>1, <2>1, <2>4 DEF After, Amount
<1>2. CASE ~Takes(t, unit)
  BY <1>2 DEF After, Amount
<1> QED
  BY <1>1, <1>2

(* What is scheduled is computed of the text, and so is what is allowed.   *)
THEOREM TimeoutInvariance == TimeoutSpec => []TimeoutInv
<1>1. TimeoutInit => TimeoutInv
  BY DEF TimeoutInit, TimeoutInv
<1>2. TimeoutInv /\ [TimeoutNext]_timeoutVars => TimeoutInv'
  BY DEF TimeoutInv, TimeoutNext, ScheduleTimeout, Execute, timeoutVars
<1> QED
  BY <1>1, <1>2, PTL DEF TimeoutSpec

(* Neither the server nor the worker counts a time that is not a natural   *)
(* number of seconds.                                                      *)
THEOREM TimeoutTypeCorrect == TimeoutSpec => []TimeoutTypeOK
<1>1. ASSUME NEW t \in Texts, t # NoText PROVE ParseTimeDelta(t) \in Nat
  <2>1. t \in Seq(Token)
    BY <1>1, TextType
  <2> DEFINE u == After(t, "hr")
             v == After(u, "m")
  <2>2. u \in Seq(Token) /\ Amount(t, "hr") \in Nat
    BY <2>1, AmountIs
  <2>3. v \in Seq(Token) /\ Amount(u, "m") \in Nat
    BY <2>2, AmountIs
  <2>4. Amount(v, "s") \in Nat
    BY <2>3, AmountIs
  <2> QED
    BY <2>2, <2>3, <2>4 DEF ParseTimeDelta
<1>2. TimeoutInv => TimeoutTypeOK
  <2> SUFFICES ASSUME TimeoutInv PROVE TimeoutTypeOK
    OBVIOUS
  <2>1. /\ text \in Texts /\ deadline \in {-1, GetTaskTimeout(text)}
        /\ \/ allowed = -1
           \/ allowed = IF text = NoText THEN 12 * 60 ELSE ParseTimeDelta(text)
    BY DEF TimeoutInv
  <2>2. GetTaskTimeout(text) \in Nat
    BY <1>1, <2>1 DEF GetTaskTimeout
  <2>3. (IF text = NoText THEN 12 * 60 ELSE ParseTimeDelta(text)) \in Nat
    BY <1>1, <2>1
  <2> QED
    BY <2>1, <2>2, <2>3 DEF TimeoutTypeOK
<1> QED
  BY <1>2, TimeoutInvariance, PTL

(* Whatever the text of a task's timeout, of any length: the command has   *)
(* the hours, minutes and seconds that the text begins with, and the       *)
(* server waits three minutes longer.                                      *)
THEOREM AttemptsHaveTheirTime == TimeoutSpec => []AttemptHasItsTime
<1>1. TimeoutInv => AttemptHasItsTime
  <2> SUFFICES ASSUME TimeoutInv, allowed # -1 PROVE AttemptHasItsTime
    BY DEF AttemptHasItsTime
  <2>1. /\ text \in Texts /\ deadline = GetTaskTimeout(text)
        /\ allowed = IF text = NoText THEN 12 * 60 ELSE ParseTimeDelta(text)
    BY DEF TimeoutInv
  <2>2. CASE text = NoText
    BY <2>1, <2>2 DEF GetTaskTimeout, AttemptHasItsTime
  <2>3. CASE text # NoText
    <3>1. PICK n \in 0..Len(text) :
            /\ WellFormed(text, n) /\ (n < Len(text) => ~WellFormed(text, n + 1))
            /\ ParseTimeDelta(text) = SumTo(text, n) /\ SumTo(text, n) \in Int
      BY <2>1, <2>3, TextParsed
    <3>2. allowed = SumTo(text, n) /\ allowed \in Int
      BY <2>1, <2>3, <3>1
    <3>3. CASE text = <<>>
      <4>1. ParseTimeDelta(text) = 0
        BY <3>3 DEF ParseTimeDelta, Amount, After, Takes
      <4>2. deadline = 15 * 60 /\ allowed = 0
        BY <2>1, <2>3, <3>3, <4>1 DEF GetTaskTimeout
      <4>3. deadline >= allowed + 3 * 60
        BY <4>2
      <4> QED
        BY <2>3, <3>1, <3>2, <4>3 DEF AttemptHasItsTime
    <3>4. CASE text # <<>>
      <4>1. deadline = allowed + 3 * 60
        BY <2>1, <2>3, <3>4 DEF GetTaskTimeout
      <4>2. deadline >= allowed + 3 * 60
        BY <3>2, <4>1
      <4> QED
        BY <2>3, <3>1, <3>2, <4>2 DEF AttemptHasItsTime
    <3> QED
      BY <3>3, <3>4
  <2> QED
    BY <2>2, <2>3
<1> QED
  BY <1>1, TimeoutInvariance, PTL

-----------------------------------------------------------------------------
(* BlobReaders.  AllTexts and their lines.                                    *)

IsText(t) == t \in [size : Nat, breaks : SUBSET Nat] /\ t.breaks \subseteq 0..t.size - 1

(* The end of a line: the lines after it are those after the place asked   *)
(* for, and to look from the byte before it gives it again.                *)
LEMMA LineEndIs ==
  ASSUME NEW t, IsText(t), NEW place \in Nat
  PROVE  /\ LineEnd(t, place) \in Nat /\ LineEnd(t, place) >= place
         /\ \A p \in LinesOf(t) : p > place <=> p >= LineEnd(t, place)
         /\ LineEnd(t, place) < t.size => LineEnd(t, place) \in LinesOf(t)
         /\ place < t.size => /\ LineEnd(t, place) > place
                              /\ LineEnd(t, LineEnd(t, place) - 1) = LineEnd(t, place)
<1> DEFINE ahead(x) == {b \in t.breaks : b >= x}
<1> DEFINE least(x) == CHOOSE b \in ahead(x) : \A c \in ahead(x) : b <= c
<1>1. t.size \in Nat /\ t.breaks \subseteq Nat /\ \A b \in t.breaks : b < t.size
  BY DEF IsText
<1>2. ASSUME NEW x \in Nat, ahead(x) # {}
      PROVE  /\ least(x) \in t.breaks /\ least(x) >= x
             /\ \A c \in t.breaks : c >= x => least(x) <= c
  <2>1. ahead(x) \in SUBSET Nat
    BY <1>1
  <2>2. \E b \in ahead(x) : \A c \in ahead(x) : b <= c
    <3> HIDE DEF ahead
    <3> QED
      BY <1>2, <2>1, LeastOf
  <2>3. least(x) \in ahead(x) /\ \A c \in ahead(x) : least(x) <= c
    BY <2>2
  <2> HIDE DEF least
  <2> QED
    BY <2>3
<1>3. \A x : LineEnd(t, x) = IF ahead(x) # {} THEN 1 + least(x)
                             ELSE IF x > t.size THEN x ELSE t.size
  BY DEF LineEnd
<1>4. \A p : p \in LinesOf(t) <=> p \in Nat /\ p < t.size /\ (p = 0 \/ p - 1 \in t.breaks)
  BY <1>1 DEF LinesOf
<1> HIDE DEF least
<1>5. CASE ahead(place) # {}
  <2> DEFINE b == least(place)
  <2>1. /\ b \in t.breaks /\ b \in Nat /\ b >= place /\ LineEnd(t, place) = b + 1
        /\ \A c \in t.breaks : c >= place => b <= c
    BY <1>1, <1>2, <1>3, <1>5
  <2> HIDE DEF b
  <2>2. ASSUME NEW p \in LinesOf(t) PROVE p > place <=> p >= b + 1
    BY <2>1, <2>2, <1>1, <1>4
  <2>3. LineEnd(t, b) = b + 1
    <3>1. ahead(b) # {}
      BY <2>1
    <3>2. /\ least(b) \in t.breaks /\ least(b) >= b
          /\ \A c \in t.breaks : c >= b => least(b) <= c
      BY <3>1, <1>2, <2>1
    <3>3. least(b) = b
      BY <3>2, <2>1, <1>1
    <3> QED
      BY <3>1, <3>3, <1>3, <2>1
  <2>4. b + 1 < t.size => b + 1 \in LinesOf(t)
    BY <2>1, <1>4
  <2>5. b + 1 - 1 = b
    BY <2>1
  <2> QED
    BY <2>1, <2>2, <2>3, <2>4, <2>5
<1>6. CASE ahead(place) = {}
  <2>1. LineEnd(t, place) = IF place > t.size THEN place ELSE t.size
    BY <1>3, <1>6
  <2>2. \A c \in t.breaks : c < place
    BY <1>1, <1>6
  <2>3. ASSUME place < t.size PROVE LineEnd(t, t.size - 1) = t.size
    <3>1. ahead(t.size - 1) = {}
      BY <1>1, <2>2, <2>3
    <3> QED
      BY <3>1, <1>1, <1>3
  <2>4. \A p \in LinesOf(t) : p <= place
    BY <1>1, <1>4, <2>2
  <2> QED
    BY <1>1, <1>4, <2>1, <2>3, <2>4
<1> QED
  BY <1>5, <1>6

(* A sequence of places that begins at 0 and never goes back cuts what is  *)
(* before its last place into parts.                                       *)
LEMMA CutIntoParts ==
  ASSUME NEW m \in Nat, NEW a \in [1..m + 1 -> Nat], a[1] = 0, NEW f \in Nat,
         f > 0, f <= a[m + 1]
  PROVE  \E i \in 1..m : a[i] < f /\ f <= a[i + 1]
<1> DEFINE S == {i \in 1..m + 1 : f <= a[i]}
<1>1. S \in SUBSET Nat /\ S # {}
  <2>1. m + 1 \in 1..m + 1
    OBVIOUS
  <2> QED
    BY <2>1
<1>2. \E b \in S : \A c \in S : b <= c
  <2> HIDE DEF S
  <2> QED
    BY <1>1, LeastOf
<1>3. PICK b \in S : \A c \in S : b <= c
  BY <1>2
<1>4. b # 1
  BY <1>3
<1>5. b - 1 \in 1..m /\ b - 1 \in 1..m + 1 /\ (b - 1) + 1 = b
  BY <1>3, <1>4
<1>6. b - 1 \notin S
  BY <1>3, <1>5
<1>7. a[b - 1] < f /\ f <= a[(b - 1) + 1]
  BY <1>3, <1>5, <1>6
<1> QED
  BY <1>5, <1>7

-----------------------------------------------------------------------------
(* FlattenSeq.                                                             *)

(* The members of a flattened sequence are those of its sequences, each in *)
(* one place.                                                              *)
Placed(ss, n, s, place) ==
  /\ place \in [1..Len(s) -> Nat \X Nat]
  /\ \A p \in 1..Len(s) : /\ place[p][1] \in 1..n /\ place[p][2] \in DOMAIN ss[place[p][1]]
                          /\ s[p] = ss[place[p][1]][place[p][2]]
  /\ \A b \in 1..n : \A i \in DOMAIN ss[b] : \E p \in 1..Len(s) : place[p] = <<b, i>>
  /\ \A p, q \in 1..Len(s) : place[p] = place[q] => p = q

LEMMA FlatPlaces ==
  ASSUME NEW S, NEW ss \in Seq(Seq(S))
  PROVE  FlattenSeq(ss) \in Seq(S) /\ \E place : Placed(ss, Len(ss), FlattenSeq(ss), place)
<1> DEFINE n == Len(ss)
<1>1. n \in Nat /\ \A b \in 1..n : ss[b] \in Seq(S)
  OBVIOUS
<1>2. CASE n = 0
  <2>1. FlattenSeq(ss) = ss /\ ss = <<>>
    BY <1>2, FlatIsChosen
  <2>2. Placed(ss, n, <<>>, [p \in 1..0 |-> <<1, 1>>])
    BY <1>2 DEF Placed
  <2> QED
    BY <2>1, <2>2
<1>3. CASE n # 0
  <2> DEFINE g == CHOOSE h : IsFlat(ss, n, h)
  <2>1. IsFlat(ss, n, g)
    BY <1>1, FlatExists
  <2>2. FlattenSeq(ss) = g[n]
    BY <1>3, FlatIsChosen
  <2> HIDE DEF g, n
  <2>3. \A i \in 1..n : g[i] = IF i = 1 THEN ss[i] ELSE g[i - 1] \o ss[i]
    BY <2>1 DEF IsFlat, Joined
  <2> DEFINE Good(i) == g[i] \in Seq(S) /\ \E place : Placed(ss, i, g[i], place)
  <2> DEFINE T == {i \in 0..n : i # 0 => Good(i)}
  <2>4. 0 \in T
    BY <1>1
  <2>5. ASSUME NEW i \in Nat, i < n, i \in T PROVE i + 1 \in T
    <3>1. i + 1 \in 1..n /\ ss[i + 1] \in Seq(S)
      BY <1>1, <2>5
    <3> DEFINE t == ss[i + 1]
    <3>2. CASE i = 0
      <4>1. g[1] = ss[1] /\ ss[1] \in Seq(S)
        BY <1>1, <1>3, <2>3
      <4> DEFINE place == [p \in 1..Len(ss[1]) |-> <<1, p>>]
      <4>2. DOMAIN ss[1] = 1..Len(ss[1])
        BY <4>1
      <4>3. \A p \in 1..Len(ss[1]) : place[p] = <<1, p>> /\ place[p][1] = 1 /\ place[p][2] = p
        OBVIOUS
      <4>4. place \in [1..Len(ss[1]) -> Nat \X Nat]
        OBVIOUS
      <4> HIDE DEF place
      <4>5. \A b \in 1..1 : b = 1
        OBVIOUS
      <4>6. Placed(ss, 1, ss[1], place)
        <5>1. \A p \in 1..Len(ss[1]) :
                /\ place[p][1] \in 1..1 /\ place[p][2] \in DOMAIN ss[place[p][1]]
                /\ ss[1][p] = ss[place[p][1]][place[p][2]]
          BY <4>2, <4>3
        <5>2. \A b \in 1..1 : \A j \in DOMAIN ss[b] :
                \E p \in 1..Len(ss[1]) : place[p] = <<b, j>>
          BY <4>2, <4>3, <4>5
        <5>3. \A p, q \in 1..Len(ss[1]) : place[p] = place[q] => p = q
          BY <4>3
        <5> QED
          BY <4>4, <5>1, <5>2, <5>3 DEF Placed
      <4> QED
        BY <4>1, <4>6, <3>1, <3>2
    <3>3. CASE i # 0
      <4>1. PICK place : g[i] \in Seq(S) /\ Placed(ss, i, g[i], place)
        BY <2>5, <3>3
      <4> DEFINE s == g[i]
      <4> DEFINE more == [p \in 1..Len(s) + Len(t) |->
                            IF p <= Len(s) THEN place[p] ELSE <<i + 1, p - Len(s)>>]
      <4>2. g[i + 1] = s \o t
        <5>1. i + 1 # 1 /\ (i + 1) - 1 = i
          BY <2>5, <3>3
        <5> QED
          BY <2>3, <3>1, <5>1
      <4>3. s \in Seq(S) /\ t \in Seq(S)
        BY <4>1, <3>1
      <4> HIDE DEF s, t
      <4>4. /\ s \o t \in Seq(S) /\ Len(s \o t) = Len(s) + Len(t)
            /\ \A p \in 1..Len(s) + Len(t) :
                 (s \o t)[p] = IF p <= Len(s) THEN s[p] ELSE t[p - Len(s)]
            /\ Len(s) \in Nat /\ Len(t) \in Nat /\ DOMAIN t = 1..Len(t)
        BY <4>3
      <4>5. Placed(ss, i + 1, s \o t, more)
        <5> DEFINE u == s \o t
        <5>1. /\ place \in [1..Len(s) -> Nat \X Nat]
              /\ \A p \in 1..Len(s) : /\ place[p][1] \in 1..i
                                      /\ place[p][2] \in DOMAIN ss[place[p][1]]
                                      /\ s[p] = ss[place[p][1]][place[p][2]]
              /\ \A b \in 1..i : \A j \in DOMAIN ss[b] : \E p \in 1..Len(s) : place[p] = <<b, j>>
              /\ \A p, q \in 1..Len(s) : place[p] = place[q] => p = q
          BY <4>1 DEF Placed, s
        <5>2. more \in [1..Len(u) -> Nat \X Nat]
          BY <4>4, <5>1
        <5>3. ASSUME NEW p \in 1..Len(u)
              PROVE  /\ more[p][1] \in 1..i + 1 /\ more[p][2] \in DOMAIN ss[more[p][1]]
                     /\ u[p] = ss[more[p][1]][more[p][2]]
          <6>1. CASE p <= Len(s)
            <7>1. p \in 1..Len(s)
              BY <4>4, <6>1
            <7>2. more[p] = place[p] /\ u[p] = s[p]
              BY <4>4, <6>1
            <7>3. place[p][1] \in 1..i + 1
              BY <5>1, <7>1
            <7> QED
              BY <5>1, <7>1, <7>2, <7>3
          <6>2. CASE ~(p <= Len(s))
            <7>1. more[p] = <<i + 1, p - Len(s)>> /\ u[p] = t[p - Len(s)]
              BY <4>4, <6>2
            <7>2. p - Len(s) \in DOMAIN t /\ i + 1 \in 1..i + 1
              BY <4>4, <6>2
            <7> DEFINE d == p - Len(s)
            <7> HIDE DEF d
            <7>3. more[p] = <<i + 1, d>> /\ u[p] = t[d] /\ d \in DOMAIN t
              BY <7>1, <7>2 DEF d
            <7> HIDE DEF more, u
            <7> QED
              BY <7>2, <7>3 DEF t
          <6> QED
            BY <6>1, <6>2
        <5>4. ASSUME NEW b \in 1..i + 1, NEW j \in DOMAIN ss[b]
              PROVE  \E p \in 1..Len(u) : more[p] = <<b, j>>
          <6>1. CASE b \in 1..i
            <7>1. PICK p \in 1..Len(s) : place[p] = <<b, j>>
              BY <5>1, <6>1
            <7>2. p \in 1..Len(u) /\ more[p] = place[p]
              BY <4>4
            <7> QED
              BY <7>1, <7>2
          <6>2. CASE b = i + 1
            <7>1. j \in 1..Len(t)
              BY <4>4, <6>2 DEF t
            <7>2. /\ j + Len(s) \in 1..Len(u) /\ ~(j + Len(s) <= Len(s))
                  /\ (j + Len(s)) - Len(s) = j
              BY <4>4, <7>1
            <7>3. more[j + Len(s)] = <<b, j>>
              BY <4>4, <7>2, <6>2
            <7> QED
              BY <7>2, <7>3
          <6>3. b \in 1..i \/ b = i + 1
            BY <2>5
          <6> QED
            BY <6>1, <6>2, <6>3
        <5>5. ASSUME NEW p \in 1..Len(u), NEW q \in 1..Len(u), more[p] = more[q] PROVE p = q
          <6>1. ASSUME NEW x \in 1..Len(u)
                PROVE  more[x] = IF x <= Len(s) THEN place[x] ELSE <<i + 1, x - Len(s)>>
            BY <4>4
          <6>2. ASSUME NEW x \in 1..Len(u), x <= Len(s)
                PROVE  x \in 1..Len(s) /\ place[x][1] # i + 1
            <7>1. x \in 1..Len(s)
              BY <4>4, <6>2
            <7>2. place[x][1] \in 1..i
              BY <5>1, <7>1
            <7> QED
              BY <7>1, <7>2
          <6> HIDE DEF more, u
          <6>3. CASE p <= Len(s) /\ q <= Len(s)
            BY ZenonT(30), <5>1, <5>5, <6>1, <6>2, <6>3
          <6>4. CASE ~(p <= Len(s)) /\ ~(q <= Len(s))
            <7>1. <<i + 1, p - Len(s)>> = <<i + 1, q - Len(s)>>
              BY <5>5, <6>1, <6>4
            <7>2. p - Len(s) = q - Len(s)
              BY <7>1
            <7>3. p \in Nat /\ q \in Nat
              BY <4>4 DEF u
            <7> QED
              BY <7>2, <7>3, <4>4
          <6>5. ASSUME NEW x \in 1..Len(u), NEW y \in 1..Len(u), x <= Len(s), ~(y <= Len(s))
                PROVE  more[x] # more[y]
            <7>1. place[x][1] # i + 1
              BY <6>2, <6>5
            <7>2. <<i + 1, y - Len(s)>>[1] = i + 1
              OBVIOUS
            <7>3. more[x] = place[x] /\ more[y] = <<i + 1, y - Len(s)>>
              BY <6>1, <6>5
            <7> QED
              BY <7>1, <7>2, <7>3
          <6> QED
            BY <5>5, <6>3, <6>4, <6>5
        <5> HIDE DEF more
        <5>6. Len(u) = Len(s \o t)
          OBVIOUS
        <5> QED
          BY <5>2, <5>3, <5>4, <5>5 DEF Placed
      <4>6. Good(i + 1)
        <5> HIDE DEF more
        <5> QED
          BY <4>2, <4>4, <4>5
      <4> QED
        BY <4>6, <3>1
    <3> QED
      BY <3>2, <3>3
  <2> HIDE DEF T
  <2>6. \A i \in 0..n : i \in T
    BY <1>1, <2>4, <2>5, CountUp
  <2>7. n \in T
    BY <1>1, <2>6 DEF n
  <2> QED
    BY <1>3, <2>2, <2>7 DEF T, n
<1> QED
  BY <1>2, <1>3

-----------------------------------------------------------------------------
(* The groups of the files of an archive.                                  *)

GroupStart == [starts |-> <<0>>, size |-> 0]
GroupStep(files, most, g, i) ==
  IF g.size + files[i].size >= most
  THEN [starts |-> Append(g.starts, i), size |-> 0]
  ELSE [g EXCEPT !.size = @ + files[i].size]
IsGroup(files, most, seq, D, h) ==
  h = [s \in SUBSET D |-> IF s = {} THEN GroupStart
                          ELSE GroupStep(files, most, h[s \ {Max(s)}], seq[Max(s)])]

LEMMA GroupIsChosen ==
  ASSUME NEW files, NEW most, NEW seq, seq = [i \in DOMAIN files |-> i]
  PROVE  Group(files, most)
           = (CHOOSE h : IsGroup(files, most, seq, DOMAIN seq, h))[DOMAIN seq]
  BY Zenon DEF Group, FoldLeft, MapThenFoldSet, IsGroup, GroupStart, GroupStep

LEMMA GroupExists ==
  ASSUME NEW files, NEW most, NEW seq, NEW n \in Nat
  PROVE  \E h : IsGroup(files, most, seq, 1..n, h)
<1> DEFINE T == {i \in 0..n : \E h : IsGroup(files, most, seq, 1..i, h)}
<1>1. 0 \in T
  <2> DEFINE h == [s \in SUBSET (1..0) |-> GroupStart]
  <2>1. \A s \in SUBSET (1..0) : s = {}
    OBVIOUS
  <2>2. IsGroup(files, most, seq, 1..0, h)
    BY <2>1 DEF IsGroup
  <2> QED
    BY <2>2
<1>2. ASSUME NEW i \in Nat, i < n, i \in T PROVE i + 1 \in T
  <2>1. PICK h : IsGroup(files, most, seq, 1..i, h)
    BY <1>2
  <2> DEFINE last == i + 1
  <2> DEFINE k == [s \in SUBSET (1..last) |->
                     IF last \in s
                     THEN GroupStep(files, most, h[s \ {last}], seq[last]) ELSE h[s]]
  <2>2. \A s \in SUBSET (1..last) : /\ s \ {last} \in SUBSET (1..i)
                                    /\ last \notin s => s \in SUBSET (1..i)
    OBVIOUS
  <2>3. \A s \in SUBSET (1..last) : last \in s => Max(s) = last
    BY MaxIs
  <2>4. \A s \in SUBSET (1..i) : /\ s \in SUBSET (1..last) /\ last \notin s
                                 /\ s \ {Max(s)} \in SUBSET (1..i)
    <3>1. \A s \in SUBSET (1..i) : s \in SUBSET (1..last) /\ last \notin s
      OBVIOUS
    <3>2. \A s, x : s \in SUBSET (1..i) => s \ {x} \in SUBSET (1..i)
      OBVIOUS
    <3> QED
      BY <3>1, <3>2
  <2> HIDE DEF last
  <2>5. \A s \in SUBSET (1..i) : /\ k[s] = h[s]
                                 /\ k[s \ {Max(s)}] = h[s \ {Max(s)}]
    BY <2>4
  <2>6. \A s \in SUBSET (1..i) :
          h[s] = IF s = {} THEN GroupStart
                 ELSE GroupStep(files, most, h[s \ {Max(s)}], seq[Max(s)])
    BY <2>1 DEF IsGroup
  <2>7. \A s \in SUBSET (1..last) :
          k[s] = IF s = {} THEN GroupStart
                 ELSE GroupStep(files, most, k[s \ {Max(s)}], seq[Max(s)])
    <3> SUFFICES ASSUME NEW s \in SUBSET (1..last)
                 PROVE  k[s] = IF s = {} THEN GroupStart
                               ELSE GroupStep(files, most, k[s \ {Max(s)}], seq[Max(s)])
      OBVIOUS
    <3>1. CASE last \in s
      <4>1. k[s] = GroupStep(files, most, h[s \ {last}], seq[last]) /\ s # {}
        BY <3>1
      <4>2. k[s \ {last}] = h[s \ {last}]
        BY <2>2, <2>5
      <4> HIDE DEF k
      <4> QED
        BY <3>1, <4>1, <4>2, <2>3
    <3>2. CASE last \notin s
      <4>1. s \in SUBSET (1..i)
        BY <2>2, <3>2
      <4> HIDE DEF k
      <4> QED
        BY <4>1, <2>5, <2>6
    <3> QED
      BY <3>1, <3>2
  <2>8. k = [s \in SUBSET (1..last) |-> k[s]]
    OBVIOUS
  <2> HIDE DEF k
  <2>9. IsGroup(files, most, seq, 1..last, k)
    BY <2>7, <2>8 DEF IsGroup
  <2> QED
    BY <1>2, <2>9 DEF last
<1> HIDE DEF T
<1>3. \A i \in 0..n : i \in T
  BY <1>1, <1>2, CountUp
<1> QED
  BY <1>3 DEF T

(* The groups begin in order, and the files after the last that begins are *)
(* empty unless their bytes were counted.                                  *)
IsGroups(files, n, g) ==
  /\ g.starts \in Seq(Nat) /\ Len(g.starts) > 0 /\ g.starts[1] = 0
  /\ \A i, j \in 1..Len(g.starts) : i < j => g.starts[i] < g.starts[j]
  /\ g.starts[Len(g.starts)] <= n
  /\ g.size \in Nat
  /\ g.size > 0 => g.starts[Len(g.starts)] < n
  /\ g.size = 0 => \A f \in 1..n : f > g.starts[Len(g.starts)] => files[f].size = 0
  /\ DOMAIN g = {"starts", "size"}

LEMMA GroupAdds ==
  ASSUME NEW files, NEW most, NEW n \in Nat, NEW g, IsGroups(files, n, g),
         files[n + 1].size \in Nat
  PROVE  IsGroups(files, n + 1, GroupStep(files, most, g, n + 1))
<1> DEFINE starts == g.starts
<1> DEFINE m == Len(starts)
<1>1. /\ starts \in Seq(Nat) /\ m \in Nat /\ m > 0 /\ starts[1] = 0
      /\ \A i, j \in 1..m : i < j => starts[i] < starts[j]
      /\ starts[m] <= n /\ starts[m] \in Nat /\ \A i \in 1..m : starts[i] \in Nat
  BY DEF IsGroups
<1>2. CASE g.size + files[n + 1].size >= most
  <2> DEFINE more == Append(starts, n + 1)
  <2>1. GroupStep(files, most, g, n + 1) = [starts |-> more, size |-> 0]
    BY <1>2 DEF GroupStep
  <2> HIDE DEF starts
  <2>2. /\ more \in Seq(Nat) /\ Len(more) = m + 1 /\ more[m + 1] = n + 1
        /\ \A i \in 1..m : more[i] = starts[i]
    BY <1>1
  <2> HIDE DEF more, m
  <2>3. \A i \in 1..m : starts[i] <= starts[m]
    <3>1. \A i \in 1..m : i = m \/ i < m
      BY <1>1
    <3> QED
      BY <1>1, <3>1
  <2>4. ASSUME NEW i \in 1..m + 1, NEW j \in 1..m + 1, i < j PROVE more[i] < more[j]
    <3>1. i \in 1..m /\ more[i] = starts[i] /\ starts[i] \in Nat
      BY <1>1, <2>2, <2>4
    <3>2. CASE j = m + 1
      BY <3>1, <3>2, <2>2, <2>3, <1>1
    <3>3. CASE j \in 1..m
      BY <3>1, <3>3, <2>2, <2>4, <1>1
    <3>4. j = m + 1 \/ j \in 1..m
      BY <1>1
    <3> QED
      BY <3>2, <3>3, <3>4
  <2>5. more[1] = 0
    BY <1>1, <2>2
  <2>6. \A f \in 1..n + 1 : ~(f > n + 1)
    OBVIOUS
  <2> DEFINE h == [starts |-> more, size |-> 0]
  <2>7. h.starts = more /\ h.size = 0 /\ DOMAIN h = {"starts", "size"} /\ ~(h.size > 0)
    OBVIOUS
  <2>8. Len(h.starts) > 0 /\ h.starts[Len(h.starts)] = n + 1
    BY <1>1, <2>2, <2>7
  <2> HIDE DEF h
  <2>9. IsGroups(files, n + 1, h)
    BY <2>2, <2>4, <2>5, <2>6, <2>7, <2>8 DEF IsGroups
  <2> QED
    BY <2>1, <2>9 DEF h
<1>3. CASE ~(g.size + files[n + 1].size >= most)
  <2>1. GroupStep(files, most, g, n + 1) = [g EXCEPT !.size = @ + files[n + 1].size]
    BY <1>3 DEF GroupStep
  <2> DEFINE h == [g EXCEPT !.size = @ + files[n + 1].size]
  <2>2. /\ h.starts = starts /\ h.size = g.size + files[n + 1].size
        /\ DOMAIN h = {"starts", "size"}
    BY DEF IsGroups
  <2> HIDE DEF h
  <2> DEFINE extra == files[n + 1].size
  <2>3. /\ g.size \in Nat /\ g.size > 0 => starts[m] < n
    BY DEF IsGroups
  <2>4. g.size = 0 => \A f \in 1..n : f > starts[m] => files[f].size = 0
    BY DEF IsGroups
  <2>5. extra \in Nat
    OBVIOUS
  <2>6. ASSUME h.size = 0, NEW f \in 1..n + 1, f > starts[m] PROVE files[f].size = 0
    <3> HIDE DEF starts
    <3>1. g.size \in Nat
      BY DEF IsGroups
    <3> DEFINE z == g.size
    <3> HIDE DEF z
    <3>2. z \in Nat /\ z + extra = 0
      BY <3>1, <2>6, <2>2 DEF z
    <3>3. z = 0 /\ extra = 0
      <4> HIDE DEF extra
      <4> QED
        BY <3>2, <2>5
    <3>4. f = n + 1 \/ f \in 1..n
      OBVIOUS
    <3> QED
      BY <3>3, <3>4, <2>4, <2>6 DEF z
  <2>7. starts[m] < n + 1
    <3> HIDE DEF starts, m
    <3> QED
      BY <1>1
  <2>8. h.size \in Nat
    <3>1. g.size \in Nat
      BY DEF IsGroups
    <3> HIDE DEF extra
    <3> QED
      BY <2>2, <2>5, <3>1 DEF extra
  <2> HIDE DEF extra
  <2> QED
    BY SMTT(30), <1>1, <2>1, <2>2, <2>6, <2>7, <2>8 DEF IsGroups, h
<1> QED
  BY <1>2, <1>3

LEMMA GroupsOf ==
  ASSUME NEW files \in Seq([size : Nat, breaks : SUBSET Nat]), NEW most
  PROVE  IsGroups(files, Len(files), Group(files, most))
<1> DEFINE seq == [i \in DOMAIN files |-> i]
<1> DEFINE n == Len(files)
<1>1. n \in Nat /\ DOMAIN files = 1..n /\ \A i \in 1..n : files[i].size \in Nat
  <2>1. n \in Nat /\ DOMAIN files = 1..n
    OBVIOUS
  <2> DEFINE AllTexts == [size : Nat, breaks : SUBSET Nat]
  <2>2. \A i \in 1..n : files[i] \in AllTexts
    <3>1. files \in Seq(AllTexts)
      OBVIOUS
    <3> HIDE DEF AllTexts
    <3> QED
      BY <3>1
  <2> QED
    BY <2>1, <2>2
<1> DEFINE h == CHOOSE k : IsGroup(files, most, seq, 1..n, k)
<1>2. DOMAIN seq = 1..n /\ \A i \in 1..n : seq[i] = i
  BY <1>1
<1>3. Group(files, most) = (CHOOSE k : IsGroup(files, most, seq, DOMAIN seq, k))[DOMAIN seq]
  <2>1. seq = [i \in DOMAIN files |-> i]
    OBVIOUS
  <2> HIDE DEF seq
  <2> QED
    BY <2>1, GroupIsChosen
<1> HIDE DEF seq, n
<1>4. Group(files, most) = h[1..n]
  BY <1>2, <1>3
<1>5. IsGroup(files, most, seq, 1..n, h)
  BY <1>1, GroupExists
<1> HIDE DEF h
<1>6. \A s \in SUBSET (1..n) :
        h[s] = IF s = {} THEN GroupStart
               ELSE GroupStep(files, most, h[s \ {Max(s)}], seq[Max(s)])
  BY <1>5 DEF IsGroup
<1> DEFINE T == {i \in 0..n : IsGroups(files, i, h[1..i])}
<1>7. 0 \in T
  <2>1. 1..0 = {} /\ {} \in SUBSET (1..n)
    OBVIOUS
  <2>2. h[1..0] = GroupStart
    BY <2>1, <1>6
  <2>3. IsGroups(files, 0, GroupStart)
    BY DEF IsGroups, GroupStart
  <2> QED
    BY <1>1, <2>2, <2>3
<1>8. ASSUME NEW i \in Nat, i < n, i \in T PROVE i + 1 \in T
  <2>1. i + 1 \in 1..n /\ 1..i + 1 \in SUBSET (1..n) /\ 1..i + 1 # {}
    <3>1. i + 1 \in 1..n /\ i + 1 \in 1..i + 1
      BY <1>1, <1>8
    <3>2. \A x \in 1..i + 1 : x \in 1..n
      BY <1>1, <1>8
    <3> QED
      BY <3>1, <3>2
  <2>2. Max(1..i + 1) = i + 1
    BY MaxIs
  <2>3. (1..i + 1) \ {i + 1} = 1..i
    OBVIOUS
  <2> DEFINE s == 1..i + 1
  <2>4. h[1..i + 1] = GroupStep(files, most, h[1..i], i + 1)
    <3>1. s \in SUBSET (1..n) /\ s # {} /\ Max(s) = i + 1 /\ s \ {i + 1} = 1..i
      BY <2>1, <2>2, <2>3
    <3>2. seq[i + 1] = i + 1
      BY <1>2, <2>1
    <3> HIDE DEF s
    <3>3. h[s] = GroupStep(files, most, h[s \ {Max(s)}], seq[Max(s)])
      BY <1>6, <3>1
    <3> QED
      BY <3>1, <3>2, <3>3 DEF s
  <2>5. IsGroups(files, i + 1, h[1..i + 1])
    BY <1>1, <1>8, <2>1, <2>4, GroupAdds
  <2> QED
    BY <2>1, <2>5
<1> HIDE DEF T
<1>9. \A i \in 0..n : i \in T
  BY <1>1, <1>7, <1>8, CountUp
<1> QED
  BY <1>1, <1>4, <1>9 DEF T, n

-----------------------------------------------------------------------------
(* What a reader has before it.  An item is a blob, a file in it, and the  *)
(* place of a line in the file.                                            *)

IsInput(k, bs) ==
  /\ k \in {"lines", "files", "archived lines"} /\ bs \in Seq(Seq([size : Nat, breaks : SUBSET Nat]))
  /\ \A b \in DOMAIN bs : \A f \in DOMAIN bs[b] : IsText(bs[b][f])
  /\ k = "lines" => bs # <<>> /\ \A b \in DOMAIN bs : Len(bs[b]) = 1
  /\ k = "files" => Len(bs) = 1

IsItem(k, bs, x) ==
  /\ x = <<x[1], x[2], x[3]>> /\ x[1] \in DOMAIN bs /\ x[2] \in DOMAIN bs[x[1]]
  /\ IF k = "files" THEN x[3] = 0 ELSE x[3] \in LinesOf(bs[x[1]][x[2]])

(* The place from which the reader goes on in its text. *)
From(k, bs, r) ==
  IF k = "lines"
  THEN IF r.skip THEN LineEnd(bs[r.blob][1], r.at) ELSE r.at
  ELSE IF r.open \/ r.offset = 0 THEN r.offset ELSE LineEnd(bs[r.blob][r.at + 1], r.offset)

Waits(k, bs, r, x) ==
  /\ IsItem(k, bs, x) /\ x[1] = r.blob
  /\ IF k = "lines" THEN From(k, bs, r) <= x[3] /\ x[3] <= r.end
     ELSE /\ r.at < x[2] /\ x[2] <= r.end
          /\ k # "files" /\ x[2] = r.at + 1 => From(k, bs, r) <= x[3]

(* The lines that may be read twice. *)
Excused(k, bs, n, x) ==
  /\ k # "files" /\ x[3] = 0
  /\ LineEnd(bs[x[1]][x[2]], 0) = 1 \/ (k = "lines" /\ bs[x[1]][x[2]].size < n)

ReaderType == [blob : Nat, at : Nat, end : Nat, offset : Nat, skip : BOOLEAN,
               iterated : BOOLEAN, open : BOOLEAN, item : BOOLEAN]

(* A reader as JSON, and in a slice. *)
IsReaderOf(k, bs, r) ==
  /\ r \in ReaderType /\ r.blob \in DOMAIN bs
  /\ k # "lines" => r.end <= Len(bs[r.blob])
IsJson(k, bs, w) ==
  IsReaderOf(k, bs, w) /\ ~w.skip /\ ~w.iterated /\ ~w.open /\ ~w.item
Started(k, w) == [w EXCEPT !.skip = k = "lines" /\ w.at # 0]
AtBreak(t, place) == place > 0 /\ LineEnd(t, place - 1) = place
IsRunning(k, bs, r) ==
  /\ IsReaderOf(k, bs, r)
  /\ k = "lines" =>
       /\ r.item => r.iterated
       /\ IF r.iterated THEN ~r.skip /\ AtBreak(bs[r.blob][1], r.at) ELSE r.skip <=> r.at # 0
  /\ k = "archived lines" =>
       /\ r.item => r.open
       /\ r.open => /\ r.at < r.end
                    /\ r.offset < bs[r.blob][r.at + 1].size =>
                         r.offset \in LinesOf(bs[r.blob][r.at + 1])
                    /\ r.item => AtBreak(bs[r.blob][r.at + 1], r.offset)

LEMMA TextsAre ==
  ASSUME NEW k, NEW bs, IsInput(k, bs), NEW b \in DOMAIN bs
  PROVE  /\ Len(bs) \in Nat /\ DOMAIN bs = 1..Len(bs)
         /\ bs[b] \in Seq([size : Nat, breaks : SUBSET Nat])
         /\ Len(bs[b]) \in Nat /\ DOMAIN bs[b] = 1..Len(bs[b])
         /\ k = "lines" => 1 \in DOMAIN bs[b] /\ \A f \in DOMAIN bs[b] : f = 1
         /\ \A f \in DOMAIN bs[b] : IsText(bs[b][f]) /\ bs[b][f].size \in Nat
<1> DEFINE S == Seq([size : Nat, breaks : SUBSET Nat])
<1>1. bs \in Seq(S)
  BY DEF IsInput
<1>2. bs[b] \in S
  <2> HIDE DEF S
  <2> QED
    BY <1>1
<1>3. Len(bs) \in Nat /\ DOMAIN bs = 1..Len(bs)
  BY <1>1
<1>4. Len(bs[b]) \in Nat /\ DOMAIN bs[b] = 1..Len(bs[b])
  BY <1>2
<1>5. k = "lines" => Len(bs[b]) = 1
  BY DEF IsInput
<1>6. \A f \in DOMAIN bs[b] : IsText(bs[b][f])
  BY DEF IsInput
<1>7. \A f \in DOMAIN bs[b] : bs[b][f].size \in Nat
  BY <1>6 DEF IsText
<1> QED
  BY <1>2, <1>3, <1>4, <1>5, <1>6, <1>7

LEMMA InputIs ==
  ASSUME NEW k, NEW bs, IsInput(k, bs)
  PROVE  Len(bs) \in Nat /\ DOMAIN bs = 1..Len(bs)
<1>1. bs \in Seq(Seq([size : Nat, breaks : SUBSET Nat]))
  BY DEF IsInput
<1> QED
  BY <1>1

LEMMA LinesAre ==
  ASSUME NEW t, IsText(t)
  PROVE  /\ \A p \in LinesOf(t) : p \in Nat /\ p < t.size
         /\ t.size > 0 => 0 \in LinesOf(t)
  BY DEF IsText, LinesOf

(* A slice begins. *)
LEMMA StartedRuns ==
  ASSUME NEW k, NEW bs, NEW w, IsJson(k, bs, w)
  PROVE  IsRunning(k, bs, Started(k, w)) /\ Started(k, w).blob = w.blob /\ Started(k, w).end = w.end
         /\ Started(k, w).item = FALSE
<1> DEFINE r == Started(k, w)
<1>1. w \in ReaderType /\ (k = "lines" /\ w.at # 0) \in BOOLEAN
  BY DEF IsJson, IsReaderOf
<1>2. /\ r \in ReaderType /\ r.skip = (k = "lines" /\ w.at # 0)
      /\ r.blob = w.blob /\ r.at = w.at /\ r.end = w.end /\ r.offset = w.offset
      /\ r.iterated = w.iterated /\ r.open = w.open /\ r.item = w.item
  BY <1>1 DEF Started, ReaderType
<1> HIDE DEF r
<1>3. ~r.item /\ ~r.open /\ ~r.iterated /\ r.item = FALSE
  BY <1>1, <1>2 DEF IsJson, ReaderType
<1>4. IsReaderOf(k, bs, r)
  BY <1>2 DEF IsReaderOf, IsJson
<1>5. IsRunning(k, bs, r)
  BY <1>2, <1>3, <1>4 DEF IsRunning
<1> QED
  BY <1>2, <1>3, <1>5 DEF r

(* What a reader has before it after an item, and when none is read. *)
ReadsItem(k, bs, r, s, item) ==
  /\ IsRunning(k, bs, s) /\ s.blob = r.blob /\ s.end = r.end
  /\ Waits(k, bs, r, item)
  /\ \A x : Waits(k, bs, s, x) <=> Waits(k, bs, r, x) /\ x # item
Moves(k, bs, r, s) ==
  /\ IsRunning(k, bs, s) /\ s.blob = r.blob /\ s.end = r.end
  /\ \A x : Waits(k, bs, s, x) <=> Waits(k, bs, r, x)

AfterLine(r, t, start) ==
  [[r EXCEPT !.at = LineEnd(t, start), !.skip = FALSE, !.iterated = TRUE] EXCEPT !.item = TRUE]
AfterFile(r) == [[r EXCEPT !.at = @ + 1] EXCEPT !.item = TRUE]
Opened(r, t) ==
  [r EXCEPT !.open = TRUE, !.item = FALSE, !.offset = IF @ = 0 THEN 0 ELSE LineEnd(t, @)]
AfterZipLine(r, t) == [[r EXCEPT !.offset = LineEnd(t, r.offset)] EXCEPT !.item = TRUE]

(* A line is read. *)
LEMMA LineIsRead ==
  ASSUME NEW bs, IsInput("lines", bs), NEW r, IsRunning("lines", bs, r),
         NEW t, t = bs[r.blob][1], NEW start, start = From("lines", bs, r),
         ~(start > r.end \/ start >= t.size),
         NEW s, s = AfterLine(r, t, start)
  PROVE  ReadsItem("lines", bs, r, s, <<r.blob, 1, start>>)
<1> USE DEF AfterLine
<1>1. r \in ReaderType /\ r.blob \in DOMAIN bs
  BY DEF IsRunning, IsReaderOf
<1>2. /\ IsText(t) /\ t.size \in Nat /\ 1 \in DOMAIN bs[r.blob]
      /\ \A f \in DOMAIN bs[r.blob] : f = 1
  BY <1>1, TextsAre
<1>3. r.at \in Nat /\ r.end \in Nat
  BY <1>1 DEF ReaderType
<1>4. start = IF r.skip THEN LineEnd(t, r.at) ELSE r.at
  BY DEF From
<1>5. start \in Nat /\ start \in LinesOf(t)
  <2>1. CASE r.skip
    BY <1>2, <1>3, <1>4, <2>1, LineEndIs
  <2>2. CASE ~r.skip /\ r.iterated
    <3>1. r.at > 0 /\ LineEnd(t, r.at - 1) = r.at
      BY <2>2 DEF IsRunning, AtBreak
    <3>2. r.at - 1 \in Nat
      BY <1>3, <3>1
    <3> QED
      BY <1>2, <1>3, <1>4, <2>2, <3>1, <3>2, LineEndIs
  <2>3. CASE ~r.skip /\ ~r.iterated
    <3>1. r.at = 0
      BY <2>3 DEF IsRunning
    <3>2. start = 0 /\ t.size > 0
      BY <1>2, <1>4, <2>3, <3>1
    <3> QED
      BY <1>2, <3>2, LinesAre
  <2> QED
    BY <2>1, <2>2, <2>3
<1> DEFINE e == LineEnd(t, start)
<1>6. /\ e \in Nat /\ e > start /\ LineEnd(t, e - 1) = e
      /\ \A p \in LinesOf(t) : p > start <=> p >= e
  BY <1>2, <1>3, <1>5, LineEndIs
<1>7. /\ s \in ReaderType /\ s.blob = r.blob /\ s.end = r.end /\ s.at = e
      /\ s.skip = FALSE /\ s.iterated = TRUE
  <2> HIDE DEF e
  <2>1. s = [[r EXCEPT !.at = e, !.skip = FALSE, !.iterated = TRUE] EXCEPT !.item = TRUE]
    BY DEF e
  <2> QED
    BY <1>1, <1>6, <2>1 DEF ReaderType
<1> HIDE DEF e
<1>8. IsRunning("lines", bs, s)
  <2>1. AtBreak(bs[s.blob][1], s.at)
    BY <1>5, <1>6, <1>7 DEF AtBreak
  <2>2. IsReaderOf("lines", bs, s)
    BY <1>1, <1>7 DEF IsReaderOf
  <2> QED
    BY <1>7, <2>1, <2>2 DEF IsRunning
<1>9. From("lines", bs, s) = e
  BY <1>7 DEF From
<1>10. ASSUME NEW x
       PROVE  /\ IsItem("lines", bs, x) /\ x[1] = r.blob <=>
                   \E p \in LinesOf(t) : x = <<r.blob, 1, p>>
  <2>1. ASSUME IsItem("lines", bs, x), x[1] = r.blob
        PROVE  x = <<r.blob, 1, x[3]>> /\ x[3] \in LinesOf(t)
    BY <2>1, <1>2 DEF IsItem
  <2>2. ASSUME NEW p \in LinesOf(t), x = <<r.blob, 1, p>>
        PROVE  IsItem("lines", bs, x) /\ x[1] = r.blob
    BY <2>2, <1>1, <1>2 DEF IsItem
  <2> QED
    BY <2>1, <2>2
<1>11. ASSUME NEW y, y \in {r, s}, NEW x
       PROVE  Waits("lines", bs, y, x) <=>
                \E p \in LinesOf(t) : /\ x = <<r.blob, 1, p>>
                                      /\ From("lines", bs, y) <= p /\ p <= r.end
  <2>1. y.blob = r.blob /\ y.end = r.end
    BY <1>7, <1>11
  <2>2. \A p : <<r.blob, 1, p>>[3] = p
    OBVIOUS
  <2> QED
    BY <2>1, <2>2, <1>10 DEF Waits
<1>12. Waits("lines", bs, r, <<r.blob, 1, start>>)
  BY <1>3, <1>5, <1>2, <1>11
<1>13. ASSUME NEW x
       PROVE  Waits("lines", bs, s, x) <=>
                Waits("lines", bs, r, x) /\ x # <<r.blob, 1, start>>
  <2>1. \A p \in LinesOf(t) : e <= p <=> start <= p /\ p # start
    BY <1>2, <1>5, <1>6, LinesAre
  <2>2. \A p : x = <<r.blob, 1, p>> => (x # <<r.blob, 1, start>> <=> p # start)
    OBVIOUS
  <2>3. Waits("lines", bs, s, x) <=>
          \E p \in LinesOf(t) : x = <<r.blob, 1, p>> /\ e <= p /\ p <= r.end
    BY <1>9, <1>11
  <2>4. Waits("lines", bs, r, x) <=>
          \E p \in LinesOf(t) : x = <<r.blob, 1, p>> /\ start <= p /\ p <= r.end
    BY <1>11
  <2> QED
    BY <2>1, <2>2, <2>3, <2>4
<1> QED
  BY <1>7, <1>8, <1>12, <1>13 DEF ReadsItem

(* Facts about numbers, for use beside facts about records. *)
LEMMA OrderOfTwo ==
  ASSUME NEW a \in Nat, NEW b \in Nat
  PROVE  /\ a + 1 \in Nat /\ a < a + 1 /\ a <= a /\ 0 <= a
         /\ a < b => a + 1 <= b
         /\ a + 1 < b <=> a < b /\ b # a + 1
         /\ a < b <=> ~(b <= a)
         /\ a <= b /\ b # a <=> a < b
         /\ a > b <=> b < a
         /\ a >= b <=> b <= a
  OBVIOUS

LEMMA OrderOfThree ==
  ASSUME NEW a \in Nat, NEW b \in Nat, NEW c \in Nat
  PROVE  /\ a < b /\ b <= c => a + 1 \in 1..c
         /\ a < b /\ c >= b => ~(c <= a)
         /\ a \in 1..c => a > 0 /\ a <= c
         /\ a < b => b > 0
  OBVIOUS

LEMMA Between ==
  ASSUME NEW a \in Nat, NEW b \in Nat, NEW c \in Nat, a <= b, b <= c
  PROVE  a <= c
  OBVIOUS

LEMMA OneIsFirst == \A c \in Nat : \A i, j \in 1..c : i # j => i < j \/ j < i
  OBVIOUS

LEMMA IsASequence ==
  ASSUME NEW S, NEW n \in Nat, NEW s, s = [i \in 1..n |-> s[i]], \A i \in 1..n : s[i] \in S
  PROVE  s \in Seq(S) /\ Len(s) = n
  OBVIOUS

LEMMA ZeroOrMore == \A p \in Nat : 0 <= p /\ (1 <= p \/ p = 0)
  OBVIOUS

LEMMA BeforeOf ==
  ASSUME NEW p \in Nat, p > 0
  PROVE  p - 1 \in Nat /\ p # 0 /\ (p - 1 = 0 => p = 1)
  OBVIOUS

LEMMA UpToIsNat == \A c \in Nat : \A y \in 1..c : y \in Nat
  OBVIOUS

LEMMA ReaderMoves ==
  ASSUME NEW r \in ReaderType, NEW place \in Nat, NEW offset \in Nat
  PROVE  [r EXCEPT !.open = FALSE, !.item = FALSE, !.at = place, !.offset = offset]
           \in ReaderType
<1> DEFINE s == [r EXCEPT !.open = FALSE, !.item = FALSE, !.at = place, !.offset = offset]
<1> DEFINE q == [r EXCEPT !.open = FALSE, !.item = FALSE]
<1>1. q \in ReaderType
  BY DEF ReaderType
<1>2. s = [q EXCEPT !.at = place, !.offset = offset]
  BY DEF ReaderType
<1> HIDE DEF s, q
<1> QED
  BY <1>1, <1>2 DEF ReaderType

(* The end of a part of the lines. *)
LEMMA NoLineWaits ==
  ASSUME NEW bs, IsInput("lines", bs), NEW r, IsRunning("lines", bs, r),
         NEW start, start = From("lines", bs, r),
         start > r.end \/ start >= bs[r.blob][1].size
  PROVE  \A x : ~Waits("lines", bs, r, x)
<1>1. r \in ReaderType /\ r.blob \in DOMAIN bs
  BY DEF IsRunning, IsReaderOf
<1> DEFINE t == bs[r.blob][1]
<1>2. /\ IsText(t) /\ t.size \in Nat /\ 1 \in DOMAIN bs[r.blob]
      /\ \A f \in DOMAIN bs[r.blob] : f = 1
  BY <1>1, TextsAre
<1>3. r.at \in Nat /\ r.end \in Nat
  BY <1>1 DEF ReaderType
<1>4. start \in Nat
  BY <1>2, <1>3, LineEndIs DEF From
<1> SUFFICES ASSUME NEW x, Waits("lines", bs, r, x) PROVE FALSE
  OBVIOUS
<1>5. x[3] \in LinesOf(t) /\ start <= x[3] /\ x[3] <= r.end
  BY <1>2 DEF Waits, IsItem
<1>6. x[3] \in Nat /\ x[3] < t.size
  BY <1>2, <1>5, LinesAre
<1> DEFINE p == x[3]
<1> DEFINE size == t.size
<1> HIDE DEF t, p
<1> QED
  BY <1>2, <1>3, <1>4, <1>5, <1>6 DEF p, t

(* A file of an archive is read. *)
LEMMA FileIsRead ==
  ASSUME NEW bs, IsInput("files", bs), NEW r, IsRunning("files", bs, r), r.at < r.end,
         NEW s, s = AfterFile(r)
  PROVE  ReadsItem("files", bs, r, s, <<r.blob, r.at + 1, 0>>)
<1> USE DEF AfterFile
<1>1. r \in ReaderType /\ r.blob \in DOMAIN bs /\ r.end <= Len(bs[r.blob])
  BY DEF IsRunning, IsReaderOf
<1>2. r.at \in Nat /\ r.end \in Nat /\ Len(bs[r.blob]) \in Nat
      /\ DOMAIN bs[r.blob] = 1..Len(bs[r.blob])
  BY <1>1, TextsAre DEF ReaderType
<1>3. s \in ReaderType /\ s.blob = r.blob /\ s.end = r.end /\ s.at = r.at + 1
  <2> DEFINE next == r.at + 1
  <2>1. next \in Nat /\ s = [[r EXCEPT !.at = next] EXCEPT !.item = TRUE]
    BY <1>2
  <2> HIDE DEF next
  <2>2. s \in ReaderType /\ s.blob = r.blob /\ s.end = r.end /\ s.at = next
    BY <1>1, <2>1 DEF ReaderType
  <2> QED
    BY <2>2 DEF next
<1>4. IsRunning("files", bs, s)
  BY <1>1, <1>3 DEF IsRunning, IsReaderOf
<1> DEFINE item == <<r.blob, r.at + 1, 0>>
<1>5. item[1] = r.blob /\ item[2] = r.at + 1 /\ item[3] = 0
  OBVIOUS
<1>6. r.at + 1 \in DOMAIN bs[r.blob]
  BY <1>1, <1>2
<1>7. Waits("files", bs, r, item)
  <2>1. IsItem("files", bs, item)
    BY <1>1, <1>5, <1>6 DEF IsItem
  <2>2. r.at < r.at + 1 /\ r.at + 1 <= r.end
    BY <1>2
  <2> HIDE DEF item
  <2> QED
    BY <1>5, <2>1, <2>2 DEF Waits
<1>8. ASSUME NEW x PROVE Waits("files", bs, s, x) <=> Waits("files", bs, r, x) /\ x # item
  <2>1. ASSUME IsItem("files", bs, x), x[1] = r.blob
        PROVE  x[2] \in Nat /\ (x = item <=> x[2] = r.at + 1)
    BY <2>1, <1>2 DEF IsItem
  <2> HIDE DEF item
  <2>2. ASSUME NEW f \in Nat PROVE r.at + 1 < f <=> r.at < f /\ f # r.at + 1
    BY <1>2
  <2> QED
    BY <1>3, <2>1, <2>2 DEF Waits
<1> QED
  BY <1>3, <1>4, <1>7, <1>8 DEF ReadsItem

LEMMA NoFileWaits ==
  ASSUME NEW k, k # "lines", NEW bs, IsInput(k, bs), NEW r, IsRunning(k, bs, r), r.at >= r.end
  PROVE  \A x : ~Waits(k, bs, r, x)
<1> SUFFICES ASSUME NEW x, Waits(k, bs, r, x) PROVE FALSE
  OBVIOUS
<1>1. r \in ReaderType /\ r.blob \in DOMAIN bs
  BY DEF IsRunning, IsReaderOf
<1>2. r.at \in Nat /\ r.end \in Nat
  BY <1>1 DEF ReaderType
<1>3. x[2] \in DOMAIN bs[r.blob] /\ r.at < x[2] /\ x[2] <= r.end
  BY DEF Waits, IsItem
<1>4. x[2] \in Nat
  BY <1>1, <1>3, TextsAre
<1> QED
  BY <1>2, <1>3, <1>4

(* The lines of a file in an archive: what waits for a reader, told by the *)
(* file it is in.                                                          *)
LEMMA ZipTexts ==
  ASSUME NEW bs, IsInput("archived lines", bs), NEW r, IsReaderOf("archived lines", bs, r),
         r.at < r.end
  PROVE  /\ r.at \in Nat /\ r.end \in Nat /\ r.offset \in Nat
         /\ r.at + 1 \in DOMAIN bs[r.blob]
         /\ IsText(bs[r.blob][r.at + 1]) /\ bs[r.blob][r.at + 1].size \in Nat
<1>1. r \in ReaderType /\ r.blob \in DOMAIN bs /\ r.end <= Len(bs[r.blob])
  BY DEF IsReaderOf
<1>2. r.at \in Nat /\ r.end \in Nat /\ r.offset \in Nat
  BY <1>1 DEF ReaderType
<1>3. r.at + 1 \in DOMAIN bs[r.blob]
  <2> DEFINE a == r.at
  <2> DEFINE e == r.end
  <2> DEFINE n == Len(bs[r.blob])
  <2>1. n \in Nat /\ DOMAIN bs[r.blob] = 1..n
    BY <1>1, TextsAre
  <2>2. a \in Nat /\ e \in Nat /\ e <= n /\ a < e
    BY <1>1, <1>2
  <2> HIDE DEF a, e, n
  <2>3. a + 1 \in 1..n
    BY <2>1, <2>2, OrderOfThree
  <2> QED
    BY <2>1, <2>3 DEF a
<1> QED
  BY <1>1, <1>2, <1>3, TextsAre

LEMMA FileIsOpened ==
  ASSUME NEW bs, IsInput("archived lines", bs), NEW r, IsRunning("archived lines", bs, r),
         ~r.open, r.at < r.end, NEW t, t = bs[r.blob][r.at + 1],
         NEW s, s = Opened(r, t)
  PROVE  Moves("archived lines", bs, r, s)
<1>1. IsReaderOf("archived lines", bs, r) /\ r \in ReaderType
  BY DEF IsRunning, IsReaderOf
<1>2. /\ r.at \in Nat /\ r.end \in Nat /\ r.offset \in Nat
      /\ r.at + 1 \in DOMAIN bs[r.blob] /\ IsText(t) /\ t.size \in Nat
  BY <1>1, ZipTexts
<1> DEFINE place == IF r.offset = 0 THEN 0 ELSE LineEnd(t, r.offset)
<1>3. place \in Nat /\ (place < t.size => place \in LinesOf(t))
  <2>1. CASE r.offset = 0
    BY <1>2, <2>1, LinesAre
  <2>2. CASE r.offset # 0
    BY <1>2, <2>2, LineEndIs
  <2> QED
    BY <2>1, <2>2
<1>4. place = From("archived lines", bs, r)
  BY DEF From
<1>5. /\ s \in ReaderType /\ s.blob = r.blob /\ s.at = r.at /\ s.end = r.end /\ s.offset = place
      /\ s.open = TRUE /\ s.item = FALSE
  <2> HIDE DEF place
  <2>1. s = [r EXCEPT !.open = TRUE, !.item = FALSE, !.offset = place]
    BY DEF place, Opened
  <2> QED
    BY <1>1, <1>3, <2>1 DEF ReaderType
<1> HIDE DEF place
<1>6. From("archived lines", bs, s) = place
  BY <1>5 DEF From
<1>7. IsReaderOf("archived lines", bs, s)
  BY <1>1, <1>5 DEF IsReaderOf
<1>8. IsRunning("archived lines", bs, s)
  BY <1>3, <1>5, <1>7 DEF IsRunning
<1>9. \A x : Waits("archived lines", bs, s, x) <=> Waits("archived lines", bs, r, x)
  BY <1>4, <1>5, <1>6 DEF Waits
<1> QED
  BY <1>5, <1>8, <1>9 DEF Moves

LEMMA ZipLineIsRead ==
  ASSUME NEW bs, IsInput("archived lines", bs), NEW r, IsRunning("archived lines", bs, r),
         r.open, NEW t, t = bs[r.blob][r.at + 1], r.offset < t.size,
         NEW s, s = AfterZipLine(r, t)
  PROVE  ReadsItem("archived lines", bs, r, s, <<r.blob, r.at + 1, r.offset>>)
<1> USE DEF AfterZipLine
<1>1. IsReaderOf("archived lines", bs, r) /\ r \in ReaderType /\ r.at < r.end
  BY DEF IsRunning, IsReaderOf
<1>2. /\ r.at \in Nat /\ r.end \in Nat /\ r.offset \in Nat /\ r.blob \in DOMAIN bs
      /\ r.at + 1 \in DOMAIN bs[r.blob] /\ IsText(t) /\ t.size \in Nat
  BY <1>1, ZipTexts DEF IsReaderOf
<1>3. r.offset \in LinesOf(t)
  BY DEF IsRunning
<1> DEFINE e == LineEnd(t, r.offset)
<1>4. /\ e \in Nat /\ e > r.offset /\ LineEnd(t, e - 1) = e
      /\ \A p \in LinesOf(t) : p > r.offset <=> p >= e
      /\ e < t.size => e \in LinesOf(t)
  BY <1>2, LineEndIs
<1>5. /\ s \in ReaderType /\ s.blob = r.blob /\ s.at = r.at /\ s.end = r.end /\ s.offset = e
      /\ s.open = r.open /\ s.item = TRUE
  <2> HIDE DEF e
  <2>1. s = [[r EXCEPT !.offset = e] EXCEPT !.item = TRUE]
    BY DEF e
  <2> QED
    BY <1>1, <1>4, <2>1 DEF ReaderType
<1> HIDE DEF e
<1>6. From("archived lines", bs, s) = e /\ From("archived lines", bs, r) = r.offset
  BY <1>5 DEF From
<1>7. IsRunning("archived lines", bs, s)
  <2>1. IsReaderOf("archived lines", bs, s)
    BY <1>1, <1>5 DEF IsReaderOf
  <2>2. AtBreak(bs[s.blob][s.at + 1], s.offset)
    <3>1. e > 0
      <4>1. r.offset < e
        BY <1>2, <1>4, OrderOfTwo
      <4> QED
        BY <1>2, <1>4, <4>1, OrderOfThree
    <3>2. AtBreak(t, e)
      BY <1>4, <3>1 DEF AtBreak
    <3> QED
      BY <1>5, <3>2
  <2> QED
    BY <1>1, <1>4, <1>5, <2>1, <2>2 DEF IsRunning
<1> DEFINE item == <<r.blob, r.at + 1, r.offset>>
<1>8. item[1] = r.blob /\ item[2] = r.at + 1 /\ item[3] = r.offset
  OBVIOUS
<1>9. Waits("archived lines", bs, r, item)
  <2>1. IsItem("archived lines", bs, item)
    BY <1>2, <1>3, <1>8 DEF IsItem
  <2>2. r.at < r.at + 1 /\ r.at + 1 <= r.end /\ r.offset <= r.offset
    BY <1>1, <1>2, OrderOfTwo
  <2> HIDE DEF item
  <2> QED
    BY <1>6, <1>8, <2>1, <2>2 DEF Waits
<1>10. ASSUME NEW x
       PROVE  Waits("archived lines", bs, s, x) <=>
                Waits("archived lines", bs, r, x) /\ x # item
  <2>1. CASE ~(IsItem("archived lines", bs, x) /\ x[1] = r.blob)
    BY <1>5, <2>1 DEF Waits
  <2>2. CASE IsItem("archived lines", bs, x) /\ x[1] = r.blob
    <3>1. x[2] = r.at + 1 => x[3] \in LinesOf(t)
      BY <2>2 DEF IsItem
    <3>2. x = item <=> x[2] = r.at + 1 /\ x[3] = r.offset
      <4>1. x = <<x[1], x[2], x[3]>> /\ x[1] = r.blob
        BY <2>2 DEF IsItem
      <4> DEFINE next == r.at + 1
      <4>2. item = <<r.blob, next, r.offset>>
        OBVIOUS
      <4> HIDE DEF item, next
      <4> DEFINE o == r.offset
      <4> DEFINE b == r.blob
      <4> HIDE DEF o, b
      <4>5. \A x2, x3 : <<b, x2, x3>> = <<b, next, o>> <=> x2 = next /\ x3 = o
        OBVIOUS
      <4>3. x = item <=> x[2] = next /\ x[3] = r.offset
        BY <4>1, <4>2, <4>5 DEF o, b
      <4> QED
        BY <4>3 DEF next
    <3> HIDE DEF item
    <3>3. \A p \in LinesOf(t) : e <= p <=> r.offset <= p /\ p # r.offset
      <4> SUFFICES ASSUME NEW p \in LinesOf(t)
                   PROVE  e <= p <=> r.offset <= p /\ p # r.offset
        OBVIOUS
      <4>1. p \in Nat /\ (p > r.offset <=> p >= e)
        BY <1>2, <1>4, LinesAre
      <4> QED
        BY <1>2, <1>4, <4>1, OrderOfTwo
    <3> QED
      BY <1>5, <1>6, <2>2, <3>1, <3>2, <3>3 DEF Waits
  <2> QED
    BY <2>1, <2>2
<1> QED
  BY <1>5, <1>7, <1>9, <1>10 DEF ReadsItem

LEMMA FileIsClosed ==
  ASSUME NEW bs, IsInput("archived lines", bs), NEW r, IsRunning("archived lines", bs, r),
         r.open, r.offset >= bs[r.blob][r.at + 1].size,
         NEW s, s = [r EXCEPT !.open = FALSE, !.item = FALSE, !.at = @ + 1, !.offset = 0]
  PROVE  Moves("archived lines", bs, r, s)
<1> DEFINE t == bs[r.blob][r.at + 1]
<1>1. IsReaderOf("archived lines", bs, r) /\ r \in ReaderType /\ r.at < r.end
  BY DEF IsRunning, IsReaderOf
<1>2. /\ r.at \in Nat /\ r.end \in Nat /\ r.offset \in Nat /\ r.blob \in DOMAIN bs
      /\ r.at + 1 \in DOMAIN bs[r.blob] /\ IsText(t) /\ t.size \in Nat
  BY <1>1, ZipTexts DEF IsReaderOf
<1>3. /\ s \in ReaderType /\ s.blob = r.blob /\ s.at = r.at + 1 /\ s.end = r.end /\ s.offset = 0
      /\ s.open = FALSE /\ s.item = FALSE
  <2> DEFINE next == r.at + 1
  <2>1. next \in Nat /\ s = [r EXCEPT !.open = FALSE, !.item = FALSE, !.at = next, !.offset = 0]
    BY <1>2, OrderOfTwo
  <2> HIDE DEF next
  <2>2. s \in ReaderType
    <3>1. 0 \in Nat
      OBVIOUS
    <3> QED
      BY ZenonT(30), <1>1, <2>1, <3>1, ReaderMoves
  <2>3. /\ s.blob = r.blob /\ s.at = next /\ s.end = r.end /\ s.offset = 0
        /\ s.open = FALSE /\ s.item = FALSE
    BY <1>1, <2>1 DEF ReaderType
  <2> QED
    BY <2>2, <2>3 DEF next
<1>4. IsRunning("archived lines", bs, s)
  BY <1>1, <1>3 DEF IsRunning, IsReaderOf
<1>5. From("archived lines", bs, s) = 0 /\ From("archived lines", bs, r) = r.offset
  BY <1>3 DEF From
<1>6. ASSUME NEW x
      PROVE  Waits("archived lines", bs, s, x) <=> Waits("archived lines", bs, r, x)
  <2>1. CASE ~(IsItem("archived lines", bs, x) /\ x[1] = r.blob)
    BY <1>3, <2>1 DEF Waits
  <2>2. CASE IsItem("archived lines", bs, x) /\ x[1] = r.blob
    <3>1. x[2] \in DOMAIN bs[r.blob] /\ x[3] \in LinesOf(bs[r.blob][x[2]])
      BY <2>2 DEF IsItem
    <3>2. x[2] \in Nat
      <4>1. DOMAIN bs[r.blob] = 1..Len(bs[r.blob])
        BY <1>2, TextsAre
      <4>2. x[2] \in 1..Len(bs[r.blob])
        BY <3>1, <4>1
      <4>3. Len(bs[r.blob]) \in Nat
        BY <1>2, TextsAre
      <4> QED
        BY <4>2, <4>3, UpToIsNat
    <3>3. x[3] \in Nat
      BY <1>2, <3>1, TextsAre, LinesAre
    <3>4. x[2] = r.at + 1 => ~(r.offset <= x[3])
      <4> SUFFICES ASSUME x[2] = r.at + 1 PROVE ~(r.offset <= x[3])
        OBVIOUS
      <4>1. x[3] \in LinesOf(t)
        BY <3>1
      <4>2. x[3] < t.size
        BY <1>2, <4>1, LinesAre
      <4> DEFINE p == x[3]
      <4> DEFINE size == t.size
      <4>3. p \in Nat /\ size \in Nat /\ p < size /\ r.offset >= size
        BY <1>2, <3>3, <4>2
      <4> DEFINE o == r.offset
      <4>4. o \in Nat /\ o >= size
        BY <1>2, <4>3
      <4> HIDE DEF p, size, o
      <4>5. ~(o <= p)
        BY <4>3, <4>4, OrderOfThree
      <4> QED
        BY <4>5 DEF p, o
    <3> DEFINE f == x[2]
    <3>5. r.at + 1 < f <=> r.at < f /\ f # r.at + 1
      <4>1. r.at \in Nat /\ f \in Nat
        BY <1>2, <3>2
      <4> HIDE DEF f
      <4> QED
        BY <4>1, OrderOfTwo
    <3>6. 0 <= x[3]
      BY <3>3, OrderOfTwo
    <3> QED
      BY <1>3, <1>5, <2>2, <3>4, <3>5, <3>6 DEF Waits
  <2> QED
    BY <2>1, <2>2
<1> QED
  BY <1>3, <1>4, <1>6 DEF Moves

(* The reader that a slice leaves as JSON has before it what this one has, *)
(* and at most the first line of a text again.                             *)
GoesOn(k, bs, r, w) ==
  /\ IsJson(k, bs, w) /\ w.blob = r.blob /\ w.end = r.end
  /\ \A x : Waits(k, bs, r, x) => Waits(k, bs, Started(k, w), x)
  /\ \A n, x : Waits(k, bs, Started(k, w), x) => Waits(k, bs, r, x) \/ Excused(k, bs, n, x)

LEMMA BlobReaderIs ==
  ASSUME NEW of \in Nat, NEW at \in Nat, NEW end \in Nat, NEW offset \in Nat, NEW k
  PROVE  LET w == BlobReader(of, at, end, offset)
             s == Started(k, w)
         IN  /\ w \in ReaderType /\ w.blob = of /\ w.at = at /\ w.end = end
             /\ w.offset = offset /\ ~w.skip /\ ~w.iterated /\ ~w.open /\ ~w.item
             /\ s.blob = of /\ s.at = at /\ s.end = end /\ s.offset = offset /\ ~s.open
             /\ s.skip <=> k = "lines" /\ at # 0
<1> DEFINE w == BlobReader(of, at, end, offset)
<1> DEFINE b == k = "lines" /\ at # 0
<1>1. /\ w \in ReaderType /\ w.blob = of /\ w.at = at /\ w.end = end
      /\ w.offset = offset /\ ~w.skip /\ ~w.iterated /\ ~w.open /\ ~w.item
  BY DEF BlobReader, ReaderType
<1>2. Started(k, w) = [w EXCEPT !.skip = b]
  BY <1>1 DEF Started
<1> HIDE DEF w
<1>3. DOMAIN w = {"blob", "at", "end", "offset", "skip", "iterated", "open", "item"}
  BY <1>1 DEF ReaderType
<1> DEFINE s == Started(k, w)
<1>4. /\ s.blob = of /\ s.at = at /\ s.end = end /\ s.offset = offset /\ s.open = w.open
      /\ s.skip = b
  <2> HIDE DEF b
  <2> QED
    BY <1>1, <1>2, <1>3
<1> QED
  BY <1>1, <1>4 DEF w

LEMMA LinesJson ==
  ASSUME NEW bs, IsInput("lines", bs), NEW r, IsRunning("lines", bs, r), r.item,
         NEW w, w = BlobReader(r.blob, IF r.iterated THEN JsonPlace(r.at) ELSE r.at, r.end, 0)
  PROVE  GoesOn("lines", bs, r, w)
<1> DEFINE t == bs[r.blob][1]
<1>1. /\ r \in ReaderType /\ r.blob \in DOMAIN bs /\ r.iterated /\ ~r.skip
      /\ AtBreak(t, r.at)
  BY DEF IsRunning, IsReaderOf
<1>2. r.at \in Nat /\ r.end \in Nat /\ r.blob \in Nat
  BY <1>1 DEF ReaderType
<1> DEFINE a == r.at - 1
<1>3. a \in Nat /\ r.at # 0 /\ LineEnd(t, a) = r.at /\ (a = 0 => r.at = 1)
  BY <1>1, <1>2 DEF AtBreak
<1>4. w = BlobReader(r.blob, a, r.end, 0)
  BY <1>1, <1>3 DEF JsonPlace
<1> HIDE DEF a
<1> DEFINE s == Started("lines", w)
<1>5. /\ w \in ReaderType /\ w.blob = r.blob /\ w.at = a /\ w.end = r.end
      /\ ~w.skip /\ ~w.iterated /\ ~w.open /\ ~w.item
      /\ s.blob = r.blob /\ s.at = a /\ s.end = r.end /\ (s.skip <=> a # 0)
  BY <1>2, <1>3, <1>4, BlobReaderIs
<1>6. IsJson("lines", bs, w)
  BY <1>1, <1>5 DEF IsJson, IsReaderOf
<1> HIDE DEF s
<1>7. From("lines", bs, r) = r.at
  BY <1>1 DEF From
<1>8. From("lines", bs, s) = IF a # 0 THEN r.at ELSE 0
  BY <1>3, <1>5 DEF From
<1>9. /\ IsText(t) /\ \A f \in DOMAIN bs[r.blob] : f = 1
  BY <1>1, TextsAre
<1>10. ASSUME NEW x, IsItem("lines", bs, x), x[1] = r.blob PROVE x[3] \in Nat /\ x[2] = 1
  <2>1. x[2] = 1 /\ x[3] \in LinesOf(t)
    BY <1>9, <1>10 DEF IsItem
  <2> QED
    BY <1>9, <2>1, LinesAre
<1>11. CASE a # 0
  BY <1>5, <1>6, <1>7, <1>8, <1>11 DEF GoesOn, Waits, s
<1>12. CASE a = 0
  <2>1. LineEnd(t, 0) = 1 /\ From("lines", bs, r) = 1 /\ From("lines", bs, s) = 0
    BY <1>3, <1>7, <1>8, <1>12
  <2>2. \A p \in Nat : 0 <= p /\ (1 <= p \/ p = 0)
    BY ZeroOrMore
  <2>3. \A x : Waits("lines", bs, r, x) => Waits("lines", bs, s, x)
    BY <1>5, <1>10, <2>1, <2>2 DEF Waits
  <2>4. ASSUME NEW n, NEW x, Waits("lines", bs, s, x)
        PROVE  Waits("lines", bs, r, x) \/ Excused("lines", bs, n, x)
    <3>1. /\ IsItem("lines", bs, x) /\ x[1] = r.blob /\ x[3] <= r.end
      BY <1>5, <2>4 DEF Waits
    <3>2. x[3] \in Nat /\ x[2] = 1
      BY <3>1, <1>10
    <3>3. CASE 1 <= x[3]
      BY <2>1, <3>1, <3>3 DEF Waits
    <3>4. CASE x[3] = 0
      BY <2>1, <3>1, <3>2, <3>4 DEF Excused
    <3> QED
      BY <2>2, <3>2, <3>3, <3>4
  <2> QED
    BY <1>5, <1>6, <2>3, <2>4 DEF GoesOn, s
<1> QED
  BY <1>11, <1>12

LEMMA FilesJson ==
  ASSUME NEW bs, IsInput("files", bs), NEW r, IsRunning("files", bs, r),
         NEW w, w = BlobReader(r.blob, r.at, r.end, 0)
  PROVE  GoesOn("files", bs, r, w)
<1>1. r \in ReaderType /\ r.blob \in DOMAIN bs /\ r.end <= Len(bs[r.blob])
  BY DEF IsRunning, IsReaderOf
<1>2. r.at \in Nat /\ r.end \in Nat /\ r.blob \in Nat /\ 0 \in Nat
  BY <1>1 DEF ReaderType
<1> DEFINE s == Started("files", w)
<1>3. /\ w \in ReaderType /\ w.blob = r.blob /\ w.at = r.at /\ w.end = r.end
      /\ ~w.skip /\ ~w.iterated /\ ~w.open /\ ~w.item
      /\ s.blob = r.blob /\ s.at = r.at /\ s.end = r.end
  BY <1>2, BlobReaderIs
<1>4. IsJson("files", bs, w)
  BY <1>1, <1>3 DEF IsJson, IsReaderOf
<1> HIDE DEF s
<1>5. \A x : Waits("files", bs, r, x) <=> Waits("files", bs, s, x)
  BY <1>3 DEF Waits
<1> QED
  BY <1>3, <1>4, <1>5 DEF GoesOn, s

LEMMA ArchivedLinesJson ==
  ASSUME NEW bs, IsInput("archived lines", bs), NEW r, IsRunning("archived lines", bs, r),
         r.item, NEW place, place = (IF r.open THEN JsonPlace(r.offset) ELSE r.offset),
         NEW w, w = BlobReader(r.blob, r.at, r.end, place)
  PROVE  GoesOn("archived lines", bs, r, w)
<1> DEFINE t == bs[r.blob][r.at + 1]
<1>1. /\ r \in ReaderType /\ r.blob \in DOMAIN bs /\ r.open /\ r.at < r.end
      /\ AtBreak(t, r.offset) /\ IsReaderOf("archived lines", bs, r) /\ r.end <= Len(bs[r.blob])
  BY DEF IsRunning, IsReaderOf
<1>2. /\ r.at \in Nat /\ r.end \in Nat /\ r.blob \in Nat /\ r.offset \in Nat
      /\ r.at + 1 \in DOMAIN bs[r.blob] /\ IsText(t)
  BY <1>1, ZipTexts DEF ReaderType
<1> DEFINE o == r.offset - 1
<1>3. o \in Nat /\ r.offset # 0 /\ LineEnd(t, o) = r.offset /\ (o = 0 => r.offset = 1)
  <2> DEFINE z == r.offset
  <2>1. z \in Nat /\ z > 0 /\ LineEnd(t, z - 1) = z
    BY <1>1, <1>2 DEF AtBreak
  <2> HIDE DEF z, t
  <2>2. z - 1 \in Nat /\ z # 0 /\ (z - 1 = 0 => z = 1)
    BY <2>1, BeforeOf
  <2> QED
    BY <2>1, <2>2 DEF z
<1>4. place = o
  BY <1>1, <1>3 DEF JsonPlace
<1> HIDE DEF o
<1> DEFINE s == Started("archived lines", w)
<1>5. /\ w \in ReaderType /\ w.blob = r.blob /\ w.at = r.at /\ w.end = r.end /\ w.offset = o
      /\ ~w.skip /\ ~w.iterated /\ ~w.open /\ ~w.item
      /\ s.blob = r.blob /\ s.at = r.at /\ s.end = r.end /\ s.offset = o /\ ~s.open
  <2>1. r.blob \in Nat /\ r.at \in Nat /\ r.end \in Nat /\ place \in Nat
    BY <1>2, <1>3, <1>4
  <2>2. s = Started("archived lines", w)
    OBVIOUS
  <2> HIDE DEF s
  <2>3. /\ w \in ReaderType /\ w.blob = r.blob /\ w.at = r.at /\ w.end = r.end
        /\ w.offset = place /\ ~w.skip /\ ~w.iterated /\ ~w.open /\ ~w.item
        /\ s.blob = r.blob /\ s.at = r.at /\ s.end = r.end /\ s.offset = place /\ ~s.open
    <3>1. /\ w \in ReaderType /\ w.blob = r.blob /\ w.at = r.at /\ w.end = r.end
          /\ w.offset = place /\ ~w.skip /\ ~w.iterated /\ ~w.open /\ ~w.item
      BY <2>1 DEF BlobReader, ReaderType
    <3>2. /\ s.blob = w.blob /\ s.at = w.at /\ s.end = w.end /\ s.offset = w.offset
          /\ s.open = w.open
      BY <2>2, <3>1 DEF Started, ReaderType
    <3> QED
      BY <3>1, <3>2
  <2> QED
    BY <1>4, <2>3
<1>6. IsJson("archived lines", bs, w)
  BY <1>1, <1>5 DEF IsJson, IsReaderOf
<1> HIDE DEF s
<1>7. From("archived lines", bs, r) = r.offset
  BY <1>1 DEF From
<1>8. From("archived lines", bs, s) = IF o # 0 THEN r.offset ELSE 0
  BY <1>3, <1>5 DEF From
<1>9. ASSUME NEW x, IsItem("archived lines", bs, x), x[1] = r.blob PROVE x[3] \in Nat
  <2>1. x[2] \in DOMAIN bs[r.blob] /\ x[3] \in LinesOf(bs[r.blob][x[2]])
    BY <1>9 DEF IsItem
  <2> QED
    BY <1>1, <2>1, TextsAre, LinesAre
<1>10. CASE o # 0
  <2>1. From("archived lines", bs, r) = From("archived lines", bs, s)
    BY <1>7, <1>8, <1>10
  <2>2. \A x : Waits("archived lines", bs, r, x) <=> Waits("archived lines", bs, s, x)
    BY <1>5, <2>1 DEF Waits
  <2> QED
    BY <1>5, <1>6, <2>2 DEF GoesOn, s
<1>11. CASE o = 0
  <2>1. /\ LineEnd(t, 0) = 1
        /\ From("archived lines", bs, r) = 1 /\ From("archived lines", bs, s) = 0
    BY <1>3, <1>7, <1>8, <1>11
  <2>2. \A p \in Nat : 0 <= p /\ (1 <= p \/ p = 0)
    BY ZeroOrMore
  <2>3. \A x : Waits("archived lines", bs, r, x) => Waits("archived lines", bs, s, x)
    BY <1>5, <1>9, <2>1, <2>2 DEF Waits
  <2>4. ASSUME NEW n, NEW x, Waits("archived lines", bs, s, x)
        PROVE  Waits("archived lines", bs, r, x) \/ Excused("archived lines", bs, n, x)
    <3>1. /\ IsItem("archived lines", bs, x) /\ x[1] = r.blob
          /\ r.at < x[2] /\ x[2] <= r.end
      BY <1>5, <2>4 DEF Waits
    <3>2. x[3] \in Nat
      BY <3>1, <1>9
    <3>3. CASE x[2] # r.at + 1 \/ 1 <= x[3]
      BY <2>1, <3>1, <3>3 DEF Waits
    <3>4. CASE x[3] = 0 /\ x[2] = r.at + 1
      BY <2>1, <3>1, <3>2, <3>4 DEF Excused
    <3> QED
      BY <2>2, <3>2, <3>3, <3>4
  <2> QED
    BY <1>5, <1>6, <2>3, <2>4 DEF GoesOn, s
<1> QED
  BY <1>10, <1>11

-----------------------------------------------------------------------------
(* How the input is dealt out.  A line is in one part, unless it is one    *)
(* that may be read twice.                                                 *)

PartDealt(k, bs, n, b, ws) ==
  /\ ws \in Seq(ReaderType)
  /\ \A i \in DOMAIN ws : IsJson(k, bs, ws[i]) /\ ws[i].blob = b
  /\ \A x : IsItem(k, bs, x) /\ x[1] = b =>
       \E i \in DOMAIN ws : Waits(k, bs, Started(k, ws[i]), x)
  /\ \A i, j \in DOMAIN ws : \A x :
       Waits(k, bs, Started(k, ws[i]), x) /\ Waits(k, bs, Started(k, ws[j]), x) /\ i # j =>
         Excused(k, bs, n, x)
Dealt(k, bs, n, ws) ==
  /\ ws \in Seq(ReaderType)
  /\ \A i \in DOMAIN ws : IsJson(k, bs, ws[i])
  /\ \A x : IsItem(k, bs, x) => \E i \in DOMAIN ws : Waits(k, bs, Started(k, ws[i]), x)
  /\ \A i, j \in DOMAIN ws : \A x :
       Waits(k, bs, Started(k, ws[i]), x) /\ Waits(k, bs, Started(k, ws[j]), x) /\ i # j =>
         Excused(k, bs, n, x)

LEMMA WaitsInBlob ==
  ASSUME NEW k, NEW bs, NEW w, IsJson(k, bs, w), NEW x, Waits(k, bs, Started(k, w), x)
  PROVE  x[1] = w.blob
<1>1. x[1] = Started(k, w).blob
  BY DEF Waits
<1> QED
  BY <1>1, StartedRuns

LEMMA FlatDealt ==
  ASSUME NEW k, NEW bs, NEW n, NEW ss \in Seq(Seq(ReaderType)), DOMAIN bs = 1..Len(ss),
         \A b \in DOMAIN bs : PartDealt(k, bs, n, b, ss[b])
  PROVE  Dealt(k, bs, n, FlattenSeq(ss))
<1> DEFINE ws == FlattenSeq(ss)
<1> DEFINE m == Len(ss)
<1>1. PICK place : ws \in Seq(ReaderType) /\ Placed(ss, m, ws, place)
  BY FlatPlaces
<1>2. m \in Nat /\ DOMAIN bs = 1..m /\ DOMAIN ws = 1..Len(ws)
  BY <1>1
<1> HIDE DEF ws, m
<1>3. ASSUME NEW p \in DOMAIN ws
      PROVE  /\ place[p][1] \in DOMAIN bs /\ place[p][2] \in DOMAIN ss[place[p][1]]
             /\ ws[p] = ss[place[p][1]][place[p][2]]
  BY <1>1, <1>2 DEF Placed
<1>4. ASSUME NEW p \in DOMAIN ws
      PROVE  IsJson(k, bs, ws[p]) /\ ws[p].blob = place[p][1]
  BY ZenonT(30), <1>3 DEF PartDealt
<1>5. ASSUME NEW p \in DOMAIN ws, NEW x, Waits(k, bs, Started(k, ws[p]), x)
      PROVE  x[1] = place[p][1]
  <2>1. IsJson(k, bs, ws[p]) /\ ws[p].blob = place[p][1]
    BY <1>4
  <2> QED
    BY <1>5, <2>1, WaitsInBlob
<1>6. ASSUME NEW x, IsItem(k, bs, x)
      PROVE  \E p \in DOMAIN ws : Waits(k, bs, Started(k, ws[p]), x)
  <2>1. x[1] \in DOMAIN bs
    BY <1>6 DEF IsItem
  <2>2. PICK i \in DOMAIN ss[x[1]] : Waits(k, bs, Started(k, ss[x[1]][i]), x)
    BY <1>6, <2>1 DEF PartDealt
  <2>3. PICK p \in DOMAIN ws : place[p] = <<x[1], i>>
    BY <1>1, <1>2, <2>1 DEF Placed
  <2>4. ws[p] = ss[x[1]][i]
    BY <1>3, <2>3
  <2> QED
    BY <2>2, <2>4
<1>7. ASSUME NEW p \in DOMAIN ws, NEW q \in DOMAIN ws, NEW x, p # q,
             Waits(k, bs, Started(k, ws[p]), x), Waits(k, bs, Started(k, ws[q]), x)
      PROVE  Excused(k, bs, n, x)
  <2> DEFINE b == place[p][1]
  <2> DEFINE i == place[p][2]
  <2> DEFINE j == place[q][2]
  <2>1. b = place[q][1]
    BY <1>5, <1>7
  <2>2. place[p] = <<b, i>> /\ place[q] = <<b, j>>
    <3>1. place[p] \in Nat \X Nat /\ place[q] \in Nat \X Nat
      BY <1>1, <1>2 DEF Placed
    <3> QED
      BY <2>1, <3>1
  <2>3. place[p] # place[q]
    BY <1>1, <1>2, <1>7 DEF Placed
  <2>4. i # j
    BY <2>2, <2>3
  <2>5. b \in DOMAIN bs /\ i \in DOMAIN ss[b] /\ j \in DOMAIN ss[b]
        /\ ws[p] = ss[b][i] /\ ws[q] = ss[b][j]
    BY <1>3, <2>1
  <2>6. PartDealt(k, bs, n, b, ss[b])
    BY <2>5
  <2> HIDE DEF b, i, j
  <2> QED
    BY <1>7, <2>4, <2>5, <2>6 DEF PartDealt
<1>8. Dealt(k, bs, n, ws)
  BY <1>1, <1>4, <1>6, <1>7 DEF Dealt
<1> QED
  BY <1>8 DEF ws

(* Chunks of a blob. *)
LEMMA ChunkPlaces ==
  ASSUME NEW size \in Nat, NEW m \in Nat \ {0}, NEW chunk, chunk = size \div m
  PROVE  /\ chunk \in Nat
         /\ \A i \in 0..m : chunk * i \in Nat /\ chunk * i <= size
         /\ \A i, j \in 0..m : i <= j => chunk * i <= chunk * j
         /\ \A j \in 1..m : chunk * j = 0 => size < m
<1>1. chunk \in Nat /\ chunk * m <= size /\ size < chunk * m + m
  OBVIOUS
<1>2. \A i, j \in 0..m : i <= j => chunk * i <= chunk * j
  BY <1>1
<1>3. \A i \in 0..m : chunk * i \in Nat
  BY <1>1
<1>4. \A i \in 0..m : chunk * i <= chunk * m
  BY <1>2
<1>5. ASSUME NEW j \in 1..m, chunk * j = 0 PROVE size < m
  <2>1. chunk = 0
    BY <1>1, <1>5
  <2>2. chunk * m = 0
    BY <2>1
  <2> QED
    BY <1>1, <2>2
<1> QED
  BY <1>1, <1>2, <1>3, <1>4, <1>5

(* BlobstoreLineInputReader.split_input, of one blob. *)
PerBlob(bs, n) == IF n \div Len(bs) = 0 THEN 1 ELSE n \div Len(bs)
Chunks(bs, n, b) ==
  LET size == bs[b][1].size
      chunk == size \div PerBlob(bs, n)
  IN  [i \in 1..PerBlob(bs, n) |->
         BlobReader(b, chunk * (i - 1), IF i = PerBlob(bs, n) THEN size ELSE chunk * i, 0)]

LEMMA SplitLinesIs ==
  SplitLines = FlattenSeq([b \in DOMAIN blobs' |-> Chunks(blobs', shardCount', b)])
  BY DEF SplitLines, ChunksOf, ShardsPerBlob, Chunks, PerBlob

LEMMA ChunksDealt ==
  ASSUME NEW bs, IsInput("lines", bs), NEW n \in Nat \ {0}, NEW b \in DOMAIN bs
  PROVE  PartDealt("lines", bs, n, b, Chunks(bs, n, b))
<1> DEFINE t == bs[b][1]
<1> DEFINE size == t.size
<1> DEFINE m == PerBlob(bs, n)
<1> DEFINE chunk == size \div m
<1> DEFINE at(i) == chunk * (i - 1)
<1> DEFINE end(i) == IF i = m THEN size ELSE chunk * i
<1> DEFINE ws == Chunks(bs, n, b)
<1>1. /\ IsText(t) /\ size \in Nat /\ 1 \in DOMAIN bs[b] /\ \A f \in DOMAIN bs[b] : f = 1
      /\ b \in Nat /\ Len(bs) \in Nat /\ Len(bs) # 0
  BY TextsAre
<1>2. m \in Nat \ {0} /\ (m > 1 => m <= n)
  <2> DEFINE len == Len(bs)
  <2>1. len \in Nat \ {0}
    BY <1>1
  <2> HIDE DEF len
  <2>2. n \div len \in Nat /\ n \div len <= n
    BY <2>1
  <2> QED
    BY <2>2 DEF PerBlob, len
<1>3. ws = [i \in 1..m |-> BlobReader(b, at(i), end(i), 0)]
  BY DEF Chunks
<1> HIDE DEF m
<1>4. /\ chunk \in Nat
      /\ \A i \in 0..m : chunk * i \in Nat /\ chunk * i <= size
      /\ \A i, j \in 0..m : i <= j => chunk * i <= chunk * j
      /\ \A j \in 1..m : chunk * j = 0 => size < m
  <2> HIDE DEF size
  <2> QED
    BY <1>1, <1>2, ChunkPlaces
<1> HIDE DEF chunk
<1>5. ASSUME NEW i \in 1..m
      PROVE  /\ at(i) \in Nat /\ end(i) \in Nat /\ at(i) <= end(i) /\ end(i) <= size
             /\ at(1) = 0 /\ end(m) = size
  <2>1. i - 1 \in 0..m /\ i \in 0..m /\ i - 1 <= i /\ 1 - 1 = 0 /\ 0 \in 0..m
    BY <1>2
  <2>2. chunk * 0 = 0
    BY <1>4
  <2> HIDE DEF size
  <2> QED
    BY <1>1, <1>4, <2>1, <2>2
<1>6. ASSUME NEW i \in 1..m, NEW j \in 1..m, i < j PROVE end(i) <= at(j)
  <2>1. i # m /\ i \in 0..m /\ j - 1 \in 0..m /\ i <= j - 1
    BY <1>2, <1>6
  <2> QED
    BY <1>4, <2>1
<1>7. ASSUME NEW i \in 1..m, at(i) = 0, i > 1 PROVE size < m
  <2>1. i - 1 \in 1..m
    BY <1>2, <1>7
  <2> QED
    BY <1>4, <1>7, <2>1
<1>8. ASSUME NEW p \in Nat, p < size PROVE \E i \in 1..m : (at(i) = 0 \/ at(i) < p) /\ p <= end(i)
  <2>1. CASE p = 0
    <3>1. 1 \in 1..m
      BY <1>2
    <3> QED
      BY <1>5, <2>1, <3>1
  <2>2. CASE p # 0
    <3> DEFINE a == [i \in 1..m + 1 |-> IF i = m + 1 THEN size ELSE at(i)]
    <3>1. a \in [1..m + 1 -> Nat]
      <4>1. \A i \in 1..m + 1 : i = m + 1 \/ i \in 1..m
        BY <1>2
      <4> HIDE DEF at, size
      <4> QED
        BY <1>1, <1>5, <4>1
    <3>2. a[1] = 0
      <4>1. 1 \in 1..m /\ 1 \in 1..m + 1 /\ 1 # m + 1
        BY <1>2
      <4> QED
        BY <1>5, <4>1
    <3>3. a[m + 1] = size
      <4>1. m + 1 \in 1..m + 1
        BY <1>2
      <4> QED
        BY <4>1
    <3>4. \A i \in 1..m : a[i] = at(i) /\ a[i + 1] = end(i)
      <4>1. ASSUME NEW i \in 1..m
            PROVE  i \in 1..m + 1 /\ i # m + 1 /\ i + 1 \in 1..m + 1 /\ (i + 1 = m + 1 <=> i = m)
                   /\ (i + 1) - 1 = i
        BY <1>2
      <4> QED
        BY <4>1
    <3> HIDE DEF a, at, end, size
    <3>5. p > 0 /\ p <= a[m + 1] /\ m \in Nat
      BY <1>1, <1>2, <1>8, <2>2, <3>3
    <3>6. \E i \in 1..m : a[i] < p /\ p <= a[i + 1]
      BY <3>1, <3>2, <3>5, CutIntoParts
    <3> QED
      BY <3>4, <3>6
  <2> QED
    BY <2>1, <2>2
<1> HIDE DEF at, end, size, ws
<1>9. ASSUME NEW i \in 1..m
      PROVE  /\ ws[i] \in ReaderType /\ IsJson("lines", bs, ws[i]) /\ ws[i].blob = b
             /\ \A x : Waits("lines", bs, Started("lines", ws[i]), x) <=>
                         /\ IsItem("lines", bs, x) /\ x[1] = b
                         /\ at(i) = 0 \/ at(i) < x[3]
                         /\ x[3] <= end(i)
  <2> DEFINE w == BlobReader(b, at(i), end(i), 0)
  <2> DEFINE s == Started("lines", w)
  <2>1. at(i) \in Nat /\ end(i) \in Nat /\ 0 \in Nat /\ b \in Nat
    BY <1>1, <1>5
  <2>2. /\ w \in ReaderType /\ w.blob = b /\ w.at = at(i) /\ w.end = end(i)
        /\ ~w.skip /\ ~w.iterated /\ ~w.open /\ ~w.item
        /\ s.blob = b /\ s.at = at(i) /\ s.end = end(i) /\ (s.skip <=> at(i) # 0)
    BY <2>1, BlobReaderIs
  <2>3. ws[i] = w
    BY <1>3
  <2> HIDE DEF w
  <2>4. IsJson("lines", bs, w)
    BY <2>2 DEF IsJson, IsReaderOf
  <2> HIDE DEF s
  <2>5. From("lines", bs, s) = IF at(i) # 0 THEN LineEnd(t, at(i)) ELSE at(i)
    BY <2>2 DEF From
  <2>6. ASSUME NEW x
        PROVE  Waits("lines", bs, s, x) <=> /\ IsItem("lines", bs, x) /\ x[1] = b
                                            /\ at(i) = 0 \/ at(i) < x[3]
                                            /\ x[3] <= end(i)
    <3>1. CASE ~(IsItem("lines", bs, x) /\ x[1] = b)
      BY <2>2, <3>1 DEF Waits
    <3>2. CASE IsItem("lines", bs, x) /\ x[1] = b
      <4>1. x[3] \in LinesOf(t)
        BY <1>1, <3>2 DEF IsItem
      <4>2. x[3] \in Nat
        BY <1>1, <4>1, LinesAre
      <4>3. x[3] > at(i) <=> x[3] >= LineEnd(t, at(i))
        BY <1>1, <2>1, <4>1, LineEndIs
      <4>4. LineEnd(t, at(i)) \in Nat
        BY <1>1, <2>1, LineEndIs
      <4>5. at(i) # 0 => (at(i) < x[3] <=> LineEnd(t, at(i)) <= x[3])
        BY <2>1, <4>2, <4>3, <4>4, OrderOfTwo
      <4>6. 0 <= x[3]
        BY <4>2, OrderOfTwo
      <4> QED
        BY <2>2, <2>5, <3>2, <4>5, <4>6 DEF Waits
    <3> QED
      BY <3>1, <3>2
  <2> QED
    BY <2>2, <2>3, <2>4, <2>6 DEF s
<1>10. DOMAIN ws = 1..m /\ ws \in Seq(ReaderType)
  <2>1. DOMAIN ws = 1..m /\ ws = [i \in 1..m |-> ws[i]]
    BY <1>3
  <2>2. \A i \in 1..m : ws[i] \in ReaderType
    BY <1>9
  <2>3. m \in Nat
    BY <1>2
  <2> QED
    BY <2>1, <2>2, <2>3
<1>11. ASSUME NEW x, IsItem("lines", bs, x), x[1] = b
       PROVE  \E i \in DOMAIN ws : Waits("lines", bs, Started("lines", ws[i]), x)
  <2>1. x[3] \in LinesOf(t)
    BY <1>1, <1>11 DEF IsItem
  <2>2. x[3] \in Nat /\ x[3] < size
    BY <1>1, <2>1, LinesAre DEF size
  <2>3. PICK i \in 1..m : (at(i) = 0 \/ at(i) < x[3]) /\ x[3] <= end(i)
    BY <1>8, <2>2
  <2> QED
    BY <1>9, <1>10, <1>11, <2>3
<1>12. ASSUME NEW i \in 1..m, NEW j \in 1..m, i < j, NEW x,
              Waits("lines", bs, Started("lines", ws[i]), x),
              Waits("lines", bs, Started("lines", ws[j]), x)
       PROVE  Excused("lines", bs, n, x)
  <2>1. /\ IsItem("lines", bs, x) /\ x[1] = b /\ x[3] <= end(i)
        /\ at(j) = 0 \/ at(j) < x[3]
    BY <1>9, <1>12
  <2>2. x[3] \in LinesOf(t) /\ x[2] = 1
    BY <1>1, <2>1 DEF IsItem
  <2> DEFINE p == x[3]
  <2>3. p \in Nat
    BY <1>1, <2>2, LinesAre
  <2>4. end(i) <= at(j) /\ end(i) \in Nat /\ at(j) \in Nat
    BY <1>5, <1>6, <1>12
  <2>5. p <= end(i) /\ (at(j) = 0 \/ at(j) < p)
    BY <2>1
  <2> HIDE DEF p
  <2>6. at(j) = 0 /\ p = 0
    BY <2>3, <2>4, <2>5
  <2>7. size < m /\ m > 1
    BY <1>2, <1>7, <1>12, <2>6
  <2>8. size < n
    BY <1>1, <1>2, <2>7
  <2> QED
    BY <2>1, <2>2, <2>6, <2>8 DEF Excused, p, size
<1>13. ASSUME NEW i \in DOMAIN ws, NEW j \in DOMAIN ws, NEW x, i # j,
              Waits("lines", bs, Started("lines", ws[i]), x),
              Waits("lines", bs, Started("lines", ws[j]), x)
       PROVE  Excused("lines", bs, n, x)
  <2>1. i < j \/ j < i
    BY <1>2, <1>10, <1>13
  <2> QED
    BY <1>10, <1>12, <1>13, <2>1
<1> QED
  BY <1>9, <1>10, <1>11, <1>13 DEF PartDealt, ws

LEMMA LinesDealt ==
  ASSUME NEW bs, IsInput("lines", bs), NEW n \in Nat \ {0}
  PROVE  Dealt("lines", bs, n, FlattenSeq([b \in DOMAIN bs |-> Chunks(bs, n, b)]))
<1> DEFINE ss == [b \in DOMAIN bs |-> Chunks(bs, n, b)]
<1>1. \A b \in DOMAIN bs : PartDealt("lines", bs, n, b, ss[b])
  BY ChunksDealt
<1>2. DOMAIN bs = 1..Len(bs) /\ Len(bs) \in Nat
  BY DEF IsInput
<1>3. ss \in Seq(Seq(ReaderType)) /\ Len(ss) = Len(bs)
  <2>1. \A b \in 1..Len(bs) : ss[b] \in Seq(ReaderType)
    BY <1>1, <1>2 DEF PartDealt
  <2>2. ss = [b \in 1..Len(bs) |-> ss[b]]
    BY <1>2
  <2> HIDE DEF ss
  <2> DEFINE S == Seq(ReaderType)
  <2> HIDE DEF S
  <2>3. ss \in Seq(S) /\ Len(ss) = Len(bs)
    BY <1>2, <2>1, <2>2 DEF S
  <2> QED
    BY <2>3 DEF S
<1> HIDE DEF ss
<1>4. Dealt("lines", bs, n, FlattenSeq(ss))
  BY <1>1, <1>2, <1>3, FlatDealt
<1> QED
  BY <1>4 DEF ss

(* Places that begin at 0 and grow, up to the last. *)
Cuts(all, last) ==
  /\ all \in Seq(Nat) /\ Len(all) > 0 /\ all[1] = 0 /\ all[Len(all)] = last
  /\ \A i, j \in 1..Len(all) : i < j => all[i] < all[j]

LEMMA CutsAre ==
  ASSUME NEW all, NEW last, Cuts(all, last)
  PROVE  \E m \in Nat :
           /\ Len(all) = m + 1 /\ Len(all) - 1 = m /\ all \in [1..m + 1 -> Nat]
           /\ all[1] = 0 /\ all[m + 1] = last /\ last \in Nat
           /\ \A i \in 1..m : all[i] \in Nat /\ all[i + 1] \in Nat /\ all[i + 1] <= last
           /\ \A i, j \in 1..m : i < j => all[i + 1] <= all[j]
<1>1. PICK m : m = Len(all) - 1
  OBVIOUS
<1>2. all \in Seq(Nat) /\ Len(all) > 0 /\ all[1] = 0 /\ all[Len(all)] = last
  BY DEF Cuts
<1>3. m \in Nat /\ Len(all) = m + 1
  BY <1>1, <1>2
<1>4. all \in [1..m + 1 -> Nat]
  BY <1>2, <1>3
<1>5. ASSUME NEW i \in 1..m PROVE i \in 1..m + 1 /\ i + 1 \in 1..m + 1 /\ i + 1 <= m + 1
  BY <1>3
<1>6. m + 1 \in 1..m + 1
  BY <1>3
<1>7. \A i \in 1..m + 1 : all[i] \in Nat
  BY <1>4
<1>8. \A i, j \in 1..m + 1 : i < j => all[i] < all[j]
  BY <1>3 DEF Cuts
<1>9. ASSUME NEW i \in 1..m + 1, NEW j \in 1..m + 1, i <= j PROVE all[i] <= all[j]
  <2>1. i = j \/ i < j
    BY <1>3, <1>9
  <2>2. all[i] \in Nat /\ all[j] \in Nat
    BY <1>7
  <2>3. CASE i < j
    <3>1. all[i] < all[j]
      BY <1>8, <2>3
    <3> QED
      BY <2>2, <3>1
  <2> QED
    BY <2>1, <2>2, <2>3
<1>10. \A i \in 1..m : all[i] \in Nat /\ all[i + 1] \in Nat /\ all[i + 1] <= all[m + 1]
  BY <1>5, <1>6, <1>7, <1>9
<1>11. ASSUME NEW i \in 1..m, NEW j \in 1..m, i < j PROVE all[i + 1] <= all[j]
  <2>1. i + 1 <= j
    BY <1>3, <1>11
  <2> QED
    BY <1>5, <1>9, <2>1
<1>12. all[m + 1] = last /\ last \in Nat
  BY <1>2, <1>3, <1>6, <1>7
<1>13. Len(all) - 1 = m
  BY <1>1
<1> QED
  BY <1>2, <1>3, <1>4, <1>10, <1>11, <1>12, <1>13

(* Groups of the files of an archive. *)
Parts(b, all) == [i \in 1..Len(all) - 1 |-> BlobReader(b, all[i], all[i + 1], 0)]

IsPart(k, bs, b, at, end, w) ==
  /\ w \in ReaderType /\ IsJson(k, bs, w) /\ w.blob = b
  /\ \A x : Waits(k, bs, Started(k, w), x) <=>
              IsItem(k, bs, x) /\ x[1] = b /\ at < x[2] /\ x[2] <= end

LEMMA PartIs ==
  ASSUME NEW k, k # "lines", NEW bs, IsInput(k, bs), NEW b \in DOMAIN bs,
         NEW at \in Nat, NEW end \in Nat, end <= Len(bs[b]),
         NEW w, w = BlobReader(b, at, end, 0)
  PROVE  IsPart(k, bs, b, at, end, w)
<1> DEFINE s == Started(k, w)
<1>1. b \in Nat /\ 0 \in Nat
  BY TextsAre
<1>2. /\ w \in ReaderType /\ w.blob = b /\ w.at = at /\ w.end = end /\ w.offset = 0
      /\ ~w.skip /\ ~w.iterated /\ ~w.open /\ ~w.item
  BY <1>1 DEF BlobReader, ReaderType
<1>3. s.blob = b /\ s.at = at /\ s.end = end /\ s.offset = 0
  BY <1>2 DEF Started, ReaderType
<1>4. IsJson(k, bs, w)
  BY <1>2 DEF IsJson, IsReaderOf
<1> HIDE DEF s
<1>5. From(k, bs, s) = 0
  BY <1>3 DEF From
<1>6. ASSUME NEW x
      PROVE  Waits(k, bs, s, x) <=> IsItem(k, bs, x) /\ x[1] = b /\ at < x[2] /\ x[2] <= end
  <2>1. CASE ~(IsItem(k, bs, x) /\ x[1] = b)
    BY <1>3, <2>1 DEF Waits
  <2>2. CASE IsItem(k, bs, x) /\ x[1] = b
    <3>1. x[2] \in DOMAIN bs[b] /\ (k # "files" => x[3] \in LinesOf(bs[b][x[2]]))
      BY <2>2 DEF IsItem
    <3>2. k # "files" => x[3] \in Nat
      BY <3>1, TextsAre, LinesAre
    <3>3. k # "files" => 0 <= x[3]
      BY <3>2, OrderOfTwo
    <3> QED
      BY <1>3, <1>5, <2>2, <3>3 DEF Waits
  <2> QED
    BY <2>1, <2>2
<1> QED
  BY <1>2, <1>4, <1>6 DEF s, IsPart

LEMMA GroupsDealt ==
  ASSUME NEW k, k # "lines", NEW bs, IsInput(k, bs), NEW n, NEW b \in DOMAIN bs,
         NEW all, NEW last, Cuts(all, last), last <= Len(bs[b]),
         \A x : IsItem(k, bs, x) /\ x[1] = b => x[2] <= last
  PROVE  PartDealt(k, bs, n, b, Parts(b, all))
<1> DEFINE ws == Parts(b, all)
<1>1. PICK m \in Nat :
        /\ Len(all) = m + 1 /\ Len(all) - 1 = m /\ all \in [1..m + 1 -> Nat]
        /\ all[1] = 0 /\ all[m + 1] = last /\ last \in Nat
        /\ \A i \in 1..m : all[i] \in Nat /\ all[i + 1] \in Nat /\ all[i + 1] <= last
        /\ \A i, j \in 1..m : i < j => all[i + 1] <= all[j]
  BY CutsAre
<1>2. /\ b \in Nat /\ Len(bs[b]) \in Nat /\ DOMAIN bs[b] = 1..Len(bs[b])
  BY TextsAre
<1>3. ws = [i \in 1..m |-> BlobReader(b, all[i], all[i + 1], 0)]
  BY <1>1 DEF Parts
<1> HIDE DEF ws
<1>4. ASSUME NEW i \in 1..m
      PROVE  /\ ws[i] \in ReaderType /\ IsJson(k, bs, ws[i]) /\ ws[i].blob = b
             /\ \A x : Waits(k, bs, Started(k, ws[i]), x) <=>
                         IsItem(k, bs, x) /\ x[1] = b /\ all[i] < x[2] /\ x[2] <= all[i + 1]
  <2>1. all[i] \in Nat /\ all[i + 1] \in Nat /\ all[i + 1] <= last
    BY <1>1
  <2>2. PICK at, end : at = all[i] /\ end = all[i + 1]
    OBVIOUS
  <2>3. at \in Nat /\ end \in Nat /\ end <= last /\ last \in Nat /\ Len(bs[b]) \in Nat
    BY <1>1, <1>2, <2>1, <2>2
  <2>4. end <= Len(bs[b])
    <3> DEFINE len == Len(bs[b])
    <3>1. len \in Nat /\ last <= len
      BY <2>3
    <3> HIDE DEF len
    <3>2. end <= len
      BY <2>3, <3>1, Between
    <3> QED
      BY <3>2 DEF len
  <2>5. ws[i] = BlobReader(b, at, end, 0)
    BY <1>3, <2>2
  <2>6. PICK w : w = ws[i]
    OBVIOUS
  <2>7. w = BlobReader(b, at, end, 0) /\ at \in Nat /\ end \in Nat
    BY <2>3, <2>5, <2>6
  <2>8. IsPart(k, bs, b, at, end, w)
    BY <2>4, <2>7, PartIs
  <2> QED
    BY <2>2, <2>6, <2>8 DEF IsPart
<1>5. DOMAIN ws = 1..m /\ ws \in Seq(ReaderType)
  <2>1. DOMAIN ws = 1..m /\ ws = [i \in 1..m |-> ws[i]]
    BY <1>3
  <2>2. \A i \in 1..m : ws[i] \in ReaderType
    BY <1>4
  <2> QED
    BY <2>1, <2>2, IsASequence
<1>6. ASSUME NEW x, IsItem(k, bs, x), x[1] = b PROVE x[2] \in Nat /\ x[2] > 0
  <2>1. x[2] \in 1..Len(bs[b])
    BY <1>2, <1>6 DEF IsItem
  <2> QED
    BY <1>2, <2>1, UpToIsNat, OrderOfThree
<1>7. ASSUME NEW x, IsItem(k, bs, x), x[1] = b
      PROVE  \E i \in DOMAIN ws : Waits(k, bs, Started(k, ws[i]), x)
  <2>1. PICK f : f = x[2]
    OBVIOUS
  <2>2. f \in Nat /\ f > 0 /\ f <= all[m + 1]
    BY <1>1, <1>6, <1>7, <2>1
  <2>3. \E i \in 1..m : all[i] < f /\ f <= all[i + 1]
    BY <1>1, <2>2, CutIntoParts
  <2>4. PICK i \in 1..m : all[i] < x[2] /\ x[2] <= all[i + 1]
    BY <2>1, <2>3
  <2> QED
    BY <1>4, <1>5, <1>7, <2>4
<1>8. ASSUME NEW i \in 1..m, NEW j \in 1..m, i < j, NEW x,
             Waits(k, bs, Started(k, ws[i]), x), Waits(k, bs, Started(k, ws[j]), x)
      PROVE  FALSE
  <2>1. IsItem(k, bs, x) /\ x[1] = b /\ x[2] <= all[i + 1] /\ all[j] < x[2]
    BY <1>4, <1>8
  <2>2. x[2] \in Nat /\ all[i + 1] \in Nat /\ all[j] \in Nat /\ all[i + 1] <= all[j]
    BY <1>1, <1>6, <1>8, <2>1
  <2>3. x[2] <= all[j]
    BY <2>1, <2>2, Between
  <2> QED
    BY <2>1, <2>2, <2>3, OrderOfTwo
<1>9. ASSUME NEW i \in DOMAIN ws, NEW j \in DOMAIN ws, NEW x, i # j,
              Waits(k, bs, Started(k, ws[i]), x), Waits(k, bs, Started(k, ws[j]), x)
       PROVE  Excused(k, bs, n, x)
  <2>1. i < j \/ j < i
    BY <1>5, <1>9, OneIsFirst
  <2> QED
    BY <1>5, <1>8, <1>9, <2>1
<1> QED
  BY <1>4, <1>5, <1>7, <1>9 DEF PartDealt, ws

(* The last place of the groups, when what is left over is one more. *)
LEMMA GroupsEnd ==
  ASSUME NEW starts, NEW last, Cuts(starts, last), NEW len \in Nat, last < len
  PROVE  Cuts(Append(starts, len), len)
<1> DEFINE all == Append(starts, len)
<1>1. PICK m \in Nat :
        /\ Len(starts) = m + 1 /\ Len(starts) - 1 = m /\ starts \in [1..m + 1 -> Nat]
        /\ starts[1] = 0 /\ starts[m + 1] = last /\ last \in Nat
        /\ \A i \in 1..m : starts[i] \in Nat /\ starts[i + 1] \in Nat /\ starts[i + 1] <= last
        /\ \A i, j \in 1..m : i < j => starts[i + 1] <= starts[j]
  BY CutsAre
<1>2. starts \in Seq(Nat) /\ \A i, j \in 1..m + 1 : i < j => starts[i] < starts[j]
  BY <1>1 DEF Cuts
<1>3. /\ all \in Seq(Nat) /\ Len(all) = m + 2 /\ all[m + 2] = len
      /\ \A i \in 1..m + 1 : all[i] = starts[i]
  BY <1>1, <1>2
<1> HIDE DEF all
<1>4. 1 \in 1..m + 1 /\ m + 1 \in 1..m + 1 /\ m + 2 > 0
  BY <1>1
<1>5. ASSUME NEW i \in 1..m + 1 PROVE starts[i] <= last
  <2>1. i = m + 1 \/ i < m + 1
    BY <1>1
  <2>2. starts[i] \in Nat /\ starts[m + 1] \in Nat
    BY <1>1, <1>4
  <2> QED
    BY <1>1, <1>2, <1>4, <2>1, <2>2
<1>6. ASSUME NEW i \in 1..m + 2, NEW j \in 1..m + 2, i < j PROVE all[i] < all[j]
  <2>1. i \in 1..m + 1 /\ (j = m + 2 \/ j \in 1..m + 1)
    BY <1>1, <1>6
  <2>2. starts[i] \in Nat
    BY <1>1, <2>1
  <2>3. CASE j = m + 2
    <3>1. starts[i] <= last /\ last \in Nat
      BY <1>1, <1>5, <2>1
    <3>2. starts[i] < len
      BY <2>2, <3>1
    <3> QED
      BY <1>3, <2>1, <2>3, <3>2
  <2>4. CASE j \in 1..m + 1
    BY <1>2, <1>3, <1>6, <2>1, <2>4
  <2> QED
    BY <2>1, <2>3, <2>4
<1> QED
  BY <1>1, <1>3, <1>4, <1>6 DEF Cuts, all

(* BlobstoreZipInputReader.split_input: the places at which files are cut. *)
FilePlaces(files, most) ==
  LET starts == Group(files, most).starts
  IN  IF Last(starts) # Len(files) THEN Append(starts, Len(files)) ELSE starts
ArchivePlaces(files, most) ==
  LET g == Group(files, most)
  IN  IF g.size # 0 THEN Append(g.starts, Len(files)) ELSE g.starts

LEMMA SplitFilesIs ==
  SplitFiles = Parts(1, FilePlaces(blobs'[1], SizeOf(blobs'[1]) \div shardCount'))
  BY DEF SplitFiles, Parts, FilePlaces

LEMMA SplitArchivesIs ==
  \E most : SplitArchives = FlattenSeq([b \in DOMAIN blobs' |->
                                          Parts(b, ArchivePlaces(blobs'[b], most))])
<1> DEFINE total == FoldLeft(LAMBDA n, files : n + SizeOf(files), 0, blobs')
<1>1. SplitArchives
        = FlattenSeq([b \in DOMAIN blobs' |-> SplitArchive(b, total \div shardCount')])
  BY DEF SplitArchives
<1>2. PICK most : most = total \div shardCount'
  OBVIOUS
<1>3. \A b : SplitArchive(b, most) = Parts(b, ArchivePlaces(blobs'[b], most))
  BY DEF SplitArchive, Parts, ArchivePlaces
<1>4. [b \in DOMAIN blobs' |-> SplitArchive(b, most)]
        = [b \in DOMAIN blobs' |-> Parts(b, ArchivePlaces(blobs'[b], most))]
  BY <1>3
<1> HIDE DEF total
<1>5. SplitArchives = FlattenSeq([b \in DOMAIN blobs' |-> SplitArchive(b, most)])
  BY <1>1, <1>2
<1> QED
  BY <1>4, <1>5

LEMMA FilesInOrder ==
  ASSUME NEW files \in Seq([size : Nat, breaks : SUBSET Nat]), NEW most,
         NEW g, g = Group(files, most)
  PROVE  \E last \in Nat : /\ Cuts(g.starts, last) /\ last <= Len(files)
                           /\ Len(files) \in Nat /\ g.size \in Nat
                           /\ last = g.starts[Len(g.starts)]
                           /\ g.size # 0 => last < Len(files)
                           /\ g.size = 0 => \A f \in 1..Len(files) : f > last => files[f].size = 0
<1>1. IsGroups(files, Len(files), g)
  BY GroupsOf
<1>2. PICK n : n = Len(files) /\ n \in Nat
  OBVIOUS
<1>3. /\ g.starts \in Seq(Nat) /\ Len(g.starts) > 0 /\ g.starts[1] = 0
      /\ \A i, j \in 1..Len(g.starts) : i < j => g.starts[i] < g.starts[j]
      /\ g.starts[Len(g.starts)] <= n /\ g.size \in Nat
      /\ g.size > 0 => g.starts[Len(g.starts)] < n
      /\ g.size = 0 => \A f \in 1..n : f > g.starts[Len(g.starts)] => files[f].size = 0
  BY <1>1, <1>2 DEF IsGroups
<1>4. PICK last : last = g.starts[Len(g.starts)]
  OBVIOUS
<1>5. Cuts(g.starts, last)
  BY <1>3, <1>4 DEF Cuts
<1>6. PICK m \in Nat : last \in Nat
  BY <1>5, CutsAre
<1>7. g.size # 0 => g.size > 0
  BY <1>3
<1> QED
  BY <1>2, <1>3, <1>4, <1>5, <1>6, <1>7

LEMMA FilesDealt ==
  ASSUME NEW bs, IsInput("files", bs), NEW n, NEW most
  PROVE  Dealt("files", bs, n, Parts(1, FilePlaces(bs[1], most)))
<1>1. 1 \in DOMAIN bs /\ \A b \in DOMAIN bs : b = 1
  BY DEF IsInput
<1>2. bs[1] \in Seq([size : Nat, breaks : SUBSET Nat])
  BY <1>1 DEF IsInput
<1>3. PICK g : g = Group(bs[1], most)
  OBVIOUS
<1>4. PICK last \in Nat :
         /\ Cuts(g.starts, last) /\ last <= Len(bs[1]) /\ Len(bs[1]) \in Nat
         /\ last = g.starts[Len(g.starts)]
  BY <1>2, <1>3, FilesInOrder
<1>5. PICK len \in Nat : len = Len(bs[1])
  BY <1>4
<1>6. PICK all : all = FilePlaces(bs[1], most)
  OBVIOUS
<1>7. all = IF last # len THEN Append(g.starts, len) ELSE g.starts
  BY <1>3, <1>4, <1>5, <1>6 DEF FilePlaces, Last
<1>8. Cuts(all, len)
  <2>1. CASE last # len
    <3>1. last < len
      BY <1>4, <1>5, <2>1
    <3> QED
      BY <1>4, <1>7, <2>1, <3>1, GroupsEnd
  <2>2. CASE last = len
    BY <1>4, <1>7, <2>2
  <2> QED
    BY <2>1, <2>2
<1>9. ASSUME NEW x, IsItem("files", bs, x), x[1] = 1 PROVE x[2] <= len
  <2>1. x[2] \in DOMAIN bs[1]
    BY <1>9 DEF IsItem
  <2>2. x[2] \in 1..len
    BY <1>1, <1>5, <2>1, TextsAre
  <2> QED
    BY <2>2
<1>10. len <= Len(bs[1])
  BY <1>5
<1>11. PartDealt("files", bs, n, 1, Parts(1, all))
  BY <1>1, <1>8, <1>9, <1>10, GroupsDealt
<1>12. \A x : IsItem("files", bs, x) => x[1] = 1
  BY <1>1 DEF IsItem
<1>13. Dealt("files", bs, n, Parts(1, all))
  BY <1>11, <1>12 DEF PartDealt, Dealt
<1> QED
  BY <1>6, <1>13

LEMMA ArchiveDealt ==
  ASSUME NEW k, k # "lines", k # "files", NEW bs, IsInput(k, bs), NEW n, NEW most,
         NEW b \in DOMAIN bs
  PROVE  PartDealt(k, bs, n, b, Parts(b, ArchivePlaces(bs[b], most)))
<1>1. bs[b] \in Seq([size : Nat, breaks : SUBSET Nat])
  BY TextsAre
<1>2. PICK g : g = Group(bs[b], most)
  OBVIOUS
<1>3. PICK last \in Nat :
        /\ Cuts(g.starts, last) /\ last <= Len(bs[b]) /\ Len(bs[b]) \in Nat /\ g.size \in Nat
        /\ g.size # 0 => last < Len(bs[b])
        /\ g.size = 0 => \A f \in 1..Len(bs[b]) : f > last => bs[b][f].size = 0
  BY <1>1, <1>2, FilesInOrder
<1>4. PICK all : all = ArchivePlaces(bs[b], most)
  OBVIOUS
<1>5. all = IF g.size # 0 THEN Append(g.starts, Len(bs[b])) ELSE g.starts
  BY <1>2, <1>4 DEF ArchivePlaces
<1>6. ASSUME NEW x, IsItem(k, bs, x), x[1] = b
      PROVE  x[2] \in 1..Len(bs[b]) /\ bs[b][x[2]].size # 0
  <2>1. x[2] \in DOMAIN bs[b] /\ x[3] \in LinesOf(bs[b][x[2]])
    BY <1>6 DEF IsItem
  <2>2. IsText(bs[b][x[2]]) /\ bs[b][x[2]].size \in Nat /\ DOMAIN bs[b] = 1..Len(bs[b])
    BY <2>1, TextsAre
  <2>3. x[3] \in Nat /\ x[3] < bs[b][x[2]].size
    BY <2>1, <2>2, LinesAre
  <2>4. bs[b][x[2]].size # 0
    BY <2>2, <2>3
  <2> QED
    BY <2>1, <2>2, <2>4
<1>7. CASE g.size # 0
  <2>1. PICK len \in Nat : len = Len(bs[b])
    BY <1>3
  <2>2. Cuts(all, len)
    BY <1>3, <1>5, <1>7, <2>1, GroupsEnd
  <2>3. \A x : IsItem(k, bs, x) /\ x[1] = b => x[2] <= len
    BY <1>6, <2>1
  <2>4. len <= Len(bs[b]) /\ k # "lines"
    BY <2>1
  <2>5. PartDealt(k, bs, n, b, Parts(b, all))
    BY <2>2, <2>3, <2>4, GroupsDealt
  <2> QED
    BY <1>4, <2>5
<1>8. CASE g.size = 0
  <2>1. Cuts(all, last)
    BY <1>3, <1>5, <1>8
  <2>2. ASSUME NEW x, IsItem(k, bs, x), x[1] = b PROVE x[2] <= last
    <3>1. ~(x[2] > last)
      BY <1>3, <1>6, <1>8, <2>2
    <3>2. x[2] \in Nat
      BY <1>3, <1>6, <2>2
    <3> QED
      BY <3>1, <3>2
  <2>3. last <= Len(bs[b]) /\ k # "lines"
    BY <1>3
  <2>4. PartDealt(k, bs, n, b, Parts(b, all))
    BY <2>1, <2>2, <2>3, GroupsDealt
  <2> QED
    BY <1>4, <2>4
<1> QED
  BY <1>7, <1>8

LEMMA ArchivesDealt ==
  ASSUME NEW k, k # "lines", k # "files", NEW bs, IsInput(k, bs), NEW n, NEW most
  PROVE  Dealt(k, bs, n, FlattenSeq([b \in DOMAIN bs |-> Parts(b, ArchivePlaces(bs[b], most))]))
<1> DEFINE ss == [b \in DOMAIN bs |-> Parts(b, ArchivePlaces(bs[b], most))]
<1>1. DOMAIN bs = 1..Len(bs) /\ Len(bs) \in Nat
  BY InputIs
<1>2. \A b \in DOMAIN bs : PartDealt(k, bs, n, b, Parts(b, ArchivePlaces(bs[b], most)))
  BY ArchiveDealt
<1>3. \A b \in DOMAIN bs : PartDealt(k, bs, n, b, ss[b])
  BY <1>2
<1>4. ss \in Seq(Seq(ReaderType)) /\ Len(ss) = Len(bs)
  <2> DEFINE S == Seq(ReaderType)
  <2>1. \A b \in 1..Len(bs) : ss[b] \in S
    BY <1>1, <1>3 DEF PartDealt
  <2>2. ss = [b \in 1..Len(bs) |-> ss[b]]
    BY <1>1
  <2> HIDE DEF ss, S
  <2>3. ss \in Seq(S) /\ Len(ss) = Len(bs)
    BY <1>1, <2>1, <2>2, IsASequence
  <2> QED
    BY <2>3 DEF S
<1> HIDE DEF ss
<1>5. Dealt(k, bs, n, FlattenSeq(ss))
  BY <1>1, <1>3, <1>4, FlatDealt
<1> QED
  BY <1>5 DEF ss

-----------------------------------------------------------------------------
(* The items, and where each is: taken, or before a reader that waits.     *)

Items(k, bs) ==
  IF k = "files" THEN {<<1, f, 0>> : f \in DOMAIN bs[1]}
  ELSE UNION {UNION {{<<b, f, p>> : p \in LinesOf(bs[b][f])} : f \in DOMAIN bs[b]} :
                b \in DOMAIN bs}

LEMMA ItemsAre ==
  ASSUME NEW k, NEW bs, IsInput(k, bs)
  PROVE  \A x : x \in Items(k, bs) <=> IsItem(k, bs, x)
<1>1. CASE k = "files"
  <2>1. 1 \in DOMAIN bs /\ \A b \in DOMAIN bs : b = 1
    BY <1>1 DEF IsInput
  <2>2. Items(k, bs) = {<<1, f, 0>> : f \in DOMAIN bs[1]}
    BY <1>1 DEF Items
  <2>3. ASSUME NEW x
        PROVE  IsItem(k, bs, x) <=> /\ x = <<x[1], x[2], x[3]>> /\ x[1] \in DOMAIN bs
                                    /\ x[2] \in DOMAIN bs[x[1]] /\ x[3] = 0
    BY <1>1 DEF IsItem
  <2>4. ASSUME NEW x, IsItem(k, bs, x) PROVE x \in Items(k, bs)
    <3>1. x = <<1, x[2], 0>> /\ x[2] \in DOMAIN bs[1]
      BY <2>1, <2>3, <2>4
    <3> QED
      BY <2>2, <3>1
  <2>5. ASSUME NEW x, x \in Items(k, bs) PROVE IsItem(k, bs, x)
    <3>1. PICK f \in DOMAIN bs[1] : x = <<1, f, 0>>
      BY <2>2, <2>5
    <3>2. x[1] = 1 /\ x[2] = f /\ x[3] = 0
      BY <3>1
    <3> QED
      BY <2>1, <2>3, <3>1, <3>2
  <2> QED
    BY <2>4, <2>5
<1>2. CASE k # "files"
  <2>1. ASSUME NEW x
        PROVE  IsItem(k, bs, x) <=> /\ x = <<x[1], x[2], x[3]>> /\ x[1] \in DOMAIN bs
                                    /\ x[2] \in DOMAIN bs[x[1]]
                                    /\ x[3] \in LinesOf(bs[x[1]][x[2]])
    BY <1>2 DEF IsItem
  <2>2. ASSUME NEW x
        PROVE  x \in Items(k, bs) <=>
                 \E b \in DOMAIN bs : \E f \in DOMAIN bs[b] : \E p \in LinesOf(bs[b][f]) :
                   x = <<b, f, p>>
    BY <1>2 DEF Items
  <2>3. ASSUME NEW x, x \in Items(k, bs) PROVE IsItem(k, bs, x)
    <3>1. PICK b \in DOMAIN bs :
            \E f \in DOMAIN bs[b] : \E p \in LinesOf(bs[b][f]) : x = <<b, f, p>>
      BY <2>2, <2>3
    <3>2. PICK f \in DOMAIN bs[b] : \E p \in LinesOf(bs[b][f]) : x = <<b, f, p>>
      BY <3>1
    <3>3. PICK p \in LinesOf(bs[b][f]) : x = <<b, f, p>>
      BY <3>2
    <3>4. x[1] = b /\ x[2] = f /\ x[3] = p
      BY <3>3
    <3> QED
      BY <2>1, <3>3, <3>4
  <2>4. ASSUME NEW x, IsItem(k, bs, x) PROVE x \in Items(k, bs)
    BY <2>1, <2>2, <2>4
  <2> QED
    BY <2>3, <2>4
<1> QED
  BY <1>1, <1>2

(* What is taken and what waits. *)
Ledger(k, bs, n, ws, done, repeated) ==
  /\ ws \in Seq(ReaderType) /\ \A i \in DOMAIN ws : IsJson(k, bs, ws[i])
  /\ \A x : IsItem(k, bs, x) =>
       x \in done \/ \E i \in DOMAIN ws : Waits(k, bs, Started(k, ws[i]), x)
  /\ \A i, j \in DOMAIN ws : \A x :
       Waits(k, bs, Started(k, ws[i]), x) /\ Waits(k, bs, Started(k, ws[j]), x) /\ i # j =>
         Excused(k, bs, n, x)
  /\ \A i \in DOMAIN ws : \A x \in done :
       Waits(k, bs, Started(k, ws[i]), x) => Excused(k, bs, n, x)
  /\ \A x \in done : IsItem(k, bs, x)
  /\ repeated \subseteq done /\ \A x \in repeated : Excused(k, bs, n, x)

(* What a slice has read and has before it, of a reader as JSON. *)
Slice(k, bs, w, r, items) ==
  /\ IsRunning(k, bs, r) /\ r.blob = w.blob /\ r.end = w.end
  /\ items \in Seq(Items(k, bs))
  /\ \A x : Waits(k, bs, Started(k, w), x) <=> x \in ToSet(items) \/ Waits(k, bs, r, x)
  /\ \A x \in ToSet(items) : ~Waits(k, bs, r, x)
  /\ \A i, j \in DOMAIN items : items[i] = items[j] => i = j

LEMMA SliceStarts ==
  ASSUME NEW k, NEW bs, NEW w, IsJson(k, bs, w)
  PROVE  Slice(k, bs, w, Started(k, w), <<>>)
<1>1. ToSet(<<>>) = {}
  BY DEF ToSet
<1>2. <<>> \in Seq(Items(k, bs)) /\ DOMAIN <<>> = {}
  OBVIOUS
<1>3. IsRunning(k, bs, Started(k, w)) /\ Started(k, w).blob = w.blob /\ Started(k, w).end = w.end
  BY StartedRuns
<1> QED
  BY <1>1, <1>2, <1>3 DEF Slice

LEMMA SliceMoves ==
  ASSUME NEW k, NEW bs, NEW w, NEW r, NEW items, Slice(k, bs, w, r, items),
         NEW s, IsRunning(k, bs, s), s.blob = r.blob, s.end = r.end,
         \A x : Waits(k, bs, s, x) <=> Waits(k, bs, r, x)
  PROVE  Slice(k, bs, w, s, items)
  BY DEF Slice

LEMMA SliceReads ==
  ASSUME NEW k, NEW bs, IsInput(k, bs), NEW w, NEW r, NEW items, Slice(k, bs, w, r, items),
         NEW item, Waits(k, bs, r, item),
         NEW s, IsRunning(k, bs, s), s.blob = r.blob, s.end = r.end,
         \A x : Waits(k, bs, s, x) <=> Waits(k, bs, r, x) /\ x # item
  PROVE  Slice(k, bs, w, s, Append(items, item))
<1> DEFINE more == Append(items, item)
<1>1. item \in Items(k, bs)
  BY ItemsAre DEF Waits
<1>2. items \in Seq(Items(k, bs))
  BY DEF Slice
<1>3. PICK n \in Nat : n = Len(items)
  BY <1>2
<1>4. /\ more \in Seq(Items(k, bs)) /\ Len(more) = n + 1 /\ more[n + 1] = item
      /\ \A i \in 1..n : more[i] = items[i]
      /\ DOMAIN items = 1..n /\ DOMAIN more = 1..n + 1
  BY <1>1, <1>2, <1>3
<1> HIDE DEF more
<1>5. \A i \in 1..n + 1 : i \in 1..n \/ i = n + 1
  OBVIOUS
<1>6. \A i \in 1..n : i \in 1..n + 1 /\ n + 1 \in 1..n + 1 /\ i # n + 1
  OBVIOUS
<1>7. n + 1 \in 1..n + 1
  OBVIOUS
<1>8. \A x : x \in ToSet(more) <=> x \in ToSet(items) \/ x = item
  BY <1>4, <1>5, <1>6, <1>7 DEF ToSet
<1>9. \A x \in ToSet(items) : ~Waits(k, bs, r, x)
  BY DEF Slice
<1>10. item \notin ToSet(items)
  BY <1>9
<1>11. ASSUME NEW i \in DOMAIN more, NEW j \in DOMAIN more, more[i] = more[j] PROVE i = j
  <2>1. \A h \in 1..n : more[h] # item
    BY <1>4, <1>10 DEF ToSet
  <2>2. \A g, h \in 1..n : items[g] = items[h] => g = h
    BY <1>4 DEF Slice
  <2> QED
    BY <1>4, <1>5, <1>11, <2>1, <2>2
<1>12. \A x : Waits(k, bs, Started(k, w), x) <=> x \in ToSet(more) \/ Waits(k, bs, s, x)
  BY <1>8 DEF Slice
<1>13. \A x \in ToSet(more) : ~Waits(k, bs, s, x)
  BY <1>8, <1>9
<1>14. s.blob = w.blob /\ s.end = w.end
  BY DEF Slice
<1>15. Slice(k, bs, w, s, more)
  BY <1>4, <1>11, <1>12, <1>13, <1>14 DEF Slice
<1> QED
  BY <1>15 DEF more

(* The readers that wait when a slice has ended: those of the other        *)
(* shards, and one that goes on from where this one is, unless nothing     *)
(* waits for it.                                                           *)
Follow(k, bs, ws, r, rest, of) ==
  /\ rest \in Seq(ReaderType) /\ of \in [DOMAIN rest -> DOMAIN ws]
  /\ \A i, j \in DOMAIN rest : of[i] = of[j] => i = j
  /\ \A i \in DOMAIN rest : IF of[i] = 1 THEN GoesOn(k, bs, r, rest[i]) ELSE rest[i] = ws[of[i]]
  /\ \A j \in DOMAIN ws : j # 1 => \E i \in DOMAIN rest : of[i] = j
  /\ (\E i \in DOMAIN rest : of[i] = 1) \/ \A x : ~Waits(k, bs, r, x)

LEMMA SliceSettles ==
  ASSUME NEW k, NEW bs, NEW n, NEW ws, NEW done, NEW repeated,
         Ledger(k, bs, n, ws, done, repeated),
         ws # <<>>, NEW r, NEW items, Slice(k, bs, Head(ws), r, items),
         NEW rest, NEW of, Follow(k, bs, ws, r, rest, of),
         NEW twice, twice = {x \in ToSet(items) : \E i, j \in DOMAIN items :
                               i # j /\ items[i] = x /\ items[j] = x}
  PROVE  Ledger(k, bs, n, rest, done \union ToSet(items),
                repeated \union (ToSet(items) \cap done) \union twice)
<1> DEFINE all == done \union ToSet(items)
<1>1. twice = {}
  BY DEF Slice
<1>2. ws \in Seq(ReaderType)
  BY DEF Ledger
<1>3. Head(ws) = ws[1] /\ 1 \in DOMAIN ws
  BY <1>2
<1>4. /\ \A x : Waits(k, bs, Started(k, ws[1]), x) <=> x \in ToSet(items) \/ Waits(k, bs, r, x)
      /\ \A x \in ToSet(items) : ~Waits(k, bs, r, x)
  BY <1>3 DEF Slice
<1>5. ASSUME NEW i \in DOMAIN rest
      PROVE  /\ of[i] \in DOMAIN ws
             /\ of[i] = 1 => GoesOn(k, bs, r, rest[i])
             /\ of[i] # 1 => rest[i] = ws[of[i]]
  BY DEF Follow
<1>6. ASSUME NEW i \in DOMAIN rest PROVE IsJson(k, bs, rest[i])
  <2>1. CASE of[i] = 1
    BY <1>5, <2>1 DEF GoesOn
  <2>2. CASE of[i] # 1
    BY <1>5, <2>2 DEF Ledger
  <2> QED
    BY <2>1, <2>2
<1>7. ASSUME NEW i \in DOMAIN rest, NEW x, Waits(k, bs, Started(k, rest[i]), x)
      PROVE  \/ Excused(k, bs, n, x)
             \/ of[i] = 1 /\ Waits(k, bs, r, x)
             \/ of[i] # 1 /\ Waits(k, bs, Started(k, ws[of[i]]), x)
  <2>1. CASE of[i] = 1
    BY <1>5, <1>7, <2>1 DEF GoesOn
  <2>2. CASE of[i] # 1
    BY <1>5, <1>7, <2>2
  <2> QED
    BY <2>1, <2>2
<1>8. ASSUME NEW i \in DOMAIN rest, NEW x, Waits(k, bs, Started(k, rest[i]), x)
      PROVE  Excused(k, bs, n, x) \/ Waits(k, bs, Started(k, ws[of[i]]), x)
  <2>1. CASE Excused(k, bs, n, x)
    BY <2>1
  <2>2. CASE of[i] = 1 /\ Waits(k, bs, r, x)
    BY <1>4, <2>2
  <2>3. CASE of[i] # 1 /\ Waits(k, bs, Started(k, ws[of[i]]), x)
    BY <2>3
  <2> QED
    BY <1>7, <1>8, <2>1, <2>2, <2>3
<1>9. /\ \A i, j \in DOMAIN ws : \A x :
           Waits(k, bs, Started(k, ws[i]), x) /\ Waits(k, bs, Started(k, ws[j]), x) /\ i # j =>
             Excused(k, bs, n, x)
      /\ \A i \in DOMAIN ws : \A x \in done :
           Waits(k, bs, Started(k, ws[i]), x) => Excused(k, bs, n, x)
  BY DEF Ledger
<1>10. ASSUME NEW x, IsItem(k, bs, x)
       PROVE  x \in all \/ \E i \in DOMAIN rest : Waits(k, bs, Started(k, rest[i]), x)
  <2>1. CASE x \in done
    BY <2>1
  <2>2. CASE \E i \in DOMAIN ws : Waits(k, bs, Started(k, ws[i]), x)
    <3>1. PICK i \in DOMAIN ws : Waits(k, bs, Started(k, ws[i]), x)
      BY <2>2
    <3>2. CASE i = 1
      <4>1. x \in ToSet(items) \/ Waits(k, bs, r, x)
        BY <1>4, <3>1, <3>2
      <4>2. CASE Waits(k, bs, r, x)
        <5>1. PICK h \in DOMAIN rest : of[h] = 1
          BY <4>2 DEF Follow
        <5>2. Waits(k, bs, Started(k, rest[h]), x)
          BY <1>5, <4>2, <5>1 DEF GoesOn
        <5> QED
          BY <5>2
      <4> QED
        BY <4>1, <4>2
    <3>3. CASE i # 1
      <4>1. PICK h \in DOMAIN rest : of[h] = i
        BY <3>3 DEF Follow
      <4>2. rest[h] = ws[i]
        BY <1>5, <3>3, <4>1
      <4> QED
        BY <3>1, <4>2
    <3> QED
      BY <3>2, <3>3
  <2> QED
    BY <1>10, <2>1, <2>2 DEF Ledger
<1>11. ASSUME NEW i \in DOMAIN rest, NEW j \in DOMAIN rest, NEW x, i # j,
              Waits(k, bs, Started(k, rest[i]), x), Waits(k, bs, Started(k, rest[j]), x)
       PROVE  Excused(k, bs, n, x)
  <2>1. of[i] # of[j] /\ of[i] \in DOMAIN ws /\ of[j] \in DOMAIN ws
    BY <1>5, <1>11 DEF Follow
  <2> QED
    BY <1>8, <1>9, <1>11, <2>1
<1>12. ASSUME NEW i \in DOMAIN rest, NEW x \in all, Waits(k, bs, Started(k, rest[i]), x)
       PROVE  Excused(k, bs, n, x)
  <2>1. CASE x \in done
    BY <1>5, <1>8, <1>9, <1>12, <2>1
  <2>2. CASE x \in ToSet(items)
    <3>1. ~Waits(k, bs, r, x) /\ Waits(k, bs, Started(k, ws[1]), x)
      BY <1>4, <2>2
    <3>2. Excused(k, bs, n, x) \/ (of[i] # 1 /\ Waits(k, bs, Started(k, ws[of[i]]), x))
      BY <1>7, <1>12, <3>1
    <3> QED
      BY <1>3, <1>5, <1>9, <3>1, <3>2
  <2> QED
    BY <2>1, <2>2
<1>13. ASSUME NEW x \in all PROVE IsItem(k, bs, x)
  <2>1. CASE x \in done
    BY <2>1 DEF Ledger
  <2>2. CASE x \in ToSet(items)
    <3>1. Waits(k, bs, Started(k, ws[1]), x)
      BY <1>4, <2>2
    <3> QED
      BY <3>1 DEF Waits
  <2> QED
    BY <2>1, <2>2
<1>14. ASSUME NEW x \in repeated \union (ToSet(items) \cap done) PROVE Excused(k, bs, n, x)
  <2>1. CASE x \in repeated
    BY <2>1 DEF Ledger
  <2>2. CASE x \in ToSet(items) \cap done
    <3>1. Waits(k, bs, Started(k, ws[1]), x)
      BY <1>4, <2>2
    <3> QED
      BY <1>3, <1>9, <2>2, <3>1
  <2> QED
    BY <2>1, <2>2
<1>15. repeated \union (ToSet(items) \cap done) \subseteq all
  BY DEF Ledger
<1>16. rest \in Seq(ReaderType)
  BY DEF Follow
<1>17. repeated \union (ToSet(items) \cap done) \union twice = repeated \union (ToSet(items) \cap done)
  BY <1>1
<1> HIDE DEF all
<1>18. Ledger(k, bs, n, rest, all, repeated \union (ToSet(items) \cap done))
  BY <1>6, <1>10, <1>11, <1>12, <1>13, <1>14, <1>15, <1>16 DEF Ledger
<1> QED
  BY <1>17, <1>18 DEF all

LEMMA ShardFollows ==
  ASSUME NEW k, NEW bs, NEW ws \in Seq(ReaderType), ws # <<>>, NEW r,
         \A x : ~Waits(k, bs, r, x)
  PROVE  \E of : Follow(k, bs, ws, r, Tail(ws), of)
<1> DEFINE rest == Tail(ws)
<1>1. PICK n \in Nat : n = Len(rest)
  OBVIOUS
<1>2. /\ rest \in Seq(ReaderType) /\ DOMAIN rest = 1..n /\ DOMAIN ws = 1..n + 1
      /\ \A i \in 1..n : rest[i] = ws[i + 1]
  BY <1>1
<1> HIDE DEF rest
<1> DEFINE of == [i \in 1..n |-> i + 1]
<1>3. \A i \in 1..n : of[i] = i + 1 /\ i + 1 # 1 /\ i + 1 \in 1..n + 1
  OBVIOUS
<1>4. \A i, j \in 1..n : of[i] = of[j] => i = j
  OBVIOUS
<1>5. \A j \in 1..n + 1 : j # 1 => \E i \in 1..n : of[i] = j
  <2>1. ASSUME NEW j \in 1..n + 1, j # 1 PROVE j - 1 \in 1..n /\ (j - 1) + 1 = j
    BY <2>1
  <2> QED
    BY <2>1
<1>6. of \in [1..n -> 1..n + 1]
  BY <1>3
<1> HIDE DEF of
<1>7. \A i \in 1..n : IF of[i] = 1 THEN GoesOn(k, bs, r, rest[i]) ELSE rest[i] = ws[of[i]]
  BY <1>2, <1>3
<1>8. Follow(k, bs, ws, r, rest, of)
  BY <1>2, <1>4, <1>5, <1>6, <1>7 DEF Follow
<1> QED
  BY <1>8 DEF rest

LEMMA ReaderFollows ==
  ASSUME NEW k, NEW bs, NEW ws \in Seq(ReaderType), ws # <<>>, NEW r,
         NEW w \in ReaderType, GoesOn(k, bs, r, w)
  PROVE  \E of : Follow(k, bs, ws, r, <<w>> \o Tail(ws), of)
<1> DEFINE rest == <<w>> \o Tail(ws)
<1>1. PICK n \in Nat : n = Len(ws)
  OBVIOUS
<1>2. /\ rest \in Seq(ReaderType) /\ DOMAIN rest = 1..n /\ DOMAIN ws = 1..n
      /\ rest[1] = w /\ \A i \in 1..n : i # 1 => rest[i] = ws[i]
  BY <1>1
<1> HIDE DEF rest
<1> DEFINE of == [i \in 1..n |-> i]
<1>3. \A i \in 1..n : of[i] = i
  OBVIOUS
<1>4. of \in [1..n -> 1..n]
  OBVIOUS
<1> HIDE DEF of
<1>5. \A i \in 1..n : IF of[i] = 1 THEN GoesOn(k, bs, r, rest[i]) ELSE rest[i] = ws[of[i]]
  BY <1>2, <1>3
<1>6. 1 \in 1..n
  BY <1>1
<1>7. Follow(k, bs, ws, r, rest, of)
  BY <1>2, <1>3, <1>4, <1>5, <1>6 DEF Follow
<1> QED
  BY <1>7 DEF rest

-----------------------------------------------------------------------------
(* The invariant of the readers.                                           *)

BlobIdle == /\ blobs = <<>> /\ waiting = <<>> /\ now = <<>> /\ fresh = <<>>
            /\ taken = {} /\ rereads = {}
BlobLedger == Ledger(kind, blobs, shardCount, waiting, taken, rereads)
BlobSlice == IF now = <<>> THEN fresh = <<>>
             ELSE waiting # <<>> /\ Slice(kind, blobs, Head(waiting), R, fresh)
BlobInv ==
  /\ kind = "none" => BlobIdle
  /\ kind # "none" => IsInput(kind, blobs) /\ shardCount \in Nat \ {0}
  /\ BlobLedger
  /\ failed \in 0..MaxFailed
  /\ BlobSlice

LEMMA DealtIsLedger ==
  ASSUME NEW k, NEW bs, NEW n, NEW ws, Dealt(k, bs, n, ws)
  PROVE  Ledger(k, bs, n, ws, {}, {})
  BY DEF Dealt, Ledger

LEMMA JobIsInput ==
  ASSUME NEW job \in Jobs
  PROVE  IsInput(job[1], job[2])
<1> DEFINE AllTexts == [size : Nat, breaks : SUBSET Nat]
<1>1. /\ job \in {"lines", "files", "archived lines"} \X Seq(Seq(AllTexts))
      /\ \A b \in DOMAIN job[2] : \A f \in DOMAIN job[2][b] :
           job[2][b][f].breaks \subseteq 0..job[2][b][f].size - 1
      /\ job[1] = "lines" => job[2] # <<>> /\ \A b \in DOMAIN job[2] : Len(job[2][b]) = 1
      /\ job[1] = "files" => Len(job[2]) = 1
  BY BlobReadersAssumption
<1> DEFINE S == Seq(AllTexts)
<1> DEFINE Kinds == {"lines", "files", "archived lines"}
<1>2. job[1] \in Kinds /\ job[2] \in Seq(S)
  <2> HIDE DEF Kinds, S
  <2> QED
    BY <1>1 DEF Kinds, S
<1>3. ASSUME NEW b \in DOMAIN job[2], NEW f \in DOMAIN job[2][b] PROVE job[2][b][f] \in AllTexts
  <2>1. job[2][b] \in S
    <3> HIDE DEF S, Kinds
    <3> QED
      BY <1>2
  <2> HIDE DEF AllTexts
  <2> QED
    BY <2>1
<1>4. ASSUME NEW b \in DOMAIN job[2], NEW f \in DOMAIN job[2][b] PROVE IsText(job[2][b][f])
  BY <1>1, <1>3 DEF IsText
<1> QED
  BY <1>1, <1>2, <1>4 DEF IsInput

LEMMA RunsFor ==
  ASSUME BlobInv, now # <<>>
  PROVE  /\ kind # "none" /\ IsInput(kind, blobs) /\ waiting # <<>>
         /\ waiting \in Seq(ReaderType) /\ BlobLedger
         /\ Slice(kind, blobs, Head(waiting), R, fresh) /\ IsRunning(kind, blobs, R)
         /\ fresh \in Seq(Items(kind, blobs))
<1>1. kind # "none"
  BY DEF BlobInv, BlobIdle
<1>2. Slice(kind, blobs, Head(waiting), R, fresh) /\ waiting # <<>>
  BY DEF BlobInv, BlobSlice
<1> QED
  BY <1>1, <1>2 DEF BlobInv, Slice, BlobLedger, Ledger

LEMMA FoundKeeps ==
  ASSUME BlobInv, now # <<>>, NEW item, NEW reader, Found(item, reader),
         NEW s, s = [reader EXCEPT !.item = TRUE], ReadsItem(kind, blobs, R, s, item)
  PROVE  BlobInv'
<1>1. /\ fresh' = Append(fresh, item) /\ now' = <<s>>
      /\ UNCHANGED <<kind, blobs, shardCount, waiting, taken, rereads, failed>>
  BY DEF Found
<1>2. R' = s /\ now' # <<>>
  BY <1>1 DEF R
<1>3. Slice(kind, blobs, Head(waiting), s, Append(fresh, item))
  BY RunsFor, SliceReads DEF ReadsItem
<1>4. Slice(kind, blobs, Head(waiting), R, fresh)' /\ waiting' # <<>>
  BY <1>1, <1>2, <1>3, RunsFor
<1> QED
  BY <1>1, <1>2, <1>4, RunsFor DEF BlobInv, BlobLedger, BlobSlice

LEMMA RepositionKeeps ==
  ASSUME BlobInv, now # <<>>, NEW s, Reposition(s), Moves(kind, blobs, R, s)
  PROVE  BlobInv'
<1>1. now' = <<s>> /\ UNCHANGED <<kind, blobs, shardCount, waiting, fresh, taken, rereads, failed>>
  BY DEF Reposition
<1>2. R' = s /\ now' # <<>>
  BY <1>1 DEF R
<1>3. Slice(kind, blobs, Head(waiting), s, fresh)
  BY RunsFor, SliceMoves DEF Moves
<1>4. Slice(kind, blobs, Head(waiting), R, fresh)' /\ waiting' # <<>>
  BY <1>1, <1>2, <1>3, RunsFor
<1> QED
  BY <1>1, <1>2, <1>4, RunsFor DEF BlobInv, BlobLedger, BlobSlice

LEMMA SettleKeeps ==
  ASSUME BlobInv, now # <<>>, NEW rest, NEW of, Follow(kind, blobs, waiting, R, rest, of),
         Settle(fresh, rest), UNCHANGED <<kind, blobs, shardCount, failed>>
  PROVE  BlobInv'
<1> DEFINE twice == {x \in ToSet(fresh) : \E i, j \in DOMAIN fresh :
                       i # j /\ fresh[i] = x /\ fresh[j] = x}
<1>1. /\ taken' = taken \union ToSet(fresh)
      /\ rereads' = rereads \union (ToSet(fresh) \cap taken) \union twice
      /\ fresh' = <<>> /\ now' = <<>> /\ waiting' = rest
  BY DEF Settle
<1>2. Ledger(kind, blobs, shardCount, rest, taken \union ToSet(fresh),
             rereads \union (ToSet(fresh) \cap taken) \union twice)
  BY RunsFor, SliceSettles DEF BlobLedger
<1> HIDE DEF twice
<1>3. BlobLedger'
  BY <1>1, <1>2 DEF BlobLedger
<1> QED
  BY <1>1, <1>3, RunsFor DEF BlobInv, BlobSlice

LEMMA StoppedKeeps ==
  ASSUME BlobInv, now # <<>>, Stopped, \A x : ~Waits(kind, blobs, R, x)
  PROVE  BlobInv'
<1>1. PICK of : Follow(kind, blobs, waiting, R, Tail(waiting), of)
  BY RunsFor, ShardFollows
<1> QED
  BY <1>1, SettleKeeps DEF Stopped

LEMMA SplitDeals ==
  ASSUME NEW job \in Jobs, NEW n \in ShardCounts, Split(job, n)
  PROVE  /\ IsInput(kind', blobs') /\ shardCount' = n /\ n \in Nat \ {0} /\ kind' # "none"
         /\ Dealt(kind', blobs', n, waiting')
<1>1. /\ kind' = job[1] /\ blobs' = job[2] /\ shardCount' = n
      /\ waiting' = CASE kind' = "lines" -> SplitLines
                      [] kind' = "files" -> SplitFiles
                      [] OTHER -> SplitArchives
  BY DEF Split
<1>2. PICK k : k = kind'
  OBVIOUS
<1>3. PICK bs : bs = blobs'
  OBVIOUS
<1>4. IsInput(k, bs)
  BY <1>1, <1>2, <1>3, JobIsInput
<1>5. n \in Nat \ {0}
  BY BlobReadersAssumption
<1>6. k # "none"
  BY <1>4 DEF IsInput
<1>7. ASSUME k = "lines" PROVE Dealt(k, bs, n, waiting')
  <2>1. waiting' = FlattenSeq([b \in DOMAIN bs |-> Chunks(bs, n, b)])
    BY <1>1, <1>2, <1>3, <1>7, SplitLinesIs
  <2>2. IsInput("lines", bs)
    BY <1>4, <1>7
  <2>3. Dealt("lines", bs, n, FlattenSeq([b \in DOMAIN bs |-> Chunks(bs, n, b)]))
    BY <1>5, <2>2, LinesDealt
  <2> QED
    BY <1>7, <2>1, <2>3
<1>8. ASSUME k = "files" PROVE Dealt(k, bs, n, waiting')
  <2>1. PICK most : waiting' = Parts(1, FilePlaces(bs[1], most))
    <3>1. kind' = "files" /\ "files" # "lines"
      BY <1>2, <1>8
    <3>2. waiting' = SplitFiles
      BY <1>1, <3>1
    <3> QED
      BY <1>3, <3>2, SplitFilesIs
  <2>2. IsInput("files", bs)
    BY <1>4, <1>8
  <2>3. Dealt("files", bs, n, Parts(1, FilePlaces(bs[1], most)))
    BY <2>2, FilesDealt
  <2> QED
    BY <1>8, <2>1, <2>3
<1>9. ASSUME k # "lines", k # "files" PROVE Dealt(k, bs, n, waiting')
  <2>1. waiting' = SplitArchives
    BY <1>1, <1>2, <1>9
  <2>2. PICK most :
          waiting' = FlattenSeq([b \in DOMAIN bs |-> Parts(b, ArchivePlaces(bs[b], most))])
    BY <1>3, <2>1, SplitArchivesIs
  <2>3. Dealt(k, bs, n, FlattenSeq([b \in DOMAIN bs |-> Parts(b, ArchivePlaces(bs[b], most))]))
    BY <1>4, <1>9, ArchivesDealt
  <2> QED
    BY <2>2, <2>3
<1>10. Dealt(k, bs, n, waiting')
  BY <1>7, <1>8, <1>9
<1> QED
  BY <1>1, <1>2, <1>3, <1>4, <1>5, <1>6, <1>10

LEMMA BlobSplitKeeps ==
  ASSUME BlobInv, kind = "none", NEW job \in Jobs, NEW n \in ShardCounts, Split(job, n)
  PROVE  BlobInv'
<1>1. now' = now /\ fresh' = fresh /\ taken' = taken /\ rereads' = rereads /\ failed' = failed
  BY DEF Split
<1>2. now = <<>> /\ fresh = <<>> /\ taken = {} /\ rereads = {}
  BY DEF BlobInv, BlobIdle
<1>3. Ledger(kind', blobs', shardCount', waiting', {}, {})
  BY SplitDeals, DealtIsLedger
<1>4. BlobLedger'
  BY <1>1, <1>2, <1>3 DEF BlobLedger
<1>5. BlobSlice'
  BY <1>1, <1>2 DEF BlobSlice
<1>6. kind' # "none" /\ IsInput(kind', blobs') /\ shardCount' \in Nat \ {0}
  BY SplitDeals
<1> QED
  BY <1>1, <1>4, <1>5, <1>6 DEF BlobInv

LEMMA BlobStartKeeps ==
  ASSUME BlobInv, StartSlice
  PROVE  BlobInv'
<1>1. PICK r : r = Started(kind, Head(waiting))
  OBVIOUS
<1>2. /\ now = <<>> /\ waiting # <<>> /\ now' = <<r>>
      /\ UNCHANGED <<kind, blobs, shardCount, waiting, fresh, taken, rereads, failed>>
  BY <1>1 DEF StartSlice, Started
<1>3. waiting \in Seq(ReaderType) /\ \A i \in DOMAIN waiting : IsJson(kind, blobs, waiting[i])
  BY DEF BlobInv, BlobLedger, Ledger
<1>4. Head(waiting) = waiting[1] /\ 1 \in DOMAIN waiting
  BY <1>2, <1>3
<1>5. IsJson(kind, blobs, Head(waiting))
  BY <1>3, <1>4
<1>6. fresh = <<>>
  BY <1>2 DEF BlobInv, BlobSlice
<1>7. Slice(kind, blobs, Head(waiting), r, fresh)
  BY <1>1, <1>5, <1>6, SliceStarts
<1>8. R' = r /\ now' # <<>>
  BY <1>2 DEF R
<1>9. BlobSlice'
  BY <1>2, <1>7, <1>8 DEF BlobSlice
<1>10. kind # "none"
  BY <1>2 DEF BlobInv, BlobIdle
<1> QED
  BY <1>2, <1>9, <1>10 DEF BlobInv, BlobLedger

LEMMA EndKeeps ==
  ASSUME BlobInv, EndReaderSlice
  PROVE  BlobInv'
<1>1. /\ now # <<>> /\ R.item /\ Settle(fresh, <<Json>> \o Tail(waiting))
      /\ UNCHANGED <<kind, blobs, shardCount, failed>>
  BY DEF EndReaderSlice
<1>2. IsInput(kind, blobs) /\ IsRunning(kind, blobs, R)
  BY <1>1, RunsFor
<1>3. GoesOn(kind, blobs, R, Json)
  <2>1. CASE kind = "lines"
    <3>1. Json = BlobReader(R.blob, IF R.iterated THEN JsonPlace(R.at) ELSE R.at, R.end, 0)
      BY <2>1 DEF Json
    <3>2. IsInput("lines", blobs) /\ IsRunning("lines", blobs, R)
      BY <1>2, <2>1
    <3>3. GoesOn("lines", blobs, R, Json)
      BY <1>1, <3>1, <3>2, LinesJson
    <3> QED
      BY <2>1, <3>3
  <2>2. CASE kind = "files"
    <3>1. Json = BlobReader(R.blob, R.at, R.end, 0)
      BY <2>2 DEF Json
    <3>2. IsInput("files", blobs) /\ IsRunning("files", blobs, R)
      BY <1>2, <2>2
    <3>3. GoesOn("files", blobs, R, Json)
      BY <3>1, <3>2, FilesJson
    <3> QED
      BY <2>2, <3>3
  <2>3. CASE kind # "lines" /\ kind # "files"
    <3>1. PICK place : place = IF R.open THEN JsonPlace(R.offset) ELSE R.offset
      OBVIOUS
    <3>2. Json = BlobReader(R.blob, R.at, R.end, place)
      BY <2>3, <3>1 DEF Json
    <3>3. kind = "archived lines"
      BY <1>2, <2>3 DEF IsInput
    <3>4. IsInput("archived lines", blobs) /\ IsRunning("archived lines", blobs, R)
      BY <1>2, <3>3
    <3>5. GoesOn("archived lines", blobs, R, Json)
      BY <1>1, <3>1, <3>2, <3>4, ArchivedLinesJson
    <3> QED
      BY <3>3, <3>5
  <2> QED
    BY <2>1, <2>2, <2>3
<1>4. PICK w : w = Json
  OBVIOUS
<1>5. w \in ReaderType
  BY <1>3, <1>4 DEF GoesOn, IsJson, IsReaderOf
<1>6. PICK of : Follow(kind, blobs, waiting, R, <<w>> \o Tail(waiting), of)
  BY <1>1, <1>3, <1>4, <1>5, RunsFor, ReaderFollows
<1>7. Settle(fresh, <<w>> \o Tail(waiting))
  BY <1>1, <1>4
<1> QED
  BY <1>1, <1>6, <1>7, SettleKeeps

LEMMA FailKeeps ==
  ASSUME BlobInv, FailReaderSlice
  PROVE  BlobInv'
<1>1. /\ now # <<>> /\ failed < MaxFailed /\ failed' = failed + 1 /\ now' = <<>> /\ fresh' = <<>>
      /\ UNCHANGED <<kind, blobs, shardCount, waiting, taken, rereads>>
  BY DEF FailReaderSlice
<1>2. MaxFailed \in Nat /\ failed \in 0..MaxFailed
  BY BlobReadersAssumption DEF BlobInv
<1>3. failed' \in 0..MaxFailed
  BY <1>1, <1>2
<1> QED
  BY <1>1, <1>3, RunsFor DEF BlobInv, BlobLedger, BlobSlice

(* The invariant, for all inputs and numbers of shards: every item is      *)
(* taken or before a reader that waits, what two readers have before them, *)
(* or one has and was taken, is the first line of a text that may be read  *)
(* twice, and a slice that runs has read, once, what the reader it began   *)
(* with has before it and it has not.                                      *)
THEOREM BlobInvariance == BlobSpec => []BlobInv
<1>1. BlobInit => BlobInv
  <2> SUFFICES ASSUME BlobInit PROVE BlobInv
    OBVIOUS
  <2>1. BlobIdle /\ kind = "none" /\ failed = 0
    BY DEF BlobInit, BlobIdle
  <2>2. \A x : ~IsItem(kind, blobs, x)
    BY <2>1 DEF IsItem, BlobIdle
  <2>3. Ledger(kind, blobs, shardCount, <<>>, {}, {})
    <3>1. <<>> \in Seq(ReaderType) /\ DOMAIN <<>> = {}
      OBVIOUS
    <3> QED
      BY <2>2, <3>1 DEF Ledger
  <2>4. failed \in 0..MaxFailed
    <3>1. MaxFailed \in Nat
      BY BlobReadersAssumption
    <3> QED
      BY <2>1, <3>1
  <2> QED
    BY <2>1, <2>3, <2>4 DEF BlobInv, BlobIdle, BlobLedger, BlobSlice
<1>2. BlobInv /\ [BlobNext]_blobVars => BlobInv'
  <2> SUFFICES ASSUME BlobInv, [BlobNext]_blobVars PROVE BlobInv'
    OBVIOUS
  <2>1. CASE kind = "none" /\ \E job \in Jobs, n \in ShardCounts : Split(job, n)
    BY <2>1, BlobSplitKeeps
  <2>2. CASE StartSlice
    BY <2>2, BlobStartKeeps
  <2>3. CASE NextLine
    <3>1. /\ kind = "lines" /\ now # <<>> /\ ~NoLine
          /\ Found(<<R.blob, 1, LineStart>>,
                   [R EXCEPT !.at = LineEnd(PlainText, LineStart),
                             !.skip = FALSE, !.iterated = TRUE])
      BY <2>3 DEF NextLine, Running
    <3>2. PICK start : start = LineStart
      OBVIOUS
    <3>3. PICK t : t = blobs[R.blob][1]
      OBVIOUS
    <3>4. start = From("lines", blobs, R)
      BY <3>2 DEF LineStart, From, PlainText
    <3>5. ~(start > R.end \/ start >= t.size)
      BY <3>1, <3>2, <3>3 DEF NoLine, PlainText
    <3>6. PICK reader : reader = [R EXCEPT !.at = LineEnd(t, start), !.skip = FALSE, !.iterated = TRUE]
      OBVIOUS
    <3>7. PICK s : s = AfterLine(R, t, start)
      OBVIOUS
    <3>8. s = [reader EXCEPT !.item = TRUE]
      BY <3>6, <3>7 DEF AfterLine
    <3>9. IsInput("lines", blobs) /\ IsRunning("lines", blobs, R)
      BY <3>1, RunsFor
    <3>10. ReadsItem("lines", blobs, R, s, <<R.blob, 1, start>>)
      BY <3>3, <3>4, <3>5, <3>7, <3>9, LineIsRead
    <3>11. Found(<<R.blob, 1, start>>, reader)
      BY <3>1, <3>2, <3>3, <3>6 DEF PlainText
    <3> QED
      BY <3>1, <3>8, <3>10, <3>11, FoundKeeps
  <2>4. CASE LinesEnd
    <3>1. kind = "lines" /\ now # <<>> /\ NoLine /\ Stopped
      BY <2>4 DEF LinesEnd, Running
    <3>2. PICK start : start = LineStart
      OBVIOUS
    <3>3. start = From("lines", blobs, R)
      BY <3>2 DEF LineStart, From, PlainText
    <3>4. start > R.end \/ start >= blobs[R.blob][1].size
      BY <3>1, <3>2 DEF NoLine, PlainText
    <3>5. IsInput("lines", blobs) /\ IsRunning("lines", blobs, R)
      BY <3>1, RunsFor
    <3>6. \A x : ~Waits("lines", blobs, R, x)
      BY <3>3, <3>4, <3>5, NoLineWaits
    <3> QED
      BY <3>1, <3>6, StoppedKeeps
  <2>5. CASE NextZipFile
    <3>1. /\ kind = "files" /\ now # <<>> /\ R.at < R.end
          /\ Found(<<R.blob, R.at + 1, 0>>, [R EXCEPT !.at = @ + 1])
      BY <2>5 DEF NextZipFile, Running
    <3>2. PICK reader : reader = [R EXCEPT !.at = @ + 1]
      OBVIOUS
    <3>3. PICK s : s = AfterFile(R)
      OBVIOUS
    <3>4. s = [reader EXCEPT !.item = TRUE]
      BY <3>2, <3>3 DEF AfterFile
    <3>5. R.at < R.end
      BY <3>1
    <3>6. IsInput("files", blobs) /\ IsRunning("files", blobs, R)
      BY <3>1, RunsFor
    <3>7. ReadsItem("files", blobs, R, s, <<R.blob, R.at + 1, 0>>)
      BY <3>3, <3>5, <3>6, FileIsRead
    <3>8. Found(<<R.blob, R.at + 1, 0>>, reader)
      BY <3>1, <3>2
    <3> QED
      BY <3>1, <3>4, <3>7, <3>8, FoundKeeps
  <2>6. CASE FilesEnd
    <3>1. kind = "files" /\ kind # "lines" /\ now # <<>> /\ R.at >= R.end /\ Stopped
      BY <2>6 DEF FilesEnd, Running
    <3>2. \A x : ~Waits(kind, blobs, R, x)
      BY <3>1, RunsFor, NoFileWaits
    <3> QED
      BY <3>1, <3>2, StoppedKeeps
  <2>7. CASE OpenZipFile
    <3>1. /\ kind = "archived lines" /\ now # <<>> /\ ~R.open /\ R.at < R.end
          /\ Reposition([R EXCEPT !.open = TRUE, !.item = FALSE,
                           !.offset = IF @ = 0 THEN 0 ELSE LineEnd(ZipText, @)])
      BY <2>7 DEF OpenZipFile, Running
    <3>2. PICK t : t = blobs[R.blob][R.at + 1]
      OBVIOUS
    <3>3. PICK s : s = Opened(R, t)
      OBVIOUS
    <3>4. IsInput("archived lines", blobs) /\ IsRunning("archived lines", blobs, R)
      BY <3>1, RunsFor
    <3>5. ~R.open /\ R.at < R.end
      BY <3>1
    <3>6. Moves("archived lines", blobs, R, s)
      BY <3>2, <3>3, <3>4, <3>5, FileIsOpened
    <3>7. Reposition(s)
      BY <3>1, <3>2, <3>3 DEF ZipText, Opened
    <3> QED
      BY <3>1, <3>6, <3>7, RepositionKeeps
  <2>8. CASE NextZipLine
    <3>1. /\ kind = "archived lines" /\ now # <<>> /\ R.open /\ R.offset < ZipText.size
          /\ Found(<<R.blob, R.at + 1, R.offset>>, [R EXCEPT !.offset = LineEnd(ZipText, R.offset)])
      BY <2>8 DEF NextZipLine, Running
    <3>2. PICK t : t = blobs[R.blob][R.at + 1]
      OBVIOUS
    <3>3. PICK reader : reader = [R EXCEPT !.offset = LineEnd(t, R.offset)]
      OBVIOUS
    <3>4. PICK s : s = AfterZipLine(R, t)
      OBVIOUS
    <3>5. s = [reader EXCEPT !.item = TRUE]
      BY <3>3, <3>4 DEF AfterZipLine
    <3>6. R.open
      BY <3>1
    <3>7. IsInput("archived lines", blobs) /\ IsRunning("archived lines", blobs, R)
      BY <3>1, RunsFor
    <3>8. R.offset < t.size
      BY <3>1, <3>2 DEF ZipText
    <3>9. ReadsItem("archived lines", blobs, R, s, <<R.blob, R.at + 1, R.offset>>)
      BY <3>2, <3>4, <3>6, <3>7, <3>8, ZipLineIsRead
    <3>10. Found(<<R.blob, R.at + 1, R.offset>>, reader)
      BY <3>1, <3>2, <3>3 DEF ZipText
    <3> QED
      BY <3>1, <3>5, <3>9, <3>10, FoundKeeps
  <2>9. CASE CloseZipFile
    <3>1. /\ kind = "archived lines" /\ now # <<>> /\ R.open /\ R.offset >= ZipText.size
          /\ Reposition([R EXCEPT !.open = FALSE, !.item = FALSE, !.at = @ + 1, !.offset = 0])
      BY <2>9 DEF CloseZipFile, Running
    <3>2. PICK s : s = [R EXCEPT !.open = FALSE, !.item = FALSE, !.at = @ + 1, !.offset = 0]
      OBVIOUS
    <3>3. R.offset >= blobs[R.blob][R.at + 1].size
      BY <3>1 DEF ZipText
    <3>4. IsInput("archived lines", blobs) /\ IsRunning("archived lines", blobs, R)
      BY <3>1, RunsFor
    <3>5. Moves("archived lines", blobs, R, s)
      BY <3>1, <3>2, <3>3, <3>4, FileIsClosed
    <3>6. Reposition(s)
      BY <3>1, <3>2
    <3> QED
      BY <3>1, <3>5, <3>6, RepositionKeeps
  <2>10. CASE ArchivedLinesEnd
    <3>1. kind = "archived lines" /\ now # <<>> /\ R.at >= R.end /\ Stopped
      BY <2>10 DEF ArchivedLinesEnd, Running
    <3>2. kind # "lines"
      BY <3>1
    <3>3. \A x : ~Waits(kind, blobs, R, x)
      BY <3>1, <3>2, RunsFor, NoFileWaits
    <3> QED
      BY <3>1, <3>3, StoppedKeeps
  <2>11. CASE EndReaderSlice
    BY <2>11, EndKeeps
  <2>12. CASE FailReaderSlice
    BY <2>12, FailKeeps
  <2>13. CASE UNCHANGED blobVars
    BY <2>13 DEF blobVars, BlobInv, BlobIdle, BlobLedger, BlobSlice, R
  <2> QED
    BY <2>1, <2>2, <2>3, <2>4, <2>5, <2>6, <2>7, <2>8, <2>9, <2>10, <2>11, <2>12, <2>13
       DEF BlobNext
<1> QED
  BY <1>1, <1>2, PTL DEF BlobSpec

(* Every line or file of the input is read, wherever chunks and slices are *)
(* cut, and only the first line of a text may be read twice, as            *)
(* EachLineRead says.                                                      *)
THEOREM LinesAreRead == BlobSpec => []EachLineRead
<1>1. BlobInv => EachLineRead
  <2> SUFFICES ASSUME BlobInv PROVE EachLineRead
    OBVIOUS
  <2>1. Ledger(kind, blobs, shardCount, waiting, taken, rereads)
    BY DEF BlobInv, BlobLedger
  <2>2. ASSUME kind # "none", waiting = <<>> PROVE taken = AllItems
    <3>1. IsInput(kind, blobs)
      BY <2>2 DEF BlobInv
    <3>2. AllItems = Items(kind, blobs)
      BY DEF AllItems, Items
    <3>3. DOMAIN waiting = {}
      BY <2>2
    <3>4. \A x : IsItem(kind, blobs, x) <=> x \in taken
      BY <2>1, <3>3 DEF Ledger
    <3> QED
      BY <3>1, <3>2, <3>4, ItemsAre
  <2>3. \A x \in rereads : Excused(kind, blobs, shardCount, x)
    BY <2>1 DEF Ledger
  <2> QED
    BY <2>2, <2>3 DEF EachLineRead, Excused, TextOf
<1> QED
  BY <1>1, BlobInvariance, PTL

(* The types of the readers, and that a slice keeps to the part of the     *)
(* input that the reader it began with was dealt.                          *)
THEOREM BlobReadersTypeCorrect == BlobSpec => []BlobReadersTypeOK
<1>1. BlobInv => BlobReadersTypeOK
  <2> SUFFICES ASSUME BlobInv PROVE BlobReadersTypeOK
    OBVIOUS
  <2>1. AllItems = Items(kind, blobs)
    BY DEF AllItems, Items
  <2>2. Ledger(kind, blobs, shardCount, waiting, taken, rereads)
    BY DEF BlobInv, BlobLedger
  <2>3. taken \subseteq AllItems
    <3>1. CASE kind = "none"
      BY <3>1 DEF BlobInv, BlobIdle
    <3>2. CASE kind # "none"
      <4>1. IsInput(kind, blobs)
        BY <3>2 DEF BlobInv
      <4> QED
        BY <2>1, <2>2, <4>1, ItemsAre DEF Ledger
    <3> QED
      BY <3>1, <3>2
  <2>4. ToSet(fresh) \subseteq AllItems
    <3>1. CASE now = <<>>
      BY <3>1 DEF BlobInv, BlobSlice, ToSet
    <3>2. CASE now # <<>>
      <4>1. fresh \in Seq(Items(kind, blobs))
        BY <3>2, RunsFor
      <4> QED
        BY <2>1, <4>1 DEF ToSet
    <3> QED
      BY <3>1, <3>2
  <2>5. rereads \subseteq taken /\ failed \in 0..MaxFailed
    BY <2>2 DEF BlobInv, Ledger
  <2>6. now # <<>> => waiting # <<>> /\ R.blob = Head(waiting).blob /\ R.end = Head(waiting).end
    BY RunsFor DEF Slice
  <2> QED
    BY <2>3, <2>4, <2>5, <2>6 DEF BlobReadersTypeOK
<1> QED
  BY <1>1, BlobInvariance, PTL

-----------------------------------------------------------------------------
(* InputReaders. Namespaces have ordinals: a namespace is a string of at   *)
(* most MaxLength characters, whose number is that of the strings before   *)
(* it in the datastore's order. What _namespace_to_ord adds up for a       *)
(* string is its first character's part and the number of the rest, among  *)
(* strings that are one shorter; what _ord_to_namespace divides is that.   *)

(* The recursive equation of LexDistance. *)
LexStep(f, i) == IF i = 0 THEN 1 ELSE f[i - 1] * Characters + 1

(* There is a function that satisfies the equation, so LexDistance does. *)
LEMMA LexIs ==
  /\ LexDistance \in [0..MaxLength - 1 -> Nat \ {0}]
  /\ \A i \in 0..MaxLength - 1 : LexDistance[i] = LexStep(LexDistance, i)
<1> DEFINE Good(f, n) == /\ f \in [0..n -> Nat \ {0}]
                         /\ \A i \in 0..n : f[i] = LexStep(f, i)
           T == {n \in Nat : \E f : Good(f, n)}
<1>1. 0 \in T
  <2>1. Good([i \in 0..0 |-> 1], 0)
    BY DEF LexStep
  <2> QED
    BY <2>1
<1>2. ASSUME NEW n \in Nat, n \in T PROVE n + 1 \in T
  <2>1. PICK f : Good(f, n)
    BY <1>2
  <2> DEFINE last == f[n] * Characters + 1
             g == [i \in 0..n + 1 |-> IF i = n + 1 THEN last ELSE f[i]]
  <2>2. last \in Nat \ {0}
    <3>1. f[n] \in Nat /\ Characters \in Nat
      BY <2>1, ReadersNumbers
    <3>2. f[n] * Characters \in Nat
      BY <3>1
    <3> QED
      BY <3>2
  <2> HIDE DEF last
  <2>3. g \in [0..n + 1 -> Nat \ {0}]
    <3>1. \A i \in 0..n + 1 : i # n + 1 => i \in 0..n
      OBVIOUS
    <3> QED
      BY <2>1, <2>2, <3>1
  <2>4. ASSUME NEW i \in 0..n + 1 PROVE g[i] = LexStep(g, i)
    <3>1. CASE i = n + 1
      <4>1. i - 1 = n /\ i # 0 /\ n \in 0..n + 1 /\ n # n + 1
        BY <3>1
      <4>2. g[i] = last /\ g[i - 1] = f[n]
        BY <3>1, <4>1
      <4> QED
        BY <4>1, <4>2 DEF LexStep, last
    <3>2. CASE i = 0
      <4>1. g[i] = f[0] /\ f[0] = 1
        BY <2>1, <3>2 DEF LexStep
      <4> QED
        BY <3>2, <4>1 DEF LexStep
    <3>3. CASE i # n + 1 /\ i # 0
      <4>1. i \in 0..n /\ i - 1 \in 0..n + 1 /\ i - 1 # n + 1
        BY <3>3
      <4>2. g[i] = f[i] /\ g[i - 1] = f[i - 1]
        BY <3>3, <4>1
      <4>3. f[i] = LexStep(f, i)
        BY <2>1, <4>1
      <4> QED
        BY <3>3, <4>2, <4>3 DEF LexStep
    <3> QED
      BY <3>1, <3>2, <3>3
  <2>5. Good(g, n + 1)
    BY <2>3, <2>4
  <2>6. \E h : Good(h, n + 1)
    <3> HIDE DEF Good, g
    <3> QED
      BY <2>5
  <2> QED
    BY <2>6
<1> DEFINE m == MaxLength - 1
<1>3. m \in Nat
  BY ReadersNumbers
<1>4. m \in T
  <2> HIDE DEF T, m
  <2>1. \A i \in 0..m : i \in T
    BY <1>1, <1>2, <1>3, CountUp
  <2> QED
    BY <1>3, <2>1
<1>5. PICK f : Good(f, m)
  BY <1>4
<1>6. f = [i \in 0..m |-> LexStep(f, i)]
  BY <1>5
<1>7. LexDistance = CHOOSE g : g = [i \in 0..m |-> LexStep(g, i)]
  BY Zenon DEF LexDistance, LexStep
<1>8. LexDistance = [i \in 0..m |-> LexStep(LexDistance, i)]
  BY <1>6, <1>7
<1> DEFINE U == {i \in Nat : i <= m => LexDistance[i] \in Nat \ {0}}
<1>9. 0 \in U
  BY <1>3, <1>8 DEF LexStep
<1>10. ASSUME NEW i \in Nat, i < m, i \in U PROVE i + 1 \in U
  <2>1. LexDistance[i + 1] = LexStep(LexDistance, i + 1)
    <3>1. i + 1 \in 0..m
      BY <1>3, <1>10
    <3> QED
      BY <1>8, <3>1
  <2>2. i + 1 # 0 /\ (i + 1) - 1 = i
    OBVIOUS
  <2>3. LexDistance[i + 1] = LexDistance[i] * Characters + 1
    BY <2>1, <2>2 DEF LexStep
  <2>4. LexDistance[i] \in Nat /\ Characters \in Nat
    BY <1>3, <1>10, ReadersNumbers
  <2>5. LexDistance[i] * Characters \in Nat
    BY <2>4
  <2> QED
    BY <2>3, <2>5
<1>11. \A i \in 0..m : i \in U
  <2> HIDE DEF U, m
  <2> QED
    BY <1>3, <1>9, <1>10, CountUp
<1> QED
  BY <1>3, <1>8, <1>11

(* How many strings there are of at most m characters, and which. *)
Words(m) == IF m = 0 THEN 1 ELSE Characters * LexDistance[m - 1] + 1
Strings(m) == {s \in Seq(1..Characters) : Len(s) <= m}

(* There is the empty string, and each character before each of the        *)
(* strings that are one shorter.                                           *)
LEMMA WordsAre ==
  /\ Words(0) = 1
  /\ \A m \in 0..MaxLength : Words(m) \in Nat \ {0}
  /\ \A m \in 0..MaxLength - 1 :
       LexDistance[m] = Words(m) /\ Words(m + 1) = Characters * Words(m) + 1
<1> DEFINE C == Characters
           L(i) == LexDistance[i]
<1>1. C \in Nat /\ MaxLength \in Nat \ {0}
  BY ReadersNumbers
<1>2. \A i \in 0..MaxLength - 1 :
        L(i) \in Nat \ {0} /\ L(i) = IF i = 0 THEN 1 ELSE L(i - 1) * C + 1
  BY LexIs DEF LexStep
<1>3. \A m : Words(m) = IF m = 0 THEN 1 ELSE C * L(m - 1) + 1
  BY DEF Words
<1> HIDE DEF C, L
<1>4. ASSUME NEW m \in 0..MaxLength PROVE Words(m) \in Nat \ {0}
  <2>1. CASE m = 0
    BY <1>3, <2>1
  <2>2. CASE m # 0
    <3>1. m - 1 \in 0..MaxLength - 1
      BY <1>1, <2>2
    <3>2. L(m - 1) \in Nat
      BY <1>2, <3>1
    <3>3. C * L(m - 1) \in Nat
      BY <1>1, <3>2
    <3> QED
      BY <1>3, <2>2, <3>3
  <2> QED
    BY <2>1, <2>2
<1>5. ASSUME NEW m \in 0..MaxLength - 1 PROVE L(m) = Words(m) /\ Words(m + 1) = C * Words(m) + 1
  <2>1. L(m) = Words(m)
    <3>1. CASE m = 0
      <4>1. 0 \in 0..MaxLength - 1
        BY <3>1
      <4> QED
        BY <1>2, <1>3, <3>1, <4>1
    <3>2. CASE m # 0
      <4>1. L(m) = L(m - 1) * C + 1 /\ Words(m) = C * L(m - 1) + 1
        BY <1>2, <1>3, <3>2
      <4>2. m - 1 \in 0..MaxLength - 1
        BY <1>1, <3>2
      <4>3. L(m - 1) * C = C * L(m - 1)
        BY <1>1, <1>2, <4>2
      <4> QED
        BY <4>1, <4>3
    <3> QED
      BY <3>1, <3>2
  <2>2. m + 1 # 0 /\ (m + 1) - 1 = m
    BY <1>1
  <2> QED
    BY <1>3, <2>1, <2>2
<1> QED
  BY <1>3, <1>4, <1>5 DEF C, L

(* The namespaces are the strings of all lengths, and there is an ordinal  *)
(* for each.                                                               *)
LEMMA NamespacesAre ==
  /\ Namespaces = Strings(MaxLength)
  /\ Ordinals = 0..Words(MaxLength) - 1
<1>1. MaxLength \in Nat \ {0}
  BY ReadersNumbers
<1> DEFINE chars == 1..Characters
           most == MaxLength
<1>2. /\ Namespaces = UNION {[1..n -> chars] : n \in 0..most}
      /\ Strings(most) = {s \in Seq(chars) : Len(s) <= most}
  BY DEF Namespaces, Strings
<1> HIDE DEF chars
<1>3. Namespaces = Strings(most)
  <2> HIDE DEF most
  <2>1. most \in Nat
    BY <1>1 DEF most
  <2>2. ASSUME NEW s \in Namespaces PROVE s \in Strings(most)
    <3>1. PICK n \in 0..most : s \in [1..n -> chars]
      BY <1>2
    <3>2. s \in Seq(chars) /\ Len(s) = n
      BY <2>1, <3>1
    <3> QED
      BY <1>2, <2>1, <3>1, <3>2
  <2>3. ASSUME NEW s \in Strings(most) PROVE s \in Namespaces
    <3>1. s \in Seq(chars) /\ Len(s) <= most
      BY <1>2
    <3>2. s \in [1..Len(s) -> chars] /\ Len(s) \in Nat
      BY <3>1
    <3>3. Len(s) \in 0..most
      BY <2>1, <3>1, <3>2
    <3> QED
      BY <1>2, <3>2, <3>3
  <2> QED
    BY <2>2, <2>3
<1>4. Ordinals = 0..Words(MaxLength) - 1
  <2> DEFINE w == Words(MaxLength)
             k == Characters * LexDistance[MaxLength - 1]
  <2>1. w = k + 1 /\ w \in Nat
    BY <1>1, WordsAre DEF Words
  <2> HIDE DEF w, k
  <2>2. k \in Int
    <3>1. LexDistance[MaxLength - 1] \in Nat /\ Characters \in Nat
      BY <1>1, LexIs, ReadersNumbers
    <3> QED
      BY <3>1 DEF k
  <2>3. w - 1 = k
    BY <2>1, <2>2
  <2> QED
    BY <2>3 DEF Ordinals, w, k
<1> QED
  BY <1>3, <1>4 DEF most

(* The number of a string among those of at most m characters. *)
Digit(m, s, i) == Words(m - i) * (s[i] - 1) + 1
DigitsIn(m, s) == [i \in DOMAIN s |-> Digit(m, s, i)]
Number(m, s) == SumOf(DigitsIn(m, s), DOMAIN s)

(* _namespace_to_ord computes that number. *)
LEMMA NumberIs ==
  ASSUME NEW ns \in Namespaces
  PROVE  NamespaceToOrd[ns] = Number(MaxLength, ns)
<1>1. NamespaceToOrd[ns] = SumOf(Digits(ns), DOMAIN ns)
  BY DEF NamespaceToOrd, SumOf
<1>2. Digits(ns) = DigitsIn(MaxLength, ns)
  <2>1. ns \in Seq(1..Characters) /\ Len(ns) <= MaxLength /\ MaxLength \in Nat
    BY NamespacesAre, ReadersNumbers DEF Strings
  <2>2. ASSUME NEW i \in DOMAIN ns
        PROVE  LexDistance[MaxLength - i] * (ns[i] - 1) + 1 = Digit(MaxLength, ns, i)
    <3>1. MaxLength - i \in 0..MaxLength - 1
      BY <2>1
    <3>2. LexDistance[MaxLength - i] = Words(MaxLength - i)
      BY <3>1, WordsAre
    <3> QED
      BY <3>2 DEF Digit
  <2> QED
    BY <2>2 DEF Digits, DigitsIn
<1> QED
  BY <1>1, <1>2 DEF Number

(* The tail of a sequence. *)
LEMMA TailOf ==
  ASSUME NEW S, NEW s \in Seq(S), s # <<>>
  PROVE  /\ Tail(s) \in Seq(S) /\ Len(Tail(s)) = Len(s) - 1 /\ Len(s) > 0 /\ s[1] \in S
         /\ \A i \in 1..Len(Tail(s)) : Tail(s)[i] = s[i + 1]
<1>1. Tail(s) \in Seq(S) /\ Len(Tail(s)) = Len(s) - 1 /\ Len(s) > 0 /\ s[1] \in S
  OBVIOUS
<1>2. \A i \in 1..Len(Tail(s)) : Tail(s)[i] = s[i + 1]
  OBVIOUS
<1> QED
  BY <1>1, <1>2

(* A sequence is its head and its tail. *)
LEMMA SameTails ==
  ASSUME NEW S, NEW s \in Seq(S), NEW t \in Seq(S), s # <<>>, t # <<>>,
         s[1] = t[1], Tail(s) = Tail(t)
  PROVE  s = t
<1>1. Len(s) = Len(t) /\ Len(s) \in Nat
  BY TailOf
<1>2. ASSUME NEW i \in 1..Len(s) PROVE s[i] = t[i]
  <2>1. CASE i = 1
    BY <2>1
  <2>2. CASE i # 1
    <3>1. i - 1 \in 1..Len(Tail(s)) /\ i - 1 \in 1..Len(Tail(t)) /\ (i - 1) + 1 = i
      BY <1>1, <2>2, TailOf
    <3>2. Tail(s)[i - 1] = s[i] /\ Tail(t)[i - 1] = t[i]
      BY <3>1, TailOf
    <3> QED
      BY <3>2
  <2> QED
    BY <2>1, <2>2
<1> QED
  BY <1>1, <1>2

(* The tail of a string. *)
LEMMA TailIs ==
  ASSUME NEW m \in Nat, NEW s \in Strings(m + 1), s # <<>>
  PROVE  /\ s[1] \in 1..Characters /\ Tail(s) \in Strings(m)
         /\ Len(Tail(s)) = Len(s) - 1 /\ Len(s) \in Nat \ {0}
         /\ \A i \in 1..Len(Tail(s)) : Tail(s)[i] = s[i + 1]
<1> DEFINE chars == 1..Characters
<1>1. s \in Seq(chars) /\ Len(s) <= m + 1
  BY DEF Strings
<1> HIDE DEF chars
<1>2. Len(s) \in Nat \ {0} /\ s[1] \in chars
  BY <1>1
<1>3. Tail(s) \in Seq(chars) /\ Len(Tail(s)) = Len(s) - 1
  BY <1>1
<1>4. \A i \in 1..Len(Tail(s)) : Tail(s)[i] = s[i + 1]
  BY <1>1
<1>5. Len(Tail(s)) <= m
  BY <1>1, <1>2, <1>3
<1> QED
  BY <1>2, <1>3, <1>4, <1>5 DEF Strings, chars

(* What a character adds to the number. *)
LEMMA DigitType ==
  ASSUME NEW m \in 0..MaxLength, NEW s \in Strings(m), NEW i \in 1..Len(s)
  PROVE  Digit(m, s, i) \in Nat \ {0}
<1>1. m - i \in 0..MaxLength /\ s[i] - 1 \in Nat
  BY ReadersNumbers DEF Strings
<1>2. Words(m - i) \in Nat
  BY <1>1, WordsAre
<1> DEFINE a == Words(m - i)
           b == s[i] - 1
<1>3. a \in Nat /\ b \in Nat
  BY <1>1, <1>2
<1> HIDE DEF a, b
<1>4. a * b \in Nat
  BY <1>3
<1>5. a * b + 1 \in Nat \ {0}
  BY <1>4
<1> QED
  BY <1>5 DEF Digit, a, b

(* The number of a string by its first character and the number of its     *)
(* tail.                                                                   *)
LEMMA NumberCons ==
  ASSUME NEW m \in 0..MaxLength - 1, NEW s \in Strings(m + 1), s # <<>>
  PROVE  Number(m + 1, s) = Words(m) * (s[1] - 1) + 1 + Number(m, Tail(s))
<1> DEFINE n == Len(s) - 1
           t == Tail(s)
           f == DigitsIn(m + 1, s)
           g == DigitsIn(m, t)
<1>0. m \in Nat /\ m + 1 \in 0..MaxLength /\ m \in 0..MaxLength
  BY ReadersNumbers
<1>1. n \in Nat /\ DOMAIN s = 1..n + 1 /\ DOMAIN t = 1..n /\ t \in Strings(m)
  BY <1>0, TailIs DEF Strings
<1>2. \A i \in 1..n + 1 : f[i] = Digit(m + 1, s, i) /\ f[i] \in Int
  BY <1>0, <1>1, DigitType DEF DigitsIn, Strings
<1>3. ASSUME NEW i \in 1..n PROVE g[i] = f[i + 1]
  <2>1. i + 1 \in 1..n + 1 /\ t[i] = s[i + 1] /\ (m + 1) - (i + 1) = m - i
    BY <1>0, <1>1, TailIs DEF Strings
  <2>2. g[i] = Digit(m, t, i)
    BY <1>1 DEF DigitsIn
  <2>3. Digit(m, t, i) = Digit(m + 1, s, i + 1)
    BY <2>1 DEF Digit
  <2> QED
    BY <1>2, <2>1, <2>2, <2>3
<1>4. Number(m + 1, s) = SumOf(f, 1..n + 1) /\ Number(m, t) = SumOf(g, 1..n)
  BY <1>1 DEF Number
<1>5. f[1] = Words(m) * (s[1] - 1) + 1
  <2>1. 1 \in 1..n + 1 /\ (m + 1) - 1 = m
    BY <1>0, <1>1
  <2> QED
    BY <1>2, <2>1 DEF Digit
<1> HIDE DEF f, g, n
<1>6. SumOf(f, 1..n + 1) = f[1] + SumOf(g, 1..n)
  BY <1>1, <1>2, <1>3, SumShift
<1> QED
  BY <1>4, <1>5, <1>6

(* The empty string has number 0. *)
LEMMA NumberOfEmpty == \A m : Number(m, <<>>) = 0
<1>1. DOMAIN <<>> = {}
  OBVIOUS
<1> QED
  BY <1>1, SumEmpty DEF Number

(* A first character and the number of the rest. *)
LEMMA FirstDigit ==
  ASSUME NEW w \in Nat \ {0}, NEW c \in Nat, NEW d \in 1..c, NEW r \in 0..w - 1
  PROVE  /\ w * (d - 1) + 1 + r \in 1..c * w
         /\ \A e \in 1..c, q \in 0..w - 1 :
              d < e => w * (d - 1) + 1 + r < w * (e - 1) + 1 + q
<1>1. d - 1 \in Nat /\ w * (d - 1) \in Nat
  OBVIOUS
<1>2. w * d \in Nat /\ w * d = w * (d - 1) + w
  OBVIOUS
<1>3. ASSUME NEW e \in Nat, d <= e PROVE w * d <= w * e /\ w * e \in Nat
  <2>1. e - d \in Nat /\ w * (e - d) \in Nat
    BY <1>3
  <2>2. w * e = w * d + w * (e - d)
    BY <1>3
  <2> QED
    BY <1>2, <2>1, <2>2
<1>4. w * (d - 1) + 1 + r <= w * d
  BY <1>1, <1>2
<1>5. w * d <= c * w
  <2>1. w * c = c * w /\ d <= c
    OBVIOUS
  <2> QED
    BY <1>3, <2>1
<1>6. ASSUME NEW e \in 1..c, NEW q \in 0..w - 1, d < e
      PROVE  w * (d - 1) + 1 + r < w * (e - 1) + 1 + q
  <2>1. e - 1 \in Nat /\ d <= e - 1
    BY <1>6
  <2>2. w * d <= w * (e - 1) /\ w * (e - 1) \in Nat
    BY <1>3, <2>1
  <2> DEFINE x == w * (e - 1)
             y == w * d
             z == w * (d - 1)
  <2>3. y <= x /\ x \in Nat /\ y \in Nat /\ z \in Nat /\ z + 1 + r <= y
    BY <1>1, <1>2, <1>4, <2>2
  <2> HIDE DEF x, y, z
  <2>4. z + 1 + r < x + 1 + q
    BY <2>3
  <2> QED
    BY <2>4 DEF x, z
<1> QED
  BY <1>1, <1>2, <1>4, <1>5, <1>6

(* The number of a string is less than there are strings. *)
LEMMA NumberType ==
  \A m \in 0..MaxLength : \A s \in Strings(m) : Number(m, s) \in 0..Words(m) - 1
<1> DEFINE T == {m \in Nat : m <= MaxLength =>
                    \A s \in Strings(m) : Number(m, s) \in 0..Words(m) - 1}
           most == MaxLength
<1>1. most \in Nat
  BY ReadersNumbers
<1>2. 0 \in T
  <2>1. \A s \in Strings(0) : s = <<>>
    BY DEF Strings
  <2>2. Words(0) = 1
    BY WordsAre
  <2> QED
    BY <2>1, <2>2, NumberOfEmpty
<1>3. ASSUME NEW m \in Nat, m < most, m \in T PROVE m + 1 \in T
  <2>1. SUFFICES ASSUME NEW s \in Strings(m + 1)
                 PROVE  Number(m + 1, s) \in 0..Words(m + 1) - 1
    OBVIOUS
  <2>2. m \in 0..most - 1 /\ m + 1 \in 0..most
    BY <1>1, <1>3
  <2>3. Words(m) \in Nat \ {0} /\ Words(m + 1) = Characters * Words(m) + 1
        /\ Words(m + 1) \in Nat \ {0}
    BY <1>1, <1>3, <2>2, WordsAre
  <2>4. CASE s = <<>>
    <3>1. Number(m + 1, s) = 0
      BY <2>4, NumberOfEmpty
    <3> QED
      BY <2>3, <3>1
  <2>5. CASE s # <<>>
    <3> DEFINE w == Words(m)
               d == s[1]
               r == Number(m, Tail(s))
    <3>1. d \in 1..Characters /\ r \in 0..w - 1
      <4>1. s[1] \in 1..Characters /\ Tail(s) \in Strings(m)
        BY <2>5, TailIs
      <4>2. \A t \in Strings(m) : Number(m, t) \in 0..Words(m) - 1
        BY <1>1, <1>3
      <4> QED
        BY <4>1, <4>2
    <3>2. Number(m + 1, s) = w * (d - 1) + 1 + r
      BY <2>2, <2>5, NumberCons
    <3>3. w \in Nat \ {0} /\ Characters \in Nat
      BY <2>3, ReadersNumbers
    <3> HIDE DEF w, d, r
    <3>4. w * (d - 1) + 1 + r \in 1..Characters * w
      BY <3>1, <3>3, FirstDigit
    <3>5. Words(m + 1) - 1 = Characters * w
      <4>1. Characters * w \in Nat
        BY <3>3
      <4> QED
        BY <2>3, <4>1 DEF w
    <3> QED
      BY <3>2, <3>4, <3>5
  <2> QED
    BY <2>4, <2>5
<1> HIDE DEF T, most
<1>4. \A m \in 0..most : m \in T
  BY <1>1, <1>2, <1>3, CountUp
<1> QED
  BY <1>1, <1>4 DEF T, most

(* The order of the datastore, by the first characters. *)
LEMMA PrecedesIs ==
  ASSUME NEW m \in Nat, NEW a \in Strings(m + 1), NEW b \in Strings(m + 1)
  PROVE  Precedes(a, b) <=>
           /\ b # <<>>
           /\ a # <<>> => \/ a[1] < b[1]
                          \/ a[1] = b[1] /\ Precedes(Tail(a), Tail(b))
<1> DEFINE chars == 1..Characters
           Is(x, y, n) == /\ n <= Len(x) /\ SubSeq(x, 1, n) = SubSeq(y, 1, n)
                          /\ n = Len(x) \/ (n < Len(x) /\ x[n + 1] < y[n + 1])
           Alike(x, y, n) == \A i \in 1..n : x[i] = y[i]
<1>1. a \in Seq(chars) /\ b \in Seq(chars) /\ chars \subseteq Int
  BY DEF Strings
<1> HIDE DEF chars
<1>2. Len(a) \in Nat /\ Len(b) \in Nat
  BY <1>1
<1>3. ASSUME NEW x \in Seq(chars), NEW y \in Seq(chars), NEW n \in Nat,
             n <= Len(x), n <= Len(y)
      PROVE  SubSeq(x, 1, n) = SubSeq(y, 1, n) <=> Alike(x, y, n)
  <2>1. /\ SubSeq(x, 1, n) = [i \in 1..n |-> x[i]]
        /\ SubSeq(y, 1, n) = [i \in 1..n |-> y[i]]
    BY <1>3
  <2> QED
    BY <2>1
<1>4. Precedes(a, b) <=> \E n \in 0..Len(b) - 1 : Is(a, b, n)
  BY DEF Precedes
<1>5. CASE b = <<>>
  <2>1. Len(b) = 0
    BY <1>5
  <2> QED
    BY <1>4, <1>5, <2>1
<1>6. CASE b # <<>> /\ a = <<>>
  <2>1. Len(a) = 0 /\ 0 \in 0..Len(b) - 1
    BY <1>1, <1>6
  <2>2. Alike(a, b, 0)
    OBVIOUS
  <2>3. Is(a, b, 0)
    BY <1>1, <1>2, <1>3, <2>1, <2>2
  <2> QED
    BY <1>4, <1>6, <2>1, <2>3
<1>7. CASE b # <<>> /\ a # <<>>
  <2> DEFINE c == Tail(a)
             d == Tail(b)
  <2>1. /\ c \in Seq(chars) /\ Len(c) = Len(a) - 1 /\ Len(a) > 0 /\ a[1] \in Int
        /\ \A i \in 1..Len(c) : c[i] = a[i + 1]
    BY <1>1, <1>7, TailOf
  <2>2. /\ d \in Seq(chars) /\ Len(d) = Len(b) - 1 /\ Len(b) > 0 /\ b[1] \in Int
        /\ \A i \in 1..Len(d) : d[i] = b[i + 1]
    BY <1>1, <1>7, TailOf
  <2>3. Precedes(c, d) <=> \E n \in 0..Len(d) - 1 : Is(c, d, n)
    BY DEF Precedes
  <2> HIDE DEF c, d
  <2>4. ASSUME NEW n \in Nat, n < Len(d), n <= Len(c), a[1] = b[1]
        PROVE  Is(a, b, n + 1) <=> Is(c, d, n)
    <3>1. Alike(a, b, n + 1) <=> Alike(c, d, n)
      <4>1. ASSUME Alike(a, b, n + 1), NEW i \in 1..n PROVE c[i] = d[i]
        <5>1. i + 1 \in 1..n + 1 /\ i \in 1..Len(c) /\ i \in 1..Len(d)
          BY <1>2, <2>1, <2>2, <2>4
        <5> QED
          BY <2>1, <2>2, <4>1, <5>1
      <4>2. ASSUME Alike(c, d, n), NEW i \in 1..n + 1 PROVE a[i] = b[i]
        <5>1. CASE i = 1
          BY <2>4, <5>1
        <5>2. CASE i # 1
          <6>1. i - 1 \in 1..n /\ i - 1 \in 1..Len(c) /\ i - 1 \in 1..Len(d)
                /\ (i - 1) + 1 = i
            BY <1>2, <2>1, <2>2, <2>4, <5>2
          <6> QED
            BY <2>1, <2>2, <4>2, <6>1
        <5> QED
          BY <5>1, <5>2
      <4> QED
        BY <4>1, <4>2
    <3>2. /\ n + 1 <= Len(a) /\ n + 1 <= Len(b) /\ n + 1 \in Nat
          /\ n + 1 = Len(a) <=> n = Len(c)
          /\ n + 1 < Len(a) <=> n < Len(c)
      BY <1>2, <2>1, <2>2, <2>4
    <3>3. n < Len(c) => c[n + 1] = a[(n + 1) + 1]
      <4>1. n < Len(c) => n + 1 \in 1..Len(c)
        BY <1>2, <2>1
      <4> QED
        BY <2>1, <4>1
    <3>4. d[n + 1] = b[(n + 1) + 1]
      <4>1. n + 1 \in 1..Len(d)
        BY <1>2, <2>2, <2>4
      <4> QED
        BY <2>2, <4>1
    <3>5. SubSeq(a, 1, n + 1) = SubSeq(b, 1, n + 1) <=> SubSeq(c, 1, n) = SubSeq(d, 1, n)
      <4>1. SubSeq(a, 1, n + 1) = SubSeq(b, 1, n + 1) <=> Alike(a, b, n + 1)
        BY <1>1, <1>3, <3>2
      <4>2. n <= Len(d)
        BY <1>2, <2>2, <2>4
      <4>3. SubSeq(c, 1, n) = SubSeq(d, 1, n) <=> Alike(c, d, n)
        BY <1>3, <2>1, <2>2, <2>4, <4>2
      <4> QED
        BY <3>1, <4>1, <4>3
    <3> QED
      BY <2>4, <3>2, <3>3, <3>4, <3>5
  <2>5. Is(a, b, 0) <=> a[1] < b[1]
    <3>1. SubSeq(a, 1, 0) = SubSeq(b, 1, 0)
      BY <1>1, <1>2, <1>3
    <3> QED
      BY <2>1, <3>1
  <2>6. ASSUME NEW n \in 0..Len(b) - 1, Is(a, b, n), n # 0
        PROVE  a[1] = b[1] /\ Precedes(c, d)
    <3>1. n \in Nat /\ n <= Len(a) /\ n <= Len(b) /\ 1 \in 1..n
      BY <1>2, <2>6
    <3>2. Alike(a, b, n)
      BY <1>1, <1>3, <2>6, <3>1
    <3>3. a[1] = b[1]
      BY <3>1, <3>2
    <3>4. n - 1 \in Nat /\ n - 1 < Len(d) /\ n - 1 <= Len(c) /\ (n - 1) + 1 = n
          /\ n - 1 \in 0..Len(d) - 1
      BY <1>2, <2>1, <2>2, <2>6, <3>1
    <3>5. Is(c, d, n - 1)
      BY <2>4, <2>6, <3>3, <3>4
    <3> QED
      BY <2>3, <3>3, <3>4, <3>5
  <2>7. ASSUME a[1] = b[1], Precedes(c, d) PROVE Precedes(a, b)
    <3>1. PICK n \in 0..Len(d) - 1 : Is(c, d, n)
      BY <2>3, <2>7
    <3>2. n \in Nat /\ n < Len(d) /\ n <= Len(c) /\ n + 1 \in 0..Len(b) - 1
      BY <1>2, <2>1, <2>2, <3>1
    <3>3. Is(a, b, n + 1)
      BY <2>4, <2>7, <3>1, <3>2
    <3> QED
      BY <1>4, <3>2, <3>3
  <2>8. 0 \in 0..Len(b) - 1
    BY <1>2, <2>2
  <2> HIDE DEF Is
  <2>9. Precedes(a, b) <=> a[1] < b[1] \/ (a[1] = b[1] /\ Precedes(c, d))
    BY <1>4, <2>5, <2>6, <2>7, <2>8
  <2> QED
    BY <1>7, <2>9 DEF c, d
<1> QED
  BY <1>5, <1>6, <1>7

(* Strings are numbered in the order of the datastore. *)
LEMMA NumberGrows ==
  \A m \in 0..MaxLength : \A a, b \in Strings(m) :
    /\ Precedes(a, b) => Number(m, a) < Number(m, b)
    /\ a = b \/ Precedes(a, b) \/ Precedes(b, a)
<1> DEFINE Fine(m) == \A a, b \in Strings(m) :
             /\ Precedes(a, b) => Number(m, a) < Number(m, b)
             /\ a = b \/ Precedes(a, b) \/ Precedes(b, a)
           T == {m \in Nat : m <= MaxLength => Fine(m)}
           most == MaxLength
<1>1. most \in Nat
  BY ReadersNumbers
<1>2. 0 \in T
  <2>1. \A s \in Strings(0) : s = <<>>
    BY DEF Strings
  <2>2. ~Precedes(<<>>, <<>>)
    <3>1. Len(<<>>) = 0
      OBVIOUS
    <3> QED
      BY <3>1 DEF Precedes
  <2> QED
    BY <2>1, <2>2
<1>3. ASSUME NEW m \in Nat, m < most, m \in T PROVE m + 1 \in T
  <2>1. SUFFICES ASSUME NEW a \in Strings(m + 1), NEW b \in Strings(m + 1)
                 PROVE  /\ Precedes(a, b) => Number(m + 1, a) < Number(m + 1, b)
                        /\ a = b \/ Precedes(a, b) \/ Precedes(b, a)
    OBVIOUS
  <2>2. m \in 0..most - 1 /\ m + 1 \in 0..most /\ m \in 0..most /\ Fine(m)
    BY <1>1, <1>3
  <2> DEFINE w == Words(m)
             d(x) == x[1]
             r(x) == Number(m, Tail(x))
  <2>3. w \in Nat \ {0} /\ Characters \in Nat
    BY <2>2, WordsAre, ReadersNumbers
  <2>4. ASSUME NEW x \in Strings(m + 1), x # <<>>
        PROVE  /\ d(x) \in 1..Characters /\ Tail(x) \in Strings(m) /\ r(x) \in 0..w - 1
               /\ Number(m + 1, x) = w * (d(x) - 1) + 1 + r(x)
    <3>1. d(x) \in 1..Characters /\ Tail(x) \in Strings(m)
      BY <2>4, TailIs
    <3>2. r(x) \in 0..w - 1
      BY <2>2, <3>1, NumberType
    <3>3. Number(m + 1, x) = w * (d(x) - 1) + 1 + r(x)
      BY <2>2, <2>4, NumberCons
    <3> QED
      BY <3>1, <3>2, <3>3
  <2>5. ASSUME Precedes(a, b) PROVE Number(m + 1, a) < Number(m + 1, b)
    <3>1. b # <<>>
      BY <2>5, PrecedesIs
    <3>2. CASE a = <<>>
      <4>1. Number(m + 1, a) = 0
        BY <3>2, NumberOfEmpty
      <4>2. d(b) \in 1..Characters /\ r(b) \in 0..w - 1
            /\ Number(m + 1, b) = w * (d(b) - 1) + 1 + r(b)
        BY <2>4, <3>1
      <4> HIDE DEF w, d, r
      <4>3. w * (d(b) - 1) + 1 + r(b) \in 1..Characters * w
        BY <2>3, <4>2, FirstDigit
      <4> QED
        BY <4>1, <4>2, <4>3
    <3>3. CASE a # <<>> /\ d(a) < d(b)
      <4>1. /\ d(a) \in 1..Characters /\ r(a) \in 0..w - 1
            /\ Number(m + 1, a) = w * (d(a) - 1) + 1 + r(a)
            /\ d(b) \in 1..Characters /\ r(b) \in 0..w - 1
            /\ Number(m + 1, b) = w * (d(b) - 1) + 1 + r(b)
        BY <2>4, <3>1, <3>3
      <4>2. d(a) < d(b)
        BY <3>3
      <4> HIDE DEF w, d, r
      <4> QED
        BY <2>3, <4>1, <4>2, FirstDigit
    <3>4. CASE a # <<>> /\ d(a) = d(b) /\ Precedes(Tail(a), Tail(b))
      <4>1. /\ r(a) \in 0..w - 1 /\ Number(m + 1, a) = w * (d(a) - 1) + 1 + r(a)
            /\ r(b) \in 0..w - 1 /\ Number(m + 1, b) = w * (d(a) - 1) + 1 + r(b)
            /\ Tail(a) \in Strings(m) /\ Tail(b) \in Strings(m) /\ d(a) \in 1..Characters
        BY <2>4, <3>1, <3>4
      <4>2. r(a) < r(b)
        BY <2>2, <3>4, <4>1
      <4> HIDE DEF w, d, r
      <4>3. w * (d(a) - 1) \in Int
        BY <2>3, <4>1
      <4> QED
        BY <2>3, <4>1, <4>2, <4>3
    <3> QED
      BY <2>5, <3>1, <3>2, <3>3, <3>4, PrecedesIs
  <2>6. a = b \/ Precedes(a, b) \/ Precedes(b, a)
    <3>1. CASE a = <<>> \/ b = <<>>
      BY <3>1, PrecedesIs
    <3>2. CASE a # <<>> /\ b # <<>>
      <4>1. /\ d(a) \in Int /\ d(b) \in Int
            /\ Tail(a) \in Strings(m) /\ Tail(b) \in Strings(m)
        BY <2>4, <3>2
      <4>2. CASE d(a) # d(b)
        BY <3>2, <4>1, <4>2, PrecedesIs
      <4>3. CASE d(a) = d(b)
        <5>1. Tail(a) = Tail(b) => a = b
          <6> DEFINE chars == 1..Characters
          <6>1. a \in Seq(chars) /\ b \in Seq(chars)
            BY DEF Strings
          <6> HIDE DEF chars
          <6> QED
            BY <3>2, <4>3, <6>1, SameTails
        <5>2. Tail(a) = Tail(b) \/ Precedes(Tail(a), Tail(b)) \/ Precedes(Tail(b), Tail(a))
          BY <2>2, <4>1
        <5> QED
          BY <3>2, <4>3, <5>1, <5>2, PrecedesIs
      <4> QED
        BY <4>2, <4>3
    <3> QED
      BY <3>1, <3>2
  <2> QED
    BY <2>5, <2>6
<1> HIDE DEF T, most
<1>4. \A m \in 0..most : m \in T
  BY <1>1, <1>2, <1>3, CountUp
<1> QED
  BY <1>1, <1>4 DEF T, most

(* The recursive equation of OrdToNamespaceOf. *)
OrdStep(f, i) ==
  [n \in Ordinals |->
     IF n = 0 \/ i = 0 THEN <<>>
     ELSE <<1 + (n - 1) \div LexDistance[i - 1]>>
            \o f[i - 1][(n - 1) % LexDistance[i - 1]]]

(* There is a function that satisfies the equation, so OrdToNamespaceOf    *)
(* does.                                                                   *)
LEMMA OrdIs ==
  \A i \in 0..MaxLength : OrdToNamespaceOf[i] = OrdStep(OrdToNamespaceOf, i)
<1> DEFINE Good(f, n) == f = [i \in 0..n |-> OrdStep(f, i)]
           T == {n \in Nat : \E f : Good(f, n)}
           m == MaxLength
<1>0. m \in Nat
  BY ReadersNumbers
<1>1. \A f, g, i : f[i - 1] = g[i - 1] \/ i = 0 => OrdStep(f, i) = OrdStep(g, i)
  BY DEF OrdStep
<1>2. 0 \in T
  <2> DEFINE f == [i \in 0..0 |-> OrdStep(<<>>, i)]
  <2>1. f = [i \in 0..0 |-> OrdStep(f, i)]
    <3>1. \A i \in 0..0 : OrdStep(<<>>, i) = OrdStep(f, i)
      <4>1. \A i \in 0..0 : i = 0
        OBVIOUS
      <4> HIDE DEF f
      <4> QED
        BY <1>1, <4>1
    <3> QED
      BY <3>1
  <2> HIDE DEF f
  <2> QED
    BY <2>1
<1>3. ASSUME NEW n \in Nat, n \in T PROVE n + 1 \in T
  <2>1. PICK f : Good(f, n)
    BY <1>3
  <2> DEFINE g == [i \in 0..n + 1 |-> IF i = n + 1 THEN OrdStep(f, n + 1) ELSE f[i]]
  <2>2. ASSUME NEW i \in 0..n + 1 PROVE g[i] = OrdStep(g, i)
    <3>1. CASE i = 0
      <4>1. g[i] = f[i] /\ f[i] = OrdStep(f, i)
        BY <2>1, <3>1
      <4> HIDE DEF g
      <4> QED
        BY <1>1, <3>1, <4>1
    <3>2. CASE i # 0
      <4>1. i - 1 \in 0..n /\ i - 1 \in 0..n + 1 /\ i - 1 # n + 1
        BY <3>2
      <4>2. g[i - 1] = f[i - 1]
        BY <4>1
      <4>3. g[i] = OrdStep(f, i)
        <5>1. CASE i = n + 1
          BY <5>1
        <5>2. CASE i # n + 1
          <6>1. i \in 0..n
            BY <5>2
          <6> QED
            BY <2>1, <5>2, <6>1
        <5> QED
          BY <5>1, <5>2
      <4> HIDE DEF g
      <4> QED
        BY <1>1, <4>2, <4>3
    <3> QED
      BY <3>1, <3>2
  <2>3. g = [i \in 0..n + 1 |-> g[i]]
    OBVIOUS
  <2> HIDE DEF g
  <2>4. Good(g, n + 1)
    BY <2>2, <2>3
  <2> QED
    BY <2>4
<1>4. m \in T
  <2> HIDE DEF T, m
  <2>1. \A i \in 0..m : i \in T
    BY <1>0, <1>2, <1>3, CountUp
  <2> QED
    BY <1>0, <2>1
<1>5. PICK f : Good(f, m)
  BY <1>4
<1>6. OrdToNamespaceOf = CHOOSE g : g = [i \in 0..m |-> OrdStep(g, i)]
  BY Zenon DEF OrdToNamespaceOf, OrdStep
<1>7. OrdToNamespaceOf = [i \in 0..m |-> OrdStep(OrdToNamespaceOf, i)]
  BY <1>5, <1>6
<1> QED
  BY <1>7

(* _ord_to_namespace is the inverse of _namespace_to_ord. *)
LEMMA NumberInverse ==
  \A m \in 0..MaxLength : \A n \in 0..Words(m) - 1 :
    OrdToNamespaceOf[m][n] \in Strings(m) /\ Number(m, OrdToNamespaceOf[m][n]) = n
<1> DEFINE O(m, n) == OrdToNamespaceOf[m][n]
           Fine(m) == \A n \in 0..Words(m) - 1 :
                        O(m, n) \in Strings(m) /\ Number(m, O(m, n)) = n
           T == {m \in Nat : m <= MaxLength => Fine(m)}
           most == MaxLength
<1>1. most \in Nat
  BY ReadersNumbers
<1>2. \A m \in 0..most : Words(m) \in Nat \ {0}
  BY WordsAre
<1> DEFINE Grow(m) == \A n \in 0..Words(m) - 1 : n \in Ordinals
<1>3. \A m \in 0..most : Grow(m)
  <2> DEFINE U == {i \in Nat : i <= most => \A n \in 0..Words(most - i) - 1 : n \in Ordinals}
  <2>1. 0 \in U
    <3>1. most - 0 = most
      BY <1>1
    <3> QED
      BY <3>1, NamespacesAre
  <2>2. ASSUME NEW i \in Nat, i < most, i \in U PROVE i + 1 \in U
    <3> DEFINE k == most - (i + 1)
    <3>1. k \in 0..most - 1 /\ k + 1 = most - i /\ k \in 0..most /\ k + 1 \in 0..most
      BY <1>1, <2>2
    <3> HIDE DEF k
    <3>2. Words(k + 1) = Characters * Words(k) + 1 /\ Words(k) \in Nat \ {0}
      BY <1>2, <3>1, WordsAre
    <3>3. Words(k) <= Words(k + 1)
      <4> DEFINE w == Words(k)
      <4>1. Characters - 1 \in Nat /\ w \in Nat
        BY <3>2, ReadersNumbers
      <4>2. (Characters - 1) * w \in Nat
        BY <4>1
      <4>3. Characters * w = (Characters - 1) * w + w
        BY <4>1, ReadersNumbers
      <4> HIDE DEF w
      <4>4. w <= Characters * w + 1
        BY <4>1, <4>2, <4>3
      <4> QED
        BY <3>2, <4>4 DEF w
    <3>4. \A n \in 0..Words(k + 1) - 1 : n \in Ordinals
      <4>1. \A n \in 0..Words(most - i) - 1 : n \in Ordinals
        BY <1>1, <2>2
      <4> QED
        BY <3>1, <4>1
    <3>5. \A n \in 0..Words(k) - 1 : n \in 0..Words(k + 1) - 1
      BY <1>2, <3>1, <3>3
    <3>6. \A n \in 0..Words(k) - 1 : n \in Ordinals
      BY <3>4, <3>5
    <3> QED
      BY <3>6 DEF k
  <2> HIDE DEF U
  <2>3. \A i \in 0..most : i \in U
    BY <1>1, <2>1, <2>2, CountUp
  <2>4. SUFFICES ASSUME NEW m \in 0..most PROVE Grow(m)
    OBVIOUS
  <2>5. most - m \in 0..most /\ most - (most - m) = m
    BY <1>1
  <2>6. most - m \in U
    BY <2>3, <2>5
  <2> QED
    BY <2>5, <2>6 DEF U
<1>4. 0 \in T
  <2>1. ASSUME NEW n \in 0..Words(0) - 1
        PROVE  O(0, n) \in Strings(0) /\ Number(0, O(0, n)) = n
    <3>1. n = 0
      BY <2>1, WordsAre
    <3>2. 0 \in 0..most /\ n \in Ordinals
      BY <1>1, <1>3, <2>1
    <3>3. O(0, n) = <<>>
      BY <3>2, OrdIs DEF OrdStep
    <3>4. <<>> \in Strings(0)
      BY DEF Strings
    <3> QED
      BY <3>1, <3>3, <3>4, NumberOfEmpty
  <2> QED
    BY <2>1
<1>5. ASSUME NEW m \in Nat, m < most, m \in T PROVE m + 1 \in T
  <2>1. m \in 0..most - 1 /\ m + 1 \in 0..most /\ m \in 0..most /\ Fine(m)
    BY <1>1, <1>5
  <2> DEFINE w == Words(m)
  <2>2. w \in Nat \ {0} /\ Characters \in Nat /\ LexDistance[m] = w
        /\ Words(m + 1) = Characters * w + 1
    BY <2>1, WordsAre, ReadersNumbers
  <2>3. SUFFICES ASSUME NEW n \in 0..Words(m + 1) - 1
                 PROVE  O(m + 1, n) \in Strings(m + 1) /\ Number(m + 1, O(m + 1, n)) = n
    OBVIOUS
  <2>4. n \in Ordinals
    BY <1>3, <2>1
  <2>5. m + 1 # 0 /\ (m + 1) - 1 = m
    OBVIOUS
  <2> DEFINE d == 1 + (n - 1) \div w
             r == (n - 1) % w
  <2>6. O(m + 1, n) = IF n = 0 THEN <<>> ELSE <<d>> \o O(m, r)
    <3> DEFINE f == OrdToNamespaceOf
               k == m + 1
    <3>1. f[k] = OrdStep(f, k)
      BY <2>1, OrdIs
    <3>2. k - 1 = m /\ k # 0
      BY <2>5
    <3> HIDE DEF f, k
    <3>3. f[k][n] = IF n = 0 THEN <<>>
                    ELSE <<1 + (n - 1) \div LexDistance[m]>>
                           \o f[m][(n - 1) % LexDistance[m]]
      BY <2>4, <3>1, <3>2 DEF OrdStep
    <3> QED
      BY <2>2, <3>3 DEF f, k
  <2>7. CASE n = 0
    <3>1. <<>> \in Strings(m + 1)
      BY DEF Strings
    <3> QED
      BY <2>6, <2>7, <3>1, NumberOfEmpty
  <2>8. CASE n # 0
    <3>1. n - 1 \in Nat /\ n - 1 < Characters * w
      <4>1. Characters * w \in Nat
        BY <2>2
      <4> HIDE DEF w
      <4> QED
        BY <2>2, <2>8, <4>1
    <3>2. /\ (n - 1) \div w \in Nat /\ (n - 1) \div w < Characters
          /\ r \in 0..w - 1 /\ n - 1 = w * ((n - 1) \div w) + r
      <4> HIDE DEF w
      <4> QED
        BY <2>2, <3>1, DivMod
    <3>3. d \in 1..Characters /\ d - 1 = (n - 1) \div w
      BY SMTT(30), <2>2, <3>2
    <3>4. n = w * (d - 1) + 1 + r
      <4> DEFINE x == w * (d - 1)
      <4>1. n - 1 = x + r /\ x \in Int /\ r \in Int /\ n \in Int
        BY <2>2, <3>1, <3>2, <3>3
      <4> HIDE DEF x
      <4>2. n = x + 1 + r
        BY <4>1
      <4> QED
        BY <4>2 DEF x
    <3> HIDE DEF d, r
    <3> DEFINE t == O(m, r)
               s == <<d>> \o t
    <3>5. t \in Strings(m) /\ Number(m, t) = r
      BY <2>1, <3>2
    <3>6. O(m + 1, n) = s
      BY <2>6, <2>8
    <3> HIDE DEF t
    <3>7. s \in Strings(m + 1) /\ s # <<>> /\ s[1] = d /\ Tail(s) = t
      <4> DEFINE chars == 1..Characters
      <4>1. t \in Seq(chars) /\ Len(t) <= m /\ d \in chars
        BY <3>3, <3>5 DEF Strings
      <4> HIDE DEF chars
      <4>2. s \in Seq(chars) /\ Len(s) = 1 + Len(t) /\ s # <<>> /\ s[1] = d
        BY <4>1
      <4>3. Tail(s) = t
        <5>1. Tail(s) \in Seq(chars) /\ Len(Tail(s)) = Len(t)
          BY <4>1, <4>2
        <5>2. \A i \in 1..Len(t) : Tail(s)[i] = t[i]
          BY <4>1, <4>2
        <5> QED
          BY <4>1, <5>1, <5>2
      <4>4. Len(s) <= m + 1
        BY <4>1, <4>2
      <4> QED
        BY <4>2, <4>3, <4>4 DEF Strings, chars
    <3> HIDE DEF s
    <3>8. Number(m + 1, s) = w * (d - 1) + 1 + r
      BY <2>1, <3>5, <3>7, NumberCons
    <3> QED
      BY <3>4, <3>6, <3>7, <3>8
  <2> QED
    BY <2>7, <2>8
<1> HIDE DEF T, most
<1>6. \A m \in 0..most : m \in T
  BY <1>1, <1>4, <1>5, CountUp
<1> QED
  BY <1>1, <1>6 DEF T, most

Ord(ns) == NamespaceToOrd[ns]

(* The ordinals number the namespaces without a gap and in the order of    *)
(* the datastore, and the two conversions are the inverses of one another. *)
THEOREM OrdinalsAre ==
  /\ \A a \in Namespaces : Ord(a) \in Ordinals /\ Ord(a) \in Nat
  /\ \A a, b \in Namespaces :
       /\ Before(a, b) <=> Ord(a) < Ord(b)
       /\ AtMost(a, b) <=> Ord(a) <= Ord(b)
       /\ Ord(a) = Ord(b) => a = b
  /\ \A n \in Ordinals : OrdToNamespace(n) \in Namespaces /\ Ord(OrdToNamespace(n)) = n
  /\ \A n \in Nat : \A m \in Ordinals : n <= m => n \in Ordinals
  /\ MinNamespace \in Namespaces /\ MaxNamespace \in Namespaces
  /\ \A a \in Namespaces : AtMost(MinNamespace, a) /\ AtMost(a, MaxNamespace)
  /\ IsFiniteSet(Namespaces)
<1> DEFINE most == MaxLength
           w == Words(most)
<1>1. most \in Nat /\ most \in 0..most /\ w \in Nat \ {0}
      /\ Namespaces = Strings(most) /\ Ordinals = 0..w - 1
  BY ReadersNumbers, WordsAre, NamespacesAre
<1>2. \A a \in Namespaces : Ord(a) = Number(most, a)
  BY NumberIs DEF Ord
<1>3. \A a \in Namespaces : Ord(a) \in 0..w - 1
  BY <1>1, <1>2, NumberType
<1>4. \A a, b \in Namespaces :
        /\ Precedes(a, b) => Ord(a) < Ord(b)
        /\ a = b \/ Precedes(a, b) \/ Precedes(b, a)
  BY <1>1, <1>2, NumberGrows
<1>5. \A n \in 0..w - 1 : OrdToNamespace(n) \in Namespaces /\ Ord(OrdToNamespace(n)) = n
  <2>1. \A n \in 0..w - 1 : OrdToNamespace(n) \in Namespaces /\ Number(most, OrdToNamespace(n)) = n
    BY <1>1, NumberInverse DEF OrdToNamespace
  <2> QED
    BY <1>2, <2>1
<1>6. \A a, b \in Namespaces : Before(a, b) <=> Precedes(a, b)
  BY DEF Before, Order
<1> HIDE DEF w, most
<1>7. \A a \in Namespaces : Ord(a) \in Ordinals /\ Ord(a) \in Nat
  BY <1>1, <1>3
<1>8. ASSUME NEW a \in Namespaces, NEW b \in Namespaces
      PROVE  /\ Before(a, b) <=> Ord(a) < Ord(b)
             /\ AtMost(a, b) <=> Ord(a) <= Ord(b)
             /\ Ord(a) = Ord(b) => a = b
  BY <1>4, <1>6, <1>7 DEF AtMost
<1>9. \A n \in Nat : \A m \in Ordinals : n <= m => n \in Ordinals
  BY <1>1
<1>10. MinNamespace \in Namespaces /\ MaxNamespace \in Namespaces
  <2>1. <<>> \in Strings(most)
    BY <1>1 DEF Strings
  <2> DEFINE chars == 1..Characters
             z == [i \in 1..most |-> Characters]
  <2>2. Characters \in chars
    BY ReadersNumbers
  <2> HIDE DEF chars
  <2>3. z \in Seq(chars) /\ Len(z) <= most
    BY <1>1, <2>2
  <2>4. z \in Strings(most)
    BY <2>3 DEF Strings, chars
  <2> QED
    BY <1>1, <2>1, <2>4 DEF MinNamespace, MaxNamespace, most
<1>11. ASSUME NEW a \in Namespaces PROVE AtMost(MinNamespace, a) /\ AtMost(a, MaxNamespace)
  <2>1. ~Precedes(a, <<>>)
    <3>1. Len(<<>>) = 0
      OBVIOUS
    <3> QED
      BY <3>1 DEF Precedes
  <2>2. ~Precedes(MaxNamespace, a)
    <3> DEFINE z == MaxNamespace
    <3>1. /\ Len(z) = most /\ a \in Seq(1..Characters) /\ Len(a) <= most /\ Len(a) \in Nat
          /\ \A i \in 1..most : z[i] = Characters
      <4>1. a \in Seq(1..Characters) /\ Len(a) <= most
        BY <1>1 DEF Strings
      <4>2. z = [i \in 1..most |-> Characters]
        BY DEF MaxNamespace, most
      <4> QED
        BY <1>1, <4>1, <4>2
    <3> HIDE DEF z
    <3>2. ASSUME NEW n \in 0..Len(a) - 1, n = most \/ z[n + 1] < a[n + 1] PROVE FALSE
      <4>1. n + 1 \in 1..Len(a) /\ n + 1 \in 1..most /\ n # most
        BY <1>1, <3>1
      <4>2. z[n + 1] = Characters
        BY <3>1, <4>1
      <4>3. a[n + 1] \in 1..Characters
        <5> DEFINE chars == 1..Characters
        <5>1. a \in Seq(chars)
          BY <3>1
        <5> HIDE DEF chars
        <5>2. a[n + 1] \in chars
          BY <4>1, <5>1
        <5> QED
          BY <5>2 DEF chars
      <4> QED
        BY <3>2, <4>1, <4>2, <4>3, ReadersNumbers
    <3>3. ~Precedes(z, a)
      BY <3>1, <3>2 DEF Precedes
    <3> QED
      BY <3>3 DEF z
  <2> QED
    BY <1>4, <1>6, <1>10, <2>1, <2>2 DEF AtMost, MinNamespace
<1>12. IsFiniteSet(Namespaces)
  <2> DEFINE f == [a \in Namespaces |-> Ord(a)]
  <2>1. f \in Injection(Namespaces, Ordinals)
    <3>1. f \in [Namespaces -> Ordinals]
      BY <1>7
    <3>2. \A a, b \in Namespaces : f[a] = f[b] => a = b
      BY <1>8
    <3> QED
      BY <3>1, <3>2 DEF Injection, IsInjective
  <2>2. IsFiniteSet(Ordinals)
    <3>1. w - 1 \in Int
      BY <1>1
    <3> QED
      BY <1>1, <3>1, FS_Interval
  <2> HIDE DEF f
  <2> QED
    BY <2>1, <2>2, FS_Injection
<1> QED
  BY <1>1, <1>5, <1>7, <1>8, <1>9, <1>10, <1>11, <1>12

-----------------------------------------------------------------------------
(* What a reader still has before it: keys of the range that it is in,     *)
(* those of the ranges on its stack, or the namespaces after the current   *)
(* one.                                                                    *)

(* A key range, or one on the stack of a reader, has a key of a namespace. *)
InRange(range, ns, k) == range.ns = ns /\ Within(k, range)
OnStack(r, ns, k) == \E i \in DOMAIN r.ranges : InRange(r.ranges[i], ns, k)

(* What a reader still has before it. *)
ToRead(r, ns, k) ==
  \/ InRange(r.current, ns, k)
  \/ r.byKeys /\ OnStack(r, ns, k)
  \/ ~r.byKeys /\ Holds(r.ns, ns) /\ (r.current # NoKeyRange => Before(r.current.ns, ns))

(* The readers that a job can have: no key is in two ranges of the stack,  *)
(* nor in one and the current range, and the current range of namespaces   *)
(* is ahead.                                                               *)
ReaderRecord == [byKeys : BOOLEAN, ranges : Seq(KeyRanges), ns : Spans, current : KeyRanges]
OneRangeEach(r) ==
  \A ns \in Namespaces, k \in Keys : \A i \in DOMAIN r.ranges :
    InRange(r.ranges[i], ns, k) =>
      /\ ~InRange(r.current, ns, k)
      /\ \A j \in DOMAIN r.ranges : InRange(r.ranges[j], ns, k) => i = j
GoodReader(r) ==
  /\ r \in ReaderRecord /\ AtMost(r.ns.start, r.ns.end)
  /\ r.byKeys => OneRangeEach(r)
  /\ ~r.byKeys => (r.current # NoKeyRange => Holds(r.ns, r.current.ns))

(* Keys are positive numbers: 0 is none. *)
LEMMA KeysAre == Keys \subseteq Nat \ {0} /\ Keys = 1..NumKeys
  BY ReadersNumbers DEF Keys

(* None has no key. *)
LEMMA NoKeyRangeIs ==
  /\ NoKeyRange \in KeyRanges
  /\ \A ns, k : k \in Keys => ~InRange(NoKeyRange, ns, k)
<1>1. NoKeyRange = [ns |-> <<>>, start |-> 0, inclusive |-> FALSE, end |-> -1]
  BY DEF NoKeyRange, KeyRange
<1>2. <<>> \in Namespaces
  BY OrdinalsAre DEF MinNamespace
<1>3. NoKeyRange \in KeyRanges
  BY <1>1, <1>2 DEF KeyRanges
<1>4. ASSUME NEW k \in Keys PROVE ~Within(k, NoKeyRange)
  <2>1. k \in Nat
    BY KeysAre
  <2> QED
    BY <1>1, <2>1 DEF Within
<1> QED
  BY <1>3, <1>4 DEF InRange

(* A sequence turned over. *)
LEMMA ReverseIs ==
  ASSUME NEW S, NEW s \in Seq(S)
  PROVE  /\ Reverse(s) \in Seq(S) /\ Len(Reverse(s)) = Len(s)
         /\ \A i \in DOMAIN s : \E j \in DOMAIN s : Reverse(s)[j] = s[i]
         /\ \A j \in DOMAIN s : Len(s) - j + 1 \in DOMAIN s /\ Reverse(s)[j] = s[Len(s) - j + 1]
<1>1. Len(s) \in Nat /\ DOMAIN s = 1..Len(s)
  OBVIOUS
<1>2. \A j \in DOMAIN s : (Len(s) - j) + 1 \in DOMAIN s
  BY <1>1
<1>3. Reverse(s) = [j \in 1..Len(s) |-> s[(Len(s) - j) + 1]]
  BY DEF Reverse
<1>4. \A j \in 1..Len(s) : s[(Len(s) - j) + 1] \in S
  BY <1>1, <1>2
<1>5. Reverse(s) \in Seq(S) /\ Len(Reverse(s)) = Len(s)
  BY <1>1, <1>3, <1>4
<1>6. \A j \in DOMAIN s : Reverse(s)[j] = s[(Len(s) - j) + 1]
  BY <1>1, <1>3
<1>7. ASSUME NEW i \in DOMAIN s PROVE \E j \in DOMAIN s : Reverse(s)[j] = s[i]
  <2> DEFINE j == (Len(s) - i) + 1
  <2>1. j \in DOMAIN s /\ (Len(s) - j) + 1 = i
    BY <1>1
  <2>2. Reverse(s)[j] = s[i]
    BY <1>6, <2>1
  <2> QED
    BY <2>1, <2>2
<1> QED
  BY <1>2, <1>5, <1>6, <1>7

(* The stack turned over has the same ranges. *)
LEMMA TurnedOver ==
  ASSUME NEW r, GoodReader(r)
  PROVE  /\ GoodReader(FromJson(r))
         /\ \A ns, k : ToRead(FromJson(r), ns, k) <=> ToRead(r, ns, k)
<1> DEFINE x == FromJson(r)
           s == r.ranges
<1>1. r \in ReaderRecord /\ s \in Seq(KeyRanges)
  BY DEF GoodReader, ReaderRecord
<1>2. /\ Reverse(s) \in Seq(KeyRanges) /\ Len(Reverse(s)) = Len(s)
      /\ \A i \in DOMAIN s : \E j \in DOMAIN s : Reverse(s)[j] = s[i]
      /\ \A j \in DOMAIN s : Len(s) - j + 1 \in DOMAIN s /\ Reverse(s)[j] = s[Len(s) - j + 1]
  BY <1>1, ReverseIs
<1>3. /\ x \in ReaderRecord /\ x.ranges = Reverse(s)
      /\ x.current = r.current /\ x.ns = r.ns /\ x.byKeys = r.byKeys
  BY <1>1, <1>2 DEF FromJson, ReaderRecord
<1>4. DOMAIN Reverse(s) = DOMAIN s /\ DOMAIN s = 1..Len(s) /\ Len(s) \in Nat
  BY <1>1, <1>2
<1>5. \A ns, k : OnStack(x, ns, k) <=> OnStack(r, ns, k)
  BY <1>2, <1>3, <1>4 DEF OnStack
<1>6. OneRangeEach(r) => OneRangeEach(x)
  <2> SUFFICES ASSUME OneRangeEach(r), NEW ns \in Namespaces, NEW k \in Keys,
                      NEW i \in DOMAIN s, InRange(Reverse(s)[i], ns, k)
               PROVE  /\ ~InRange(r.current, ns, k)
                      /\ \A j \in DOMAIN s : InRange(Reverse(s)[j], ns, k) => i = j
    BY <1>3, <1>4 DEF OneRangeEach
  <2>1. /\ Len(s) - i + 1 \in DOMAIN s /\ Reverse(s)[i] = s[Len(s) - i + 1]
    BY <1>2
  <2>2. ASSUME NEW j \in DOMAIN s, InRange(Reverse(s)[j], ns, k) PROVE i = j
    <3>1. /\ Len(s) - j + 1 \in DOMAIN s /\ Reverse(s)[j] = s[Len(s) - j + 1]
      BY <1>2
    <3>2. Len(s) - i + 1 = Len(s) - j + 1
      BY <2>1, <2>2, <3>1 DEF OneRangeEach
    <3> QED
      BY <1>4, <3>2
  <2> QED
    BY <2>1, <2>2 DEF OneRangeEach
<1> HIDE DEF x
<1>7. GoodReader(x)
  BY <1>3, <1>6 DEF GoodReader
<1>8. \A ns, k : ToRead(x, ns, k) <=> ToRead(r, ns, k)
  BY <1>3, <1>5 DEF ToRead
<1> QED
  BY <1>7, <1>8 DEF x

-----------------------------------------------------------------------------
(* Steps of a reader: it ends, it moves on, it reads an entity. *)

Passes(s, x) ==
  /\ live' = [live EXCEPT ![s] = x]
  /\ GoodReader(x)
  /\ \A ns \in Namespaces, k \in Keys : ToRead(x, ns, k) => ToRead(live[s], ns, k)
Ends(s) ==
  /\ ended' = ended \union {s} /\ UNCHANGED <<live, read>>
  /\ \A ns \in Namespaces, k \in Keys : <<ns, k>> \in entities => ~ToRead(live[s], ns, k)
MovesOn(s) ==
  /\ UNCHANGED <<ended, read>>
  /\ \E x : /\ Passes(s, x)
            /\ \A ns \in Namespaces, k \in Keys :
                 <<ns, k>> \in entities /\ ToRead(live[s], ns, k) => ToRead(x, ns, k)
ReadsOne(s) ==
  /\ UNCHANGED ended
  /\ \E x : \E ns \in Namespaces, k \in Keys :
       /\ Passes(s, x)
       /\ ToRead(live[s], ns, k) /\ ~ToRead(x, ns, k)
       /\ read' = [read EXCEPT ![<<ns, k>>] = IF @ = 2 THEN 2 ELSE @ + 1]
       /\ \A n \in Namespaces, j \in Keys :
            <<n, j>> \in entities /\ ToRead(live[s], n, j) /\ <<n, j>> # <<ns, k>> => ToRead(x, n, j)

(* The fields of a reader. *)
LEMMA ReaderFields ==
  ASSUME NEW r \in ReaderRecord
  PROVE  /\ r.byKeys \in BOOLEAN /\ r.ranges \in Seq(KeyRanges)
         /\ r.ns \in Spans /\ r.ns.start \in Namespaces /\ r.ns.end \in Namespaces
         /\ r.current \in KeyRanges /\ r.current.ns \in Namespaces
         /\ r.current.start \in Keys \union {0} /\ r.current.inclusive \in BOOLEAN
         /\ r.current.end \in Keys \union {0, -1}
  BY DEF ReaderRecord, Spans, KeyRanges

(* Reading an entity takes this one entity, and no other, from what is     *)
(* ahead: all entities before it in its key range have been read.          *)
LEMMA ReadEntityStep ==
  ASSUME NEW s \in Shards, live \in [Shards -> ReaderRecord], GoodReader(live[s]), ReadEntity(s)
  PROVE  ReadsOne(s)
<1> DEFINE r == live[s]
           c == r.current
           k == Min(Unread(s))
           x == [r EXCEPT !.current.start = k, !.current.inclusive = FALSE]
           d == [c EXCEPT !.start = k, !.inclusive = FALSE]
<1>1. r \in ReaderRecord /\ c \in KeyRanges /\ c.ns \in Namespaces
  BY ReaderFields
<1>2. Unread(s) \subseteq Nat /\ Unread(s) \subseteq Keys /\ Unread(s) # {}
  BY KeysAre DEF ReadEntity, Unread
<1>3. k \in Unread(s) /\ \A j \in Unread(s) : k <= j
  BY <1>2, MinIs
<1>4. k \in Keys /\ k \in Nat \ {0} /\ <<c.ns, k>> \in entities /\ Within(k, c) /\ c # NoKeyRange
  BY <1>2, <1>3, KeysAre DEF Unread, ReadEntity, Current
<1>5. \A j \in Keys : <<c.ns, j>> \in entities /\ Within(j, c) => k <= j
  BY <1>3 DEF Unread, Current
<1>6. /\ live' = [live EXCEPT ![s].current.start = k, ![s].current.inclusive = FALSE]
      /\ read' = [read EXCEPT ![<<c.ns, k>>] = IF @ = 2 THEN 2 ELSE @ + 1]
      /\ ended' = ended
  BY DEF ReadEntity, Current
<1> HIDE DEF k
<1>7. live' = [live EXCEPT ![s] = x]
  BY <1>6
<1>8. /\ x \in ReaderRecord /\ x.current = d /\ x.byKeys = r.byKeys
      /\ x.ranges = r.ranges /\ x.ns = r.ns
      /\ d \in KeyRanges /\ d.ns = c.ns /\ d.start = k /\ d.inclusive = FALSE /\ d.end = c.end
  BY <1>1, <1>4 DEF ReaderRecord, KeyRanges
<1>9. c.end # -1 /\ c.end \in Nat /\ d # NoKeyRange
  <2>1. c.end # -1
    BY <1>4, KeysAre DEF Within
  <2>2. c.end \in Nat
    BY <1>1, <2>1, KeysAre DEF KeyRanges
  <2>3. NoKeyRange.end = -1
    BY DEF NoKeyRange, KeyRange
  <2> QED
    BY <1>8, <2>1, <2>2, <2>3
<1>10. c.start \in Nat
  BY <1>1, KeysAre DEF KeyRanges
<1>11. ASSUME NEW j \in Keys
       PROVE  /\ Within(j, d) => Within(j, c) /\ j # k
              /\ Within(j, c) /\ k <= j /\ j # k => Within(j, d)
  <2>1. j \in Nat
    BY KeysAre
  <2> DEFINE a == c.start
             b == c.inclusive
             e == c.end
  <2>2. Within(j, c) <=> (a = 0 \/ a < j \/ (b /\ a = j)) /\ (e = 0 \/ j < e)
    BY DEF Within
  <2>3. Within(k, c) <=> (a = 0 \/ a < k \/ (b /\ a = k)) /\ (e = 0 \/ k < e)
    BY DEF Within
  <2>4. Within(j, d) <=> k < j /\ (e = 0 \/ j < e)
    BY <1>4, <1>8 DEF Within
  <2>5. a \in Nat /\ e \in Nat
    BY <1>9, <1>10
  <2> HIDE DEF a, b, e
  <2> QED
    BY <1>4, <2>1, <2>2, <2>3, <2>4, <2>5
<1> HIDE DEF x, d
<1>12. \A n \in Namespaces, j \in Keys :
         /\ InRange(d, n, j) => InRange(c, n, j) /\ <<n, j>> # <<c.ns, k>>
         /\ <<n, j>> \in entities /\ InRange(c, n, j) /\ <<n, j>> # <<c.ns, k>> => InRange(d, n, j)
  BY <1>5, <1>8, <1>11 DEF InRange
<1>13. \A n, j : OnStack(x, n, j) <=> OnStack(r, n, j)
  BY <1>8 DEF OnStack
<1>14. InRange(c, c.ns, k) /\ ToRead(r, c.ns, k)
  BY <1>4 DEF InRange, ToRead
<1>15. GoodReader(x)
  <2>1. OneRangeEach(r) => OneRangeEach(x)
    <3> HIDE DEF r, c
    <3> SUFFICES ASSUME OneRangeEach(r), NEW n \in Namespaces, NEW j \in Keys,
                        NEW i \in DOMAIN r.ranges, InRange(r.ranges[i], n, j)
                 PROVE  /\ ~InRange(d, n, j)
                        /\ \A h \in DOMAIN r.ranges : InRange(r.ranges[h], n, j) => i = h
      BY <1>8 DEF OneRangeEach
    <3>1. /\ ~InRange(r.current, n, j)
          /\ \A h \in DOMAIN r.ranges : InRange(r.ranges[h], n, j) => i = h
      BY DEF OneRangeEach
    <3> QED
      BY <1>12, <3>1 DEF c
  <2> QED
    BY <1>4, <1>8, <2>1 DEF GoodReader
<1>16. \A n \in Namespaces, j \in Keys : ToRead(x, n, j) => ToRead(r, n, j)
  BY <1>4, <1>8, <1>9, <1>12, <1>13 DEF ToRead
<1>17. ~ToRead(x, c.ns, k)
  <2>1. ~InRange(d, c.ns, k)
    BY <1>1, <1>4, <1>12
  <2>2. r.byKeys => ~OnStack(x, c.ns, k)
    BY <1>1, <1>4, <1>13, <1>14 DEF GoodReader, OneRangeEach, OnStack
  <2>3. ~Before(c.ns, c.ns)
    BY <1>1, OrdinalsAre
  <2> QED
    BY <1>8, <1>9, <2>1, <2>2, <2>3 DEF ToRead
<1>18. \A n \in Namespaces, j \in Keys :
         <<n, j>> \in entities /\ ToRead(r, n, j) /\ <<n, j>> # <<c.ns, k>> => ToRead(x, n, j)
  BY <1>4, <1>8, <1>12, <1>13 DEF ToRead
<1>19. Passes(s, x)
  BY <1>7, <1>15, <1>16 DEF Passes
<1> QED
  BY <1>1, <1>4, <1>6, <1>14, <1>17, <1>18, <1>19 DEF ReadsOne

(* First is the least of a set of namespaces. *)
LEMMA FirstIs ==
  ASSUME NEW S \in SUBSET Namespaces, S # {}
  PROVE  First(S) \in S /\ \A m \in S : AtMost(First(S), m)
<1> DEFINE N == {Ord(m) : m \in S}
<1>1. N \in SUBSET Nat /\ N # {}
  BY OrdinalsAre
<1>2. \E b \in N : \A c \in N : b <= c
  <2> HIDE DEF N
  <2> QED
    BY <1>1, LeastOf
<1>3. PICK b \in N : \A c \in N : b <= c
  BY <1>2
<1>4. PICK ns \in S : b = Ord(ns)
  OBVIOUS
<1>5. \A m \in S : Ord(ns) <= Ord(m)
  BY <1>3, <1>4
<1>6. \A m \in S : AtMost(ns, m)
  BY <1>5, OrdinalsAre
<1> QED
  BY <1>6 DEF First

(* What is stored are namespaces. *)
LEMMA StoredIs == \A range : Stored(range) \in SUBSET Namespaces
  BY DEF Stored

(* A key range is left when no entity of it is ahead, and the next is      *)
(* taken from the stack; with none on the stack the reader is at its end.  *)
LEMMA NextKeyRangeStep ==
  ASSUME NEW s \in Shards, live \in [Shards -> ReaderRecord], GoodReader(live[s]), NextKeyRange(s)
  PROVE  Ends(s) \/ MovesOn(s)
<1> DEFINE r == live[s]
           c == r.current
           n == Len(r.ranges)
<1>1. r \in ReaderRecord /\ r.ranges \in Seq(KeyRanges) /\ c.ns \in Namespaces
  BY ReaderFields
<1>2. \A ns \in Namespaces, k \in Keys : <<ns, k>> \in entities => ~InRange(c, ns, k)
  BY DEF NextKeyRange, Unread, Current, InRange
<1>3. r.byKeys /\ read' = read
  BY DEF NextKeyRange
<1>4. CASE r.ranges = <<>>
  <2>1. ended' = ended \union {s} /\ live' = live
    BY <1>4 DEF NextKeyRange
  <2>2. \A ns, k : ~OnStack(r, ns, k)
    <3>1. DOMAIN r.ranges = {}
      BY <1>4
    <3> QED
      BY <3>1 DEF OnStack
  <2>3. \A ns \in Namespaces, k \in Keys : <<ns, k>> \in entities => ~ToRead(r, ns, k)
    BY <1>2, <1>3, <2>2 DEF ToRead
  <2> QED
    BY <1>3, <2>1, <2>3 DEF Ends
<1>5. CASE r.ranges # <<>>
  <2> DEFINE x == [r EXCEPT !.current = Last(r.ranges), !.ranges = Front(@)]
  <2>1. live' = [live EXCEPT ![s] = x] /\ ended' = ended
    BY <1>5 DEF NextKeyRange
  <2>2. /\ n \in Nat \ {0} /\ DOMAIN r.ranges = 1..n /\ Last(r.ranges) = r.ranges[n]
        /\ Last(r.ranges) \in KeyRanges
    BY <1>1, <1>5 DEF Last
  <2>3. /\ Front(r.ranges) \in Seq(KeyRanges) /\ DOMAIN Front(r.ranges) = 1..n - 1
        /\ \A i \in 1..n - 1 : Front(r.ranges)[i] = r.ranges[i]
    <3>1. n - 1 \in 0..n /\ 1 \in Nat
      BY <2>2
    <3> DEFINE f == SubSeq(r.ranges, 1, n - 1)
    <3>2. f = [i \in 1..n - 1 |-> r.ranges[i]]
      BY <1>1, <2>2
    <3>3. f \in Seq(KeyRanges)
      <4>1. \A i \in 1..n - 1 : r.ranges[i] \in KeyRanges
        BY <1>1, <2>2
      <4> QED
        BY <2>2, <3>1, <3>2, <4>1
    <3> QED
      BY <3>2, <3>3 DEF Front
  <2>4. /\ x \in ReaderRecord /\ x.byKeys = r.byKeys /\ x.ns = r.ns
        /\ x.current = r.ranges[n] /\ x.ranges = Front(r.ranges)
    BY <1>1, <2>2, <2>3 DEF ReaderRecord
  <2> HIDE DEF x
  <2>5. OneRangeEach(r)
    BY <1>3 DEF GoodReader
  <2> HIDE DEF r, c, n
  <2>6. OneRangeEach(x)
    <3> SUFFICES ASSUME NEW ns \in Namespaces, NEW k \in Keys, NEW i \in 1..n - 1,
                        InRange(r.ranges[i], ns, k)
                 PROVE  /\ ~InRange(r.ranges[n], ns, k)
                        /\ \A j \in 1..n - 1 : InRange(r.ranges[j], ns, k) => i = j
      BY <2>3, <2>4 DEF OneRangeEach
    <3>1. i \in 1..n /\ n \in 1..n /\ i # n /\ \A j \in 1..n - 1 : j \in 1..n
      BY <2>2
    <3> QED
      BY <2>2, <2>5, <3>1 DEF OneRangeEach
  <2>7. \A ns, k : OnStack(r, ns, k) <=> OnStack(x, ns, k) \/ InRange(x.current, ns, k)
    <3>1. \A i \in 1..n : i = n \/ i \in 1..n - 1
      BY <2>2
    <3>2. n \in 1..n /\ \A i \in 1..n - 1 : i \in 1..n
      BY <2>2
    <3> QED
      BY <2>2, <2>3, <2>4, <3>1, <3>2 DEF OnStack
  <2>8. GoodReader(x)
    BY <1>3, <2>4, <2>6 DEF GoodReader, r
  <2>9. \A ns \in Namespaces, k \in Keys : ToRead(x, ns, k) => ToRead(r, ns, k)
    BY <1>3, <2>4, <2>7 DEF ToRead
  <2>10. \A ns \in Namespaces, k \in Keys :
           <<ns, k>> \in entities /\ ToRead(r, ns, k) => ToRead(x, ns, k)
    BY <1>2, <1>3, <2>4, <2>7 DEF ToRead, c
  <2>11. Passes(s, x)
    BY <2>1, <2>8, <2>9 DEF Passes, r
  <2> QED
    BY <1>3, <2>1, <2>10, <2>11 DEF MovesOn, r
<1> QED
  BY <1>4, <1>5

(* AllKeys has all keys of a namespace. *)
LEMMA AllKeysAre ==
  ASSUME NEW ns \in Namespaces
  PROVE  /\ AllKeys(ns) \in KeyRanges /\ AllKeys(ns) # NoKeyRange /\ AllKeys(ns).ns = ns
         /\ \A m, k : InRange(AllKeys(ns), m, k) <=> m = ns
<1>1. AllKeys(ns) = [ns |-> ns, start |-> 0, inclusive |-> TRUE, end |-> 0]
  BY DEF AllKeys, KeyRange
<1>2. AllKeys(ns) \in KeyRanges /\ AllKeys(ns).ns = ns
  BY <1>1 DEF KeyRanges
<1>3. AllKeys(ns) # NoKeyRange
  <2>1. NoKeyRange.end = -1 /\ AllKeys(ns).end = 0
    BY <1>1 DEF NoKeyRange, KeyRange
  <2> QED
    BY <2>1
<1>4. \A k : Within(k, AllKeys(ns))
  BY <1>1 DEF Within
<1> QED
  BY <1>2, <1>3, <1>4 DEF InRange

(* No entity is ahead before the first namespace that is stored. *)
LEMMA NextNamespaceStep ==
  ASSUME NEW s \in Shards, live \in [Shards -> ReaderRecord], GoodReader(live[s]),
         NextNamespace(s)
  PROVE  Ends(s) \/ MovesOn(s)
<1> DEFINE r == live[s]
           S == Stored(r.ns)
<1>1. r \in ReaderRecord
  OBVIOUS
<1>2. ~r.byKeys /\ r.current = NoKeyRange /\ read' = read
  BY DEF NextNamespace, Current
<1>3. \A ns \in Namespaces, k \in Keys : ToRead(r, ns, k) <=> Holds(r.ns, ns)
  BY <1>2, NoKeyRangeIs DEF ToRead
<1>4. \A ns \in Namespaces, k \in Keys : <<ns, k>> \in entities /\ Holds(r.ns, ns) => ns \in S
  BY DEF Stored
<1>5. CASE S = {}
  <2>1. ended' = ended \union {s} /\ live' = live
    BY <1>5 DEF NextNamespace
  <2> QED
    BY <1>2, <1>3, <1>4, <1>5, <2>1 DEF Ends
<1>6. CASE S # {}
  <2> DEFINE f == First(S)
             x == [r EXCEPT !.current = AllKeys(f)]
  <2>1. live' = [live EXCEPT ![s] = x] /\ ended' = ended
    BY <1>6 DEF NextNamespace
  <2>2. f \in Namespaces /\ Holds(r.ns, f) /\ \A m \in S : AtMost(f, m)
    <3>1. f \in S /\ \A m \in S : AtMost(f, m)
      BY <1>6, FirstIs, StoredIs
    <3> QED
      BY <3>1 DEF Stored
  <2> HIDE DEF f
  <2>3. /\ AllKeys(f) \in KeyRanges /\ AllKeys(f) # NoKeyRange /\ AllKeys(f).ns = f
        /\ \A m, k : InRange(AllKeys(f), m, k) <=> m = f
    BY <2>2, AllKeysAre
  <2>4. /\ x \in ReaderRecord /\ x.byKeys = r.byKeys /\ x.ns = r.ns /\ x.current = AllKeys(f)
    BY <1>1, <2>3 DEF ReaderRecord
  <2> HIDE DEF x
  <2>5. \A ns \in Namespaces, k \in Keys :
          ToRead(x, ns, k) <=> ns = f \/ (Holds(r.ns, ns) /\ Before(f, ns))
    BY <1>2, <2>3, <2>4 DEF ToRead
  <2>6. GoodReader(x)
    BY <1>2, <2>2, <2>3, <2>4 DEF GoodReader
  <2>7. \A ns \in Namespaces, k \in Keys : ToRead(x, ns, k) => ToRead(r, ns, k)
    BY <1>3, <2>2, <2>5
  <2>8. \A ns \in Namespaces, k \in Keys :
          <<ns, k>> \in entities /\ ToRead(r, ns, k) => ToRead(x, ns, k)
    BY <1>3, <1>4, <2>2, <2>5 DEF AtMost
  <2>9. Passes(s, x)
    BY <2>1, <2>6, <2>7 DEF Passes
  <2> QED
    BY <1>2, <2>1, <2>8, <2>9 DEF MovesOn
<1> QED
  BY <1>5, <1>6

(* A namespace is left when no entity of it is ahead, and the range then   *)
(* begins with the namespace after it.                                     *)
LEMMA LeaveNamespaceStep ==
  ASSUME NEW s \in Shards, live \in [Shards -> ReaderRecord], GoodReader(live[s]),
         LeaveNamespace(s)
  PROVE  Ends(s) \/ MovesOn(s)
<1> DEFINE r == live[s]
           c == r.current
           a == r.ns.start
           b == r.ns.end
<1>1. /\ r \in ReaderRecord /\ c.ns \in Namespaces /\ a \in Namespaces /\ b \in Namespaces
      /\ r.ns \in Spans
  BY ReaderFields
<1>2. ~r.byKeys /\ c # NoKeyRange /\ read' = read
  BY DEF LeaveNamespace, Current
<1>3. \A ns \in Namespaces, k \in Keys : <<ns, k>> \in entities => ~InRange(c, ns, k)
  BY DEF LeaveNamespace, Unread, Current, InRange
<1>4. Holds(r.ns, c.ns) /\ AtMost(a, c.ns) /\ AtMost(c.ns, b) /\ AtMost(a, b)
  BY <1>2 DEF GoodReader, Holds
<1>5. \A ns \in Namespaces, k \in Keys :
        ToRead(r, ns, k) <=> InRange(c, ns, k) \/ (Holds(r.ns, ns) /\ Before(c.ns, ns))
  BY <1>2 DEF ToRead
<1>6. /\ Ord(a) \in Nat /\ Ord(b) \in Nat /\ Ord(c.ns) \in Nat /\ Ord(b) \in Ordinals
      /\ Ord(a) <= Ord(c.ns) /\ Ord(c.ns) <= Ord(b)
  BY <1>1, <1>4, OrdinalsAre
<1>7. CASE a = b \/ c.ns = b
  <2>1. ended' = ended \union {s} /\ live' = live
    BY <1>7 DEF LeaveNamespace, Current
  <2>2. Ord(c.ns) = Ord(b)
    BY <1>6, <1>7
  <2>3. \A ns \in Namespaces : ~(Holds(r.ns, ns) /\ Before(c.ns, ns))
    <3>1. SUFFICES ASSUME NEW ns \in Namespaces, AtMost(ns, b), Before(c.ns, ns) PROVE FALSE
      BY DEF Holds
    <3>2. Ord(ns) <= Ord(b) /\ Ord(c.ns) < Ord(ns) /\ Ord(ns) \in Nat
      BY <1>1, <3>1, OrdinalsAre
    <3> QED
      BY <1>6, <2>2, <3>2
  <2> QED
    BY <1>2, <1>3, <1>5, <2>1, <2>3 DEF Ends
<1>8. CASE a # b /\ c.ns # b
  <2> DEFINE o == Ord(c.ns) + 1
             f == OrdToNamespace(o)
             x == [r EXCEPT !.ns.start = f, !.current = NoKeyRange]
  <2>1. live' = [live EXCEPT ![s] = x] /\ ended' = ended
    BY <1>8 DEF LeaveNamespace, Current, Ord
  <2>2. Ord(c.ns) # Ord(b)
    BY <1>1, <1>8, OrdinalsAre
  <2>3. o \in Nat /\ o <= Ord(b)
    BY <1>6, <2>2
  <2>4. o \in Ordinals
    BY <1>6, <2>3, OrdinalsAre
  <2>5. f \in Namespaces /\ Ord(f) = o
    BY <2>4, OrdinalsAre
  <2> HIDE DEF f
  <2>6. /\ x \in ReaderRecord /\ x.byKeys = r.byKeys /\ x.current = NoKeyRange
        /\ x.ns.start = f /\ x.ns.end = b
    BY <1>1, <2>5, NoKeyRangeIs DEF ReaderRecord, Spans
  <2> HIDE DEF x
  <2>7. \A ns \in Namespaces : Holds(x.ns, ns) <=> Holds(r.ns, ns) /\ Before(c.ns, ns)
    <3>1. SUFFICES ASSUME NEW ns \in Namespaces
                   PROVE  (Ord(f) <= Ord(ns) /\ Ord(ns) <= Ord(b)) <=>
                          (Ord(a) <= Ord(ns) /\ Ord(ns) <= Ord(b)) /\ Ord(c.ns) < Ord(ns)
      BY <1>1, <2>5, <2>6, OrdinalsAre DEF Holds
    <3>2. Ord(ns) \in Nat
      BY OrdinalsAre
    <3> QED
      BY <1>6, <2>5, <3>2
  <2>8. \A ns \in Namespaces, k \in Keys : ToRead(x, ns, k) <=> Holds(x.ns, ns)
    BY <1>2, <2>6, NoKeyRangeIs DEF ToRead
  <2>9. AtMost(x.ns.start, x.ns.end)
    BY <1>1, <2>3, <2>5, <2>6, OrdinalsAre
  <2>10. GoodReader(x)
    BY <1>2, <2>6, <2>9 DEF GoodReader
  <2>11. \A ns \in Namespaces, k \in Keys : ToRead(x, ns, k) => ToRead(r, ns, k)
    BY <1>5, <2>7, <2>8
  <2>12. \A ns \in Namespaces, k \in Keys :
           <<ns, k>> \in entities /\ ToRead(r, ns, k) => ToRead(x, ns, k)
    BY <1>3, <1>5, <2>7, <2>8
  <2>13. Passes(s, x)
    BY <2>1, <2>10, <2>11 DEF Passes
  <2> QED
    BY <1>2, <2>1, <2>12, <2>13 DEF MovesOn
<1> QED
  BY <1>7, <1>8

(* A step of a reader is one of the three. *)
LEMMA ReadSteps ==
  ASSUME NEW s \in Shards, live \in [Shards -> ReaderRecord], GoodReader(live[s]), ReadStep(s)
  PROVE  /\ Ends(s) \/ MovesOn(s) \/ ReadsOne(s)
         /\ Reads(s) /\ UNCHANGED <<entities, splitVars, saved, changed, again>>
<1>1. Ends(s) \/ MovesOn(s) \/ ReadsOne(s)
  BY ReadEntityStep, NextKeyRangeStep, NextNamespaceStep, LeaveNamespaceStep DEF ReadStep
<1>2. Reads(s) /\ UNCHANGED <<entities, splitVars, saved, changed, again>>
  BY DEF ReadStep, ReadEntity, NextKeyRange, NextNamespace, LeaveNamespace
<1> QED
  BY <1>1, <1>2

-----------------------------------------------------------------------------
(* The invariant of the readers. A ledger says where each entity is: it    *)
(* has been read, or is before the reader of one shard. While the kickoff  *)
(* splits, nothing has been read.                                          *)

ReadersType ==
  /\ entities \subseteq Namespaces \X Keys /\ changed \subseteq Namespaces \X Keys
  /\ splitting \in {"start", "first", "split", "done"}
  /\ queries \in 0..MaxQueries
  /\ live \in [Shards -> ReaderRecord] /\ saved \in [Shards -> ReaderRecord]
  /\ ended \subseteq Shards
  /\ read \in [Namespaces \X Keys -> 0..2]
  /\ again \in 0..MaxEvents
AllGood == \A s \in Shards : GoodReader(live[s]) /\ GoodReader(saved[s])
NotBegun == splitting # "done" =>
  ended = {} /\ again = 0 /\ \A ns \in Namespaces, k \in Keys : read[<<ns, k>>] = 0

(* What is there all the time was read, or is before the reader of a shard *)
(* that goes on.                                                           *)
NoneMissed ==
  \A ns \in Namespaces, k \in Keys : <<ns, k>> \in Steady =>
    \/ read[<<ns, k>>] > 0
    \/ \E s \in Shards \ ended : ToRead(live[s], ns, k)

(* A slice has before it only what the JSON had that it began with. *)
SlicesAdvance ==
  \A s \in Shards \ ended : \A ns \in Namespaces, k \in Keys :
    ToRead(live[s], ns, k) => ToRead(saved[s], ns, k)

(* No two shards have the same before them, even if their slices are run   *)
(* again.                                                                  *)
ShardsApart ==
  \A s, t \in Shards \ ended : \A ns \in Namespaces, k \in Keys :
    ToRead(saved[s], ns, k) /\ ToRead(saved[t], ns, k) => s = t

(* Unless a slice is run again nothing is read twice, and what has been    *)
(* read is before no reader.                                               *)
NoneTwice ==
  again = 0 =>
    \A ns \in Namespaces, k \in Keys :
      /\ read[<<ns, k>>] < 2
      /\ \A s \in Shards \ ended : ToRead(live[s], ns, k) => read[<<ns, k>>] = 0
ReadersLedger == NoneMissed /\ SlicesAdvance /\ ShardsApart /\ NoneTwice
ReadersState == ReadersType /\ AllGood /\ NotBegun /\ (splitting = "done" => ReadersLedger)

(* What reading leaves of the types. *)
LEMMA ReadTypes ==
  ASSUME ReadersType, AllGood, NEW s \in Shards, Ends(s) \/ MovesOn(s) \/ ReadsOne(s),
         UNCHANGED <<entities, splitVars, saved, changed, again>>
  PROVE  ReadersType' /\ AllGood'
<1>1. UNCHANGED <<entities, splitting, queries, saved, changed, again>>
  BY DEF splitVars
<1>2. CASE Ends(s)
  BY <1>1, <1>2 DEF Ends, ReadersType, AllGood
<1>3. ASSUME NEW x, Passes(s, x)
      PROVE  live' \in [Shards -> ReaderRecord] /\ AllGood'
  BY <1>1, <1>3 DEF Passes, GoodReader, ReadersType, AllGood
<1>4. CASE MovesOn(s)
  BY <1>1, <1>3, <1>4 DEF MovesOn, ReadersType
<1>5. CASE ReadsOne(s)
  <2>0. PICK x : \E ns \in Namespaces, k \in Keys :
          /\ Passes(s, x)
          /\ read' = [read EXCEPT ![<<ns, k>>] = IF @ = 2 THEN 2 ELSE @ + 1]
    BY <1>5 DEF ReadsOne
  <2>1. PICK ns \in Namespaces, k \in Keys :
          /\ Passes(s, x)
          /\ read' = [read EXCEPT ![<<ns, k>>] = IF @ = 2 THEN 2 ELSE @ + 1]
    BY <2>0
  <2>2. read' \in [Namespaces \X Keys -> 0..2]
    <3>1. read \in [Namespaces \X Keys -> 0..2] /\ <<ns, k>> \in Namespaces \X Keys
      BY DEF ReadersType
    <3>2. (IF read[<<ns, k>>] = 2 THEN 2 ELSE read[<<ns, k>>] + 1) \in 0..2
      BY <3>1
    <3> QED
      BY <2>1, <3>1, <3>2
  <2>3. ended' = ended
    BY <1>5 DEF ReadsOne
  <2> QED
    BY <1>1, <1>3, <2>1, <2>2, <2>3 DEF ReadersType
<1> QED
  BY <1>2, <1>4, <1>5

(* What reading leaves of the ledger. A reader that moves on has before it *)
(* no more than it had, so it stays apart from the others; it leaves out   *)
(* no entity that is there.                                                *)
LEMMA ReadLedger ==
  ASSUME ReadersType, AllGood, ReadersLedger, NEW s \in Shards, s \notin ended,
         Ends(s) \/ MovesOn(s) \/ ReadsOne(s),
         UNCHANGED <<entities, splitVars, saved, changed, again>>
  PROVE  ReadersLedger'
<1>1. UNCHANGED <<entities, saved, changed, again>> /\ Steady' = Steady /\ Steady \subseteq entities
  BY DEF Steady
<1>2. live \in [Shards -> ReaderRecord] /\ read \in [Namespaces \X Keys -> 0..2]
  BY DEF ReadersType
<1>3. \A ns \in Namespaces, k \in Keys : read[<<ns, k>>] \in 0..2
  BY <1>2
<1>4. CASE Ends(s)
  <2>1. ended' = ended \union {s} /\ live' = live /\ read' = read
    BY <1>4 DEF Ends
  <2>2. \A ns \in Namespaces, k \in Keys : <<ns, k>> \in entities => ~ToRead(live[s], ns, k)
    BY <1>4 DEF Ends
  <2>3. NoneMissed'
    BY <1>1, <2>1, <2>2 DEF ReadersLedger, NoneMissed
  <2>4. SlicesAdvance' /\ ShardsApart' /\ NoneTwice'
    BY <1>1, <2>1 DEF ReadersLedger, SlicesAdvance, ShardsApart, NoneTwice
  <2> QED
    BY <2>3, <2>4 DEF ReadersLedger
<1>5. ASSUME NEW x, Passes(s, x), ended' = ended
      PROVE  /\ live'[s] = x /\ \A t \in Shards : t # s => live'[t] = live[t]
             /\ \A t \in Shards : \A ns \in Namespaces, k \in Keys :
                  ToRead(live'[t], ns, k) => ToRead(live[t], ns, k)
             /\ SlicesAdvance' /\ ShardsApart'
  <2>1. live'[s] = x /\ \A t \in Shards : t # s => live'[t] = live[t]
    BY <1>2, <1>5 DEF Passes
  <2>2. \A t \in Shards : \A ns \in Namespaces, k \in Keys :
          ToRead(live'[t], ns, k) => ToRead(live[t], ns, k)
    BY <1>5, <2>1 DEF Passes
  <2>3. SlicesAdvance'
    BY <1>1, <1>5, <2>2 DEF ReadersLedger, SlicesAdvance
  <2>4. ShardsApart'
    BY <1>1, <1>5 DEF ReadersLedger, ShardsApart
  <2> QED
    BY <2>1, <2>2, <2>3, <2>4
<1>6. CASE MovesOn(s)
  <2>1. PICK x : /\ Passes(s, x)
                 /\ \A ns \in Namespaces, k \in Keys :
                      <<ns, k>> \in entities /\ ToRead(live[s], ns, k) => ToRead(x, ns, k)
    BY <1>6 DEF MovesOn
  <2>2. read' = read /\ ended' = ended
    BY <1>6 DEF MovesOn
  <2>3. NoneMissed'
    <3>1. \A t \in Shards : \A ns \in Namespaces, k \in Keys :
            <<ns, k>> \in entities /\ ToRead(live[t], ns, k) => ToRead(live'[t], ns, k)
      BY <1>5, <2>1, <2>2
    <3> QED
      BY <1>1, <2>2, <3>1 DEF ReadersLedger, NoneMissed
  <2>4. NoneTwice'
    BY <1>1, <1>5, <2>1, <2>2 DEF ReadersLedger, NoneTwice
  <2> QED
    BY <1>5, <2>1, <2>2, <2>3, <2>4 DEF ReadersLedger
<1>7. CASE ReadsOne(s)
  <2>0. PICK x : \E ns \in Namespaces, k \in Keys :
          /\ Passes(s, x)
          /\ ToRead(live[s], ns, k) /\ ~ToRead(x, ns, k)
          /\ read' = [read EXCEPT ![<<ns, k>>] = IF @ = 2 THEN 2 ELSE @ + 1]
          /\ \A n \in Namespaces, j \in Keys :
               <<n, j>> \in entities /\ ToRead(live[s], n, j) /\ <<n, j>> # <<ns, k>> =>
                 ToRead(x, n, j)
    BY <1>7 DEF ReadsOne
  <2>1. PICK ns \in Namespaces, k \in Keys :
          /\ Passes(s, x)
          /\ ToRead(live[s], ns, k) /\ ~ToRead(x, ns, k)
          /\ read' = [read EXCEPT ![<<ns, k>>] = IF @ = 2 THEN 2 ELSE @ + 1]
          /\ \A n \in Namespaces, j \in Keys :
               <<n, j>> \in entities /\ ToRead(live[s], n, j) /\ <<n, j>> # <<ns, k>> =>
                 ToRead(x, n, j)
    BY <2>0
  <2>2. ended' = ended
    BY <1>7 DEF ReadsOne
  <2>3. /\ read'[<<ns, k>>] = IF read[<<ns, k>>] = 2 THEN 2 ELSE read[<<ns, k>>] + 1
        /\ \A n \in Namespaces, j \in Keys : <<n, j>> # <<ns, k>> => read'[<<n, j>>] = read[<<n, j>>]
    BY <1>2, <2>1
  <2>4. NoneMissed'
    <3>1. SUFFICES ASSUME NEW n \in Namespaces, NEW j \in Keys, <<n, j>> \in Steady
                   PROVE  read'[<<n, j>>] > 0 \/ \E t \in Shards \ ended : ToRead(live'[t], n, j)
      BY <1>1, <2>2 DEF NoneMissed
    <3>2. CASE <<n, j>> = <<ns, k>>
      BY <1>3, <2>3, <3>2
    <3>3. CASE <<n, j>> # <<ns, k>>
      <4>1. \A t \in Shards : ToRead(live[t], n, j) => ToRead(live'[t], n, j)
        BY <1>1, <1>5, <2>1, <2>2, <3>1, <3>3
      <4>2. read[<<n, j>>] > 0 \/ \E t \in Shards \ ended : ToRead(live[t], n, j)
        BY <3>1 DEF ReadersLedger, NoneMissed
      <4> QED
        BY <2>3, <3>3, <4>1, <4>2
    <3> QED
      BY <3>2, <3>3
  <2>5. NoneTwice'
    <3>1. SUFFICES ASSUME again = 0, NEW n \in Namespaces, NEW j \in Keys
                   PROVE  /\ read'[<<n, j>>] < 2
                          /\ \A t \in Shards \ ended : ToRead(live'[t], n, j) => read'[<<n, j>>] = 0
      BY <1>1, <2>2 DEF NoneTwice
    <3>2. /\ read[<<n, j>>] < 2
          /\ \A t \in Shards \ ended : ToRead(live[t], n, j) => read[<<n, j>>] = 0
      BY <3>1 DEF ReadersLedger, NoneTwice
    <3>3. \A t \in Shards : ToRead(live'[t], n, j) => ToRead(live[t], n, j)
      BY <1>5, <2>1, <2>2
    <3>4. CASE <<n, j>> # <<ns, k>>
      BY <2>3, <3>2, <3>3, <3>4
    <3>5. CASE <<n, j>> = <<ns, k>>
      <4>1. n = ns /\ j = k
        BY <3>5
      <4>2. read[<<n, j>>] = 0
        BY <2>1, <3>2, <4>1
      <4>3. read'[<<n, j>>] = 1
        BY <2>3, <4>1, <4>2
      <4>4. ASSUME NEW t \in Shards \ ended, ToRead(live'[t], n, j) PROVE FALSE
        <5>1. t # s
          BY <1>5, <2>1, <2>2, <4>1, <4>4
        <5>2. ToRead(live[t], ns, k) /\ ToRead(live[s], ns, k)
          BY <2>1, <3>3, <4>1, <4>4
        <5>3. ToRead(saved[t], ns, k) /\ ToRead(saved[s], ns, k)
          BY <5>2 DEF ReadersLedger, SlicesAdvance
        <5> QED
          BY <5>1, <5>3 DEF ReadersLedger, ShardsApart
      <4> QED
        BY <4>3, <4>4
    <3> QED
      BY <3>4, <3>5
  <2> QED
    BY <1>5, <2>1, <2>2, <2>4, <2>5 DEF ReadersLedger
<1> QED
  BY <1>4, <1>6, <1>7

(* Reading keeps the invariant. *)
LEMMA ReadKeeps ==
  ASSUME ReadersState, NEW s \in Shards, ReadStep(s)
  PROVE  ReadersState'
<1>1. /\ Ends(s) \/ MovesOn(s) \/ ReadsOne(s)
      /\ Reads(s) /\ UNCHANGED <<entities, splitVars, saved, changed, again>>
  BY ReadSteps DEF ReadersState, ReadersType, AllGood
<1>2. splitting = "done" /\ s \notin ended /\ splitting' = splitting
  BY <1>1 DEF Reads, splitVars
<1>3. ReadersType' /\ AllGood'
  BY <1>1, ReadTypes DEF ReadersState
<1>4. ReadersLedger'
  BY <1>1, <1>2, ReadLedger DEF ReadersState
<1> QED
  BY <1>2, <1>3, <1>4 DEF ReadersState, NotBegun

(* Finitely many entities come and go. *)
LEMMA EventsFinite ==
  ASSUME ReadersType
  PROVE  Cardinality(changed) \in Nat
<1>1. IsFiniteSet(Keys)
  BY KeysAre, ReadersNumbers, FS_Interval
<1>2. IsFiniteSet(Namespaces)
  BY OrdinalsAre
<1>3. IsFiniteSet(Namespaces \X Keys)
  BY <1>1, <1>2, FS_Product
<1>4. IsFiniteSet(changed)
  BY <1>3, FS_Subset DEF ReadersType
<1> QED
  BY <1>4, FS_CardinalityType

(* A slice that ends leaves JSON with what is before the reader. *)
LEMMA EndSliceKeeps ==
  ASSUME ReadersState, NEW s \in Shards, EndSlice(s)
  PROVE  ReadersState'
<1>1. /\ splitting = "done" /\ s \notin ended
      /\ saved' = [saved EXCEPT ![s] = live[s]]
      /\ live' = [live EXCEPT ![s] = FromJson(live[s])]
      /\ UNCHANGED <<entities, splitting, queries, ended, read, changed, again>>
  BY DEF EndSlice, Reads, splitVars
<1>2. ReadersType /\ AllGood /\ ReadersLedger
  BY <1>1 DEF ReadersState
<1>3. /\ GoodReader(live[s]) /\ GoodReader(FromJson(live[s]))
      /\ \A ns, k : ToRead(FromJson(live[s]), ns, k) <=> ToRead(live[s], ns, k)
  BY <1>2, TurnedOver DEF AllGood
<1>4. ReadersType' /\ AllGood'
  BY <1>1, <1>2, <1>3 DEF ReadersType, AllGood, GoodReader
<1>5. /\ live \in [Shards -> ReaderRecord] /\ saved \in [Shards -> ReaderRecord]
      /\ Steady' = Steady
  BY <1>1, <1>2 DEF ReadersType, Steady
<1>6. \A t \in Shards : \A ns, k : ToRead(live'[t], ns, k) <=> ToRead(live[t], ns, k)
  BY <1>1, <1>3, <1>5
<1>7. saved'[s] = live[s] /\ \A t \in Shards : t # s => saved'[t] = saved[t]
  BY <1>1, <1>5
<1>8. NoneMissed' /\ NoneTwice'
  BY <1>1, <1>2, <1>5, <1>6 DEF ReadersLedger, NoneMissed, NoneTwice
<1>9. SlicesAdvance'
  BY <1>1, <1>2, <1>6, <1>7 DEF ReadersLedger, SlicesAdvance
<1>10. \A t \in Shards \ ended : \A ns \in Namespaces, k \in Keys :
         ToRead(saved'[t], ns, k) => ToRead(saved[t], ns, k)
  BY <1>1, <1>2, <1>7 DEF ReadersLedger, SlicesAdvance
<1>11. ShardsApart'
  BY <1>1, <1>2, <1>10 DEF ReadersLedger, ShardsApart
<1> QED
  BY <1>1, <1>4, <1>8, <1>9, <1>11 DEF ReadersState, ReadersLedger, NotBegun

(* A slice that is run again begins with the JSON, which has all that the  *)
(* slice had before it.                                                    *)
LEMMA RunAgainKeeps ==
  ASSUME ReadersState, NEW s \in Shards, RunAgain(s)
  PROVE  ReadersState'
<1>1. /\ splitting = "done" /\ s \notin ended
      /\ Cardinality(changed) + again < MaxEvents /\ again' = again + 1
      /\ live' = [live EXCEPT ![s] = FromJson(saved[s])]
      /\ UNCHANGED <<entities, splitting, queries, saved, ended, read, changed>>
  BY DEF RunAgain, Reads, splitVars
<1>2. ReadersType /\ AllGood /\ ReadersLedger
  BY <1>1 DEF ReadersState
<1>3. /\ GoodReader(FromJson(saved[s]))
      /\ \A ns, k : ToRead(FromJson(saved[s]), ns, k) <=> ToRead(saved[s], ns, k)
  BY <1>2, TurnedOver DEF AllGood
<1>4. again' \in 0..MaxEvents /\ again' # 0
  <2>1. Cardinality(changed) \in Nat /\ again \in 0..MaxEvents /\ MaxEvents \in Nat
    BY <1>2, EventsFinite, ReadersNumbers DEF ReadersType
  <2> QED
    BY <1>1, <2>1
<1>5. ReadersType' /\ AllGood'
  BY <1>1, <1>2, <1>3, <1>4 DEF ReadersType, AllGood, GoodReader
<1>6. live \in [Shards -> ReaderRecord] /\ Steady' = Steady
  BY <1>1, <1>2 DEF ReadersType, Steady
<1>7. live'[s] = FromJson(saved[s]) /\ \A t \in Shards : t # s => live'[t] = live[t]
  BY <1>1, <1>6
<1>8. \A t \in Shards \ ended : \A ns \in Namespaces, k \in Keys :
        ToRead(live[t], ns, k) => ToRead(live'[t], ns, k)
  BY <1>2, <1>3, <1>7 DEF ReadersLedger, SlicesAdvance
<1>9. NoneMissed'
  BY <1>1, <1>2, <1>6, <1>8 DEF ReadersLedger, NoneMissed
<1>10. SlicesAdvance' /\ ShardsApart'
  BY <1>1, <1>2, <1>3, <1>7 DEF ReadersLedger, SlicesAdvance, ShardsApart
<1>11. NoneTwice'
  BY <1>4 DEF NoneTwice
<1> QED
  BY <1>1, <1>5, <1>9, <1>10, <1>11 DEF ReadersState, ReadersLedger, NotBegun

(* An entity that comes or goes is not among those that are there all the  *)
(* time, from then on.                                                     *)
LEMMA ChangeKeeps ==
  ASSUME ReadersState, NEW e \in Volatile, Change(e)
  PROVE  ReadersState'
<1>1. /\ changed' = changed \union {e}
      /\ entities' = IF e \in entities THEN entities \ {e} ELSE entities \union {e}
      /\ UNCHANGED <<splitting, queries, live, saved, ended, read, again>>
  BY DEF Change, splitVars, readVars
<1>2. e \in Namespaces \X Keys
  BY ReadersEntities
<1>3. ReadersType' /\ AllGood'
  BY <1>1, <1>2 DEF ReadersState, ReadersType, AllGood
<1>4. Steady' \subseteq Steady
  BY <1>1 DEF Steady
<1>5. ReadersLedger => ReadersLedger'
  BY <1>1, <1>4 DEF ReadersLedger, NoneMissed, SlicesAdvance, ShardsApart, NoneTwice
<1> QED
  BY <1>1, <1>3, <1>5 DEF ReadersState, NotBegun

-----------------------------------------------------------------------------
(* The split. Whatever way the kickoff takes, its readers have the input   *)
(* between them, each part once.                                           *)

(* Readers that have the input between them, each part once. *)
Divides(readers) ==
  /\ readers \in Seq(ReaderRecord) /\ Len(readers) <= ShardCount
  /\ \A i \in 1..Len(readers) : GoodReader(readers[i])
  /\ \A ns \in Namespaces, k \in Keys : <<ns, k>> \in entities =>
       \E i \in 1..Len(readers) : ToRead(readers[i], ns, k)
  /\ \A i, j \in 1..Len(readers) : \A ns \in Namespaces, k \in Keys :
       ToRead(readers[i], ns, k) /\ ToRead(readers[j], ns, k) => i = j

(* Everything has all namespaces. *)
LEMMA EverythingIs ==
  /\ Everything \in Spans /\ AtMost(Everything.start, Everything.end)
  /\ \A ns \in Namespaces : Holds(Everything, ns)
<1>1. Everything.start = MinNamespace /\ Everything.end = MaxNamespace
      /\ Everything = [start |-> MinNamespace, end |-> MaxNamespace]
  BY DEF Everything, Span
<1> QED
  BY <1>1, OrdinalsAre DEF Spans, Holds

(* A reader of key ranges has what is in them. *)
LEMMA ByKeysIs ==
  ASSUME NEW ranges \in Seq(KeyRanges),
         \A ns \in Namespaces, k \in Keys : \A i, j \in DOMAIN ranges :
           InRange(ranges[i], ns, k) /\ InRange(ranges[j], ns, k) => i = j
  PROVE  /\ GoodReader(ByKeys(ranges))
         /\ \A ns \in Namespaces, k \in Keys :
              ToRead(ByKeys(ranges), ns, k) <=> \E i \in DOMAIN ranges : InRange(ranges[i], ns, k)
<1> DEFINE r == Reader(TRUE, ranges, Everything, NoKeyRange)
<1>1. /\ r \in ReaderRecord /\ r.byKeys = TRUE /\ r.ranges = ranges /\ r.ns = Everything
      /\ r.current = NoKeyRange
  BY NoKeyRangeIs, EverythingIs DEF Reader, ReaderRecord
<1>2. FromJson(r) = ByKeys(ranges)
  <2>1. ByKeys(ranges) = [byKeys |-> TRUE, ranges |-> Reverse(ranges), ns |-> Everything,
                          current |-> NoKeyRange]
    BY DEF ByKeys, Reader
  <2>2. \A a, b, d, f, g : [[byKeys |-> a, ranges |-> b, ns |-> d, current |-> f]
                             EXCEPT !.ranges = g]
          = [byKeys |-> a, ranges |-> g, ns |-> d, current |-> f]
    OBVIOUS
  <2>3. FromJson(r) = [[byKeys |-> TRUE, ranges |-> ranges, ns |-> Everything,
                        current |-> NoKeyRange] EXCEPT !.ranges = Reverse(ranges)]
    <3>1. FromJson(r) = [r EXCEPT !.ranges = Reverse(r.ranges)]
      BY DEF FromJson
    <3>2. FromJson(r) = [r EXCEPT !.ranges = Reverse(ranges)]
      BY <1>1, <3>1
    <3>3. r = [byKeys |-> TRUE, ranges |-> ranges, ns |-> Everything, current |-> NoKeyRange]
      BY DEF Reader
    <3> QED
      BY <3>2, <3>3, Zenon
  <2>4. FromJson(r) = [byKeys |-> TRUE, ranges |-> Reverse(ranges), ns |-> Everything,
                       current |-> NoKeyRange]
    BY <2>2, <2>3, Zenon
  <2> QED
    BY <2>1, <2>4
<1> HIDE DEF r
<1>3. OneRangeEach(r)
  BY <1>1, NoKeyRangeIs DEF OneRangeEach
<1>4. GoodReader(r)
  BY <1>1, <1>3, EverythingIs DEF GoodReader
<1>5. \A ns \in Namespaces, k \in Keys :
        ToRead(r, ns, k) <=> \E i \in DOMAIN ranges : InRange(ranges[i], ns, k)
  BY <1>1, NoKeyRangeIs DEF ToRead, OnStack
<1> QED
  BY <1>2, <1>4, <1>5, TurnedOver

(* A shard without a reader. *)
LEMMA NoReaderIs ==
  /\ GoodReader(NoReader) /\ NoReader \in ReaderRecord
  /\ GoodReader(FromJson(NoReader)) /\ FromJson(NoReader) \in ReaderRecord
<1>1. <<>> \in Seq(KeyRanges) /\ DOMAIN <<>> = {}
  OBVIOUS
<1>2. GoodReader(NoReader)
  BY <1>1, ByKeysIs DEF NoReader
<1> QED
  BY <1>2, TurnedOver DEF GoodReader

(* A reader of namespaces has what is in them. *)
LEMMA ByNamespacesIs ==
  ASSUME NEW span \in Spans, AtMost(span.start, span.end)
  PROVE  /\ ByNamespaces(span) \in ReaderRecord /\ GoodReader(ByNamespaces(span))
         /\ \A ns \in Namespaces, k \in Keys :
              ToRead(ByNamespaces(span), ns, k) <=> Holds(span, ns)
<1> DEFINE r == ByNamespaces(span)
<1>1. /\ r \in ReaderRecord /\ r.byKeys = FALSE /\ r.ns = span /\ r.current = NoKeyRange
  BY NoKeyRangeIs DEF ByNamespaces, Reader, ReaderRecord
<1> HIDE DEF r
<1>2. GoodReader(r)
  BY <1>1 DEF GoodReader
<1>3. \A ns \in Namespaces, k \in Keys : ToRead(r, ns, k) <=> Holds(span, ns)
  BY <1>1, NoKeyRangeIs DEF ToRead
<1> QED
  BY <1>1, <1>2, <1>3 DEF r

(* One reader of everything. *)
LEMMA OneReader == Divides(<<ByNamespaces(Everything)>>)
<1> DEFINE r == ByNamespaces(Everything)
           q == <<r>>
<1>1. /\ r \in ReaderRecord /\ GoodReader(r)
      /\ \A ns \in Namespaces, k \in Keys : ToRead(r, ns, k)
  BY EverythingIs, ByNamespacesIs
<1> HIDE DEF r
<1>2. q \in Seq(ReaderRecord) /\ Len(q) = 1 /\ q[1] = r
  BY <1>1
<1>3. Len(q) <= ShardCount /\ 1..Len(q) = {1}
  BY <1>2, ReadersNumbers
<1> HIDE DEF q
<1>4. Divides(q)
  BY <1>1, <1>2, <1>3 DEF Divides
<1> QED
  BY <1>4 DEF q, r

(* Readers that have the input between them, each part once, establish the *)
(* ledger.                                                                 *)
LEMMA StartKeeps ==
  ASSUME ReadersState, splitting # "done", NEW readers, Divides(readers), Start(readers),
         queries' \in 0..MaxQueries
  PROVE  ReadersState'
<1> DEFINE of(s) == IF s <= Len(readers) THEN readers[s] ELSE NoReader
           n == Len(readers)
<1>1. /\ splitting' = "done"
      /\ saved' = [s \in Shards |-> of(s)]
      /\ live' = [s \in Shards |-> FromJson(of(s))]
      /\ ended' = {s \in Shards : s > n}
      /\ UNCHANGED <<entities, read, again, changed>>
  BY DEF Start
<1>2. n \in Nat /\ n <= ShardCount /\ Shards = 1..ShardCount /\ readers \in Seq(ReaderRecord)
  BY ReadersNumbers DEF Divides, Shards
<1>3. ASSUME NEW s \in Shards
      PROVE  /\ GoodReader(of(s)) /\ GoodReader(FromJson(of(s)))
             /\ s \notin ended' => s \in 1..n /\ of(s) = readers[s]
             /\ \A ns, k : ToRead(FromJson(of(s)), ns, k) <=> ToRead(of(s), ns, k)
  <2>1. s \notin ended' => s \in 1..n /\ of(s) = readers[s]
    BY <1>1, <1>2
  <2>2. GoodReader(of(s))
    <3>1. CASE s <= n
      <4>1. s \in 1..n
        BY <1>2, <3>1
      <4> QED
        BY <3>1, <4>1 DEF Divides
    <3>2. CASE ~(s <= n)
      BY <3>2, NoReaderIs
    <3> QED
      BY <3>1, <3>2
  <2> HIDE DEF of
  <2> QED
    BY <2>1, <2>2, TurnedOver
<1>4. ASSUME NEW i \in 1..n PROVE i \in Shards /\ i \notin ended' /\ of(i) = readers[i]
  <2>1. i <= n /\ i \in Shards /\ ~(i > n)
    <3> HIDE DEF n
    <3>1. i \in 1..n /\ ShardCount \in Nat /\ n \in Nat /\ n <= ShardCount
      BY <1>2, ReadersNumbers
    <3> QED
      BY <1>2, <3>1
  <2>2. of(i) = readers[i]
    BY <2>1
  <2> QED
    BY <1>1, <2>1, <2>2
<1> HIDE DEF of, n
<1>5. \A s \in Shards : saved'[s] = of(s) /\ live'[s] = FromJson(of(s))
  BY <1>1
<1>6. ReadersType' /\ AllGood'
  <2>1. \A s \in Shards : of(s) \in ReaderRecord /\ FromJson(of(s)) \in ReaderRecord
    BY <1>3 DEF GoodReader
  <2>2. saved' \in [Shards -> ReaderRecord] /\ live' \in [Shards -> ReaderRecord]
    BY <1>1, <2>1
  <2>3. ReadersType'
    BY <1>1, <2>2 DEF ReadersState, ReadersType
  <2>4. AllGood'
    BY <1>3, <1>5 DEF AllGood
  <2> QED
    BY <2>3, <2>4
<1>7. \A ns \in Namespaces, k \in Keys : read'[<<ns, k>>] = 0
  BY <1>1 DEF ReadersState, NotBegun
<1>8. NoneMissed'
  <2>1. SUFFICES ASSUME NEW ns \in Namespaces, NEW k \in Keys, <<ns, k>> \in entities
                 PROVE  \E s \in Shards \ ended' : ToRead(live'[s], ns, k)
    BY <1>1 DEF NoneMissed, Steady
  <2>2. PICK i \in 1..n : ToRead(readers[i], ns, k)
    BY <2>1 DEF Divides, n
  <2> QED
    BY <1>3, <1>4, <1>5, <2>2
<1>9. SlicesAdvance'
  BY <1>3, <1>5 DEF SlicesAdvance
<1>10. ShardsApart'
  <2>1. SUFFICES ASSUME NEW s \in Shards \ ended', NEW t \in Shards \ ended',
                        NEW ns \in Namespaces, NEW k \in Keys,
                        ToRead(saved'[s], ns, k), ToRead(saved'[t], ns, k)
                 PROVE  s = t
    BY DEF ShardsApart
  <2>2. /\ s \in 1..n /\ t \in 1..n
        /\ ToRead(readers[s], ns, k) /\ ToRead(readers[t], ns, k)
    BY <1>3, <1>5, <2>1
  <2> QED
    BY <2>2 DEF Divides, n
<1>11. NoneTwice'
  <2>1. \A ns \in Namespaces, k \in Keys : read'[<<ns, k>>] = 0 /\ read'[<<ns, k>>] < 2
    <3>1. \A n0 \in {0} : n0 < 2
      OBVIOUS
    <3> QED
      BY <1>7, <3>1
  <2>2. NoneTwice' = (again' = 0 =>
    \A ns \in Namespaces, k \in Keys :
      /\ read'[<<ns, k>>] < 2
      /\ \A s \in Shards \ ended' : ToRead(live'[s], ns, k) => read'[<<ns, k>>] = 0)
    BY DEF NoneTwice
  <2> QED
    BY <2>1, <2>2
<1> QED
  BY <1>1, <1>6, <1>8, <1>9, <1>10, <1>11 DEF ReadersState, ReadersLedger, NotBegun

-----------------------------------------------------------------------------
(* The ranges of namespaces that a split has so far, which no two share. *)

Apart(a, b) == Ord(a.end) < Ord(b.start) \/ Ord(b.end) < Ord(a.start)
Free(x, q, S) == (\A i \in DOMAIN q : Apart(q[i], x)) /\ (\A y \in S : Apart(y, x))
GoodSpans(q, S) ==
  /\ q \in Seq(Spans) /\ S \in SUBSET Spans /\ IsFiniteSet(S)
  /\ \A i \in DOMAIN q : AtMost(q[i].start, q[i].end)
  /\ \A i, j \in DOMAIN q : i # j => Apart(q[i], q[j])
  /\ \A i \in DOMAIN q : \A y \in S : Apart(y, q[i])
  /\ \A y \in S : y.start = y.end
Count(q, S) == Len(q) + Cardinality(S)
SpansState ==
  /\ GoodSpans(spans, singles)
  /\ splitting = "split" => Count(spans, singles) \in 1..ShardCount
  /\ splitting # "split" => spans = <<>> /\ singles = {}

(* The fields of a range of namespaces. *)
LEMMA SpanIs ==
  ASSUME NEW x \in Spans
  PROVE  /\ x.start \in Namespaces /\ x.end \in Namespaces
         /\ Ord(x.start) \in Nat /\ Ord(x.end) \in Nat
         /\ x = Span(x.start, x.end)
  BY OrdinalsAre DEF Spans, Span

(* A range of namespaces made of its ends. *)
LEMMA MakeSpan ==
  ASSUME NEW a \in Namespaces, NEW b \in Namespaces
  PROVE  Span(a, b) \in Spans /\ Span(a, b).start = a /\ Span(a, b).end = b
  BY DEF Spans, Span

(* Before the first range. *)
LEMMA NoSpans == GoodSpans(<<>>, {})
<1>1. <<>> \in Seq(Spans) /\ DOMAIN <<>> = {}
  OBVIOUS
<1> QED
  BY <1>1, FS_EmptySet DEF GoodSpans

(* A range taken from the front is apart from all the others. *)
LEMMA TailGood ==
  ASSUME NEW q, NEW S, GoodSpans(q, S), q # <<>>
  PROVE  /\ GoodSpans(Tail(q), S) /\ Count(q, S) \in Nat /\ Count(Tail(q), S) = Count(q, S) - 1
         /\ Head(q) \in Spans /\ AtMost(Head(q).start, Head(q).end)
         /\ Free(Head(q), Tail(q), S)
<1> DEFINE t == Tail(q)
           n == Len(q)
<1>1. q \in Seq(Spans) /\ S \in SUBSET Spans /\ IsFiniteSet(S)
  BY DEF GoodSpans
<1>2. /\ n \in Nat /\ n >= 1 /\ 1 \in DOMAIN q /\ Head(q) = q[1] /\ DOMAIN q = 1..n
  BY <1>1, EmptySeq
<1>3. t \in Seq(Spans) /\ Len(t) = n - 1 /\ \A i \in 1..Len(t) : t[i] = q[i + 1]
  BY <1>1, HeadTailProperties
<1>4. Cardinality(S) \in Nat
  BY <1>1, FS_CardinalityType
<1>5. Count(q, S) \in Nat /\ Count(t, S) = Count(q, S) - 1
  <2> DEFINE c == Cardinality(S)
             m == Len(t)
  <2>1. n \in Nat /\ n >= 1 /\ c \in Nat /\ m = n - 1
    BY <1>2, <1>3, <1>4
  <2> HIDE DEF n, c, m
  <2>2. n + c \in Nat /\ m + c = (n + c) - 1
    BY <2>1
  <2> QED
    BY <2>2 DEF Count, n, c, m
<1>6. \A i \in DOMAIN t : i + 1 \in DOMAIN q /\ i + 1 # 1 /\ t[i] = q[i + 1]
  BY <1>2, <1>3
<1>7. \A i, j \in DOMAIN t : i # j => i + 1 # j + 1
  BY <1>3
<1> HIDE DEF t
<1>8. Free(q[1], t, S)
  BY <1>2, <1>6 DEF GoodSpans, Free
<1>9. GoodSpans(t, S)
  <2>1. \A i \in DOMAIN t : AtMost(t[i].start, t[i].end) /\ \A y \in S : Apart(y, t[i])
    BY <1>6 DEF GoodSpans
  <2>2. \A i, j \in DOMAIN t : i # j => Apart(t[i], t[j])
    BY <1>6, <1>7 DEF GoodSpans
  <2> QED
    BY <1>1, <1>3, <2>1, <2>2 DEF GoodSpans
<1> QED
  BY <1>1, <1>2, <1>5, <1>8, <1>9 DEF GoodSpans, t

(* A range that is apart from all others may be added to those that are    *)
(* split further,                                                          *)
LEMMA AppendGood ==
  ASSUME NEW q, NEW S, GoodSpans(q, S), NEW x \in Spans, AtMost(x.start, x.end), Free(x, q, S)
  PROVE  GoodSpans(q \o <<x>>, S) /\ Count(q \o <<x>>, S) = Count(q, S) + 1
         /\ q \o <<x>> \in Seq(Spans)
         /\ \A y : Free(y, q, S) /\ Apart(x, y) => Free(y, q \o <<x>>, S)
<1> DEFINE t == q \o <<x>>
           n == Len(q)
<1>1. q \in Seq(Spans) /\ S \in SUBSET Spans /\ IsFiniteSet(S)
  BY DEF GoodSpans
<1>2. n \in Nat /\ DOMAIN q = 1..n
  BY <1>1
<1>3. t \in Seq(Spans) /\ Len(t) = n + 1 /\ DOMAIN t = 1..n + 1
      /\ (\A i \in 1..n : t[i] = q[i]) /\ t[n + 1] = x
  BY <1>1
<1>4. Cardinality(S) \in Nat
  BY <1>1, FS_CardinalityType
<1>5. Count(t, S) = Count(q, S) + 1
  <2> DEFINE c == Cardinality(S)
             m == Len(t)
  <2>1. n \in Nat /\ c \in Nat /\ m = n + 1
    BY <1>2, <1>3, <1>4
  <2> HIDE DEF n, c, m
  <2>2. m + c = (n + c) + 1
    BY <2>1
  <2> QED
    BY <2>2 DEF Count, n, c, m
<1>6. \A i \in DOMAIN t : (i \in DOMAIN q /\ t[i] = q[i]) \/ (i = n + 1 /\ t[i] = x)
  BY <1>2, <1>3
<1> HIDE DEF t, n
<1>7. \A i \in DOMAIN q : Apart(q[i], x) /\ Apart(x, q[i])
  BY DEF Free, Apart
<1>8. \A i, j \in DOMAIN t : i # j => Apart(t[i], t[j])
  BY <1>6, <1>7 DEF GoodSpans
<1>9. \A i \in DOMAIN t : AtMost(t[i].start, t[i].end) /\ \A y \in S : Apart(y, t[i])
  BY <1>6 DEF GoodSpans, Free
<1>10. GoodSpans(t, S)
  BY <1>1, <1>3, <1>8, <1>9 DEF GoodSpans
<1>11. \A y : Free(y, q, S) /\ Apart(x, y) => Free(y, t, S)
  BY <1>6 DEF Free
<1> QED
  BY <1>3, <1>5, <1>10, <1>11 DEF t

(* and to those of one namespace, if it has only one. *)
LEMMA SingleGood ==
  ASSUME NEW q, NEW S, GoodSpans(q, S), NEW x \in Spans, x.start = x.end, Free(x, q, S)
  PROVE  GoodSpans(q, S \union {x}) /\ Count(q, S \union {x}) = Count(q, S) + 1
<1>1. q \in Seq(Spans) /\ S \in SUBSET Spans /\ IsFiniteSet(S)
  BY DEF GoodSpans
<1>2. x \notin S
  <2>1. ~Apart(x, x)
    <3>1. Ord(x.start) \in Nat /\ Ord(x.end) \in Nat /\ Ord(x.start) = Ord(x.end)
      BY SpanIs
    <3> QED
      BY <3>1 DEF Apart
  <2> QED
    BY <2>1 DEF Free
<1>3. /\ IsFiniteSet(S \union {x}) /\ Cardinality(S \union {x}) = Cardinality(S) + 1
      /\ Cardinality(S) \in Nat
  BY <1>1, <1>2, FS_AddElement, FS_CardinalityType
<1>4. Count(q, S \union {x}) = Count(q, S) + 1
  <2> DEFINE c == Cardinality(S)
             d == Cardinality(S \union {x})
             n == Len(q)
  <2>1. c \in Nat /\ d = c + 1 /\ n \in Nat
    BY <1>1, <1>3
  <2> HIDE DEF c, d, n
  <2>2. n + d = (n + c) + 1
    BY <2>1
  <2> QED
    BY <2>2 DEF Count, n, c, d
<1>5. \A i \in DOMAIN q : Apart(x, q[i])
  BY DEF Free, Apart
<1>6. GoodSpans(q, S \union {x})
  BY <1>1, <1>3, <1>5 DEF GoodSpans
<1> QED
  BY <1>4, <1>6

(* A range within another is apart from whatever that one is. *)
LEMMA StaysFree ==
  ASSUME NEW q, NEW S, GoodSpans(q, S), NEW x \in Spans, NEW y \in Spans, Free(x, q, S),
         Ord(x.start) <= Ord(y.start), Ord(y.end) <= Ord(x.end)
  PROVE  Free(y, q, S)
<1>1. ASSUME NEW z \in Spans, Apart(z, x) PROVE Apart(z, y)
  <2>1. /\ Ord(x.start) \in Nat /\ Ord(x.end) \in Nat /\ Ord(y.start) \in Nat /\ Ord(y.end) \in Nat
        /\ Ord(z.start) \in Nat /\ Ord(z.end) \in Nat
    BY SpanIs
  <2> QED
    BY <1>1, <2>1 DEF Apart
<1>2. (\A i \in DOMAIN q : q[i] \in Spans) /\ (\A z \in S : z \in Spans)
  BY DEF GoodSpans
<1> QED
  BY <1>1, <1>2 DEF Free

(* A range cut to what is stored ends where it did and begins no sooner. *)
LEMMA NormalizedIs ==
  ASSUME NEW x \in Spans, Stored(x) # {}
  PROVE  /\ Normalized(x) \in Spans /\ Normalized(x).end = x.end
         /\ AtMost(Normalized(x).start, x.end) /\ Ord(x.start) <= Ord(Normalized(x).start)
<1> DEFINE m == First(Stored(x))
<1>1. m \in Namespaces /\ Holds(x, m)
  BY StoredIs, FirstIs DEF Stored
<1>2. Ord(x.start) <= Ord(m) /\ AtMost(m, x.end) /\ x.start \in Namespaces /\ x.end \in Namespaces
  BY <1>1, OrdinalsAre, SpanIs DEF Holds
<1> HIDE DEF m
<1>3. Span(m, x.end) \in Spans /\ Span(m, x.end).start = m /\ Span(m, x.end).end = x.end
  BY <1>1, <1>2, MakeSpan
<1> QED
  BY <1>2, <1>3 DEF Normalized, m

(* The first range. *)
LEMMA FirstSpanSpans ==
  ASSUME ReadersState, SpansState, FirstSpan, splitting' = "split"
  PROVE  SpansState'
<1> DEFINE x == IF CanQuery THEN Normalized(Everything) ELSE Everything
           q == <<>> \o <<x>>
<1>1. splitting = "first" /\ spans = <<>> /\ singles = {} /\ singles' = {}
  BY DEF FirstSpan, SpansState
<1>2. ~(CanQuery /\ Stored(Everything) = {}) /\ spans' = <<x>>
  BY DEF FirstSpan, Start
<1>3. x \in Spans /\ AtMost(x.start, x.end)
  BY <1>2, EverythingIs, NormalizedIs
<1> HIDE DEF x
<1>4. spans' = q
  BY <1>2
<1>5. Free(x, <<>>, {})
  BY DEF Free
<1>6. GoodSpans(q, {}) /\ Count(q, {}) = Count(<<>>, {}) + 1
  BY <1>3, <1>5, NoSpans, AppendGood
<1>7. Count(<<>>, {}) = 0
  BY FS_EmptySet DEF Count
<1>8. Count(q, {}) \in 1..ShardCount
  BY <1>6, <1>7, ReadersNumbers
<1> QED
  BY <1>1, <1>4, <1>6, <1>8 DEF SpansState

(* A range of one namespace is set aside. *)
LEMMA KeepSingleSpans ==
  ASSUME SpansState, KeepSingle
  PROVE  SpansState'
<1> DEFINE x == Head(spans)
           t == Tail(spans)
<1>1. /\ splitting = "split" /\ splitting' = "split" /\ spans # <<>>
      /\ spans' = t /\ singles' = singles \union {x} /\ x.start = x.end
  BY DEF KeepSingle, MoreSplits
<1>2. GoodSpans(spans, singles) /\ Count(spans, singles) \in 1..ShardCount
  BY <1>1 DEF SpansState
<1>3. /\ GoodSpans(t, singles) /\ Count(spans, singles) \in Nat
      /\ Count(t, singles) = Count(spans, singles) - 1 /\ x \in Spans /\ Free(x, t, singles)
  BY <1>1, <1>2, TailGood
<1> HIDE DEF x, t
<1>4. /\ GoodSpans(t, singles \union {x})
      /\ Count(t, singles \union {x}) = Count(t, singles) + 1
  BY <1>1, <1>3, SingleGood
<1>5. Count(t, singles \union {x}) = Count(spans, singles)
  BY <1>3, <1>4
<1> QED
  BY <1>1, <1>2, <1>4, <1>5 DEF SpansState

(* The middle of a range. *)
LEMMA HalfWay ==
  ASSUME NEW a \in Nat, NEW b \in Nat, a < b
  PROVE  (a + b) \div 2 \in Nat /\ a <= (a + b) \div 2 /\ (a + b) \div 2 + 1 <= b
  OBVIOUS

(* The halves of a range are apart from one another and from all other     *)
(* ranges, and one of them at least is kept.                               *)
LEMMA SplitSpanSpans ==
  ASSUME SpansState, SplitSpan
  PROVE  SpansState'
<1> DEFINE x == Head(spans)
           t == Tail(spans)
           a == Ord(x.start)
           b == Ord(x.end)
           mid == (a + b) \div 2
           first == Span(x.start, OrdToNamespace(mid))
           rest == Span(OrdToNamespace(mid + 1), x.end)
           none == CanQuery /\ Stored(rest) = {}
           part == IF CanQuery THEN Normalized(rest) ELSE rest
           S == singles
<1>1. /\ splitting = "split" /\ splitting' = "split" /\ spans # <<>> /\ singles' = S
      /\ Len(spans) + Cardinality(S) < ShardCount /\ x.start # x.end
  BY DEF SplitSpan, MoreSplits
<1>2. spans' = t \o (IF CanQuery THEN IF Stored(rest) = {} THEN <<>> ELSE <<Normalized(rest)>>
                     ELSE <<rest>>) \o <<first>>
  BY DEF SplitSpan, Ord
<1>3. spans' = IF none THEN t \o <<>> \o <<first>> ELSE t \o <<part>> \o <<first>>
  BY <1>2
<1>4. GoodSpans(spans, S) /\ Count(spans, S) < ShardCount
  BY <1>1 DEF SpansState, Count
<1>5. /\ GoodSpans(t, S) /\ Count(spans, S) \in Nat /\ Count(t, S) = Count(spans, S) - 1
      /\ x \in Spans /\ AtMost(x.start, x.end) /\ Free(x, t, S)
  BY <1>1, <1>4, TailGood
<1> HIDE DEF x, t
<1>6. /\ x.start \in Namespaces /\ x.end \in Namespaces
      /\ a \in Nat /\ b \in Nat /\ b \in Ordinals /\ a < b
  <2>1. x.start \in Namespaces /\ x.end \in Namespaces
    BY <1>5, SpanIs
  <2>2. a \in Nat /\ b \in Nat /\ b \in Ordinals /\ a <= b /\ a # b
    BY <1>1, <1>5, <2>1, OrdinalsAre
  <2> QED
    BY <2>1, <2>2
<1>7. mid \in Nat /\ a <= mid /\ mid + 1 <= b
  <2> HIDE DEF a, b
  <2> QED
    BY <1>6, HalfWay
<1> HIDE DEF mid
<1>8. /\ OrdToNamespace(mid) \in Namespaces /\ Ord(OrdToNamespace(mid)) = mid
      /\ OrdToNamespace(mid + 1) \in Namespaces /\ Ord(OrdToNamespace(mid + 1)) = mid + 1
  <2>1. mid + 1 \in Nat /\ mid <= b
    BY <1>6, <1>7
  <2>2. mid \in Ordinals /\ mid + 1 \in Ordinals
    <3> HIDE DEF a, b
    <3> QED
      BY <1>6, <1>7, <2>1, OrdinalsAre
  <2> QED
    BY <2>2, OrdinalsAre
<1>9. /\ first \in Spans /\ Ord(first.start) = a /\ Ord(first.end) = mid
      /\ rest \in Spans /\ Ord(rest.start) = mid + 1 /\ Ord(rest.end) = b
      /\ AtMost(first.start, first.end) /\ AtMost(rest.start, rest.end)
  <2>1. /\ first \in Spans /\ first.start = x.start /\ first.end = OrdToNamespace(mid)
        /\ rest \in Spans /\ rest.start = OrdToNamespace(mid + 1) /\ rest.end = x.end
    BY <1>6, <1>8, MakeSpan
  <2> QED
    BY <1>6, <1>7, <1>8, <2>1, OrdinalsAre
<1> HIDE DEF first, rest
<1>10. ASSUME ~none
       PROVE  /\ part \in Spans /\ AtMost(part.start, part.end)
              /\ mid + 1 <= Ord(part.start) /\ Ord(part.end) = b
  <2>1. CASE CanQuery
    BY <1>9, <1>10, <2>1, NormalizedIs
  <2>2. CASE ~CanQuery
    BY <1>7, <1>9, <2>2
  <2> QED
    BY <2>1, <2>2
<1> HIDE DEF part, none, a, b
<1>11. Free(first, t, S)
  <2>1. Ord(x.start) <= Ord(first.start) /\ Ord(first.end) <= Ord(x.end)
    BY <1>6, <1>7, <1>9 DEF a, b
  <2> QED
    BY <1>5, <1>9, <2>1, StaysFree
<1> DEFINE c == Count(spans, S)
<1>12. c \in Nat /\ c + 1 <= ShardCount /\ c - 1 + 1 = c /\ c - 1 + 1 + 1 = c + 1 /\ c >= 1
  BY <1>1, <1>4, <1>5, ReadersNumbers DEF SpansState
<1>13. CASE none
  <2>1. spans' = t \o <<first>>
    <3>1. t \o <<>> = t
      BY <1>5 DEF GoodSpans
    <3> QED
      BY <1>3, <1>13, <3>1
  <2>2. GoodSpans(t \o <<first>>, S) /\ Count(t \o <<first>>, S) = c - 1 + 1
    BY <1>5, <1>9, <1>11, AppendGood
  <2>3. c \in 1..ShardCount
    BY <1>12, ReadersNumbers
  <2> QED
    BY <1>1, <1>12, <2>1, <2>2, <2>3 DEF SpansState
<1>14. CASE ~none
  <2>1. spans' = t \o <<part>> \o <<first>>
    BY <1>3, <1>14
  <2>2. Free(part, t, S)
    <3>1. Ord(x.start) <= Ord(part.start) /\ Ord(part.end) <= Ord(x.end) /\ part \in Spans
      <4>1. Ord(part.start) \in Nat /\ part \in Spans
        BY <1>10, <1>14, SpanIs
      <4> QED
        BY <1>6, <1>7, <1>10, <1>14, <4>1 DEF a, b
    <3> QED
      BY <1>5, <3>1, StaysFree
  <2>3. Apart(part, first)
    <3>1. Ord(part.start) \in Nat
      BY <1>10, <1>14, SpanIs
    <3>2. Ord(first.end) < Ord(part.start)
      BY <1>7, <1>9, <1>10, <1>14, <3>1
    <3> QED
      BY <3>2 DEF Apart
  <2>4. /\ GoodSpans(t \o <<part>>, S) /\ Count(t \o <<part>>, S) = c - 1 + 1
        /\ Free(first, t \o <<part>>, S)
    BY <1>5, <1>10, <1>11, <1>14, <2>2, <2>3, AppendGood
  <2>5. /\ GoodSpans(t \o <<part>> \o <<first>>, S)
        /\ Count(t \o <<part>> \o <<first>>, S) = c - 1 + 1 + 1
    BY <1>9, <2>4, AppendGood
  <2>6. c + 1 \in 1..ShardCount
    BY <1>12, ReadersNumbers
  <2> QED
    BY <1>1, <1>12, <2>1, <2>5, <2>6 DEF SpansState
<1> QED
  BY <1>13, <1>14

-----------------------------------------------------------------------------
(* Ranges that are made contiguous. *)

(* A sequence has no more elements than its length. *)
LEMMA ElementsFinite ==
  ASSUME NEW S, NEW q \in Seq(S)
  PROVE  IsFiniteSet(ToSet(q)) /\ Cardinality(ToSet(q)) <= Len(q)
<1>1. Len(q) \in Nat /\ DOMAIN q = 1..Len(q) /\ q \in [DOMAIN q -> ToSet(q)]
  BY DEF ToSet
<1>2. IsFiniteSet(1..Len(q)) /\ Cardinality(1..Len(q)) = Len(q)
  <2> DEFINE n == Len(q)
  <2>1. n \in Nat
    BY <1>1
  <2> HIDE DEF n
  <2>2. /\ IsFiniteSet(1..n)
        /\ Cardinality(1..n) = IF 1 > n THEN 0 ELSE (n - 1) + 1
    BY <2>1, FS_Interval
  <2>3. Cardinality(1..n) = n
    BY <2>1, <2>2
  <2> QED
    BY <2>2, <2>3 DEF n
<1>3. q \in Surjection(DOMAIN q, ToSet(q))
  BY <1>1 DEF Surjection, ToSet
<1> QED
  BY <1>1, <1>2, <1>3, FS_Surjection

(* The ranges of a split, in the order in which they begin. *)
Starts(S) == [x \in S |-> Ord(x.start)]
BySpans(S) == InOrder(S, LAMBDA a, b : AtMost(a.start, b.start))

(* No two begin with the same namespace, so they have their places. *)
LEMMA SpansInOrder ==
  ASSUME NEW S \in SUBSET Spans, IsFiniteSet(S), Orders(Starts(S), S)
  PROVE  /\ Cardinality(S) \in Nat
         /\ BySpans(S) \in Seq(S) /\ Len(BySpans(S)) = Cardinality(S)
         /\ \A i \in 1..Cardinality(S) : BySpans(S)[i] \in S
         /\ \A i, j \in 1..Cardinality(S) : i < j => Ord(BySpans(S)[i].start) < Ord(BySpans(S)[j].start)
<1> DEFINE f == Starts(S)
           q == BySpans(S)
           n == Cardinality(S)
<1>1. q = [i \in 1..n |-> CHOOSE x \in S : Cardinality({y \in S : AtMost(y.start, x.start)}) = i]
  BY DEF BySpans, InOrder
<1>2. \A x \in S : f[x] = Ord(x.start)
  BY DEF Starts
<1>3. ASSUME NEW x \in S
      PROVE  Cardinality({y \in S : AtMost(y.start, x.start)}) = Place(f, S, x)
  <2>1. \A y \in S : AtMost(y.start, x.start) <=> f[y] <= f[x]
    BY <1>2, SpanIs, OrdinalsAre
  <2> HIDE DEF f
  <2>2. {y \in S : AtMost(y.start, x.start)} = UpTo(f, S, x)
    BY <2>1 DEF UpTo
  <2> QED
    BY <2>2 DEF Place
<1> HIDE DEF f
<1>4. ASSUME NEW i \in 1..n PROVE q[i] \in S /\ Place(f, S, q[i]) = i
  <2>1. q[i] = CHOOSE x \in S : Cardinality({y \in S : AtMost(y.start, x.start)}) = i
    BY <1>1
  <2>2. \E x \in S : Cardinality({y \in S : AtMost(y.start, x.start)}) = i
    <3>1. \E x \in S : Place(f, S, x) = i
      BY PlacesFilled DEF Filled, f
    <3> QED
      BY <1>3, <3>1
  <2>3. q[i] \in S /\ Cardinality({y \in S : AtMost(y.start, q[i].start)}) = i
    BY <2>1, <2>2
  <2> QED
    BY <1>3, <2>3
<1>5. q = [i \in 1..n |-> q[i]]
  BY <1>1
<1> HIDE DEF q
<1>6. /\ n \in Nat
      /\ q \in Seq(S) /\ Len(q) = n
      /\ \A i \in 1..n : q[i] \in S
      /\ \A i, j \in 1..n : i < j => f[q[i]] < f[q[j]]
  BY <1>4, <1>5, PlacedInOrder DEF f
<1> QED
  BY <1>2, <1>6 DEF q

(* Ranges that begin one after the other, made to reach from each to the   *)
(* next, have every namespace once.                                        *)
LEMMA ContiguousIs ==
  ASSUME NEW q \in Seq(Spans), Len(q) >= 1, Len(q) <= ShardCount,
         \A i, j \in 1..Len(q) : i < j => Ord(q[i].start) < Ord(q[j].start)
  PROVE  /\ Len(Contiguous(q)) = Len(q)
         /\ Divides([i \in 1..Len(Contiguous(q)) |-> ByNamespaces(Contiguous(q)[i])])
<1> DEFINE n == Len(q)
           a == [i \in 1..n |-> Ord(q[i].start)]
           c == Contiguous(q)
           r == [i \in 1..n |-> ByNamespaces(c[i])]
           low(i) == IF i = 1 THEN MinNamespace ELSE q[i].start
           high(i) == IF i = n THEN MaxNamespace
                      ELSE OrdToNamespace(NamespaceToOrd[q[i + 1].start] - 1)
<1>1. n \in Nat \ {0} /\ \A i \in 1..n : q[i] \in Spans
  <2>1. n \in Nat /\ n >= 1 /\ \A i \in 1..n : q[i] \in Spans
    OBVIOUS
  <2> HIDE DEF n
  <2> QED
    BY <2>1
<1>2. \A i \in 1..n : q[i].start \in Namespaces /\ a[i] = Ord(q[i].start) /\ a[i] \in Nat /\ a[i] \in Ordinals
  BY <1>1, SpanIs, OrdinalsAre
<1>3. \A i, j \in 1..n : i < j => a[i] < a[j]
  BY <1>2
<1>4. c = [i \in 1..n |-> Span(low(i), high(i))]
  BY DEF Contiguous
<1>5. Len(c) = n
  <2> HIDE DEF n
  <2> QED
    BY <1>1, <1>4
<1> HIDE DEF n, a, c
<1>6. ASSUME NEW i \in 1..n
      PROVE  /\ c[i] \in Spans /\ AtMost(c[i].start, c[i].end)
             /\ \A ns \in Namespaces : Holds(c[i], ns) <=>
                  (i = 1 \/ a[i] <= Ord(ns)) /\ (i = n \/ Ord(ns) < a[i + 1])
  <2>1. /\ low(i) \in Namespaces /\ Ord(low(i)) <= a[i]
        /\ \A ns \in Namespaces : AtMost(low(i), ns) <=> (i = 1 \/ a[i] <= Ord(ns))
    <3>1. CASE i = 1
      <4>1. AtMost(MinNamespace, q[i].start)
        BY <1>2, OrdinalsAre
      <4> QED
        BY <1>2, <3>1, <4>1, OrdinalsAre
    <3>2. CASE i # 1
      <4>1. low(i) = q[i].start
        BY <3>2
      <4> QED
        BY <1>2, <3>2, <4>1, OrdinalsAre
    <3> QED
      BY <3>1, <3>2
  <2>2. /\ high(i) \in Namespaces /\ a[i] <= Ord(high(i))
        /\ \A ns \in Namespaces : AtMost(ns, high(i)) <=> (i = n \/ Ord(ns) < a[i + 1])
    <3>1. CASE i = n
      <4>1. AtMost(q[i].start, MaxNamespace)
        BY <1>2, OrdinalsAre
      <4> QED
        BY <1>2, <3>1, <4>1, OrdinalsAre
    <3>2. CASE i # n
      <4>1. i + 1 \in 1..n /\ i < i + 1
        BY <1>1, <3>2
      <4> DEFINE b == a[i + 1] - 1
                 ns1 == OrdToNamespace(b)
      <4>2. a[i] < a[i + 1] /\ a[i] \in Nat /\ a[i + 1] \in Nat /\ a[i + 1] \in Ordinals
        BY <1>2, <1>3, <4>1
      <4>3. b \in Nat /\ b <= a[i + 1] /\ a[i] <= b
        BY <4>2
      <4>4. b \in Ordinals
        BY <4>2, <4>3, OrdinalsAre
      <4>5. high(i) = ns1
        BY <1>2, <3>2, <4>1 DEF Ord
      <4>6. ns1 \in Namespaces /\ Ord(ns1) = b
        BY <4>4, OrdinalsAre
      <4>7. \A ns \in Namespaces : Ord(ns) \in Nat /\ (Ord(ns) <= b <=> Ord(ns) < a[i + 1])
        BY <4>2, OrdinalsAre
      <4>8. \A ns \in Namespaces : AtMost(ns, ns1) <=> Ord(ns) <= b
        <5> HIDE DEF ns1, b
        <5> QED
          BY <4>6, OrdinalsAre
      <4> HIDE DEF ns1, b, high
      <4> QED
        BY <3>2, <4>3, <4>5, <4>6, <4>7, <4>8
    <3> QED
      BY <3>1, <3>2
  <2> DEFINE lo == low(i)
             hi == high(i)
  <2>3. c[i] = Span(lo, hi)
    BY <1>4
  <2> HIDE DEF low, high
  <2>4. AtMost(lo, hi)
    <3>1. Ord(lo) \in Nat /\ Ord(hi) \in Nat /\ a[i] \in Nat
      BY <1>2, <2>1, <2>2, OrdinalsAre
    <3>2. Ord(lo) <= Ord(hi)
      BY <2>1, <2>2, <3>1
    <3> QED
      BY <2>1, <2>2, <3>2, OrdinalsAre
  <2>5. c[i] \in Spans /\ c[i].start = lo /\ c[i].end = hi
    BY <2>1, <2>2, <2>3, MakeSpan
  <2> QED
    BY <2>1, <2>2, <2>4, <2>5 DEF Holds
<1>7. ASSUME NEW i \in 1..n
      PROVE  /\ r[i] \in ReaderRecord /\ GoodReader(r[i])
             /\ \A ns \in Namespaces, k \in Keys : ToRead(r[i], ns, k) <=>
                  (i = 1 \/ a[i] <= Ord(ns)) /\ (i = n \/ Ord(ns) < a[i + 1])
  BY <1>6, ByNamespacesIs
<1>8. r \in Seq(ReaderRecord) /\ Len(r) = n
  BY <1>1, <1>7
<1> HIDE DEF r
<1>9. ASSUME NEW ns \in Namespaces
      PROVE  /\ \E i \in 1..n : (i = 1 \/ a[i] <= Ord(ns)) /\ (i = n \/ Ord(ns) < a[i + 1])
             /\ \A i, j \in 1..n : i < j =>
                  ~((i = n \/ Ord(ns) < a[i + 1]) /\ (j = 1 \/ a[j] <= Ord(ns)))
  <2>1. Ord(ns) \in Int /\ \A i \in 1..n : a[i] \in Int
    BY <1>2, OrdinalsAre
  <2> DEFINE x == Ord(ns)
  <2> HIDE DEF x
  <2>2. /\ \E i \in 1..n : (i = 1 \/ a[i] <= x) /\ (i = n \/ x < a[i + 1])
        /\ \A i, j \in 1..n : i < j => ~((i = n \/ x < a[i + 1]) /\ (j = 1 \/ a[j] <= x))
    BY <1>1, <1>3, <2>1, CutOnce DEF x
  <2> QED
    BY <2>2 DEF x
<1>10. \A ns \in Namespaces, k \in Keys : \E i \in 1..n : ToRead(r[i], ns, k)
  BY <1>7, <1>9
<1>11. ASSUME NEW i \in 1..n, NEW j \in 1..n, NEW ns \in Namespaces, NEW k \in Keys,
              ToRead(r[i], ns, k), ToRead(r[j], ns, k)
       PROVE  i = j
  <2>1. ~(i < j) /\ ~(j < i)
    BY <1>7, <1>9, <1>11
  <2> QED
    BY <2>1
<1>12. Divides(r)
  <2>1. n <= ShardCount
    BY DEF n
  <2> QED
    BY <1>7, <1>8, <1>10, <1>11, <2>1 DEF Divides
<1> QED
  BY <1>5, <1>12 DEF n, c, r

(* The ranges of a split, made contiguous, divide the input. *)
LEMMA SplitByNamespacesKeeps ==
  ASSUME ReadersState, SpansState, SplitByNamespaces
  PROVE  ReadersState' /\ SpansState'
<1> DEFINE S == ToSet(spans) \union singles
           q == BySpans(S)
           r == [i \in 1..Len(Contiguous(q)) |-> ByNamespaces(Contiguous(q)[i])]
<1>1. /\ splitting = "split" /\ Start(r) /\ spans' = <<>> /\ singles' = {} /\ queries' = queries
  BY DEF SplitByNamespaces, BySpans
<1>2. GoodSpans(spans, singles) /\ Count(spans, singles) \in 1..ShardCount
  BY <1>1 DEF SpansState
<1>3. /\ spans \in Seq(Spans) /\ singles \in SUBSET Spans /\ IsFiniteSet(singles)
  BY <1>2 DEF GoodSpans
<1>4. S \in SUBSET Spans
  BY <1>3 DEF ToSet
<1>5. /\ IsFiniteSet(S) /\ Cardinality(S) \in Nat /\ Cardinality(S) <= ShardCount
      /\ Cardinality(S) >= 1
  <2> DEFINE A == ToSet(spans)
  <2>1. IsFiniteSet(A) /\ Cardinality(A) <= Len(spans)
    BY <1>3, ElementsFinite
  <2>2. /\ IsFiniteSet(S) /\ Cardinality(S) \in Nat /\ Cardinality(A) \in Nat
        /\ Cardinality(singles) \in Nat /\ IsFiniteSet(A \intersect singles)
        /\ Cardinality(A \intersect singles) \in Nat
        /\ Cardinality(S) = Cardinality(A) + Cardinality(singles) - Cardinality(A \intersect singles)
    <3>1. IsFiniteSet(S) /\ IsFiniteSet(A \intersect singles)
      BY <1>3, <2>1, FS_Union, FS_Subset
    <3> QED
      BY <1>3, <2>1, <3>1, FS_Union, FS_CardinalityType
  <2>3. Cardinality(S) <= ShardCount
    <3> DEFINE s == Cardinality(S)
               x == Cardinality(A)
               y == Cardinality(singles)
               z == Cardinality(A \intersect singles)
               l == Len(spans)
    <3>1. s = x + y - z /\ x \in Nat /\ y \in Nat /\ z \in Nat /\ x <= l /\ l \in Nat
      BY <1>3, <2>1, <2>2
    <3>2. l + y <= ShardCount
      BY <1>2 DEF Count
    <3> HIDE DEF s, x, y, z, l
    <3>3. s <= ShardCount
      BY <3>1, <3>2, ReadersNumbers
    <3> QED
      BY <3>3 DEF s
  <2>4. S # {}
    <3>1. SUFFICES ASSUME S = {} PROVE FALSE
      OBVIOUS
    <3>2. singles = {} /\ A = {}
      BY <3>1
    <3>3. Len(spans) = 0
      <4>1. DOMAIN spans = {}
        BY <3>2 DEF ToSet
      <4>2. Len(spans) \in Nat /\ DOMAIN spans = 1..Len(spans)
        BY <1>3
      <4> QED
        BY <4>1, <4>2
    <3>4. Cardinality(singles) = 0
      BY <3>2, FS_EmptySet
    <3> QED
      BY <1>2, <3>3, <3>4 DEF Count
  <2>5. Cardinality(S) # 0
    BY <2>2, <2>4, FS_EmptySet
  <2> QED
    BY <2>2, <2>3, <2>5
<1>6. Orders(Starts(S), S)
  <2>1. \A x \in S : Starts(S)[x] = Ord(x.start) /\ Ord(x.start) \in Int
    BY <1>4, SpanIs DEF Starts
  <2>2. ASSUME NEW x \in S, NEW y \in S, Ord(x.start) = Ord(y.start) PROVE x = y
    <3>1. /\ x \in Spans /\ y \in Spans
          /\ Ord(x.start) \in Nat /\ Ord(x.end) \in Nat /\ Ord(y.start) \in Nat /\ Ord(y.end) \in Nat
      BY <1>4, SpanIs
    <3>2. \A z \in S : AtMost(z.start, z.end)
      BY <1>2 DEF GoodSpans, ToSet, AtMost
    <3>3. Ord(x.start) <= Ord(x.end) /\ Ord(y.start) <= Ord(y.end)
      BY <3>1, <3>2, SpanIs, OrdinalsAre
    <3>4. ~Apart(x, y) /\ ~Apart(y, x)
      BY <2>2, <3>1, <3>3 DEF Apart
    <3>5. CASE x \in singles /\ y \in singles
      <4>1. x.start = y.start
        BY <2>2, <3>1, SpanIs, OrdinalsAre
      <4>2. x.end = x.start /\ y.end = y.start
        BY <1>2, <3>5 DEF GoodSpans
      <4> QED
        BY <3>1, <4>1, <4>2, SpanIs
    <3>6. CASE x \in ToSet(spans) /\ y \in ToSet(spans)
      BY <1>2, <3>4, <3>6 DEF GoodSpans, ToSet
    <3>7. CASE x \in ToSet(spans) /\ y \in singles
      BY <1>2, <3>4, <3>7 DEF GoodSpans, ToSet
    <3>8. CASE y \in ToSet(spans) /\ x \in singles
      BY <1>2, <3>4, <3>8 DEF GoodSpans, ToSet
    <3> QED
      BY <3>5, <3>6, <3>7, <3>8
  <2> QED
    BY <2>1, <2>2 DEF Orders
<1> HIDE DEF S
<1>7. /\ q \in Seq(S) /\ Len(q) = Cardinality(S)
      /\ \A i \in 1..Cardinality(S) : q[i] \in S
      /\ \A i, j \in 1..Cardinality(S) : i < j => Ord(q[i].start) < Ord(q[j].start)
  BY <1>4, <1>5, <1>6, SpansInOrder
<1> HIDE DEF q
<1>8. q \in Seq(Spans)
  BY <1>4, <1>7
<1>9. Divides(r)
  BY <1>5, <1>7, <1>8, ContiguousIs
<1> HIDE DEF r
<1>10. queries' \in 0..MaxQueries
  BY <1>1 DEF ReadersState, ReadersType
<1>11. ReadersState'
  BY <1>1, <1>9, <1>10, StartKeeps
<1>12. splitting' = "done"
  BY <1>1 DEF Start
<1> QED
  BY <1>1, <1>11, <1>12, NoSpans DEF SpansState

-----------------------------------------------------------------------------
(* Key ranges between the keys of a sample. *)

(* The namespaces in the order of the datastore, *)
LEMMA NamespacesInOrder ==
  ASSUME NEW S \in SUBSET Namespaces
  PROVE  /\ Cardinality(S) \in Nat
         /\ InOrder(S, AtMost) \in Seq(S) /\ Len(InOrder(S, AtMost)) = Cardinality(S)
         /\ \A i \in 1..Cardinality(S) : InOrder(S, AtMost)[i] \in S
         /\ \A i, j \in 1..Cardinality(S) :
              i < j => Ord(InOrder(S, AtMost)[i]) < Ord(InOrder(S, AtMost)[j])
         /\ \A ns \in S : \E i \in 1..Cardinality(S) : InOrder(S, AtMost)[i] = ns
<1> DEFINE f == NamespaceToOrd
           q == InOrder(S, AtMost)
           n == Cardinality(S)
<1>0. IsFiniteSet(S)
  BY OrdinalsAre, FS_Subset
<1>1. q = [i \in 1..n |-> CHOOSE x \in S : Cardinality({y \in S : AtMost(y, x)}) = i]
  BY DEF InOrder
<1>2. \A x \in S : f[x] = Ord(x) /\ f[x] \in Int /\ \A y \in S : f[x] = f[y] => x = y
  BY OrdinalsAre DEF Ord
<1>2a. Orders(f, S)
  BY <1>2 DEF Orders
<1>3. ASSUME NEW x \in S
      PROVE  Cardinality({y \in S : AtMost(y, x)}) = Place(f, S, x)
  <2>1. \A y \in S : AtMost(y, x) <=> f[y] <= f[x]
    BY <1>2, OrdinalsAre
  <2> HIDE DEF f
  <2>2. {y \in S : AtMost(y, x)} = UpTo(f, S, x)
    BY <2>1 DEF UpTo
  <2> QED
    BY <2>2 DEF Place
<1> HIDE DEF f
<1>4. ASSUME NEW i \in 1..n PROVE q[i] \in S /\ Place(f, S, q[i]) = i
  <2>1. q[i] = CHOOSE x \in S : Cardinality({y \in S : AtMost(y, x)}) = i
    BY <1>1
  <2>2. \E x \in S : Cardinality({y \in S : AtMost(y, x)}) = i
    <3>1. \E x \in S : Place(f, S, x) = i
      BY <1>0, <1>2a, PlacesFilled DEF Filled
    <3> QED
      BY <1>3, <3>1
  <2>3. q[i] \in S /\ Cardinality({y \in S : AtMost(y, q[i])}) = i
    BY <2>1, <2>2
  <2> QED
    BY <1>3, <2>3
<1>5. q = [i \in 1..n |-> q[i]]
  BY <1>1
<1> HIDE DEF q
<1>6. /\ n \in Nat
      /\ q \in Seq(S) /\ Len(q) = n
      /\ \A i \in 1..n : q[i] \in S
      /\ \A i, j \in 1..n : i < j => f[q[i]] < f[q[j]]
      /\ \A t \in S : \E i \in 1..n : q[i] = t
  <2>1. IsFiniteSet(S) /\ Orders(f, S)
    BY <1>0, <1>2a
  <2>2. \A i \in 1..n : q[i] \in S /\ Place(f, S, q[i]) = i
    BY <1>4
  <2> QED
    <3>1. /\ n \in Nat
          /\ q \in Seq(S) /\ Len(q) = n
          /\ \A i \in 1..n : q[i] \in S
          /\ \A i, j \in 1..n : i < j => f[q[i]] < f[q[j]]
      BY <2>1, <2>2, <1>5, PlacedInOrder
    <3>2. ASSUME NEW t \in S PROVE \E i \in 1..n : q[i] = t
      <4>1. Place(f, S, t) \in 1..n
        BY <2>1, PlaceType
      <4>2. q[Place(f, S, t)] \in S /\ Place(f, S, q[Place(f, S, t)]) = Place(f, S, t)
        BY <2>2, <4>1
      <4> QED
        BY <2>1, <4>1, <4>2, PlaceIsOrder
    <3> QED
      BY <3>1, <3>2
<1> QED
  BY <1>2, <1>6 DEF q

(* and the keys of a sample in order. *)
LEMMA KeysInOrder ==
  ASSUME NEW S \in SUBSET Keys
  PROVE  /\ Cardinality(S) \in Nat
         /\ InOrder(S, <=) \in Seq(S) /\ Len(InOrder(S, <=)) = Cardinality(S)
         /\ \A i \in 1..Cardinality(S) : InOrder(S, <=)[i] \in S
         /\ \A i, j \in 1..Cardinality(S) :
              i < j => InOrder(S, <=)[i] < InOrder(S, <=)[j]
<1> DEFINE f == [k \in S |-> k]
           q == InOrder(S, <=)
           n == Cardinality(S)
<1>0. IsFiniteSet(S)
  <2>1. IsFiniteSet(1..NumKeys)
    BY ReadersNumbers, FS_Interval
  <2> QED
    BY <2>1, FS_Subset DEF Keys
<1>1. q = [i \in 1..n |-> CHOOSE x \in S : Cardinality({y \in S : y <= x}) = i]
  BY DEF InOrder
<1>2. \A x \in S : f[x] = x /\ x \in Int
  BY KeysAre
<1>2a. Orders(f, S)
  BY <1>2 DEF Orders
<1> HIDE DEF f
<1>3. ASSUME NEW x \in S
      PROVE  Cardinality({y \in S : y <= x}) = Place(f, S, x)
  <2>1. \A y \in S : y <= x <=> f[y] <= f[x]
    BY <1>2
  <2>2. {y \in S : y <= x} = UpTo(f, S, x)
    BY <2>1 DEF UpTo
  <2> QED
    BY <2>2 DEF Place
<1>4. ASSUME NEW i \in 1..n PROVE q[i] \in S /\ Place(f, S, q[i]) = i
  <2>1. q[i] = CHOOSE x \in S : Cardinality({y \in S : y <= x}) = i
    BY <1>1
  <2>2. \E x \in S : Cardinality({y \in S : y <= x}) = i
    <3>1. \E x \in S : Place(f, S, x) = i
      BY <1>0, <1>2a, PlacesFilled DEF Filled
    <3> QED
      BY <1>3, <3>1
  <2>3. q[i] \in S /\ Cardinality({y \in S : y <= q[i]}) = i
    BY <2>1, <2>2
  <2> QED
    BY <1>3, <2>3
<1>5. q = [i \in 1..n |-> q[i]]
  BY <1>1
<1> HIDE DEF q
<1>6. /\ n \in Nat
      /\ q \in Seq(S) /\ Len(q) = n
      /\ \A i \in 1..n : q[i] \in S
      /\ \A i, j \in 1..n : i < j => f[q[i]] < f[q[j]]
  <2>1. IsFiniteSet(S) /\ Orders(f, S)
    BY <1>0, <1>2a
  <2>2. \A i \in 1..n : q[i] \in S /\ Place(f, S, q[i]) = i
    BY <1>4
  <2> QED
    BY <2>1, <2>2, <1>5, PlacedInOrder
<1> QED
  BY <1>2, <1>6 DEF q

(* The places of the split points in "l" sorted keys, for "c" shards. *)
LEMMA SplitPlaces ==
  ASSUME NEW c \in Nat, c >= 1, NEW l \in Nat, l >= c, NEW i \in Nat, i < c
  PROVE  /\ (2 * l * i + c) \div (2 * c) \in Nat
         /\ (2 * l * i + c) \div (2 * c) < l
         /\ (2 * l * i + c) \div (2 * c) < (2 * l * (i + 1) + c) \div (2 * c)
<1> DEFINE w == 2 * c
           x == 2 * l * i + c
           y == 2 * l * (i + 1) + c
<1>1. w \in Nat \ {0}
  OBVIOUS
<1>2. l * i \in Nat /\ l * c \in Nat
  OBVIOUS
<1>3. x \in Nat
  <2> DEFINE z == l * i
  <2>1. x = 2 * z + c
    OBVIOUS
  <2> HIDE DEF z, x
  <2> QED
    BY <1>2, <2>1 DEF z
<1>4. y = x + 2 * l
  OBVIOUS
<1>5. y \in Nat /\ y >= x + w
  <2> HIDE DEF x, y
  <2> QED
    BY <1>3, <1>4
<1>6. x < l * w
  <2>1. c - i \in Nat /\ c - i >= 1
    OBVIOUS
  <2>2. l * (c - i) >= l
    BY <2>1, SMTT(30)
  <2>3. l * w = 2 * (l * c) /\ x = 2 * (l * i) + c /\ l * (c - i) = l * c - l * i
    OBVIOUS
  <2> DEFINE z == l * i
             u == l * c
             v == l * (c - i)
             t == l * w
  <2>4. t = 2 * u /\ x = 2 * z + c /\ v = u - z /\ v >= l /\ u \in Nat /\ z \in Nat
    BY <1>2, <2>2, <2>3
  <2> HIDE DEF x, z, u, v, t
  <2>5. x < t
    BY <2>4
  <2> QED
    BY <2>5 DEF t
<1> HIDE DEF w, x, y
<1>7. x \div w \in Nat /\ x \div w < l
  BY <1>1, <1>3, <1>6, DivMod
<1>8. x \div w < y \div w
  <2> DEFINE p == x \div w
             s == y \div w
  <2>1. /\ p \in Nat /\ x % w \in 0..w - 1 /\ x = w * p + (x % w)
        /\ s \in Nat /\ y % w \in 0..w - 1 /\ y = w * s + (y % w)
    BY <1>1, <1>3, <1>5
  <2> HIDE DEF p, s
  <2>2. SUFFICES ASSUME s <= p PROVE FALSE
    BY <2>1 DEF p, s
  <2>3. w * s <= w * p /\ w * s \in Nat /\ w * p \in Nat
    BY <1>1, <2>1, <2>2, SMTT(30)
  <2> DEFINE ws == w * s
             wp == w * p
             xm == x % w
             ym == y % w
  <2>4. ws <= wp /\ ws \in Nat /\ wp \in Nat /\ y = ws + ym /\ x = wp + xm
        /\ ym \in 0..w - 1 /\ xm \in 0..w - 1 /\ y >= x + w
    BY <1>5, <2>1, <2>3
  <2> HIDE DEF ws, wp, xm, ym
  <2> QED
    BY <1>1, <1>3, <1>5, <2>4
<1> QED
  BY <1>7, <1>8 DEF w, x, y

(* The split points are keys in order, fewer than there are shards. *)
Points(sample) ==
  LET keys == InOrder(sample, <=)
  IN  IF Len(keys) >= ShardCount THEN ChooseSplitPoints(keys) ELSE keys
NumPoints(sample) == IF ShardCount = 1 THEN 0 ELSE Len(Points(sample))

(* Sorted keys are taken at places that grow, since there are at least as  *)
(* many keys as shards; or all of them, since they are fewer.              *)
LEMMA PointsAre ==
  ASSUME NEW S \in SUBSET Keys
  PROVE  /\ NumPoints(S) \in Nat /\ NumPoints(S) + 1 <= ShardCount
         /\ \A i \in 1..NumPoints(S) : Points(S)[i] \in Keys
         /\ \A i, j \in 1..NumPoints(S) : i < j => Points(S)[i] < Points(S)[j]
<1> DEFINE keys == InOrder(S, <=)
           l == Len(keys)
           c == ShardCount
<1>1. /\ l \in Nat /\ keys \in Seq(S)
      /\ \A i \in 1..l : keys[i] \in S
      /\ \A i, j \in 1..l : i < j => keys[i] < keys[j]
  BY KeysInOrder
<1>2. Points(S) = IF l >= c THEN ChooseSplitPoints(keys) ELSE keys
  BY DEF Points
<1>3. c \in Nat /\ c >= 1
  BY ReadersNumbers
<1> HIDE DEF keys, l
<1>4. CASE c = 1
  <2>1. NumPoints(S) = 0
    BY <1>4 DEF NumPoints
  <2> QED
    BY <1>4, <2>1
<1>5. CASE c # 1 /\ l >= c
  <2> DEFINE x(i) == (2 * l * i + c) \div (2 * c)
             at(i) == 1 + x(i)
             g == [i \in 1..(c - 1) |-> keys[at(i)]]
  <2>1. Points(S) = g
    BY <1>2, <1>5 DEF ChooseSplitPoints, l
  <2>2. \A i \in 1..(c - 1) : i \in Nat /\ i < c
    BY <1>3
  <2>3. ASSUME NEW i \in 1..(c - 1) PROVE x(i) \in Nat /\ x(i) < l /\ x(i) < x(i + 1)
    BY <1>1, <1>3, <1>5, <2>2, SplitPlaces
  <2> HIDE DEF x
  <2>4. \A i \in 1..(c - 1) : at(i) \in 1..l
    <3>1. SUFFICES ASSUME NEW i \in 1..(c - 1) PROVE 1 + x(i) \in 1..l
      OBVIOUS
    <3>2. x(i) \in Nat /\ x(i) < l
      BY <2>3
    <3> QED
      BY <1>1, <3>2
  <2>5. \A i, j \in 1..(c - 1) : i < j => at(i) < at(j)
    <3> DEFINE T == {d \in Nat : \A i \in 1..(c - 1) :
                       i + d + 1 \in 1..(c - 1) => x(i) < x(i + d + 1)}
    <3>1. 0 \in T
      BY <2>3, <1>3
    <3>2. ASSUME NEW d \in Nat, d < c, d \in T PROVE d + 1 \in T
      <4>1. SUFFICES ASSUME NEW i \in 1..(c - 1), i + (d + 1) + 1 \in 1..(c - 1)
                     PROVE  x(i) < x(i + (d + 1) + 1)
        OBVIOUS
      <4>2. i + d + 1 \in 1..(c - 1) /\ (i + d + 1) + 1 = i + (d + 1) + 1
        BY <1>3, <4>1
      <4>3. x(i) < x(i + d + 1)
        BY <3>2, <4>2
      <4>4. x(i + d + 1) < x((i + d + 1) + 1)
        BY <2>3, <4>2
      <4>5. x(i) \in Nat /\ x(i + d + 1) \in Nat /\ x(i + (d + 1) + 1) \in Nat
        BY <2>3, <4>1, <4>2
      <4>6. x(i + d + 1) < x(i + (d + 1) + 1)
        BY <4>2, <4>4
      <4> QED
        BY <4>3, <4>5, <4>6
    <3> HIDE DEF T
    <3>3. \A d \in 0..c : d \in T
      BY <1>3, <3>1, <3>2, CountUp
    <3>4. ASSUME NEW i \in 1..(c - 1), NEW j \in 1..(c - 1), i < j PROVE x(i) < x(j)
      <4>1. (j - i) - 1 \in 0..c /\ i + ((j - i) - 1) + 1 = j
        BY <1>3, <3>4
      <4>2. (j - i) - 1 \in T
        BY <3>3, <4>1
      <4>3. x(i) < x(i + ((j - i) - 1) + 1)
        BY <4>1, <4>2 DEF T
      <4> QED
        BY <4>1, <4>3
    <3>5. \A i \in 1..(c - 1) : x(i) \in Nat
      BY <2>3
    <3> QED
      BY <3>4, <3>5
  <2> HIDE DEF at
  <2>6. \A i \in 1..(c - 1) : g[i] = keys[at(i)]
    OBVIOUS
  <2>7. Len(g) = c - 1
    BY <1>3
  <2>8. NumPoints(S) = c - 1 /\ c - 1 \in Nat /\ c - 1 + 1 <= c
    <3>1. NumPoints(S) = Len(g)
      BY <1>5, <2>1 DEF NumPoints
    <3>2. c - 1 \in Nat /\ c - 1 + 1 <= c
      BY <1>3
    <3> QED
      BY <2>7, <3>1, <3>2
  <2> HIDE DEF g
  <2>9. \A i \in 1..(c - 1) : g[i] \in Keys
    BY <1>1, <2>4, <2>6
  <2>10. \A i, j \in 1..(c - 1) : i < j => g[i] < g[j]
    BY <1>1, <2>4, <2>5, <2>6
  <2> QED
    BY <2>1, <2>8, <2>9, <2>10
<1>6. CASE c # 1 /\ ~(l >= c)
  <2>1. Points(S) = keys /\ NumPoints(S) = l
    BY <1>2, <1>6 DEF NumPoints, l
  <2>2. l + 1 <= c
    BY <1>1, <1>3, <1>6
  <2> QED
    BY <1>1, <2>1, <2>2
<1> QED
  BY <1>4, <1>5, <1>6

(* The ranges of a namespace have each of its keys once. *)
LEMMA KeyRangesAre ==
  ASSUME NEW ns \in Namespaces, NEW sample \in SUBSET Keys
  PROVE  /\ KeyRangesOf(ns, sample) \in [Shards -> KeyRanges]
         /\ \A s \in Shards : \A m, k : k \in Keys =>
              (InRange(KeyRangesOf(ns, sample)[s], m, k) => m = ns)
         /\ \A k \in Keys :
              /\ \E s \in Shards : InRange(KeyRangesOf(ns, sample)[s], ns, k)
              /\ \A s, t \in Shards :
                   InRange(KeyRangesOf(ns, sample)[s], ns, k) /\
                   InRange(KeyRangesOf(ns, sample)[t], ns, k) => s = t
<1> DEFINE p == Points(sample)
           n == NumPoints(sample)
           bound(i) == IF i \in 1..n THEN p[i] ELSE 0
           range(s) == KeyRange(ns, bound(s - 1), n = 0 \/ s > 1, bound(s))
           kr == KeyRangesOf(ns, sample)
           a == [i \in 1..(n + 1) |-> bound(i - 1)]
<1>1. /\ n \in Nat /\ n + 1 <= ShardCount
      /\ \A i \in 1..n : p[i] \in Keys
      /\ \A i, j \in 1..n : i < j => p[i] < p[j]
  BY PointsAre
<1>2. kr = [s \in Shards |-> IF s > n + 1 THEN NoKeyRange ELSE range(s)]
  BY DEF KeyRangesOf, Points, NumPoints
<1> HIDE DEF p, n, kr
<1>3. Shards = 1..ShardCount /\ ShardCount \in Nat /\ Keys \subseteq Nat \ {0}
  BY ReadersNumbers, KeysAre DEF Shards
<1>4. \A i : bound(i) \in Keys \union {0} /\ bound(i) \in Nat /\ (i \in 1..n => bound(i) = p[i])
  BY <1>1, <1>3
<1>5. \A i \in 1..(n + 1) : a[i] = bound(i - 1) /\ a[i] \in Int /\ (i # 1 => i - 1 \in 1..n)
  BY <1>1, <1>4
<1>6. \A i, j \in 1..(n + 1) : i < j => a[i] < a[j]
  <2>1. SUFFICES ASSUME NEW i \in 1..(n + 1), NEW j \in 1..(n + 1), i < j PROVE a[i] < a[j]
    OBVIOUS
  <2>2. j - 1 \in 1..n /\ a[j] = p[j - 1]
    BY <1>1, <1>4, <1>5, <2>1
  <2>3. CASE i = 1
    <3>1. a[i] = 0
      <4>1. ~(i - 1 \in 1..n)
        BY <2>3
      <4> QED
        BY <1>5, <4>1
    <3>2. p[j - 1] \in Nat \ {0}
      BY <1>1, <1>3, <2>2
    <3> QED
      BY <2>2, <3>1, <3>2
  <2>4. CASE i # 1
    <3>1. i - 1 \in 1..n /\ i - 1 < j - 1 /\ a[i] = p[i - 1]
      BY <1>4, <1>5, <2>1, <2>4
    <3> QED
      BY <1>1, <2>2, <3>1
  <2> QED
    BY <2>3, <2>4
<1> HIDE DEF a
<1>7. ASSUME NEW s \in Shards, s > n + 1
      PROVE  kr[s] \in KeyRanges /\ \A m, k : k \in Keys => ~InRange(kr[s], m, k)
  BY <1>2, <1>7, NoKeyRangeIs
<1>8. ASSUME NEW s \in 1..(n + 1)
      PROVE  /\ s \in Shards /\ kr[s] \in KeyRanges /\ kr[s].ns = ns
             /\ \A k \in Keys : Within(k, kr[s]) <=>
                  (s = 1 \/ a[s] <= k) /\ (s = n + 1 \/ k < a[s + 1])
  <2>1. s \in Shards /\ ~(s > n + 1)
    BY <1>1, <1>3
  <2>2. kr[s] = range(s)
    BY <1>2, <2>1
  <2> DEFINE b == bound(s - 1)
             e == bound(s)
             incl == (n = 0 \/ s > 1)
  <2>3. b \in Keys \union {0} /\ e \in Keys \union {0} /\ incl \in BOOLEAN
    BY <1>4
  <2>4. b = 0 <=> s = 1
    <3>1. s = 1 => s - 1 \notin 1..n
      OBVIOUS
    <3>2. s # 1 => s - 1 \in 1..n
      BY <1>1
    <3> QED
      BY <1>1, <1>3, <3>1, <3>2
  <2>5. e = 0 <=> s = n + 1
    <3>1. s = n + 1 => s \notin 1..n
      BY <1>1
    <3>2. s # n + 1 => s \in 1..n
      BY <1>1
    <3> QED
      BY <1>1, <1>3, <3>1, <3>2
  <2>6. a[s] = b
    BY <1>5
  <2>7. s # n + 1 => a[s + 1] = e
    <3>1. s # n + 1 => s + 1 \in 1..(n + 1) /\ (s + 1) - 1 = s
      BY <1>1
    <3> QED
      BY <1>5, <3>1
  <2>8. s # 1 => incl
    BY <1>1
  <2> HIDE DEF bound
  <2>9. kr[s] = [ns |-> ns, start |-> b, inclusive |-> incl, end |-> e]
    BY <2>2 DEF KeyRange
  <2> HIDE DEF b, e, incl, range
  <2>10. /\ kr[s] \in KeyRanges /\ kr[s].ns = ns
         /\ kr[s].start = b /\ kr[s].inclusive = incl /\ kr[s].end = e
    BY <2>3, <2>9 DEF KeyRanges
  <2>11. ASSUME NEW k \in Keys
         PROVE  Within(k, kr[s]) <=> (s = 1 \/ a[s] <= k) /\ (s = n + 1 \/ k < a[s + 1])
    <3>1. Within(k, kr[s]) <=> (b = 0 \/ b < k \/ (incl /\ b = k)) /\ (e = 0 \/ k < e)
      BY <2>10 DEF Within
    <3>2. k \in Nat /\ b \in Nat /\ e \in Nat
      BY <1>3, <2>3
    <3>3. s # 1 => ((b < k \/ (incl /\ b = k)) <=> b <= k)
      BY <2>8, <3>2
    <3> QED
      BY <2>4, <2>5, <2>6, <2>7, <3>1, <3>3
  <2> QED
    BY <2>1, <2>10, <2>11
<1>9. \A s \in Shards : s > n + 1 \/ s \in 1..(n + 1)
  BY <1>1, <1>3
<1>10. kr \in [Shards -> KeyRanges]
  <2>1. \A s \in Shards : kr[s] \in KeyRanges
    BY <1>7, <1>8, <1>9
  <2>2. kr = [s \in Shards |-> kr[s]]
    BY <1>2
  <2> QED
    BY <2>1, <2>2
<1>11. \A s \in Shards : \A m, k : k \in Keys => (InRange(kr[s], m, k) => m = ns)
  BY <1>7, <1>8, <1>9 DEF InRange
<1>12. ASSUME NEW k \in Keys
       PROVE  /\ \E s \in Shards : InRange(kr[s], ns, k)
              /\ \A s, t \in Shards : InRange(kr[s], ns, k) /\ InRange(kr[t], ns, k) => s = t
  <2> DEFINE N == n + 1
  <2>1. N \in Nat \ {0} /\ k \in Int
    BY <1>1, <1>3
  <2>2. /\ \E i \in 1..N : (i = 1 \/ a[i] <= k) /\ (i = N \/ k < a[i + 1])
        /\ \A i, j \in 1..N : i < j => ~((i = N \/ k < a[i + 1]) /\ (j = 1 \/ a[j] <= k))
    <3> HIDE DEF N
    <3>1. \A i \in 1..N : a[i] \in Int
      BY <1>5 DEF N
    <3>2. \A i, j \in 1..N : i < j => a[i] < a[j]
      BY <1>6 DEF N
    <3> QED
      BY <2>1, <3>1, <3>2, CutOnce
  <2>3. \E s \in Shards : InRange(kr[s], ns, k)
    BY <1>8, <2>2 DEF InRange
  <2>4. ASSUME NEW s \in Shards, NEW t \in Shards, InRange(kr[s], ns, k), InRange(kr[t], ns, k)
        PROVE  s = t
    <3>1. s \in 1..N /\ t \in 1..N
      BY <1>7, <1>9, <2>4
    <3>2. ~(s < t) /\ ~(t < s)
      BY <1>8, <2>2, <2>4, <3>1 DEF InRange
    <3> QED
      BY <3>1, <3>2
  <2> QED
    BY <2>3, <2>4
<1> QED
  BY <1>10, <1>11, <1>12 DEF kr

(* Readers that have one range of each namespace divide the input. *)
LEMMA SplitByKeysDivides ==
  ASSUME NEW sample, Len(InOrder(Stored(Everything), AtMost)) >= 1
  PROVE  Divides([s \in Shards |->
             ByKeys([i \in 1..Len(InOrder(Stored(Everything), AtMost)) |->
               KeyRangesOf(InOrder(Stored(Everything), AtMost)[i],
                 {k \in Keys : <<InOrder(Stored(Everything), AtMost)[i], k>> \in sample})[s]])])
<1> DEFINE S == Stored(Everything)
           q == InOrder(S, AtMost)
           m == Len(q)
           K(i) == KeyRangesOf(q[i], {k \in Keys : <<q[i], k>> \in sample})
           list(s) == [i \in 1..m |-> K(i)[s]]
           r == [s \in Shards |-> ByKeys(list(s))]
<1>1. S \in SUBSET Namespaces
  BY StoredIs
<1>2. \A ns \in Namespaces, k \in Keys : <<ns, k>> \in entities => ns \in S
  BY EverythingIs DEF Stored
<1> HIDE DEF S
<1>3. /\ m \in Nat /\ \A i \in 1..m : q[i] \in Namespaces
      /\ \A i, j \in 1..m : i < j => Ord(q[i]) < Ord(q[j])
      /\ \A ns \in S : \E i \in 1..m : q[i] = ns
  <2>1. m = Cardinality(S)
    BY <1>1, NamespacesInOrder
  <2> QED
    BY <1>1, <2>1, NamespacesInOrder
<1> HIDE DEF q, m
<1>4. \A i, j \in 1..m : q[i] = q[j] => i = j
  <2>1. SUFFICES ASSUME NEW i \in 1..m, NEW j \in 1..m, q[i] = q[j] PROVE i = j
    OBVIOUS
  <2>2. Ord(q[i]) = Ord(q[j]) /\ Ord(q[i]) \in Nat
    BY <1>3, <2>1, OrdinalsAre
  <2>3. ~(i < j) /\ ~(j < i)
    BY <1>3, <2>2
  <2> QED
    BY <1>3, <2>3
<1>5. ASSUME NEW i \in 1..m
      PROVE  /\ K(i) \in [Shards -> KeyRanges]
             /\ \A s \in Shards : \A ns, k : k \in Keys => (InRange(K(i)[s], ns, k) => ns = q[i])
             /\ \A k \in Keys :
                  /\ \E s \in Shards : InRange(K(i)[s], q[i], k)
                  /\ \A s, t \in Shards :
                       InRange(K(i)[s], q[i], k) /\ InRange(K(i)[t], q[i], k) => s = t
  <2> DEFINE A == {k \in Keys : <<q[i], k>> \in sample}
  <2>1. A \in SUBSET Keys /\ q[i] \in Namespaces
    BY <1>3
  <2> HIDE DEF A
  <2>2. /\ KeyRangesOf(q[i], A) \in [Shards -> KeyRanges]
        /\ \A s \in Shards : \A ns, k : k \in Keys =>
             (InRange(KeyRangesOf(q[i], A)[s], ns, k) => ns = q[i])
        /\ \A k \in Keys :
             /\ \E s \in Shards : InRange(KeyRangesOf(q[i], A)[s], q[i], k)
             /\ \A s, t \in Shards :
                  InRange(KeyRangesOf(q[i], A)[s], q[i], k) /\
                  InRange(KeyRangesOf(q[i], A)[t], q[i], k) => s = t
    BY <2>1, KeyRangesAre
  <2> QED
    BY <2>2 DEF A
<1> HIDE DEF K
<1>6. ASSUME NEW s \in Shards
      PROVE  /\ list(s) \in Seq(KeyRanges) /\ DOMAIN list(s) = 1..m
             /\ \A i \in 1..m : list(s)[i] = K(i)[s]
  BY <1>3, <1>5
<1> HIDE DEF list
<1>7. ASSUME NEW s \in Shards
      PROVE  /\ r[s] \in ReaderRecord /\ GoodReader(r[s])
             /\ \A ns \in Namespaces, k \in Keys :
                  ToRead(r[s], ns, k) <=> \E i \in 1..m : InRange(K(i)[s], ns, k)
  <2> DEFINE l == list(s)
  <2>1. l \in Seq(KeyRanges) /\ DOMAIN l = 1..m /\ \A i \in 1..m : l[i] = K(i)[s]
    BY <1>6
  <2> HIDE DEF l
  <2>2. \A ns \in Namespaces, k \in Keys : \A i, j \in DOMAIN l :
          InRange(l[i], ns, k) /\ InRange(l[j], ns, k) => i = j
    <3>1. SUFFICES ASSUME NEW ns \in Namespaces, NEW k \in Keys, NEW i \in 1..m, NEW j \in 1..m,
                          InRange(K(i)[s], ns, k), InRange(K(j)[s], ns, k)
                   PROVE  i = j
      BY <2>1
    <3>2. ns = q[i] /\ ns = q[j]
      BY <1>5, <3>1
    <3> QED
      BY <1>4, <3>2
  <2>3. /\ GoodReader(ByKeys(l))
        /\ \A ns \in Namespaces, k \in Keys :
             ToRead(ByKeys(l), ns, k) <=> \E i \in DOMAIN l : InRange(l[i], ns, k)
    BY <2>1, <2>2, ByKeysIs
  <2>4. r[s] = ByKeys(l)
    BY DEF l
  <2> HIDE DEF r
  <2> QED
    BY <2>1, <2>3, <2>4 DEF GoodReader
<1>8. /\ r \in Seq(ReaderRecord) /\ Len(r) = ShardCount /\ Shards = 1..ShardCount
  BY <1>7, ReadersNumbers DEF Shards
<1> HIDE DEF r
<1>9. ASSUME NEW ns \in Namespaces, NEW k \in Keys, <<ns, k>> \in entities
      PROVE  \E s \in Shards : ToRead(r[s], ns, k)
  <2>1. PICK i \in 1..m : q[i] = ns
    BY <1>2, <1>3, <1>9
  <2>2. PICK s \in Shards : InRange(K(i)[s], q[i], k)
    BY <1>5
  <2> QED
    BY <1>7, <2>1, <2>2
<1>10. ASSUME NEW s \in Shards, NEW t \in Shards, NEW ns \in Namespaces, NEW k \in Keys,
              ToRead(r[s], ns, k), ToRead(r[t], ns, k)
       PROVE  s = t
  <2>1. PICK i \in 1..m : InRange(K(i)[s], ns, k)
    BY <1>7, <1>10
  <2>2. PICK j \in 1..m : InRange(K(j)[t], ns, k)
    BY <1>7, <1>10
  <2>3. ns = q[i] /\ ns = q[j]
    BY <1>5, <2>1, <2>2
  <2>4. i = j
    BY <1>4, <2>3
  <2> QED
    BY <1>5, <2>1, <2>2, <2>3, <2>4
<1>11. Divides(r)
  <2>1. Len(r) <= ShardCount
    BY <1>8, ReadersNumbers
  <2> QED
    BY <1>7, <1>8, <1>9, <1>10, <2>1 DEF Divides
<1> QED
  BY <1>11 DEF r, list, K, m, q, S

(* A split by keys establishes the ledger. *)
LEMMA SplitByKeysKeeps ==
  ASSUME ReadersState, NEW sample, SplitByKeys(sample)
  PROVE  ReadersState'
<1> DEFINE q == InOrder(Stored(Everything), AtMost)
           r == [s \in Shards |->
                  ByKeys([i \in 1..Len(q) |->
                    KeyRangesOf(q[i], {k \in Keys : <<q[i], k>> \in sample})[s]])]
<1>1. splitting = "start" /\ Len(q) >= 1 /\ Start(r) /\ queries' = queries
  <2>1. splitting = "start" /\ Len(q) \in 1..MaxNamespaces /\ Start(r) /\ queries' = queries
    BY DEF SplitByKeys
  <2> HIDE DEF q, r
  <2>2. Len(q) >= 1
    BY <2>1, ReadersNumbers
  <2> QED
    BY <2>1, <2>2
<1>2. Divides(r)
  BY <1>1, SplitByKeysDivides
<1> HIDE DEF q, r
<1>3. queries' \in 0..MaxQueries
  BY <1>1 DEF ReadersState, ReadersType
<1> QED
  BY <1>1, <1>2, <1>3, StartKeeps

-----------------------------------------------------------------------------
(* All steps together. *)

(* The spans of a split that has not begun, or that ends. *)
LEMMA SpansStay ==
  ASSUME SpansState, UNCHANGED <<spans, singles>>, splitting # "split" \/ splitting' = splitting,
         splitting' = "split" => splitting = "split"
  PROVE  SpansState'
  BY DEF SpansState

(* The budget of queries. *)
LEMMA QueriesSpent ==
  ASSUME queries \in 0..MaxQueries, SpendQuery
  PROVE  queries' \in 0..MaxQueries
<1>1. queries' = IF queries > 0 THEN queries - 1 ELSE 0
  BY DEF SpendQuery, CanQuery
<1> QED
  BY <1>1, ReadersNumbers

(* A step of the split that starts no slice. *)
LEMMA SplitGoesOn ==
  ASSUME ReadersState, splitting # "done", splitting' \in {"start", "first", "split"},
         UNCHANGED <<entities, readVars, changed>>, queries' \in 0..MaxQueries
  PROVE  ReadersState'
  BY DEF ReadersState, ReadersType, AllGood, NotBegun, readVars

(* The steps of the kickoff keep the invariant. *)
LEMMA SplitKeeps ==
  ASSUME ReadersState, SpansState, SplitStep
  PROVE  ReadersState' /\ SpansState'
<1>0. queries \in 0..MaxQueries
  BY DEF ReadersState, ReadersType
<1>1. CASE SplitNothing
  <2>1. /\ splitting = "start" /\ Start(<<ByNamespaces(Everything)>>)
        /\ UNCHANGED <<queries, spans, singles>>
    BY <1>1 DEF SplitNothing
  <2>2. splitting' = "done"
    BY <2>1 DEF Start
  <2> QED
    BY <1>0, <2>1, <2>2, OneReader, StartKeeps, SpansStay
<1>2. CASE \E sample \in SUBSET entities : SplitByKeys(sample)
  <2>1. PICK sample : SplitByKeys(sample)
    BY <1>2
  <2>2. splitting = "start" /\ splitting' = "done" /\ UNCHANGED <<spans, singles>>
    BY <2>1 DEF SplitByKeys, Start
  <2> QED
    BY <2>1, <2>2, SplitByKeysKeeps, SpansStay
<1>3. CASE ManyNamespaces
  <2>1. /\ splitting = "start" /\ splitting' = "first"
        /\ UNCHANGED <<entities, queries, spans, singles, readVars, changed>>
    BY <1>3 DEF ManyNamespaces
  <2> QED
    BY <1>0, <2>1, SplitGoesOn, SpansStay
<1>4. CASE FirstSpan
  <2>1. splitting = "first" /\ queries' \in 0..MaxQueries /\ singles' = singles
    BY <1>0, <1>4, QueriesSpent DEF FirstSpan
  <2>2. CASE Start(<<ByNamespaces(Everything)>>) /\ UNCHANGED spans
    <3>1. splitting' = "done"
      BY <2>2 DEF Start
    <3> QED
      BY <2>1, <2>2, <3>1, OneReader, StartKeeps, SpansStay
  <2>3. CASE splitting' = "split" /\ UNCHANGED <<entities, readVars, changed>>
    <3>1. SpansState'
      BY <1>4, <2>3, FirstSpanSpans
    <3> QED
      BY <2>1, <2>3, <3>1, SplitGoesOn
  <2> QED
    BY <1>4, <2>2, <2>3 DEF FirstSpan
<1>5. CASE KeepSingle
  <2>1. /\ splitting = "split" /\ splitting' = "split" /\ queries' = queries
        /\ UNCHANGED <<entities, readVars, changed>>
    BY <1>5 DEF KeepSingle
  <2> QED
    BY <1>0, <1>5, <2>1, KeepSingleSpans, SplitGoesOn
<1>6. CASE SplitSpan
  <2>1. /\ splitting = "split" /\ splitting' = "split" /\ SpendQuery
        /\ UNCHANGED <<entities, readVars, changed>>
    BY <1>6 DEF SplitSpan
  <2> QED
    BY <1>0, <1>6, <2>1, QueriesSpent, SplitSpanSpans, SplitGoesOn
<1>7. CASE SplitByNamespaces
  BY <1>7, SplitByNamespacesKeeps
<1> QED
  BY <1>1, <1>2, <1>3, <1>4, <1>5, <1>6, <1>7 DEF SplitStep

(* The invariant holds initially. *)
LEMMA InitReaders == ReadersInit => ReadersState /\ SpansState
<1> SUFFICES ASSUME ReadersInit PROVE ReadersState /\ SpansState
  OBVIOUS
<1>1. ReadersType
  <2>1. /\ live \in [Shards -> ReaderRecord] /\ saved \in [Shards -> ReaderRecord]
    BY NoReaderIs DEF ReadersInit
  <2>2. read \in [Namespaces \X Keys -> 0..2] /\ again \in 0..MaxEvents
    BY ReadersNumbers DEF ReadersInit
  <2>3. entities \subseteq Namespaces \X Keys
    BY ReadersEntities DEF ReadersInit
  <2> QED
    BY <2>1, <2>2, <2>3 DEF ReadersInit, ReadersType
<1>2. AllGood
  BY NoReaderIs DEF ReadersInit, AllGood
<1>3. NotBegun /\ splitting = "start"
  BY DEF ReadersInit, NotBegun
<1>4. SpansState
  BY <1>3, NoSpans DEF ReadersInit, SpansState
<1> QED
  BY <1>1, <1>2, <1>3, <1>4 DEF ReadersState

(* At any time while readers read, each entity that has been there all the *)
(* time was read or is before one shard's reader that is not at its end;   *)
(* no entity is before two shards; and the ranges of a split are always    *)
(* apart. For any alphabet, number of shards and keys, budget of queries,  *)
(* and order of slices, slices run again, and entities that come and go.   *)
THEOREM ReadersInvariance == ReadersSpec => [](ReadersState /\ SpansState)
<1>1. ASSUME ReadersState, SpansState, ReadersNext PROVE ReadersState' /\ SpansState'
  <2>1. CASE SplitStep
    BY <1>1, <2>1, SplitKeeps
  <2>2. CASE \E s \in Shards : ReadStep(s) \/ EndSlice(s) \/ RunAgain(s)
    <3>1. PICK s \in Shards : ReadStep(s) \/ EndSlice(s) \/ RunAgain(s)
      BY <2>2
    <3>2. ReadersState'
      BY <1>1, <3>1, ReadKeeps, EndSliceKeeps, RunAgainKeeps
    <3>3. UNCHANGED splitVars
      BY <3>1 DEF ReadStep, ReadEntity, NextKeyRange, NextNamespace, LeaveNamespace, EndSlice, RunAgain
    <3>4. SpansState'
      BY <1>1, <3>3, SpansStay DEF splitVars
    <3> QED
      BY <3>2, <3>4
  <2>3. CASE \E e \in Volatile : Change(e)
    <3>1. PICK e \in Volatile : Change(e)
      BY <2>3
    <3>2. UNCHANGED splitVars
      BY <3>1 DEF Change
    <3> QED
      BY <1>1, <3>1, <3>2, ChangeKeeps, SpansStay DEF splitVars
  <2> QED
    BY <1>1, <2>1, <2>2, <2>3 DEF ReadersNext
<1>2. ASSUME ReadersState, SpansState, UNCHANGED readerVars PROVE ReadersState' /\ SpansState'
  <2>1. UNCHANGED <<entities, splitting, queries, spans, singles, live, saved, ended, read, again, changed>>
    BY <1>2 DEF readerVars, splitVars, readVars
  <2>2. SpansState'
    BY <1>2, <2>1 DEF SpansState
  <2>3. ReadersType' /\ AllGood' /\ NotBegun'
    BY <1>2, <2>1 DEF ReadersState, ReadersType, AllGood, NotBegun
  <2>4. ReadersLedger => ReadersLedger'
    BY <2>1 DEF ReadersLedger, NoneMissed, Steady, SlicesAdvance, ShardsApart, NoneTwice
  <2> QED
    BY <1>2, <2>1, <2>2, <2>3, <2>4 DEF ReadersState
<1> QED
  BY <1>1, <1>2, InitReaders, PTL DEF ReadersSpec

(* When all readers are at their end, every entity that was there all the  *)
(* time was read, and nothing is read twice unless a slice was run again:  *)
(* DatastoreInputReader loses nothing where input, namespaces and slices   *)
(* are cut.                                                                *)
THEOREM EachRead == ReadersSpec => []EachReadOnce
<1>1. ReadersState => EachReadOnce
  <2> SUFFICES ASSUME ReadersState PROVE EachReadOnce
    OBVIOUS
  <2>1. entities \subseteq Namespaces \X Keys /\ read \in [Namespaces \X Keys -> 0..2]
        /\ again \in 0..MaxEvents /\ Shards # {}
    BY ReadersNumbers DEF ReadersState, ReadersType, Shards
  <2>2. ASSUME ended = Shards, NEW e \in Steady PROVE read[e] > 0
    <3>1. splitting = "done"
      BY <2>1, <2>2 DEF ReadersState, NotBegun
    <3>2. PICK ns \in Namespaces, k \in Keys : e = <<ns, k>>
      BY <2>1, <2>2 DEF Steady
    <3>3. Shards \ ended = {}
      BY <2>2
    <3> QED
      BY <2>2, <3>1, <3>2, <3>3 DEF ReadersState, ReadersLedger, NoneMissed
  <2>3. ASSUME again = 0, NEW e \in DOMAIN read PROVE read[e] < 2
    <3>1. PICK ns \in Namespaces, k \in Keys : e = <<ns, k>>
      BY <2>1, <2>3
    <3>2. CASE splitting = "done"
      BY <2>3, <3>1, <3>2 DEF ReadersState, ReadersLedger, NoneTwice
    <3>3. CASE splitting # "done"
      <4>1. read[<<ns, k>>] = 0
        BY <3>3 DEF ReadersState, NotBegun
      <4> QED
        BY <3>1, <4>1
    <3> QED
      BY <3>2, <3>3
  <2> QED
    BY <2>2, <2>3 DEF EachReadOnce
<1> QED
  BY <1>1, ReadersInvariance, PTL

(* The types of a reader. *)
LEMMA RecordIsReader ==
  ASSUME NEW r, GoodReader(r)
  PROVE  IsReader(r)
<1>1. r \in ReaderRecord /\ AtMost(r.ns.start, r.ns.end)
  BY DEF GoodReader
<1>2. DOMAIN r = {"byKeys", "ranges", "ns", "current"}
  BY <1>1 DEF ReaderRecord
<1>3. ToSet(r.ranges) \subseteq KeyRanges
  <2>1. r.ranges \in Seq(KeyRanges)
    BY <1>1 DEF ReaderRecord
  <2> QED
    BY <2>1 DEF ToSet
<1>4. r.byKeys \in BOOLEAN /\ r.ns \in Spans /\ r.current \in KeyRanges
  BY <1>1 DEF ReaderRecord
<1> QED
  BY <1>1, <1>2, <1>3, <1>4 DEF IsReader

(* The variables of InputReaders have their types, and no range of         *)
(* namespaces ends before it starts.                                       *)
THEOREM ReadersTypeCorrect == ReadersSpec => []ReadersTypeOK
<1>1. ReadersState /\ SpansState => ReadersTypeOK
  <2> SUFFICES ASSUME ReadersState, SpansState PROVE ReadersTypeOK
    OBVIOUS
  <2>1. ASSUME NEW x \in ToSet(spans) \union singles
        PROVE  x \in Spans /\ AtMost(x.start, x.end)
    <3>1. GoodSpans(spans, singles)
      BY DEF SpansState
    <3>2. CASE x \in singles
      BY <3>1, <3>2 DEF GoodSpans, AtMost
    <3>3. CASE x \in ToSet(spans)
      <4>1. PICK i \in DOMAIN spans : x = spans[i]
        BY <3>3 DEF ToSet
      <4>2. spans \in Seq(Spans)
        BY <3>1 DEF GoodSpans
      <4> QED
        BY <3>1, <4>1, <4>2 DEF GoodSpans
    <3> QED
      BY <2>1, <3>2, <3>3
  <2>2. \A s \in Shards : IsReader(live[s]) /\ IsReader(saved[s])
    BY RecordIsReader DEF ReadersState, AllGood
  <2> QED
    BY <2>1, <2>2 DEF ReadersState, ReadersType, ReadersTypeOK
<1> QED
  BY <1>1, ReadersInvariance, PTL
=============================================================================
