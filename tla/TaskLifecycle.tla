--------------------------- MODULE TaskLifecycle ---------------------------
(***************************************************************************)
(* What the task queue promises about each task, without saying how: a     *)
(* task waits, is tried at most MaxTries times, one try at a time, and     *)
(* ends either reported, by a result of its last try, or expired, when its *)
(* last allowed try has run out.  Ended tasks stay as they are until they  *)
(* are removed.                                                            *)
(***************************************************************************)
EXTENDS Naturals

CONSTANTS Ids, MaxTries

VARIABLE life    \* Ids -> [phase, tries]

Phases == {"new", "waiting", "running", "reported", "expired", "removed"}

At(phase, tries) == [phase |-> phase, tries |-> tries]

LifeInit == life = [id \in Ids |-> At("new", 0)]

Submit(id) ==
  /\ life[id].phase = "new"
  /\ life' = [life EXCEPT ![id] = At("waiting", 0)]

Start(id) ==
  /\ life[id].phase = "waiting"
  /\ life[id].tries < MaxTries
  /\ life' = [life EXCEPT ![id] = At("running", @.tries + 1)]

(* The try has run out and another one is allowed. *)
Retry(id) ==
  /\ life[id].phase = "running"
  /\ life[id].tries < MaxTries
  /\ life' = [life EXCEPT ![id] = At("waiting", @.tries)]

Expire(id) ==
  /\ life[id].phase = "running"
  /\ life[id].tries = MaxTries
  /\ life' = [life EXCEPT ![id] = At("expired", @.tries)]

(* The last try reports, even after it ran out, as long as no other try    *)
(* has started.                                                            *)
Report(id) ==
  /\ life[id].phase \in {"waiting", "running"}
  /\ life[id].tries > 0
  /\ life' = [life EXCEPT ![id] = At("reported", @.tries)]

(* Removal takes any set of submitted tasks at once, in any phase. *)
Remove(S) ==
  /\ \A id \in S : life[id].phase # "new"
  /\ life' = [id \in Ids |-> IF id \in S THEN At("removed", 0) ELSE life[id]]

LifeNext ==
  \/ \E id \in Ids : \/ Submit(id) \/ Start(id) \/ Retry(id)
                     \/ Expire(id) \/ Report(id)
  \/ \E S \in SUBSET Ids : Remove(S)

LifeSpec == LifeInit /\ [][LifeNext]_life

LifeTypeOK == life \in [Ids -> [phase : Phases, tries : 0 .. MaxTries]]
=============================================================================
