---------------------------- MODULE TaskTimeout -----------------------------
(***************************************************************************)
(* The two times that one task's "timeout" gives: how long the server      *)
(* waits for a result (server/models/tasks.py, GetTaskTimeout), and how    *)
(* long the worker lets the command run (workers/macos/worker.py), both    *)
(* by ParseTimeDelta (common/parsetime.py and its copy server/util).       *)
(*                                                                         *)
(* A text is a sequence of numbers, each with what follows it: a unit that *)
(* the regular expression knows ("hr", "m", "s") or another.               *)
(***************************************************************************)
EXTENDS Integers, Sequences, FiniteSetsExt

CONSTANTS
  Numbers,   \* numbers in a text
  Units,     \* what may follow them
  MaxTokens  \* bound: numbers of a text

ASSUME TimeoutAssumption == Numbers \subseteq Nat /\ MaxTokens \in Nat

NoText == <<<<-1, "absent">>>>
Texts == (UNION {[1..n -> Numbers \X Units] : n \in 0..MaxTokens}) \union {NoText}

SecondsOf(unit) ==
  CASE unit = "hr" -> 3600 [] unit = "m" -> 60 [] unit = "s" -> 1 [] OTHER -> 0

VARIABLES
  text,      \* the "timeout" of the task's config
  deadline,  \* seconds until /tasks/timeout, or -1
  allowed    \* seconds until the worker terminates the command, or -1

timeoutVars == <<text, deadline, allowed>>

TimeoutInit == text \in Texts /\ deadline = -1 /\ allowed = -1

(* A group of the regular expression takes the next number if its unit     *)
(* follows, or nothing.                                                    *)
Takes(t, unit) == t # <<>> /\ t[1][2] = unit
After(t, unit) == IF Takes(t, unit) THEN Tail(t) ELSE t
Amount(t, unit) == IF Takes(t, unit) THEN t[1][1] * SecondsOf(unit) ELSE 0

(* Mutant: the groups look for their unit anywhere.                        *)
ParseTimeDeltaAnywhere(t) ==
  MapThenSumSet(LAMBDA i : t[i][1] * SecondsOf(t[i][2]), DOMAIN t)

(* What is left of the text is not looked at: the match need not reach its *)
(* end, and always succeeds.                                               *)
ParseTimeDelta(t) ==
  LET afterHours == After(t, "hr")
      afterMinutes == After(afterHours, "m")
  IN  Amount(t, "hr") + Amount(afterHours, "m") + Amount(afterMinutes, "s")

(* Mutant: no time is added for the packages.                              *)
GetTaskTimeoutBare(t) == IF t \in {NoText, <<>>} THEN 15 * 60 ELSE ParseTimeDelta(t)

(* Three minutes more, for the packages; 15 if there is no text, or none   *)
(* that is not empty.                                                      *)
GetTaskTimeout(t) ==
  IF t \in {NoText, <<>>} THEN 15 * 60 ELSE ParseTimeDelta(t) + 3 * 60

ScheduleTimeout ==
  /\ deadline = -1
  /\ deadline' = GetTaskTimeout(text)
  /\ UNCHANGED <<text, allowed>>

(* ExecuteTask: a text that is there but empty gives no time here.         *)
Execute ==
  /\ deadline # -1 /\ allowed = -1
  /\ allowed' = IF text = NoText THEN 12 * 60 ELSE ParseTimeDelta(text)
  /\ UNCHANGED <<text, deadline>>

TimeoutNext == ScheduleTimeout \/ Execute
TimeoutSpec == TimeoutInit /\ [][TimeoutNext]_timeoutVars

(* The types of the variables.                                             *)
TimeoutTypeOK == text \in Texts /\ deadline \in Nat \union {-1} /\ allowed \in Nat \union {-1}

Rank(unit) == CASE unit = "hr" -> 1 [] unit = "m" -> 2 [] unit = "s" -> 3 [] OTHER -> 4
WellFormed(t, n) ==
  \A i \in 1..n : Rank(t[i][2]) < 4 /\ \A j \in 1..(i - 1) : Rank(t[j][2]) < Rank(t[i][2])

(* The seconds that the first n numbers of a text are. *)
Worth(t) == [i \in DOMAIN t |-> t[i][1] * SecondsOf(t[i][2])]
SumTo(t, n) == MapThenSumSet(LAMBDA i : Worth(t)[i], 1..n)

HasUnit(t, unit) == \E i \in DOMAIN t : t[i][2] = unit

(* The server gives the worker three minutes more than the worker gives    *)
(* the command, whatever the config says, so that an attempt whose command *)
(* runs out of time can still report; and the command has the sum of the   *)
(* hours, minutes and seconds up to where the text stops to be well-formed.*)
(* This does not speak of the worth of "h": see DocumentedTimes.           *)
AttemptHasItsTime ==
  allowed # -1 =>
    /\ deadline >= allowed + 3 * 60
    /\ text # NoText /\ ~HasUnit(text, "h") =>
         \E n \in 0..Len(text) :
           /\ WellFormed(text, n) /\ (n < Len(text) => ~WellFormed(text, n + 1))
           /\ allowed = SumTo(text, n)

(* The examples in the documentation of ParseTimeDelta: "1h" is 3600       *)
(* seconds, "2m" is 120, "2m10s" is 130.  The first is false: the regular  *)
(* expression has "hr", "1h" is no time at all, and the command is         *)
(* terminated at once, in every attempt.                                   *)
DocumentedTimes ==
  allowed # -1 =>
    /\ text = <<<<1, "h">>>> => allowed = 3600
    /\ text = <<<<2, "m">>>> => allowed = 120
    /\ text = <<<<2, "m">>, <<10, "s">>>> => allowed = 130

-----------------------------------------------------------------------------
(* Both times come from the same text, whichever is computed first.        *)
TimeoutInv ==
  /\ text \in Texts
  /\ deadline \in {-1, GetTaskTimeout(text)}
  /\ \/ allowed = -1
     \/ /\ deadline = GetTaskTimeout(text)
        /\ allowed = IF text = NoText THEN 12 * 60 ELSE ParseTimeDelta(text)
=============================================================================
