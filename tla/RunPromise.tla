----------------------------- MODULE RunPromise -----------------------------
(***************************************************************************)
(* What a workflow run promises, with nothing of who advances it: a run    *)
(* stands at one step at a time, idle, busy with an attempt of it, or      *)
(* asking a person; it leaves the step by its end, by a person's answer or *)
(* by what on_failure says, for the next step or one that a decision it    *)
(* came to names; the attempts of a step are counted over all its visits,  *)
(* and a retried step has MaxTries of them; what has ended has ended.      *)
(*                                                                         *)
(* Processes, what they have loaded, their deaths, attempts, deadlines and *)
(* refused or late results do not appear here: WorkflowRuns is shown to    *)
(* implement this module.                                                  *)
(***************************************************************************)
EXTENDS Integers

CONSTANTS Runs, NSteps, Kind, OnFailure, Branches, MaxTries

Steps  == 1..NSteps
NoStep == 0

VARIABLE course     \* of each run: its phase, the step it is at, and the tries of each step

Init == course = [r \in Runs |-> [phase |-> "absent", at |-> NoStep, tries |-> [s \in Steps |-> 0]]]

-----------------------------------------------------------------------------
(* How one run, C, may go on.                                              *)

Arrived(C, s) ==
  IF s = NoStep THEN [C EXCEPT !.phase = "succeeded", !.at = NoStep]
  ELSE [C EXCEPT !.phase = "idle", !.at = s]

Following(s) == IF s < NSteps THEN s + 1 ELSE NoStep

\* The step that follows, or one named by a decision the run has come to: a
\* process may still answer with the branch of a decision it loaded earlier.
Ways(C) ==
  {Following(C.at)}
  \cup {goto \in Steps : \E s \in Steps : Kind[s] = "decision" /\ C.tries[s] > 0 /\ goto \in Branches[s]}

Tried(C, phase) == [C EXCEPT !.phase = phase, !.tries[C.at] = @ + 1]

Failed(C) ==
  CASE OnFailure[C.at] = "halt"     -> [C EXCEPT !.phase = "failed"]
    [] OnFailure[C.at] = "retry"    -> [C EXCEPT !.phase = IF C.tries[C.at] >= MaxTries THEN "failed" ELSE "idle"]
    [] OnFailure[C.at] = "skip"     -> Arrived(C, Following(C.at))
    [] OnFailure[C.at] = "escalate" -> Tried(C, "asking")

-----------------------------------------------------------------------------
Goes(r, C) == course' = [course EXCEPT ![r] = C]

Start(r) ==
  /\ course[r].phase = "absent"
  /\ Goes(r, [course[r] EXCEPT !.phase = "idle", !.at = 1])

Take(r) ==
  /\ course[r].phase = "idle"
  /\ Goes(r, Tried(course[r], "busy"))

Ask(r) ==
  /\ course[r].phase = "busy" /\ Kind[course[r].at] = "human"
  /\ Goes(r, [course[r] EXCEPT !.phase = "asking"])

GoOn(r) ==
  /\ course[r].phase = "busy"
  /\ \E s \in Ways(course[r]) : Goes(r, Arrived(course[r], s))

\* A sweep may fail the attempts of several runs at once.
Fail ==
  \E F \in SUBSET {r \in Runs : course[r].phase = "busy"} :
    /\ F # {}
    /\ course' = [r \in Runs |-> IF r \in F THEN Failed(course[r]) ELSE course[r]]

Answer(r) ==
  /\ course[r].phase = "asking"
  /\ \/ Goes(r, Arrived(course[r], Following(course[r].at)))
     \/ Goes(r, [course[r] EXCEPT !.phase = "idle"])

Cancel(r) ==
  /\ course[r].phase \in {"idle", "busy", "asking"}
  /\ Goes(r, [course[r] EXCEPT !.phase = "cancelled"])

Next ==
  \/ \E r \in Runs : Start(r) \/ Take(r) \/ Ask(r) \/ GoOn(r) \/ Answer(r) \/ Cancel(r)
  \/ Fail

Spec == Init /\ [][Next]_course
=============================================================================
