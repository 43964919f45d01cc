---------------------------- MODULE WorkflowRuns ----------------------------
(***************************************************************************)
(* Runs of a published workflow: wf.run and wf.run_step, the transition    *)
(* functions of db/013 and the processes that drive them (runner.py).      *)
(*                                                                         *)
(* A transition function locks the attempt or the run it changes and       *)
(* refuses what it finds already changed, so each is one action.  What is  *)
(* not atomic is the runner: advance() loads the run and its current step  *)
(* in one transaction, opens an attempt in a second, and executes the step *)
(* it loaded with no transaction open before a third records the result.   *)
(* Any number of processes do this to one run: the one-minute tick, the    *)
(* API, the console and the asynchronous self-invoke.                      *)
(*                                                                         *)
(* The run context and the inputs and outputs of steps are left out: what  *)
(* a decision reads from the context is a choice among its branches.       *)
(***************************************************************************)
EXTENDS Integers, FiniteSets

CONSTANTS
  Runs, Workers, NoRun,
  NSteps,         \* the workflow's steps are 1..NSteps, in the order of ordinal
  Kind,           \* "human", "decision", or "work" for every other step kind
  OnFailure,      \* wf.step.on_failure
  Branches,       \* targets of a decision; Unknown is a key of no step
  MaxTries,       \* p_max_attempts of fail_step
  MaxAttempts,    \* bound on the attempts of one step
  MaxRetried      \* bound on the attempts a person answers with "retry"

Steps    == 1..NSteps
Unknown  == NSteps + 1
NoStep   == 0
Attempts == 1..MaxAttempts

ASSUME WorkflowOK ==
  /\ NSteps \in Nat \ {0} /\ MaxTries \in Nat /\ MaxAttempts \in Nat /\ MaxRetried \in Nat
  /\ NoRun \notin Runs
  /\ Kind \in [Steps -> {"human", "decision", "work"}]
  /\ OnFailure \in [Steps -> {"halt", "retry", "skip", "escalate"}]
  /\ Branches \in [Steps -> SUBSET (Steps \cup {Unknown})]

VARIABLES
  run,            \* wf.run, with the attempts of the run in rows
  worker          \* what each process knows of the run it is advancing

vars == <<run, worker>>

Ended       == {"succeeded", "failed", "cancelled"}
Active      == {"pending", "running", "awaiting_human"}
RunStatuses == {"absent"} \cup Active \cup Ended

\* "late" is the row status 'running' once timeout_seconds are over.
Running     == {"running", "late"}
Open        == Running \cup {"awaiting_human"}
Closed      == {"succeeded", "failed", "cancelled"}
RowStatuses == {"none"} \cup Open \cup Closed

Rows       == Steps \X Attempts
RunRecords == [status : RunStatuses, cursor : Steps \cup {NoStep}, rows : [Rows -> RowStatuses]]

Idle == [at |-> "idle", run |-> NoRun, step |-> NoStep, row |-> <<NoStep, 0>>]
WorkerRecords ==
  {Idle}
  \cup [at : {"loaded"}, run : Runs, step : Steps, row : {<<NoStep, 0>>}]
  \cup [at : {"executing", "parking"}, run : Runs, step : Steps, row : Rows]

TypeOK ==
  /\ run \in [Runs -> RunRecords]
  /\ worker \in [Workers -> WorkerRecords]

-----------------------------------------------------------------------------
(* The transition functions, on one run.                                   *)

OpenRows(R) == {x \in Rows : R.rows[x] \in Open}

\* wf.advance_cursor: to the branch taken, to the next ordinal, or the end.
AdvanceCursor(R, from, goto) ==
  LET next == IF goto # NoStep THEN goto
              ELSE IF from < NSteps THEN from + 1 ELSE NoStep
  IN IF next = NoStep
     THEN [R EXCEPT !.status = "succeeded", !.cursor = NoStep]
     ELSE [R EXCEPT !.status = "running", !.cursor = next]

\* Variant: the open-step guard is gone.
MayBeginWithOpenStep(R) ==
  /\ R.status \in {"pending", "running"}
  /\ R.cursor # NoStep

\* What wf.begin_step checks under the run's lock.
MayBegin(R) ==
  /\ R.status \in {"pending", "running"}
  /\ R.cursor # NoStep
  /\ OpenRows(R) = {}

\* n is coalesce(max(attempt), 0) + 1.
NextAttempt(R, s, n) ==
  /\ \A m \in Attempts : R.rows[<<s, m>>] # "none" => m < n
  /\ n > 1 => R.rows[<<s, n - 1>>] # "none"

BeginStep(R, n) == [R EXCEPT !.status = "running", !.rows[<<R.cursor, n>>] = "running"]

CompleteStep(R, x, goto) ==
  AdvanceCursor([R EXCEPT !.rows[x] = "succeeded"], x[1], goto)

\* Variant: an escalated run is still "running".
FailStepEscalatesQuietly(R, x) ==
  LET F == [R EXCEPT !.rows[x] = "failed"]
  IN CASE OnFailure[x[1]] = "halt"     -> [F EXCEPT !.status = "failed"]
       [] OnFailure[x[1]] = "retry"    -> [F EXCEPT !.status = IF x[2] >= MaxTries THEN "failed" ELSE "running"]
       [] OnFailure[x[1]] = "skip"     -> AdvanceCursor(F, x[1], NoStep)
       [] OnFailure[x[1]] = "escalate" -> [F EXCEPT !.rows[<<x[1], x[2] + 1>>] = "awaiting_human"]

\* Variant: one try too many.
FailStepTriesAgain(R, x) ==
  LET F == [R EXCEPT !.rows[x] = "failed"]
  IN CASE OnFailure[x[1]] = "halt"     -> [F EXCEPT !.status = "failed"]
       [] OnFailure[x[1]] = "retry"    -> [F EXCEPT !.status = IF x[2] > MaxTries THEN "failed" ELSE "running"]
       [] OnFailure[x[1]] = "skip"     -> AdvanceCursor(F, x[1], NoStep)
       [] OnFailure[x[1]] = "escalate" ->
            [F EXCEPT !.status = "awaiting_human", !.rows[<<x[1], x[2] + 1>>] = "awaiting_human"]

\* wf.fail_step: the attempt fails, and on_failure decides about the run.
FailStep(R, x) ==
  LET F == [R EXCEPT !.rows[x] = "failed"]
  IN CASE OnFailure[x[1]] = "halt"     -> [F EXCEPT !.status = "failed"]
       [] OnFailure[x[1]] = "retry"    -> [F EXCEPT !.status = IF x[2] >= MaxTries THEN "failed" ELSE "running"]
       [] OnFailure[x[1]] = "skip"     -> AdvanceCursor(F, x[1], NoStep)
       [] OnFailure[x[1]] = "escalate" ->
            [F EXCEPT !.status = "awaiting_human", !.rows[<<x[1], x[2] + 1>>] = "awaiting_human"]

CancelRun(R) ==
  [R EXCEPT !.status = "cancelled",
            !.rows = [x \in Rows |-> IF R.rows[x] \in Open THEN "cancelled" ELSE R.rows[x]]]

-----------------------------------------------------------------------------
Init ==
  /\ run = [r \in Runs |-> [status |-> "absent", cursor |-> NoStep,
                            rows |-> [x \in Rows |-> "none"]]]
  /\ worker = [w \in Workers |-> Idle]

\* wf.start_run.
StartRun(r) ==
  /\ run[r].status = "absent"
  /\ run' = [run EXCEPT ![r].status = "pending", ![r].cursor = 1]
  /\ UNCHANGED worker

\* runner._load, for a run that is neither ended nor waiting on a person.
Load(w, r) ==
  /\ worker[w] = Idle
  /\ run[r].status \in {"pending", "running"}
  /\ run[r].cursor # NoStep
  /\ worker' = [worker EXCEPT ![w] = [at |-> "loaded", run |-> r, step |-> run[r].cursor,
                                      row |-> <<NoStep, 0>>]]
  /\ UNCHANGED run

\* runner._begin_step.  The attempt is of the run's current step, what the
\* process goes on to do is the step it loaded.
Begin(w, r) ==
  /\ worker[w].at = "loaded" /\ worker[w].run = r
  /\ MayBegin(run[r])
  /\ \E n \in Attempts :
       /\ NextAttempt(run[r], run[r].cursor, n)
       /\ n < MaxAttempts
       /\ run' = [run EXCEPT ![r] = BeginStep(@, n)]
       /\ worker' = [worker EXCEPT ![w] =
            [at   |-> IF Kind[@.step] = "human" THEN "parking" ELSE "executing",
             run  |-> r,
             step |-> @.step,
             row  |-> <<run[r].cursor, n>>]]

\* ... refused: the run has an open attempt, or has moved out of reach.
BeginRefused(w) ==
  /\ worker[w].at = "loaded"
  /\ ~ MayBegin(run[worker[w].run])
  /\ worker' = [worker EXCEPT ![w] = Idle]
  /\ UNCHANGED run

\* A process records on run r, if it still may, what became of its attempt.
Record(w, allowed, result) ==
  /\ run' = IF allowed THEN [run EXCEPT ![worker[w].run] = result] ELSE run
  /\ worker' = [worker EXCEPT ![w] = Idle]

\* Variant: a late answer is taken.
StillRunningOrFailed(w) == run[worker[w].run].rows[worker[w].row] \in Running \cup {"failed"}

StillRunning(w) == run[worker[w].run].rows[worker[w].row] \in Running

\* runner._await_human; wf.await_human raises for a step of another kind.
Park(w) ==
  LET x == worker[w].row R == run[worker[w].run] IN
  /\ worker[w].at = "parking"
  /\ Record(w, StillRunning(w) /\ Kind[x[1]] = "human",
            [R EXCEPT !.status = "awaiting_human", !.rows[x] = "awaiting_human"])

\* The executor returned: runner._complete_step, with the branch a decision
\* took.  advance_cursor raises for a branch of no step.
Finish(w) ==
  LET x == worker[w].row R == run[worker[w].run] s == worker[w].step IN
  /\ worker[w].at = "executing"
  /\ \E goto \in IF Kind[s] = "decision" THEN Branches[s] ELSE {NoStep} :
       Record(w, StillRunning(w) /\ goto # Unknown, CompleteStep(R, x, goto))

\* The executor raised: runner._fail_step.
Fail(w) ==
  /\ worker[w].at = "executing"
  /\ Record(w, StillRunning(w), FailStep(run[worker[w].run], worker[w].row))

\* The process dies; what it has opened stays open.
Crash(w) ==
  /\ worker[w] # Idle
  /\ worker' = [worker EXCEPT ![w] = Idle]
  /\ UNCHANGED run

\* timeout_seconds go by (external clock).
DeadlinePasses(r) ==
  \E x \in Rows :
    /\ run[r].rows[x] = "running"
    /\ run' = [run EXCEPT ![r].rows[x] = "late"]
    /\ UNCHANGED worker

\* Variant: every open attempt times out, a person's too.
LateRowsAndWaits(R) == {x \in Rows : R.rows[x] \in {"late", "awaiting_human"}}

\* Variant: the sweep leaves alone what is not retried.
LateRowsRetried(R) == {x \in Rows : R.rows[x] = "late" /\ OnFailure[x[1]] = "retry"}

\* Only 'running' attempts are eligible.
LateRows(R) == {x \in Rows : R.rows[x] = "late"}

\* wf.timeout_steps, the sweep of the tick: one transaction for all runs.
TimeoutSteps ==
  /\ \E r \in Runs : LateRows(run[r]) # {}
  /\ run' = [r \in Runs |-> IF LateRows(run[r]) = {} THEN run[r]
                            ELSE FailStep(run[r], CHOOSE x \in LateRows(run[r]) : TRUE)]
  /\ UNCHANGED worker

\* wf.respond_human.
Approve(r, x) ==
  /\ Kind[x[1]] = "human"
  /\ run' = [run EXCEPT ![r] = CompleteStep(@, x, NoStep)]

Retry(r, x) ==
  /\ x[2] <= MaxRetried
  /\ run' = [run EXCEPT ![r].rows[x] = "succeeded", ![r].status = "running"]

Skip(r, x) ==
  run' = [run EXCEPT ![r] = AdvanceCursor([@ EXCEPT !.rows[x] = "succeeded"], x[1], NoStep)]

Abort(r) ==
  /\ run[r].status \notin Ended
  /\ run' = [run EXCEPT ![r] = CancelRun(@)]

Respond(r) ==
  /\ \E x \in Rows :
       /\ run[r].rows[x] = "awaiting_human"
       /\ Approve(r, x) \/ Retry(r, x) \/ Skip(r, x) \/ Abort(r)
  /\ UNCHANGED worker

\* wf.cancel_run, by an operator.
Cancel(r) ==
  /\ run[r].status \in Active
  /\ run' = [run EXCEPT ![r] = CancelRun(@)]
  /\ UNCHANGED worker

Next ==
  \/ \E r \in Runs : StartRun(r) \/ DeadlinePasses(r) \/ Respond(r) \/ Cancel(r)
  \/ \E w \in Workers, r \in Runs : Load(w, r) \/ Begin(w, r)
  \/ \E w \in Workers : BeginRefused(w) \/ Park(w) \/ Finish(w) \/ Fail(w) \/ Crash(w)
  \/ TimeoutSteps

Spec == Init /\ [][Next]_vars

\* The tick fires every minute whatever becomes of the processes, oldest run
\* first, so a run that stays idle is loaded and begun sooner or later even
\* though processes may die in between (strong fairness).  Lambda ends a
\* process that does not end itself.  Nobody is obliged to answer or cancel.
Fairness ==
  /\ \A r \in Runs : /\ WF_vars(DeadlinePasses(r))
                     /\ SF_vars(\E w \in Workers : Load(w, r))
                     /\ SF_vars(\E w \in Workers : Begin(w, r))
  /\ \A w \in Workers : WF_vars(BeginRefused(w) \/ Park(w) \/ Finish(w) \/ Fail(w) \/ Crash(w))
  /\ WF_vars(TimeoutSteps)

FairSpec == Spec /\ Fairness

-----------------------------------------------------------------------------
(* Safety.                                                                 *)

\* However many processes advance a run, it has at most one open attempt,
\* which is the newest of the step the cursor is at (013:546-554, 574-581).
OneOpenAttempt ==
  \A r \in Runs : \A x \in OpenRows(run[r]) :
    /\ OpenRows(run[r]) = {x}
    /\ x[1] = run[r].cursor
    /\ \A m \in Attempts : run[r].rows[<<x[1], m>>] # "none" => m <= x[2]

\* What the queues select by: a run awaits a human exactly while an attempt
\* of it is parked on one, and an ended run has nothing open that an operator
\* would still see waiting (013:404-442, 639-765).
StatusAgrees ==
  \A r \in Runs :
    /\ run[r].status = "awaiting_human" <=> \E x \in Rows : run[r].rows[x] = "awaiting_human"
    /\ run[r].status \in Ended => OpenRows(run[r]) = {}

\* Of all the processes executing steps of a run, timed-out ones included,
\* at most one can still record its result (runner.py:18-21).
OneExecutor ==
  \A v, w \in Workers :
    /\ worker[v].at \in {"executing", "parking"} /\ StillRunning(v)
    /\ worker[w].at \in {"executing", "parking"} /\ StillRunning(w)
    /\ worker[v].run = worker[w].run
    => v = w

\* A late answer changes nothing: what is closed stays as it was closed, and
\* an ended run stays ended, whoever still works on it (013:615-618, 652-655).
RecordsFinal ==
  [][\A r \in Runs :
       /\ \A x \in Rows : run[r].rows[x] \in Closed => run'[r].rows[x] = run[r].rows[x]
       /\ run[r].status \in Ended => run'[r] = run[r]]_vars

\* "awaiting_human steps NEVER time out": an attempt parked on a person is
\* closed by a person's answer or a cancellation (013:838-841).
PeopleAreWaitedFor ==
  [][\A r \in Runs : \A x \in Rows :
       run[r].rows[x] = "awaiting_human" =>
         run'[r].rows[x] \in {"awaiting_human", "succeeded", "cancelled"}]_vars

\* What docs/10 section 2 says: "Some steps stop and wait for you".  A human
\* step succeeds only once somebody was asked.  A process that loaded the step
\* before it opens the attempt of the human step and completes it with its own
\* output.
PeopleAreAsked ==
  [][\A r \in Runs : \A x \in Rows :
       Kind[x[1]] = "human" /\ run[r].rows[x] # "succeeded" /\ run'[r].rows[x] = "succeeded"
         => run[r].rows[x] = "awaiting_human"]_vars

(* What a run is to those who started it.                                  *)

\* Attempts are numbered from 1 without a gap, over all visits of a step.
Made(R, s) ==
  CHOOSE n \in 0..MaxAttempts : \A m \in Attempts : R.rows[<<s, m>>] # "none" <=> m <= n

Phase(R) ==
  CASE R.status \in Ended \cup {"absent"} -> R.status
    [] R.status = "awaiting_human"       -> "asking"
    [] R.status \in {"pending", "running"} -> IF OpenRows(R) = {} THEN "idle" ELSE "busy"

Course(R) == [phase |-> Phase(R), at |-> R.cursor, tries |-> [s \in Steps |-> Made(R, s)]]

Promise == INSTANCE RunPromise WITH course <- [r \in Runs |-> Course(run[r])]

\* Whoever advances a run, dies or answers late, it goes its course: step by
\* step, no attempt uncounted, and never beyond the tries a step has
\* (013:404-442, 563-591, 639-695, 754-832).
KeepsCourse == Promise!Spec

(* Liveness.                                                               *)

\* A run without an authored loop does not get stuck: a crash between the two
\* transactions "self-heals", retries run out, and the run ends or stops at a
\* person (runner.py:10-16, 013:843-847).
RunsSettle ==
  \A r \in Runs :
    run[r].status \in {"pending", "running"} ~> run[r].status \in Ended \cup {"awaiting_human"}
=============================================================================
