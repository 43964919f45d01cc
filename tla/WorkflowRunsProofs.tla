------------------------- MODULE WorkflowRunsProofs -------------------------
(***************************************************************************)
(* What holds of the runs for every workflow, every number of processes    *)
(* and every bound.  The transition functions work on one run, so each has *)
(* one lemma: from a sound run it makes a sound run (RunOK), loses no      *)
(* attempt and reopens nothing (Keeps); and one that says where it takes   *)
(* the run on its course (Course).  The rest is who holds what.            *)
(***************************************************************************)
EXTENDS WorkflowRuns, TLAPS

\* A sound run: its one open attempt is the newest of the current step, and
\* the run's status agrees with it.
RunOK(R) ==
  /\ R \in RunRecords
  /\ \A x, y \in OpenRows(R) : x = y
  /\ \A x \in OpenRows(R) :
       x[1] = R.cursor /\ \A m \in Attempts : R.rows[<<x[1], m>>] # "none" => m <= x[2]
  /\ \A x \in Rows : R.rows[x] \in Running => x[2] < MaxAttempts
  /\ R.status = "awaiting_human" <=> \E x \in Rows : R.rows[x] = "awaiting_human"
  /\ OpenRows(R) # {} => R.status \in {"running", "awaiting_human"}

\* Where an attempt that waits for a person may be a step later.
Waited == {"awaiting_human", "succeeded", "cancelled"}

\* What no step takes back.
Keeps(R, S) ==
  /\ \A x \in Rows : R.rows[x] \in Closed => S.rows[x] = R.rows[x]
  /\ \A x \in Rows : R.rows[x] # "none" => S.rows[x] # "none"
  /\ R.status \in Ended => S = R
  /\ \A x \in Rows : R.rows[x] = "awaiting_human" => S.rows[x] \in Waited

\* The facts about records and numbers the lemmas share.
LEMMA Sorts ==
  /\ Steps \subseteq Nat \ {0} /\ NoStep \notin Steps /\ Unknown \notin Steps
  /\ Attempts \subseteq Nat \ {0}
  /\ \A x \in Rows : x[1] \in Steps /\ x[2] \in Attempts /\ x = <<x[1], x[2]>>
  /\ \A s \in Steps, m \in Attempts :
       <<s, m>> \in Rows /\ <<s, m>>[1] = s /\ <<s, m>>[2] = m
BY WorkflowOK DEF Steps, Attempts, NoStep, Unknown, Rows

\* A run with nothing open, moved on by advance_cursor, is sound.
LEMMA AdvanceOK ==
  ASSUME NEW R \in RunRecords, OpenRows(R) = {}, NEW s \in Steps, NEW goto \in Steps \cup {NoStep}
  PROVE  /\ RunOK(AdvanceCursor(R, s, goto))
         /\ AdvanceCursor(R, s, goto).rows = R.rows
<1> DEFINE next == IF goto # NoStep THEN goto ELSE IF s < NSteps THEN s + 1 ELSE NoStep
           S == AdvanceCursor(R, s, goto)
<1>1. next \in Steps \cup {NoStep}
  BY WorkflowOK DEF Steps, NoStep
<1>2. /\ S \in RunRecords
      /\ S.rows = R.rows
      /\ S.status \in {"running", "succeeded"}
  BY <1>1 DEF AdvanceCursor, RunRecords, RunStatuses, Active, Ended
<1>3. OpenRows(S) = {}
  BY <1>2 DEF OpenRows
<1>4. \A x \in Rows : S.rows[x] \notin Open
  BY <1>3 DEF OpenRows
<1> QED
  BY <1>2, <1>3, <1>4 DEF RunOK, Open

\* Closing the open attempt of a sound run leaves nothing open.
LEMMA CloseRow ==
  ASSUME NEW R, RunOK(R), NEW x \in Rows, R.rows[x] \in Open, NEW st \in Closed
  PROVE  LET S == [R EXCEPT !.rows[x] = st] IN
         /\ S \in RunRecords
         /\ OpenRows(S) = {}
         /\ S.status = R.status /\ S.cursor = R.cursor
         /\ S.rows = [R.rows EXCEPT ![x] = st]
         /\ \A y \in Rows : S.rows[y] = IF y = x THEN st ELSE R.rows[y]
<1> DEFINE S == [R EXCEPT !.rows[x] = st]
<1>1. R \in RunRecords /\ R.rows \in [Rows -> RowStatuses]
  BY DEF RunOK, RunRecords
<1>2. /\ S \in RunRecords
      /\ S.status = R.status /\ S.cursor = R.cursor
      /\ S.rows = [R.rows EXCEPT ![x] = st]
  BY <1>1 DEF RunRecords, RowStatuses
<1>3. \A y \in Rows : S.rows[y] = IF y = x THEN st ELSE R.rows[y]
  BY <1>1, <1>2
<1>4. OpenRows(S) = {}
  BY <1>3 DEF OpenRows, RunOK, Open, Running, Closed
<1> QED
  BY <1>2, <1>3, <1>4

\* begin_step.
LEMMA BeginMoves ==
  ASSUME NEW R, RunOK(R), MayBegin(R), NEW n \in Attempts, n < MaxAttempts,
         NextAttempt(R, R.cursor, n)
  PROVE  /\ RunOK(BeginStep(R, n)) /\ Keeps(R, BeginStep(R, n))
         /\ <<R.cursor, n>> \in Rows /\ R.rows[<<R.cursor, n>>] = "none"
         /\ BeginStep(R, n).rows[<<R.cursor, n>>] # "none"
<1> DEFINE x == <<R.cursor, n>>  S == BeginStep(R, n)
<1>1. R \in RunRecords /\ R.rows \in [Rows -> RowStatuses] /\ R.cursor \in Steps
  BY DEF RunOK, RunRecords, MayBegin
<1>2. x \in Rows /\ x[1] = R.cursor /\ x[2] = n
  BY <1>1, Sorts
<1>3. R.rows[x] = "none"
  BY Sorts DEF NextAttempt
<1>4. /\ S \in RunRecords
      /\ S.status = "running" /\ S.cursor = R.cursor
      /\ S.rows = [R.rows EXCEPT ![x] = "running"]
  BY <1>1, <1>2 DEF BeginStep, RunRecords, RunStatuses, Active, RowStatuses, Open, Running
<1>5. \A y \in Rows : S.rows[y] = IF y = x THEN "running" ELSE R.rows[y]
  BY <1>1, <1>4
<1>6. \A y \in Rows : R.rows[y] \notin Open
  BY DEF MayBegin, OpenRows
<1>7. OpenRows(S) = {x}
  BY <1>2, <1>5, <1>6 DEF OpenRows, Open, Running
<1>8. \A m \in Attempts : S.rows[<<R.cursor, m>>] # "none" => m <= n
  BY <1>1, <1>2, <1>5, Sorts DEF NextAttempt
<1>9. \A y \in Rows : S.rows[y] # "awaiting_human"
  BY <1>5, <1>6 DEF Open
<1>10. RunOK(S)
  BY <1>2, <1>4, <1>5, <1>6, <1>7, <1>8, <1>9 DEF RunOK, Open
<1>11. Keeps(R, S)
  BY <1>3, <1>5 DEF Keeps, Waited, MayBegin, Ended, Closed
<1> QED
  BY <1>2, <1>3, <1>5, <1>10, <1>11

\* A sound run with an open attempt has not ended.
LEMMA OpenNotEnded ==
  ASSUME NEW R, RunOK(R), NEW x \in Rows, R.rows[x] \in Open
  PROVE  R.status \in {"running", "awaiting_human"} /\ R.status \notin Ended
BY DEF RunOK, OpenRows, Ended

\* complete_step, by a process or by a person's approval; and skip.
LEMMA CompleteMoves ==
  ASSUME NEW R, RunOK(R), NEW x \in Rows, R.rows[x] \in Open, NEW goto \in Steps \cup {NoStep},
         NEW st \in Closed, R.rows[x] = "awaiting_human" => st = "succeeded"
  PROVE  LET S == AdvanceCursor([R EXCEPT !.rows[x] = st], x[1], goto)
         IN RunOK(S) /\ Keeps(R, S)
<1> DEFINE C == [R EXCEPT !.rows[x] = st]  S == AdvanceCursor(C, x[1], goto)
<1>1. /\ C \in RunRecords /\ OpenRows(C) = {}
      /\ \A y \in Rows : C.rows[y] = IF y = x THEN st ELSE R.rows[y]
  BY CloseRow
<1>2. x[1] \in Steps
  BY Sorts
<1>3. RunOK(S) /\ S.rows = C.rows
  BY <1>1, <1>2, AdvanceOK
<1>4. \A y \in Rows : S.rows[y] = IF y = x THEN st ELSE R.rows[y]
  BY <1>1, <1>3
<1>5. st # "none" /\ R.rows[x] \notin Closed
  BY DEF Closed, Open, Running
<1>6. Keeps(R, S)
  BY <1>4, <1>5, OpenNotEnded DEF Keeps, Waited
<1> QED
  BY <1>3, <1>6

\* fail_step.
LEMMA FailMoves ==
  ASSUME NEW R, RunOK(R), NEW x \in Rows, R.rows[x] \in Running
  PROVE  RunOK(FailStep(R, x)) /\ Keeps(R, FailStep(R, x))
<1> DEFINE F == [R EXCEPT !.rows[x] = "failed"]  S == FailStep(R, x)
<1>1. /\ R.rows[x] \in Open /\ R.rows[x] \notin Closed /\ "failed" \in Closed
      /\ R.rows[x] # "awaiting_human"
  BY DEF Open, Running, Closed
<1>2. /\ F \in RunRecords /\ OpenRows(F) = {}
      /\ F.status = R.status /\ F.cursor = R.cursor
      /\ F.rows = [R.rows EXCEPT ![x] = "failed"]
      /\ \A y \in Rows : F.rows[y] = IF y = x THEN "failed" ELSE R.rows[y]
  BY <1>1, CloseRow
<1>3. x[1] \in Steps /\ x[2] \in Attempts /\ x[2] < MaxAttempts
  BY Sorts DEF RunOK
<1>4. R.status \notin Ended
  BY <1>1, OpenNotEnded
<1>5. ASSUME NEW st \in {"failed", "running"}, S = [F EXCEPT !.status = st]
      PROVE  RunOK(S) /\ Keeps(R, S)
  <2>1. S \in RunRecords /\ S.status = st /\ S.rows = F.rows
    BY <1>2, <1>5 DEF RunRecords, RunStatuses, Active, Ended
  <2>2. \A y \in Rows : S.rows[y] \notin Open
    BY <1>2, <2>1 DEF OpenRows
  <2>3. RunOK(S)
    BY <2>1, <2>2 DEF RunOK, OpenRows, Open
  <2>4. Keeps(R, S)
    BY <1>1, <1>2, <1>4, <2>1 DEF Keeps, Waited
  <2> QED
    BY <2>3, <2>4
<1>6. CASE OnFailure[x[1]] = "halt"
  BY <1>5, <1>6 DEF FailStep
<1>7. CASE OnFailure[x[1]] = "retry"
  <2>1. S = [F EXCEPT !.status = IF x[2] >= MaxTries THEN "failed" ELSE "running"]
    BY <1>7 DEF FailStep
  <2> QED
    BY <1>5, <2>1
<1>8. CASE OnFailure[x[1]] = "skip"
  <2>1. S = AdvanceCursor(F, x[1], NoStep)
    BY <1>8 DEF FailStep
  <2> QED
    BY <1>1, <2>1, CompleteMoves
<1>9. CASE OnFailure[x[1]] = "escalate"
  <2> DEFINE y == <<x[1], x[2] + 1>>
  <2>1. x[2] + 1 \in Attempts
    BY <1>3, WorkflowOK DEF Attempts
  <2>2. y \in Rows /\ y[1] = x[1] /\ y[2] = x[2] + 1 /\ y # x
    BY <1>3, <2>1, Sorts
  <2>3. R.cursor = x[1] /\ \A m \in Attempts : R.rows[<<x[1], m>>] # "none" => m <= x[2]
    BY <1>1 DEF RunOK, OpenRows
  <2>4. R.rows[y] = "none"
    BY <2>1, <2>3, <1>3, Sorts
  <2>5. S = [F EXCEPT !.status = "awaiting_human", !.rows[y] = "awaiting_human"]
    BY <1>9 DEF FailStep
  <2>6. F.rows \in [Rows -> RowStatuses]
    BY <1>2 DEF RunRecords
  <2>7. /\ S \in RunRecords /\ S.status = "awaiting_human" /\ S.cursor = R.cursor
        /\ S.rows = [F.rows EXCEPT ![y] = "awaiting_human"]
    <3> HIDE DEF F, S, y
    <3>1. "awaiting_human" \in RunStatuses /\ "awaiting_human" \in RowStatuses
      BY DEF RunStatuses, Active, RowStatuses, Open
    <3>2. F \in RunRecords /\ F.cursor = R.cursor
      BY <1>2
    <3>3. [F.rows EXCEPT ![y] = "awaiting_human"] \in [Rows -> RowStatuses]
      BY <2>6, <3>1
    <3> QED
      BY <2>5, <3>1, <3>2, <3>3 DEF RunRecords
  <2>8. \A z \in Rows : S.rows[z] = IF z = y THEN "awaiting_human" ELSE F.rows[z]
    BY <2>6, <2>7
  <2>9. \A z \in Rows : F.rows[z] \notin Open
    BY <1>2 DEF OpenRows
  <2>10. OpenRows(S) = {y}
    BY <2>2, <2>8, <2>9 DEF OpenRows, Open
  <2>11. \A m \in Attempts : S.rows[<<x[1], m>>] # "none" => m <= x[2] + 1
    <3> SUFFICES ASSUME NEW m \in Attempts, S.rows[<<x[1], m>>] # "none", m # x[2] + 1
                 PROVE  m <= x[2]
      BY <1>3, <2>1, Sorts
    <3>1. <<x[1], m>> \in Rows /\ <<x[1], m>> # y
      BY <1>3, Sorts
    <3>2. F.rows[<<x[1], m>>] # "none"
      BY <2>8, <3>1
    <3>3. CASE <<x[1], m>> = x
      BY <3>3, <1>3, Sorts
    <3>4. CASE <<x[1], m>> # x
      BY <3>4, <3>1, <3>2, <1>2, <2>3
    <3> QED
      BY <3>3, <3>4
  <2>12. RunOK(S)
    BY <2>2, <2>3, <2>7, <2>8, <2>9, <2>10, <2>11 DEF RunOK, Open, Running
  <2>13. Keeps(R, S)
    BY <1>1, <1>2, <1>4, <2>4, <2>8 DEF Keeps, Waited, Closed
  <2> QED
    BY <2>12, <2>13
<1> QED
  BY <1>3, <1>6, <1>7, <1>8, <1>9, WorkflowOK

\* await_human.
LEMMA ParkMoves ==
  ASSUME NEW R, RunOK(R), NEW x \in Rows, R.rows[x] \in Running
  PROVE  LET S == [R EXCEPT !.status = "awaiting_human", !.rows[x] = "awaiting_human"]
         IN RunOK(S) /\ Keeps(R, S)
<1> DEFINE S == [R EXCEPT !.status = "awaiting_human", !.rows[x] = "awaiting_human"]
<1>1. R \in RunRecords /\ R.rows \in [Rows -> RowStatuses]
  BY DEF RunOK, RunRecords
<1>2. /\ S \in RunRecords /\ S.status = "awaiting_human" /\ S.cursor = R.cursor
      /\ S.rows = [R.rows EXCEPT ![x] = "awaiting_human"]
  BY <1>1 DEF RunRecords, RunStatuses, Active, RowStatuses, Open
<1>3. \A y \in Rows : S.rows[y] = IF y = x THEN "awaiting_human" ELSE R.rows[y]
  BY <1>1, <1>2
<1>4. R.rows[x] \in Open /\ R.rows[x] \notin Closed /\ R.rows[x] # "none"
  BY DEF Open, Running, Closed
<1>5. OpenRows(S) = {x} /\ OpenRows(R) = {x}
  BY <1>3, <1>4 DEF OpenRows, RunOK, Open
<1>6. \A m \in Attempts : S.rows[<<x[1], m>>] # "none" => m <= x[2]
  BY <1>3, <1>4, <1>5, Sorts DEF RunOK
<1>7. RunOK(S)
  BY <1>2, <1>3, <1>5, <1>6 DEF RunOK, Running
<1>8. Keeps(R, S)
  BY <1>3, <1>4, OpenNotEnded DEF Keeps, Waited
<1> QED
  BY <1>7, <1>8

\* A running attempt grows late.
LEMMA LateMoves ==
  ASSUME NEW R, RunOK(R), NEW x \in Rows, R.rows[x] = "running"
  PROVE  LET S == [R EXCEPT !.rows[x] = "late"] IN RunOK(S) /\ Keeps(R, S)
<1> DEFINE S == [R EXCEPT !.rows[x] = "late"]
<1>1. R \in RunRecords /\ R.rows \in [Rows -> RowStatuses]
  BY DEF RunOK, RunRecords
<1>2. /\ S \in RunRecords /\ S.status = R.status /\ S.cursor = R.cursor
      /\ S.rows = [R.rows EXCEPT ![x] = "late"]
  BY <1>1 DEF RunRecords, RowStatuses, Open, Running
<1>3. \A y \in Rows : S.rows[y] = IF y = x THEN "late" ELSE R.rows[y]
  BY <1>1, <1>2
<1>4. R.rows[x] \in Open /\ R.rows[x] \notin Closed
  BY DEF Open, Running, Closed
<1>5. OpenRows(S) = OpenRows(R)
  BY <1>3, <1>4 DEF OpenRows, Open, Running
<1>6. \A y \in Rows :
        /\ (S.rows[y] # "none") <=> (R.rows[y] # "none")
        /\ (S.rows[y] = "awaiting_human") <=> (R.rows[y] = "awaiting_human")
        /\ (S.rows[y] \in Running) <=> (R.rows[y] \in Running)
  <2> HIDE DEF S
  <2> QED
    BY <1>3 DEF Running
<1>7. RunOK(S)
  <2>1. \A y \in OpenRows(S) : \A m \in Attempts : S.rows[<<y[1], m>>] # "none" => m <= y[2]
    BY <1>5, <1>6, Sorts DEF RunOK, OpenRows
  <2> QED
    BY <1>2, <1>5, <1>6, <2>1 DEF RunOK
<1>8. Keeps(R, S)
  BY <1>3, <1>4, OpenNotEnded DEF Keeps, Waited
<1> QED
  BY <1>7, <1>8

\* A person's "retry".
LEMMA RetryMoves ==
  ASSUME NEW R, RunOK(R), NEW x \in Rows, R.rows[x] = "awaiting_human"
  PROVE  LET S == [R EXCEPT !.rows[x] = "succeeded", !.status = "running"]
         IN RunOK(S) /\ Keeps(R, S)
<1> DEFINE C == [R EXCEPT !.rows[x] = "succeeded"]
           S == [R EXCEPT !.rows[x] = "succeeded", !.status = "running"]
<1>1. R.rows[x] \in Open /\ R.rows[x] \notin Closed /\ "succeeded" \in Closed
  BY DEF Open, Running, Closed
<1>2. /\ C \in RunRecords /\ OpenRows(C) = {}
      /\ \A y \in Rows : C.rows[y] = IF y = x THEN "succeeded" ELSE R.rows[y]
  BY <1>1, CloseRow
<1>3. S \in RunRecords /\ S.status = "running" /\ S.rows = C.rows
  BY <1>2 DEF RunRecords, RunStatuses, Active, RunOK
<1>4. \A y \in Rows : S.rows[y] \notin Open
  BY <1>2, <1>3 DEF OpenRows
<1>5. RunOK(S)
  BY <1>3, <1>4 DEF RunOK, OpenRows, Open
<1>6. Keeps(R, S)
  BY <1>1, <1>2, <1>3, OpenNotEnded DEF Keeps, Waited
<1> QED
  BY <1>5, <1>6

\* cancel_run.
LEMMA CancelMoves ==
  ASSUME NEW R, RunOK(R), R.status \notin Ended
  PROVE  RunOK(CancelRun(R)) /\ Keeps(R, CancelRun(R))
<1> DEFINE S == CancelRun(R)
<1>1. R \in RunRecords /\ R.rows \in [Rows -> RowStatuses]
  BY DEF RunOK, RunRecords
<1>2. /\ S.status = "cancelled" /\ S.cursor = R.cursor
      /\ S.rows = [x \in Rows |-> IF R.rows[x] \in Open THEN "cancelled" ELSE R.rows[x]]
  BY <1>1 DEF CancelRun, RunRecords
<1>3. \A y \in Rows : S.rows[y] = IF R.rows[y] \in Open THEN "cancelled" ELSE R.rows[y]
  BY <1>2
<1>4. S.rows \in [Rows -> RowStatuses]
  BY <1>1, <1>2 DEF RowStatuses, Closed
<1>5. S \in RunRecords
  BY <1>1, <1>2, <1>4 DEF CancelRun, RunRecords, RunStatuses, Ended
<1>6. \A y \in Rows : S.rows[y] \notin Open
  BY <1>3 DEF Open, Running
<1>7. RunOK(S)
  BY <1>2, <1>5, <1>6 DEF RunOK, OpenRows, Open
<1>8. Keeps(R, S)
  BY <1>3 DEF Keeps, Waited, Open, Running, Closed
<1> QED
  BY <1>7, <1>8

\* start_run.
LEMMA StartMoves ==
  ASSUME NEW R, RunOK(R), R.status = "absent"
  PROVE  LET S == [R EXCEPT !.status = "pending", !.cursor = 1] IN RunOK(S) /\ Keeps(R, S)
<1> DEFINE S == [R EXCEPT !.status = "pending", !.cursor = 1]
<1>1. R \in RunRecords /\ 1 \in Steps
  BY WorkflowOK DEF RunOK, Steps
<1>2. S \in RunRecords /\ S.status = "pending" /\ S.rows = R.rows
  BY <1>1 DEF RunRecords, RunStatuses, Active
<1>3. \A x \in Rows : R.rows[x] \notin Open
  BY DEF RunOK, OpenRows
<1>4. RunOK(S)
  BY <1>2, <1>3 DEF RunOK, OpenRows, Open
<1>5. Keeps(R, S)
  BY <1>2 DEF Keeps, Waited, Ended
<1> QED
  BY <1>4, <1>5

-----------------------------------------------------------------------------
(* The invariant.  A process holds an attempt that exists, and no other    *)
(* process holds the same one.                                             *)

Holds(w) == worker[w].at \in {"executing", "parking"}

Held ==
  /\ \A w \in Workers : Holds(w) => run[worker[w].run].rows[worker[w].row] # "none"
  /\ \A v, w \in Workers :
       Holds(v) /\ Holds(w) /\ worker[v].run = worker[w].run /\ worker[v].row = worker[w].row
         => v = w

IInv ==
  /\ TypeOK
  /\ \A r \in Runs : RunOK(run[r])
  /\ Held

\* What a process knows is of the right sort.
LEMMA WorkerSorts ==
  ASSUME TypeOK, NEW w \in Workers
  PROVE  /\ worker[w].at \in {"idle", "loaded", "executing", "parking"}
         /\ worker[w].at # "idle" => worker[w].run \in Runs /\ worker[w].step \in Steps
         /\ Holds(w) => worker[w].row \in Rows
         /\ worker[w].at = "idle" <=> worker[w] = Idle
BY DEF TypeOK, WorkerRecords, Idle, Holds

\* A process about to record a result either may not, or finds its attempt
\* open in a sound run; Record then does what the function it calls does.
LEMMA RecordStep ==
  ASSUME IInv, NEW w \in Workers, Holds(w), NEW allowed \in BOOLEAN, NEW result,
         Record(w, allowed, result),
         allowed => RunOK(result) /\ Keeps(run[worker[w].run], result)
  PROVE  /\ \A r \in Runs : RunOK(run'[r]) /\ Keeps(run[r], run'[r])
         /\ worker' = [worker EXCEPT ![w] = Idle]
         /\ run' \in [Runs -> RunRecords]
<1>1. worker[w].run \in Runs
  BY WorkerSorts DEF IInv, Holds
<1>2. \A r \in Runs : Keeps(run[r], run[r])
  BY DEF Keeps, Waited
<1>3. run' = run \/ (allowed /\ run' = [run EXCEPT ![worker[w].run] = result])
  BY DEF Record
<1>4. \A r \in Runs : run'[r] = run[r] \/ (allowed /\ r = worker[w].run /\ run'[r] = result)
  BY <1>1, <1>3 DEF IInv, TypeOK
<1> QED
  BY <1>1, <1>2, <1>3, <1>4 DEF Record, IInv, TypeOK, RunOK

\* Every step moves every run soundly, and what the processes know changes
\* only as they load, begin, and let go.
Opens(w, at, r, x) ==
  /\ worker[w].at = "loaded" /\ worker[w].run = r
  /\ run[r].rows[x] = "none" /\ run'[r].rows[x] # "none"
  /\ worker' = [worker EXCEPT ![w] = [at |-> at, run |-> r, step |-> worker[w].step, row |-> x]]

WorkerMoves ==
  \/ worker' = worker
  \/ \E w \in Workers : worker' = [worker EXCEPT ![w] = Idle]
  \/ \E w \in Workers, r \in Runs, s \in Steps :
       worker' = [worker EXCEPT ![w] = [at |-> "loaded", run |-> r, step |-> s,
                                        row |-> <<NoStep, 0>>]]
  \/ \E w \in Workers, at \in {"executing", "parking"}, r \in Runs, x \in Rows :
       Opens(w, at, r, x)

LEMMA StepMoves ==
  ASSUME IInv, [Next]_vars
  PROVE  /\ run' \in [Runs -> RunRecords]
         /\ \A r \in Runs : RunOK(run'[r]) /\ Keeps(run[r], run'[r])
         /\ WorkerMoves
<1> DEFINE Goal == /\ run' \in [Runs -> RunRecords]
                   /\ \A r \in Runs : RunOK(run'[r]) /\ Keeps(run[r], run'[r])
                   /\ WorkerMoves
<1> USE DEF IInv
<1>1. \A r \in Runs : RunOK(run[r]) /\ Keeps(run[r], run[r])
  BY DEF Keeps, Waited
<1>2. run \in [Runs -> RunRecords]
  BY DEF TypeOK
\* A step that changes one run, soundly, and no process.
<1>3. ASSUME NEW r \in Runs, NEW S, RunOK(S), Keeps(run[r], S),
             run' = [run EXCEPT ![r] = S], worker' = worker
      PROVE  Goal
  <2>1. \A q \in Runs : run'[q] = IF q = r THEN S ELSE run[q]
    BY <1>2, <1>3
  <2> QED
    BY <1>1, <1>2, <1>3, <2>1 DEF RunOK, WorkerMoves
<1>4. ASSUME NEW r \in Runs, StartRun(r) PROVE Goal
  <2> DEFINE S == [run[r] EXCEPT !.status = "pending", !.cursor = 1]
  <2>1. RunOK(S) /\ Keeps(run[r], S)
    BY <1>1, <1>4, StartMoves DEF StartRun
  <2>2. run' = [run EXCEPT ![r] = S] /\ worker' = worker
    BY <1>2, <1>4 DEF StartRun
  <2> QED
    BY <1>3, <2>1, <2>2
<1>5. ASSUME NEW r \in Runs, DeadlinePasses(r) PROVE Goal
  <2>1. PICK x \in Rows : /\ run[r].rows[x] = "running"
                          /\ run' = [run EXCEPT ![r].rows[x] = "late"]
                          /\ worker' = worker
    BY <1>5 DEF DeadlinePasses
  <2> DEFINE S == [run[r] EXCEPT !.rows[x] = "late"]
  <2>2. RunOK(S) /\ Keeps(run[r], S)
    BY <1>1, <2>1, LateMoves
  <2>3. run' = [run EXCEPT ![r] = S]
    BY <1>2, <2>1
  <2> QED
    BY <1>3, <2>1, <2>2, <2>3
<1>6. ASSUME NEW r \in Runs, Cancel(r) PROVE Goal
  <2>1. RunOK(CancelRun(run[r])) /\ Keeps(run[r], CancelRun(run[r]))
    BY <1>1, <1>6, CancelMoves DEF Cancel, Active, Ended
  <2>2. run' = [run EXCEPT ![r] = CancelRun(run[r])] /\ worker' = worker
    BY <1>6 DEF Cancel
  <2> QED
    BY <1>3, <2>1, <2>2
<1>7. ASSUME NEW r \in Runs, Respond(r) PROVE Goal
  <2>1. PICK x \in Rows : /\ run[r].rows[x] = "awaiting_human"
                          /\ Approve(r, x) \/ Retry(r, x) \/ Skip(r, x) \/ Abort(r)
    BY <1>7 DEF Respond
  <2>2. worker' = worker
    BY <1>7 DEF Respond
  <2>3. run[r].rows[x] \in Open /\ "succeeded" \in Closed /\ NoStep \in Steps \cup {NoStep}
    BY <2>1 DEF Open, Closed
  <2> DEFINE A == AdvanceCursor([run[r] EXCEPT !.rows[x] = "succeeded"], x[1], NoStep)
             T == [run[r] EXCEPT !.rows[x] = "succeeded", !.status = "running"]
  <2>4. RunOK(A) /\ Keeps(run[r], A)
    BY <1>1, <2>3, CompleteMoves
  <2>5. CASE Approve(r, x)
    <3>1. run' = [run EXCEPT ![r] = A]
      BY <2>5 DEF Approve, CompleteStep
    <3> QED
      BY <1>3, <2>2, <2>4, <3>1
  <2>6. CASE Skip(r, x)
    <3>1. run' = [run EXCEPT ![r] = A]
      BY <2>6 DEF Skip
    <3> QED
      BY <1>3, <2>2, <2>4, <3>1
  <2>7. CASE Retry(r, x)
    <3>1. RunOK(T) /\ Keeps(run[r], T)
      BY <1>1, <2>1, RetryMoves
    <3>2. run' = [run EXCEPT ![r] = T]
      BY <1>2, <2>7 DEF Retry
    <3> QED
      BY <1>3, <2>2, <3>1, <3>2
  <2>8. CASE Abort(r)
    <3>1. RunOK(CancelRun(run[r])) /\ Keeps(run[r], CancelRun(run[r]))
      BY <1>1, <2>8, CancelMoves DEF Abort
    <3>2. run' = [run EXCEPT ![r] = CancelRun(run[r])]
      BY <2>8 DEF Abort
    <3> QED
      BY <1>3, <2>2, <3>1, <3>2
  <2> QED
    BY <2>1, <2>5, <2>6, <2>7, <2>8
<1>8. ASSUME NEW w \in Workers, NEW r \in Runs, Load(w, r) PROVE Goal
  <2>1. run[r].cursor \in Steps /\ run' = run
    BY <1>2, <1>8 DEF Load, RunRecords
  <2>2. WorkerMoves
    BY <1>8, <2>1 DEF Load, WorkerMoves
  <2> QED
    BY <1>1, <1>2, <2>1, <2>2
<1>9. ASSUME NEW w \in Workers, NEW r \in Runs, Begin(w, r) PROVE Goal
  <2> DEFINE R == run[r]
             at == IF Kind[worker[w].step] = "human" THEN "parking" ELSE "executing"
  <2>1. PICK n \in Attempts :
          /\ NextAttempt(R, R.cursor, n) /\ n < MaxAttempts
          /\ run' = [run EXCEPT ![r] = BeginStep(@, n)]
          /\ worker' = [worker EXCEPT ![w] = [at |-> at, run |-> r, step |-> worker[w].step,
                                             row |-> <<R.cursor, n>>]]
    BY <1>9 DEF Begin
  <2>2. /\ RunOK(BeginStep(R, n)) /\ Keeps(R, BeginStep(R, n))
        /\ <<R.cursor, n>> \in Rows /\ R.rows[<<R.cursor, n>>] = "none"
        /\ BeginStep(R, n).rows[<<R.cursor, n>>] # "none"
    BY <1>1, <1>9, <2>1, BeginMoves DEF Begin
  <2>3. \A q \in Runs : run'[q] = IF q = r THEN BeginStep(R, n) ELSE run[q]
    BY <1>2, <2>1
  <2>4. WorkerMoves
    <3>1. worker[w].at = "loaded" /\ worker[w].run = r /\ at \in {"executing", "parking"}
      BY <1>9 DEF Begin
    <3>2. run[r].rows[<<R.cursor, n>>] = "none" /\ run'[r].rows[<<R.cursor, n>>] # "none"
      BY <2>2, <2>3
    <3> DEFINE x == <<R.cursor, n>>
    <3>3. x \in Rows /\ worker' = [worker EXCEPT ![w] = [at |-> at, run |-> r,
                                                     step |-> worker[w].step, row |-> x]]
      BY <2>1, <2>2
    <3> HIDE DEF at, x
    <3>4. Opens(w, at, r, x)
      BY <3>1, <3>2, <3>3 DEF Opens, x
    <3> QED
      BY <3>1, <3>3, <3>4 DEF WorkerMoves
  <2> QED
    BY <1>1, <1>2, <2>1, <2>2, <2>3, <2>4 DEF RunOK
<1>10. ASSUME NEW w \in Workers, BeginRefused(w) \/ Crash(w) PROVE Goal
  <2>1. run' = run /\ worker' = [worker EXCEPT ![w] = Idle]
    BY <1>10 DEF BeginRefused, Crash
  <2> QED
    BY <1>1, <1>2, <2>1 DEF WorkerMoves
<1>11. ASSUME NEW w \in Workers, Park(w) \/ Finish(w) \/ Fail(w) PROVE Goal
  <2> DEFINE x == worker[w].row  R == run[worker[w].run]
  <2>1. Holds(w)
    BY <1>11 DEF Park, Finish, Fail, Holds
  <2>2. worker[w].run \in Runs /\ x \in Rows /\ worker[w].step \in Steps
    BY <2>1, WorkerSorts DEF Holds
  <2>3. RunOK(R)
    BY <1>1, <2>2
  <2>4. StillRunning(w) => R.rows[x] \in Running /\ R.rows[x] \in Open
    BY DEF StillRunning, Open
  <2>5. ASSUME NEW allowed \in BOOLEAN, NEW result, Record(w, allowed, result),
               allowed => RunOK(result) /\ Keeps(R, result)
        PROVE  Goal
    BY <2>1, <2>5, RecordStep DEF WorkerMoves
  <2>6. CASE Park(w)
    <3> DEFINE S == [R EXCEPT !.status = "awaiting_human", !.rows[x] = "awaiting_human"]
    <3>1. Record(w, StillRunning(w) /\ Kind[x[1]] = "human", S)
      BY <2>6 DEF Park
    <3>2. StillRunning(w) => RunOK(S) /\ Keeps(R, S)
      BY <2>2, <2>3, <2>4, ParkMoves
    <3> HIDE DEF S
    <3> QED
      BY <2>5, <3>1, <3>2
  <2>7. CASE Finish(w)
    <3>1. PICK goto \in IF Kind[worker[w].step] = "decision" THEN Branches[worker[w].step]
                        ELSE {NoStep} :
            Record(w, StillRunning(w) /\ goto # Unknown, CompleteStep(R, x, goto))
      BY <2>7 DEF Finish
    <3>2. goto # Unknown => goto \in Steps \cup {NoStep}
      BY <2>2, WorkflowOK
    <3>3. StillRunning(w) /\ goto # Unknown =>
            RunOK(CompleteStep(R, x, goto)) /\ Keeps(R, CompleteStep(R, x, goto))
      BY <2>2, <2>3, <2>4, <3>2, CompleteMoves DEF CompleteStep, Closed
    <3> QED
      BY <2>5, <3>1, <3>3
  <2>8. CASE Fail(w)
    <3>1. Record(w, StillRunning(w), FailStep(R, x))
      BY <2>8 DEF Fail
    <3>2. StillRunning(w) => RunOK(FailStep(R, x)) /\ Keeps(R, FailStep(R, x))
      BY <2>2, <2>3, <2>4, FailMoves
    <3>3. StillRunning(w) \in BOOLEAN
      BY DEF StillRunning
    <3> QED
      BY <2>5, <3>1, <3>2, <3>3
  <2> QED
    BY <1>11, <2>6, <2>7, <2>8
<1>12. CASE TimeoutSteps
  <2>1. \A r \in Runs : LateRows(run[r]) # {} =>
          LET S == FailStep(run[r], CHOOSE x \in LateRows(run[r]) : TRUE)
          IN RunOK(S) /\ Keeps(run[r], S)
    <3> SUFFICES ASSUME NEW r \in Runs, LateRows(run[r]) # {}
                 PROVE  LET S == FailStep(run[r], CHOOSE x \in LateRows(run[r]) : TRUE)
                        IN RunOK(S) /\ Keeps(run[r], S)
      OBVIOUS
    <3> DEFINE x == CHOOSE y \in LateRows(run[r]) : TRUE
    <3>1. x \in LateRows(run[r])
      OBVIOUS
    <3>2. x \in Rows /\ run[r].rows[x] \in Running
      BY <3>1 DEF LateRows, Running
    <3> HIDE DEF x
    <3>3. RunOK(FailStep(run[r], x)) /\ Keeps(run[r], FailStep(run[r], x))
      BY <1>1, <3>2, FailMoves
    <3> QED
      BY <3>3 DEF x
  <2>2. \A r \in Runs : RunOK(run'[r]) /\ Keeps(run[r], run'[r])
    BY <1>1, <1>12, <2>1 DEF TimeoutSteps
  <2>3. run' \in [Runs -> RunRecords] /\ worker' = worker
    BY <1>12, <2>2 DEF TimeoutSteps, RunOK
  <2> QED
    BY <2>2, <2>3 DEF WorkerMoves
<1>13. CASE UNCHANGED vars
  BY <1>1, <1>2, <1>13 DEF vars, WorkerMoves
<1> QED
  BY <1>4, <1>5, <1>6, <1>7, <1>8, <1>9, <1>10, <1>11, <1>12, <1>13 DEF Next

\* The initial state is sound.
LEMMA InitOK == Init => IInv
<1> SUFFICES ASSUME Init PROVE IInv
  OBVIOUS
<1>1. \A r \in Runs : /\ run[r] = [status |-> "absent", cursor |-> NoStep,
                                   rows |-> [x \in Rows |-> "none"]]
                      /\ run[r] \in RunRecords
  BY DEF Init, RunRecords, RunStatuses, RowStatuses
<1>2. \A r \in Runs : RunOK(run[r])
  BY <1>1 DEF RunOK, OpenRows, Open, Running
<1>3. \A w \in Workers : worker[w] = Idle /\ worker[w].at = "idle"
  BY DEF Init, Idle
<1>4. TypeOK
  BY <1>1 DEF Init, TypeOK, WorkerRecords
<1> QED
  BY <1>2, <1>3, <1>4 DEF IInv, Held, Holds

\* The invariant is inductive.
LEMMA Inductive == IInv /\ [Next]_vars => IInv'
<1> SUFFICES ASSUME IInv, [Next]_vars PROVE IInv'
  OBVIOUS
<1>1. /\ run' \in [Runs -> RunRecords]
      /\ \A r \in Runs : RunOK(run'[r]) /\ Keeps(run[r], run'[r])
      /\ WorkerMoves
  BY StepMoves
<1>2. \A w \in Workers : Holds(w) =>
        worker[w].run \in Runs /\ worker[w].row \in Rows
        /\ run'[worker[w].run].rows[worker[w].row] # "none"
  BY <1>1, WorkerSorts DEF IInv, Held, Keeps, Holds
<1>3. CASE worker' = worker
  BY <1>1, <1>2, <1>3 DEF IInv, TypeOK, Held, Holds
<1>4. ASSUME NEW w \in Workers, worker' = [worker EXCEPT ![w] = Idle] PROVE IInv'
  <2>1. \A v \in Workers : worker'[v] = IF v = w THEN Idle ELSE worker[v]
    BY <1>4 DEF IInv, TypeOK
  <2>2. worker' \in [Workers -> WorkerRecords]
    BY <1>4 DEF IInv, TypeOK, WorkerRecords
  <2>3. \A v \in Workers : worker'[v].at \in {"executing", "parking"} => v # w /\ Holds(v)
    BY <2>1 DEF Idle, Holds
  <2>4. Held'
    BY <1>2, <2>1, <2>3 DEF IInv, Held, Holds
  <2> QED
    BY <1>1, <2>2, <2>4 DEF IInv, TypeOK
<1>5. ASSUME NEW w \in Workers, NEW r \in Runs, NEW s \in Steps,
             worker' = [worker EXCEPT ![w] = [at |-> "loaded", run |-> r, step |-> s,
                                              row |-> <<NoStep, 0>>]]
      PROVE  IInv'
  <2> DEFINE loaded == [at |-> "loaded", run |-> r, step |-> s, row |-> <<NoStep, 0>>]
  <2>1. \A v \in Workers : worker'[v] = IF v = w THEN loaded ELSE worker[v]
    BY <1>5 DEF IInv, TypeOK
  <2>2. loaded \in WorkerRecords
    BY DEF WorkerRecords
  <2>3. worker' \in [Workers -> WorkerRecords]
    BY <1>5, <2>2 DEF IInv, TypeOK
  <2>4. \A v \in Workers : worker'[v].at \in {"executing", "parking"} => v # w /\ Holds(v)
    BY <2>1 DEF Holds
  <2>5. Held'
    BY <1>2, <2>1, <2>4 DEF IInv, Held, Holds
  <2> QED
    BY <1>1, <2>3, <2>5 DEF IInv, TypeOK
<1>6. ASSUME NEW w \in Workers, NEW at \in {"executing", "parking"}, NEW r \in Runs, NEW x \in Rows,
             Opens(w, at, r, x)
      PROVE  IInv'
  <2> DEFINE begun == [at |-> at, run |-> r, step |-> worker[w].step, row |-> x]
  <2>0. /\ worker[w].at = "loaded" /\ worker[w].run = r
        /\ run[r].rows[x] = "none" /\ run'[r].rows[x] # "none"
        /\ worker' = [worker EXCEPT ![w] = begun]
    BY <1>6 DEF Opens
  <2>1. worker[w].step \in Steps
    BY <2>0, WorkerSorts DEF IInv
  <2>3. \A v \in Workers : worker'[v] = IF v = w THEN begun ELSE worker[v]
    BY <2>0 DEF IInv, TypeOK
  <2>4. begun \in WorkerRecords
    BY <2>1 DEF WorkerRecords
  <2>5. worker' \in [Workers -> WorkerRecords]
    <3>1. worker' = [v \in Workers |-> worker'[v]]
      BY <2>0 DEF IInv, TypeOK
    <3>2. \A v \in Workers : worker'[v] \in WorkerRecords
      BY <2>3, <2>4 DEF IInv, TypeOK
    <3> QED
      BY <3>1, <3>2
  <2>6. \A v \in Workers \ {w} :
          worker'[v].at \in {"executing", "parking"} =>
            Holds(v) /\ ~ (worker[v].run = r /\ worker[v].row = x)
    BY <2>0, <2>3 DEF IInv, Held, Holds
  <2>7. Held'
    <3>1. worker'[w].run = r /\ worker'[w].row = x
      BY <2>3
    <3>2. \A v \in Workers \ {w} : worker'[v] = worker[v]
      BY <2>3
    <3>3. ASSUME NEW v \in Workers, Holds(v)'
          PROVE  run'[worker'[v].run].rows[worker'[v].row] # "none"
      <4>1. CASE v = w
        BY <2>0, <3>1, <4>1
      <4>2. CASE v # w
        BY <1>2, <2>6, <3>2, <3>3, <4>2 DEF Holds
      <4> QED
        BY <4>1, <4>2
    <3>4. ASSUME NEW u \in Workers, NEW v \in Workers, Holds(u)', Holds(v)', u # v,
                 worker'[u].run = worker'[v].run, worker'[u].row = worker'[v].row
          PROVE  FALSE
      <4>1. CASE u = w \/ v = w
        BY <2>6, <3>1, <3>2, <3>4, <4>1 DEF Holds
      <4>2. CASE u # w /\ v # w
        BY <2>6, <3>2, <3>4, <4>2 DEF IInv, Held, Holds
      <4> QED
        BY <4>1, <4>2
    <3> QED
      BY <3>3, <3>4 DEF Held
  <2> QED
    BY <1>1, <2>5, <2>7 DEF IInv, TypeOK
<1>7. CASE \E w \in Workers, at \in {"executing", "parking"}, r \in Runs, x \in Rows :
             Opens(w, at, r, x)
  BY <1>6, <1>7
<1>8. CASE \E w \in Workers, r \in Runs, s \in Steps :
             worker' = [worker EXCEPT ![w] = [at |-> "loaded", run |-> r, step |-> s,
                                              row |-> <<NoStep, 0>>]]
  BY <1>5, <1>8
<1> QED
  BY <1>1, <1>3, <1>4, <1>7, <1>8 DEF WorkerMoves

\* The invariant holds in every reachable state.
LEMMA Sound == Spec => []IInv
BY InitOK, Inductive, PTL DEF Spec

\* Every run and every process is always of the right type.
THEOREM RunsTypeCorrect == Spec => []TypeOK
BY Sound, PTL DEF IInv

\* However many processes advance a run, at most one attempt of it is open,
\* the newest of its current step.
THEOREM OneOpenAttemptAlways == Spec => []OneOpenAttempt
<1>1. IInv => OneOpenAttempt
  BY DEF IInv, RunOK, OneOpenAttempt, OpenRows
<1> QED
  BY <1>1, Sound, PTL

\* The status the queues select by always agrees with the attempts.
THEOREM StatusAlwaysAgrees == Spec => []StatusAgrees
<1>1. IInv => StatusAgrees
  BY DEF IInv, RunOK, StatusAgrees, Ended
<1> QED
  BY <1>1, Sound, PTL

\* Whatever has timed out, at most one process can still record a result.
THEOREM OneExecutorAlways == Spec => []OneExecutor
<1>1. ASSUME IInv, NEW v \in Workers, NEW w \in Workers, Holds(v), Holds(w),
             StillRunning(v), StillRunning(w), worker[v].run = worker[w].run
      PROVE  v = w
  <2> DEFINE R == run[worker[v].run]
  <2>1. worker[v].run \in Runs /\ worker[v].row \in Rows /\ worker[w].row \in Rows
    BY <1>1, WorkerSorts DEF IInv, Holds
  <2>2. worker[v].row \in OpenRows(R) /\ worker[w].row \in OpenRows(R)
    BY <1>1, <2>1 DEF StillRunning, OpenRows, Open
  <2>3. worker[v].row = worker[w].row
    BY <1>1, <2>1, <2>2 DEF IInv, RunOK
  <2> QED
    BY <1>1, <2>3 DEF IInv, Held
<1>2. IInv => OneExecutor
  BY <1>1 DEF OneExecutor, Holds
<1> QED
  BY <1>2, Sound, PTL

\* What is closed stays closed, whoever answers late.
THEOREM RecordsAreFinal == Spec => RecordsFinal
<1>1. IInv /\ [Next]_vars =>
        [\A r \in Runs :
           /\ \A x \in Rows : run[r].rows[x] \in Closed => run'[r].rows[x] = run[r].rows[x]
           /\ run[r].status \in Ended => run'[r] = run[r]]_vars
  BY StepMoves DEF Keeps
<1> QED
  BY <1>1, Sound, PTL DEF Spec, RecordsFinal

\* An attempt parked on a person is never failed by a deadline, a sweep or a late process.
THEOREM PeopleAreAlwaysWaitedFor == Spec => PeopleAreWaitedFor
<1>1. IInv /\ [Next]_vars =>
        [\A r \in Runs : \A x \in Rows :
           run[r].rows[x] = "awaiting_human" =>
             run'[r].rows[x] \in {"awaiting_human", "succeeded", "cancelled"}]_vars
  BY StepMoves DEF Keeps, Waited
<1> QED
  BY <1>1, Sound, PTL DEF Spec, PeopleAreWaitedFor

-----------------------------------------------------------------------------
(* A run goes the course that RunPromise describes.  Again one lemma for   *)
(* each transition function; what they need of a run is that the attempts  *)
(* of every step are numbered without a gap.                               *)

Tally(R, s, n) == n \in 0..MaxAttempts /\ \A m \in Attempts : (R.rows[<<s, m>>] # "none") <=> (m <= n)

Counted(R) ==
  /\ \A s \in Steps : \E n \in 0..MaxAttempts : Tally(R, s, n)
  /\ R.status = "absent" => R.cursor = NoStep

\* A run leaves only a step it has tried.
Left(R, S) ==
  S.cursor = R.cursor \/ R.cursor = NoStep \/ \E m \in Attempts : R.rows[<<R.cursor, m>>] # "none"

\* A step has one tally, the number of attempts made.
LEMMA MadeIs ==
  ASSUME NEW R, NEW s \in Steps, NEW n \in 0..MaxAttempts, Tally(R, s, n)
  PROVE  Made(R, s) = n
<1> DEFINE k == Made(R, s)
<1>1. k \in 0..MaxAttempts /\ \A m \in Attempts : (R.rows[<<s, m>>] # "none") <=> (m <= k)
  BY DEF Tally, Made
<1> HIDE DEF k
<1>2. \A m \in Attempts : (m <= k) <=> (m <= n)
  BY <1>1 DEF Tally
<1>3. k = n
  <2>1. CASE k < n
    BY <2>1, <1>1, <1>2, WorkflowOK DEF Attempts
  <2>2. CASE n < k
    BY <2>2, <1>1, <1>2, WorkflowOK DEF Attempts
  <2> QED
    BY <2>1, <2>2, <1>1, WorkflowOK
<1> QED
  BY <1>3 DEF k

\* The attempts made of a step are a number.
LEMMA MadeSorts ==
  ASSUME NEW R, Counted(R), NEW s \in Steps
  PROVE  Tally(R, s, Made(R, s)) /\ Made(R, s) \in 0..MaxAttempts /\ Made(R, s) \in Nat
<1>1. PICK n \in 0..MaxAttempts : Tally(R, s, n)
  BY DEF Counted
<1> QED
  BY <1>1, MadeIs, WorkflowOK

\* What adds no attempt changes no tally.
LEMMA SameTally ==
  ASSUME NEW R, NEW S, Counted(R), S.status # "absent",
         \A x \in Rows : (S.rows[x] # "none") <=> (R.rows[x] # "none")
  PROVE  Counted(S) /\ \A s \in Steps : Made(S, s) = Made(R, s)
<1>1. ASSUME NEW s \in Steps
      PROVE  Tally(S, s, Made(R, s)) /\ Made(R, s) \in 0..MaxAttempts /\ Made(S, s) = Made(R, s)
  <2>1. Tally(R, s, Made(R, s)) /\ Made(R, s) \in 0..MaxAttempts
    BY MadeSorts
  <2>2. \A m \in Attempts : <<s, m>> \in Rows
    BY Sorts
  <2>3. Tally(S, s, Made(R, s))
    BY <2>1, <2>2 DEF Tally
  <2> QED
    BY <2>1, <2>3, MadeIs
<1> QED
  BY <1>1 DEF Counted

\* One more attempt, and its number is the new tally.
LEMMA OneMore ==
  ASSUME NEW R, NEW S, Counted(R), S.status # "absent", NEW c \in Steps,
         Made(R, c) + 1 \in Attempts,
         \A x \in Rows : (S.rows[x] # "none") <=> (x = <<c, Made(R, c) + 1>> \/ R.rows[x] # "none")
  PROVE  /\ Counted(S)
         /\ \A s \in Steps : Made(S, s) = IF s = c THEN Made(R, c) + 1 ELSE Made(R, s)
<1> DEFINE new(s) == IF s = c THEN Made(R, c) + 1 ELSE Made(R, s)
<1>1. ASSUME NEW s \in Steps
      PROVE  Tally(S, s, new(s)) /\ new(s) \in 0..MaxAttempts /\ Made(S, s) = new(s)
  <2>1. Tally(R, s, Made(R, s)) /\ Made(R, s) \in 0..MaxAttempts /\ Made(R, s) \in Nat
    BY MadeSorts
  <2>2. \A m \in Attempts : <<s, m>> \in Rows /\ m \in Nat
    BY Sorts
  <2>3. new(s) \in 0..MaxAttempts
    BY <2>1, WorkflowOK DEF Attempts
  <2>4. ASSUME NEW m \in Attempts PROVE (S.rows[<<s, m>>] # "none") <=> (m <= new(s))
    <3>1. (S.rows[<<s, m>>] # "none") <=> (<<s, m>> = <<c, Made(R, c) + 1>> \/ R.rows[<<s, m>>] # "none")
      BY <2>2
    <3>2. (R.rows[<<s, m>>] # "none") <=> (m <= Made(R, s))
      BY <2>1 DEF Tally
    <3>3. CASE s = c
      BY <2>1, <2>2, <3>1, <3>2, <3>3
    <3>4. CASE s # c
      BY <3>1, <3>2, <3>4
    <3> QED
      BY <3>3, <3>4
  <2>5. Tally(S, s, new(s))
    BY <2>3, <2>4 DEF Tally
  <2> HIDE DEF new
  <2> QED
    BY <2>3, <2>5, MadeIs
<1> HIDE DEF new
<1>2. Counted(S)
  BY <1>1 DEF Counted
<1> QED
  BY <1>1, <1>2 DEF new

\* The newest attempt of a step bears the number of its tries.
LEMMA NewestIs ==
  ASSUME NEW R, Counted(R), NEW x \in Rows, R.rows[x] # "none",
         \A m \in Attempts : R.rows[<<x[1], m>>] # "none" => m <= x[2]
  PROVE  Made(R, x[1]) = x[2]
<1>1. x[1] \in Steps /\ x[2] \in Attempts /\ x = <<x[1], x[2]>> /\ x[2] \in Nat
  BY Sorts
<1>2. Tally(R, x[1], Made(R, x[1])) /\ Made(R, x[1]) \in 0..MaxAttempts /\ Made(R, x[1]) \in Nat
  BY <1>1, MadeSorts
<1>3. x[2] <= Made(R, x[1])
  BY <1>1, <1>2 DEF Tally
<1>4. Made(R, x[1]) \in Attempts
  BY <1>1, <1>2, <1>3, WorkflowOK DEF Attempts
<1>5. R.rows[<<x[1], Made(R, x[1])>>] # "none"
  BY <1>2, <1>4 DEF Tally
<1> QED
  BY <1>1, <1>2, <1>3, <1>4, <1>5

\* The number begin_step gives an attempt is one more than there are.
LEMMA NextIs ==
  ASSUME NEW R, Counted(R), NEW s \in Steps, NEW n \in Attempts, NextAttempt(R, s, n)
  PROVE  n = Made(R, s) + 1
<1> DEFINE k == Made(R, s)
<1>1. /\ k \in 0..MaxAttempts /\ k \in Nat
      /\ \A m \in Attempts : (R.rows[<<s, m>>] # "none") <=> (m <= k)
  BY MadeSorts DEF Tally
<1> HIDE DEF k
<1>2. n \in Nat \ {0} /\ n <= MaxAttempts
  BY WorkflowOK DEF Attempts
<1>3. n > k
  <2> SUFFICES ASSUME n <= k PROVE FALSE
    BY <1>1, <1>2
  <2>1. R.rows[<<s, n>>] # "none"
    BY <1>1
  <2> QED
    BY <1>2, <2>1 DEF NextAttempt
<1>4. n > 1 => n - 1 <= k
  <2> SUFFICES ASSUME n > 1 PROVE n - 1 <= k
    OBVIOUS
  <2>1. n - 1 \in Attempts
    BY <1>2, WorkflowOK DEF Attempts
  <2> QED
    BY <1>1, <2>1 DEF NextAttempt
<1>5. n = k + 1
  BY <1>1, <1>2, <1>3, <1>4
<1> QED
  BY <1>5 DEF k

\* What a run is doing, by its status and its open attempt.
LEMMA Phases ==
  ASSUME NEW R, RunOK(R)
  PROVE  /\ OpenRows(R) = {} /\ R.status \in {"pending", "running"} => Phase(R) = "idle"
         /\ \A x \in Rows : R.rows[x] \in Running => Phase(R) = "busy"
         /\ R.status = "awaiting_human" => Phase(R) = "asking"
         /\ R.status \in Ended \cup {"absent"} => Phase(R) = R.status
<1>1. ASSUME NEW x \in Rows, R.rows[x] \in Running PROVE Phase(R) = "busy"
  <2>1. x \in OpenRows(R) /\ R.rows[x] # "awaiting_human"
    BY <1>1 DEF OpenRows, Open, Running
  <2>2. R.status # "awaiting_human"
    <3> SUFFICES ASSUME NEW y \in Rows, R.rows[y] = "awaiting_human" PROVE FALSE
      BY DEF RunOK
    <3>1. y \in OpenRows(R)
      BY DEF OpenRows, Open
    <3> QED
      BY <2>1, <3>1 DEF RunOK
  <2>3. R.status = "running" /\ OpenRows(R) # {}
    BY <2>1, <2>2 DEF RunOK
  <2> QED
    BY <2>3 DEF Phase, Ended
<1>2. OpenRows(R) = {} /\ R.status \in {"pending", "running"} => Phase(R) = "idle"
  BY DEF Phase, Ended
<1>3. R.status = "awaiting_human" => Phase(R) = "asking"
  BY DEF Phase, Ended
<1>4. R.status \in Ended \cup {"absent"} => Phase(R) = R.status
  BY DEF Phase, Ended
<1> QED
  BY <1>1, <1>2, <1>3, <1>4

\* A course with the same tries.
LEMMA SameTries ==
  ASSUME NEW R, NEW S, \A s \in Steps : Made(S, s) = Made(R, s)
  PROVE  /\ Course(S) = [Course(R) EXCEPT !.phase = Phase(S), !.at = S.cursor]
         /\ S.cursor = R.cursor => Course(S) = [Course(R) EXCEPT !.phase = Phase(S)]
         /\ S.cursor = R.cursor /\ Phase(S) = Phase(R) => Course(S) = Course(R)
<1> DEFINE made == [s \in Steps |-> Made(R, s)]
<1>1. [s \in Steps |-> Made(S, s)] = made
  OBVIOUS
<1>2. /\ Course(R) = [phase |-> Phase(R), at |-> R.cursor, tries |-> made]
      /\ Course(S) = [phase |-> Phase(S), at |-> S.cursor, tries |-> made]
  BY <1>1 DEF Course
<1> HIDE DEF made
<1> DEFINE C == Course(R)  D == Course(S)  p == Phase(R)  q == Phase(S)  a == R.cursor  b == S.cursor
<1>3. C = [phase |-> p, at |-> a, tries |-> made] /\ D = [phase |-> q, at |-> b, tries |-> made]
  BY <1>2
<1> HIDE DEF C, D, p, q, a, b
<1>4. ASSUME NEW E, E = [C EXCEPT !.phase = q]
      PROVE  E = [phase |-> q, at |-> a, tries |-> made]
  BY <1>3, <1>4
<1>5. ASSUME NEW E, E = [C EXCEPT !.phase = q, !.at = b]
      PROVE  E = [phase |-> q, at |-> b, tries |-> made]
  BY <1>3, <1>5
<1>6. D = [C EXCEPT !.phase = q, !.at = b] /\ (b = a => D = [C EXCEPT !.phase = q])
      /\ (b = a /\ q = p => D = C)
  BY <1>3, <1>4, <1>5
<1> QED
  BY <1>6 DEF C, D, p, q, a, b

\* A course with one more try of the step the run is at.
LEMMA OneMoreTry ==
  ASSUME NEW R, NEW S, R.cursor \in Steps, S.cursor = R.cursor,
         \A s \in Steps : Made(S, s) = IF s = R.cursor THEN Made(R, R.cursor) + 1 ELSE Made(R, s)
  PROVE  Course(S) = Promise!Tried(Course(R), Phase(S))
<1> DEFINE made == [s \in Steps |-> Made(R, s)]
<1>1. [s \in Steps |-> Made(S, s)] = [made EXCEPT ![R.cursor] = @ + 1]
  OBVIOUS
<1>2. /\ Course(R) = [phase |-> Phase(R), at |-> R.cursor, tries |-> made]
      /\ Course(S) = [phase |-> Phase(S), at |-> R.cursor, tries |-> [made EXCEPT ![R.cursor] = @ + 1]]
  BY <1>1 DEF Course
<1> HIDE DEF made
<1> DEFINE C == Course(R)
<1>3. /\ C = [phase |-> Phase(R), at |-> R.cursor, tries |-> made]
      /\ C.at = R.cursor /\ C.tries = made
  BY <1>2
<1>4. Promise!Tried(C, Phase(S)) = [C EXCEPT !.phase = Phase(S), !.tries = [made EXCEPT ![R.cursor] = @ + 1]]
  <2> HIDE DEF C
  <2> QED
    BY <1>3 DEF Promise!Tried
<1>5. [C EXCEPT !.phase = Phase(S), !.tries = [made EXCEPT ![R.cursor] = @ + 1]]
        = [phase |-> Phase(S), at |-> R.cursor, tries |-> [made EXCEPT ![R.cursor] = @ + 1]]
  <2> DEFINE p == Phase(R)  q == Phase(S)  a == R.cursor  u == [made EXCEPT ![R.cursor] = @ + 1]
  <2>1. C = [phase |-> p, at |-> a, tries |-> made]
    BY <1>3
  <2> HIDE DEF C, p, q, a, u
  <2>2. ASSUME NEW E, E = [C EXCEPT !.phase = q, !.tries = u]
        PROVE  E = [phase |-> q, at |-> a, tries |-> u]
    BY <2>1, <2>2
  <2> QED
    BY <2>2 DEF p, q, a, u
<1> QED
  BY <1>2, <1>4, <1>5

\* advance_cursor takes a run where the promise says it arrives.
LEMMA Arrives ==
  ASSUME NEW R, Counted(R), NEW C \in RunRecords, OpenRows(C) = {},
         \A x \in Rows : (C.rows[x] # "none") <=> (R.rows[x] # "none"),
         NEW s \in Steps, NEW goto \in Steps \cup {NoStep}
  PROVE  LET S == AdvanceCursor(C, s, goto) IN
         /\ Counted(S)
         /\ Course(S) = Promise!Arrived(Course(R), IF goto # NoStep THEN goto ELSE Promise!Following(s))
<1> DEFINE next == IF goto # NoStep THEN goto ELSE Promise!Following(s)
           S == AdvanceCursor(C, s, goto)
<1>1. RunOK(S) /\ S.rows = C.rows
  BY AdvanceOK
<1>2. OpenRows(S) = {}
  BY <1>1 DEF OpenRows
<1>3. S = IF next = NoStep THEN [C EXCEPT !.status = "succeeded", !.cursor = NoStep]
          ELSE [C EXCEPT !.status = "running", !.cursor = next]
  BY DEF AdvanceCursor, Promise!Following, Promise!NoStep, NoStep
<1>4. S.status = (IF next = NoStep THEN "succeeded" ELSE "running") /\ S.cursor = next
  BY <1>3 DEF RunRecords
<1>5. Counted(S) /\ \A t \in Steps : Made(S, t) = Made(R, t)
  BY <1>1, <1>4, SameTally
<1>6. Phase(S) = IF next = NoStep THEN "succeeded" ELSE "idle"
  BY <1>1, <1>2, <1>4, Phases DEF Ended
<1>7. Course(S) = [Course(R) EXCEPT !.phase = Phase(S), !.at = S.cursor]
  BY <1>5, SameTries
<1> HIDE DEF S, next
<1>8. Course(S) = Promise!Arrived(Course(R), next)
  BY <1>4, <1>6, <1>7 DEF Promise!Arrived, Promise!NoStep, NoStep
<1> QED
  BY <1>5, <1>8 DEF S, next

\* The open attempt of a sound, counted run.
LEMMA AtWork ==
  ASSUME NEW R, RunOK(R), Counted(R), NEW x \in Rows, R.rows[x] \in Open
  PROVE  /\ R.cursor = x[1] /\ x[1] \in Steps /\ x[2] \in Attempts /\ x = <<x[1], x[2]>>
         /\ Made(R, x[1]) = x[2]
         /\ R.rows[<<R.cursor, x[2]>>] # "none"
<1>1. R.cursor = x[1] /\ \A m \in Attempts : R.rows[<<x[1], m>>] # "none" => m <= x[2]
  BY DEF RunOK, OpenRows
<1>2. R.rows[x] # "none"
  BY DEF Open, Running
<1> QED
  BY <1>1, <1>2, Sorts, NewestIs

\* complete_step, and a person's approval and skip.
LEMMA CompleteCourse ==
  ASSUME NEW R, RunOK(R), Counted(R), NEW x \in Rows, R.rows[x] \in Open,
         NEW goto \in Steps \cup {NoStep}, NEW st \in Closed
  PROVE  LET S == AdvanceCursor([R EXCEPT !.rows[x] = st], x[1], goto) IN
         /\ Counted(S) /\ Left(R, S)
         /\ Course(S) = Promise!Arrived(Course(R),
                          IF goto # NoStep THEN goto ELSE Promise!Following(R.cursor))
<1> DEFINE C == [R EXCEPT !.rows[x] = st]
<1>1. /\ C \in RunRecords /\ OpenRows(C) = {}
      /\ \A y \in Rows : C.rows[y] = IF y = x THEN st ELSE R.rows[y]
  BY CloseRow
<1>2. \A y \in Rows : (C.rows[y] # "none") <=> (R.rows[y] # "none")
  BY <1>1 DEF Open, Running, Closed
<1>3. x[1] = R.cursor /\ x[1] \in Steps /\ x[2] \in Attempts /\ R.rows[<<R.cursor, x[2]>>] # "none"
  BY AtWork
<1> HIDE DEF C
<1>4. /\ Counted(AdvanceCursor(C, x[1], goto))
      /\ Course(AdvanceCursor(C, x[1], goto))
           = Promise!Arrived(Course(R), IF goto # NoStep THEN goto ELSE Promise!Following(x[1]))
  BY <1>1, <1>2, <1>3, Arrives
<1>5. Left(R, AdvanceCursor(C, x[1], goto))
  BY <1>3 DEF Left
<1> QED
  BY <1>3, <1>4, <1>5 DEF C

\* fail_step.
LEMMA FailCourse ==
  ASSUME NEW R, RunOK(R), Counted(R), NEW x \in Rows, R.rows[x] \in Running
  PROVE  LET S == FailStep(R, x) IN
         /\ Counted(S) /\ Left(R, S)
         /\ Course(R).phase = "busy" /\ Course(S) = Promise!Failed(Course(R))
<1> DEFINE F == [R EXCEPT !.rows[x] = "failed"]  S == FailStep(R, x)
<1>1. R.rows[x] \in Open /\ "failed" \in Closed
  BY DEF Open, Closed
<1>2. /\ F \in RunRecords /\ OpenRows(F) = {}
      /\ F.status = R.status /\ F.cursor = R.cursor
      /\ F.rows = [R.rows EXCEPT ![x] = "failed"]
      /\ \A y \in Rows : F.rows[y] = IF y = x THEN "failed" ELSE R.rows[y]
  BY <1>1, CloseRow
<1>3. /\ x[1] \in Steps /\ x[2] \in Attempts /\ x = <<x[1], x[2]>> /\ R.cursor = x[1]
      /\ Made(R, x[1]) = x[2]
  BY <1>1, AtWork
<1>4. /\ Course(R).phase = "busy" /\ Course(R).at = x[1]
      /\ Course(R).tries[x[1]] = x[2]
  BY <1>3, Phases DEF Course
<1>5. RunOK(S)
  BY FailMoves
<1>6. \A y \in Rows : (F.rows[y] # "none") <=> (R.rows[y] # "none")
  BY <1>1, <1>2 DEF Open, Running
<1>7. ASSUME NEW st \in {"failed", "running"}, S = [F EXCEPT !.status = st]
      PROVE  /\ Counted(S) /\ Left(R, S)
             /\ Course(S) = [Course(R) EXCEPT !.phase = IF st = "failed" THEN "failed" ELSE "idle"]
  <2>1. S.status = st /\ S.rows = F.rows /\ S.cursor = R.cursor
    BY <1>2, <1>7 DEF RunRecords
  <2>2. OpenRows(S) = {}
    BY <1>2, <2>1 DEF OpenRows
  <2>3. Counted(S) /\ \A t \in Steps : Made(S, t) = Made(R, t)
    <3>1. S.status # "absent" /\ \A y \in Rows : (S.rows[y] # "none") <=> (R.rows[y] # "none")
      BY <1>6, <2>1
    <3> HIDE DEF S, F
    <3> QED
      BY <3>1, SameTally
  <2>4. Phase(S) = IF st = "failed" THEN "failed" ELSE "idle"
    BY <1>5, <2>1, <2>2, Phases DEF Ended
  <2>5. Course(S) = [Course(R) EXCEPT !.phase = Phase(S)]
    BY <2>1, <2>3, SameTries
  <2> QED
    BY <2>1, <2>3, <2>4, <2>5 DEF Left
<1>8. CASE OnFailure[x[1]] = "halt"
  <2>1. S = [F EXCEPT !.status = "failed"]
    BY <1>8 DEF FailStep
  <2>2. Promise!Failed(Course(R)) = [Course(R) EXCEPT !.phase = "failed"]
    BY <1>4, <1>8 DEF Promise!Failed
  <2> HIDE DEF S
  <2> QED
    BY <1>4, <1>7, <2>1, <2>2 DEF S
<1>9. CASE OnFailure[x[1]] = "retry"
  <2> DEFINE st == IF x[2] >= MaxTries THEN "failed" ELSE "running"
  <2>1. S = [F EXCEPT !.status = st]
    BY <1>9 DEF FailStep
  <2>2. Promise!Failed(Course(R)) = [Course(R) EXCEPT !.phase = IF x[2] >= MaxTries THEN "failed" ELSE "idle"]
    BY <1>4, <1>9 DEF Promise!Failed
  <2>3. st \in {"failed", "running"} /\ (st = "failed") = (x[2] >= MaxTries)
    OBVIOUS
  <2> HIDE DEF S, st
  <2> QED
    BY <1>4, <1>7, <2>1, <2>2, <2>3 DEF S
<1>10. CASE OnFailure[x[1]] = "skip"
  <2>1. S = AdvanceCursor(F, x[1], NoStep)
    BY <1>10 DEF FailStep
  <2>2. Promise!Failed(Course(R)) = Promise!Arrived(Course(R), Promise!Following(x[1]))
    BY <1>4, <1>10 DEF Promise!Failed
  <2>3. /\ Counted(S) /\ Left(R, S)
        /\ Course(S) = Promise!Arrived(Course(R), Promise!Following(x[1]))
    BY <1>1, <1>3, <2>1, CompleteCourse
  <2> QED
    BY <1>4, <2>2, <2>3
<1>11. CASE OnFailure[x[1]] = "escalate"
  <2> DEFINE y == <<x[1], x[2] + 1>>
  <2>1. S = [F EXCEPT !.status = "awaiting_human", !.rows[y] = "awaiting_human"]
    BY <1>11 DEF FailStep
  <2>2. x[2] + 1 \in Attempts
    <3>1. x[2] < MaxAttempts
      BY DEF RunOK
    <3> QED
      BY <1>3, <3>1, WorkflowOK DEF Attempts
  <2>3. y \in Rows
    BY <1>3, <2>2, Sorts
  <2>4. F.rows \in [Rows -> RowStatuses]
    BY <1>2 DEF RunRecords
  <2>5. /\ S.status = "awaiting_human" /\ S.cursor = R.cursor
        /\ S.rows = [F.rows EXCEPT ![y] = "awaiting_human"]
    BY <1>2, <2>1 DEF RunRecords
  <2>6. \A z \in Rows : (S.rows[z] # "none") <=> (z = y \/ R.rows[z] # "none")
    BY <1>6, <2>3, <2>4, <2>5
  <2>7. /\ Counted(S)
        /\ \A s \in Steps : Made(S, s) = IF s = R.cursor THEN Made(R, R.cursor) + 1 ELSE Made(R, s)
    <3> HIDE DEF S
    <3>1. S.status # "absent" /\ Made(R, x[1]) + 1 \in Attempts
      BY <1>3, <2>2, <2>5
    <3>2. \A z \in Rows : (S.rows[z] # "none") <=> (z = <<x[1], Made(R, x[1]) + 1>> \/ R.rows[z] # "none")
      BY <1>3, <2>6
    <3> QED
      BY <1>3, <3>1, <3>2, OneMore
  <2>8. Phase(S) = "asking"
    BY <1>5, <2>5, Phases
  <2>9. Course(S) = Promise!Tried(Course(R), "asking")
    BY <1>3, <2>5, <2>7, <2>8, OneMoreTry
  <2>10. Promise!Failed(Course(R)) = Promise!Tried(Course(R), "asking")
    BY <1>4, <1>11 DEF Promise!Failed
  <2> QED
    BY <1>4, <2>5, <2>7, <2>9, <2>10 DEF Left
<1> QED
  BY <1>3, <1>8, <1>9, <1>10, <1>11, WorkflowOK

\* begin_step.
LEMMA BeginCourse ==
  ASSUME NEW R, RunOK(R), Counted(R), MayBegin(R), NEW n \in Attempts, n < MaxAttempts,
         NextAttempt(R, R.cursor, n)
  PROVE  /\ Counted(BeginStep(R, n)) /\ Left(R, BeginStep(R, n))
         /\ Course(R).phase = "idle"
         /\ Course(BeginStep(R, n)) = Promise!Tried(Course(R), "busy")
<1> DEFINE x == <<R.cursor, n>>  S == BeginStep(R, n)
<1>1. R \in RunRecords /\ R.rows \in [Rows -> RowStatuses] /\ R.cursor \in Steps
  BY DEF RunOK, RunRecords, MayBegin
<1>2. RunOK(S) /\ x \in Rows /\ n = Made(R, R.cursor) + 1
  BY <1>1, BeginMoves, NextIs
<1>3. S.status = "running" /\ S.cursor = R.cursor /\ S.rows = [R.rows EXCEPT ![x] = "running"]
  BY <1>1 DEF BeginStep, RunRecords
<1>4. \A z \in Rows : S.rows[z] = IF z = x THEN "running" ELSE R.rows[z]
  BY <1>1, <1>3
<1>5. \A z \in Rows : (S.rows[z] # "none") <=> (z = x \/ R.rows[z] # "none")
  BY <1>4
<1>6. /\ Counted(S)
      /\ \A s \in Steps : Made(S, s) = IF s = R.cursor THEN Made(R, R.cursor) + 1 ELSE Made(R, s)
  <2> HIDE DEF S
  <2>1. S.status # "absent" /\ Made(R, R.cursor) + 1 \in Attempts
    BY <1>2, <1>3
  <2>2. \A z \in Rows : (S.rows[z] # "none") <=> (z = <<R.cursor, Made(R, R.cursor) + 1>> \/ R.rows[z] # "none")
    BY <1>2, <1>5
  <2> QED
    BY <1>1, <2>1, <2>2, OneMore, ZenonT(30)
<1>7. Phase(S) = "busy" /\ Phase(R) = "idle"
  BY <1>2, <1>4, Phases DEF Running, MayBegin
<1>8. Course(S) = Promise!Tried(Course(R), "busy")
  BY <1>1, <1>3, <1>6, <1>7, OneMoreTry
<1>9. Left(R, S) /\ Course(R).phase = "idle"
  BY <1>3, <1>7 DEF Left, Course
<1> QED
  BY <1>6, <1>8, <1>9

\* A change that adds no attempt and leaves the run at its step changes its phase only.
LEMMA PhaseCourse ==
  ASSUME NEW R, Counted(R), NEW S, S.status # "absent", S.cursor = R.cursor,
         \A x \in Rows : (S.rows[x] # "none") <=> (R.rows[x] # "none")
  PROVE  /\ Counted(S) /\ Left(R, S)
         /\ Course(S) = [Course(R) EXCEPT !.phase = Phase(S)]
         /\ Phase(S) = Phase(R) => Course(S) = Course(R)
<1>1. Counted(S) /\ \A s \in Steps : Made(S, s) = Made(R, s)
  BY SameTally
<1>2. Left(R, S)
  BY DEF Left
<1>3. /\ Course(S) = [Course(R) EXCEPT !.phase = Phase(S)]
      /\ Phase(S) = Phase(R) => Course(S) = Course(R)
  BY <1>1, SameTries
<1> QED
  BY <1>1, <1>2, <1>3

\* await_human.
LEMMA ParkCourse ==
  ASSUME NEW R, RunOK(R), Counted(R), NEW x \in Rows, R.rows[x] \in Running
  PROVE  LET S == [R EXCEPT !.status = "awaiting_human", !.rows[x] = "awaiting_human"] IN
         /\ Counted(S) /\ Left(R, S)
         /\ Course(R).phase = "busy" /\ Course(R).at = x[1]
         /\ Course(S) = [Course(R) EXCEPT !.phase = "asking"]
<1> DEFINE S == [R EXCEPT !.status = "awaiting_human", !.rows[x] = "awaiting_human"]
<1>1. R \in RunRecords /\ R.rows \in [Rows -> RowStatuses] /\ R.rows[x] \in Open /\ R.rows[x] # "none"
  BY DEF RunOK, RunRecords, Open, Running
<1>2. /\ S.status = "awaiting_human" /\ S.cursor = R.cursor
      /\ S.rows = [R.rows EXCEPT ![x] = "awaiting_human"]
  BY <1>1 DEF RunRecords
<1>3. \A y \in Rows : (S.rows[y] # "none") <=> (R.rows[y] # "none")
  BY <1>1, <1>2
<1>4. RunOK(S)
  BY ParkMoves
<1> HIDE DEF S
<1>5. Phase(S) = "asking" /\ Phase(R) = "busy"
  BY <1>2, <1>4, Phases
<1>6. /\ Counted(S) /\ Left(R, S)
      /\ Course(S) = [Course(R) EXCEPT !.phase = "asking"]
  <2>1. Counted(S) /\ Left(R, S) /\ Course(S) = [Course(R) EXCEPT !.phase = Phase(S)]
    BY <1>2, <1>3, PhaseCourse
  <2> QED
    BY <1>5, <2>1
<1>7. Course(R).phase = "busy" /\ Course(R).at = x[1]
  BY <1>1, <1>5, AtWork DEF Course
<1> QED
  BY <1>6, <1>7 DEF S

\* A running attempt grows late.
LEMMA LateCourse ==
  ASSUME NEW R, RunOK(R), Counted(R), NEW x \in Rows, R.rows[x] = "running"
  PROVE  LET S == [R EXCEPT !.rows[x] = "late"] IN
         Counted(S) /\ Left(R, S) /\ Course(S) = Course(R)
<1> DEFINE S == [R EXCEPT !.rows[x] = "late"]
<1>1. R \in RunRecords /\ R.rows \in [Rows -> RowStatuses] /\ R.rows[x] \in Running /\ R.rows[x] \in Open
  BY DEF RunOK, RunRecords, Open, Running
<1>2. S.status = R.status /\ S.cursor = R.cursor /\ S.rows = [R.rows EXCEPT ![x] = "late"]
  BY <1>1 DEF RunRecords
<1>3. \A y \in Rows : S.rows[y] = IF y = x THEN "late" ELSE R.rows[y]
  BY <1>1, <1>2
<1>4. RunOK(S)
  BY LateMoves
<1>5. S.status # "absent"
  BY <1>1, <1>2, OpenNotEnded
<1> HIDE DEF S
<1>6. \A y \in Rows : (S.rows[y] # "none") <=> (R.rows[y] # "none")
  BY <1>3
<1>7. Phase(S) = "busy" /\ Phase(R) = "busy"
  BY <1>1, <1>3, <1>4, Phases DEF Running
<1>8. Counted(S) /\ Left(R, S) /\ Course(S) = Course(R)
  <2>1. Phase(S) = Phase(R) /\ S.cursor = R.cursor
    BY <1>2, <1>7
  <2> QED
    BY <2>1, <1>5, <1>6, PhaseCourse
<1> QED
  BY <1>8 DEF S

\* A person's "retry".
LEMMA RetryCourse ==
  ASSUME NEW R, RunOK(R), Counted(R), NEW x \in Rows, R.rows[x] = "awaiting_human"
  PROVE  LET S == [R EXCEPT !.rows[x] = "succeeded", !.status = "running"] IN
         Counted(S) /\ Left(R, S) /\ Course(S) = [Course(R) EXCEPT !.phase = "idle"]
<1> DEFINE C == [R EXCEPT !.rows[x] = "succeeded"]
           S == [R EXCEPT !.rows[x] = "succeeded", !.status = "running"]
<1>1. /\ C \in RunRecords /\ OpenRows(C) = {} /\ C.cursor = R.cursor
      /\ \A y \in Rows : C.rows[y] = IF y = x THEN "succeeded" ELSE R.rows[y]
  BY CloseRow DEF Open, Closed
<1>2. S.status = "running" /\ S.rows = C.rows /\ S.cursor = R.cursor
  BY <1>1 DEF RunRecords, RunOK
<1>3. RunOK(S) /\ OpenRows(S) = {}
  BY <1>1, <1>2, RetryMoves DEF OpenRows
<1> HIDE DEF C, S
<1>4. \A y \in Rows : (S.rows[y] # "none") <=> (R.rows[y] # "none")
  BY <1>1, <1>2
<1>5. Phase(S) = "idle"
  BY <1>2, <1>3, Phases
<1>6. Counted(S) /\ Left(R, S) /\ Course(S) = [Course(R) EXCEPT !.phase = "idle"]
  BY <1>2, <1>4, <1>5, PhaseCourse
<1> QED
  BY <1>6 DEF S

\* cancel_run.
LEMMA CancelCourse ==
  ASSUME NEW R, RunOK(R), Counted(R), R.status \in Active
  PROVE  /\ Counted(CancelRun(R)) /\ Left(R, CancelRun(R))
         /\ Course(R).phase \in {"idle", "busy", "asking"}
         /\ Course(CancelRun(R)) = [Course(R) EXCEPT !.phase = "cancelled"]
<1> DEFINE S == CancelRun(R)
<1>1. R \in RunRecords /\ R.rows \in [Rows -> RowStatuses]
  BY DEF RunOK, RunRecords
<1>2. /\ S.status = "cancelled" /\ S.cursor = R.cursor
      /\ S.rows = [x \in Rows |-> IF R.rows[x] \in Open THEN "cancelled" ELSE R.rows[x]]
  BY <1>1 DEF CancelRun, RunRecords
<1>3. \A y \in Rows : (S.rows[y] # "none") <=> (R.rows[y] # "none")
  BY <1>2 DEF Open, Running
<1>4. RunOK(S)
  BY CancelMoves DEF Active, Ended
<1>5. Phase(S) = "cancelled"
  BY <1>2, <1>4, Phases DEF Ended
<1>6. Phase(R) \in {"idle", "busy", "asking"}
  BY DEF Phase, Active, Ended
<1>7. /\ Counted(S) /\ Left(R, S)
      /\ Course(S) = [Course(R) EXCEPT !.phase = "cancelled"]
  BY <1>2, <1>3, <1>5, PhaseCourse
<1> QED
  BY <1>6, <1>7 DEF Course

\* start_run.
LEMMA StartCourse ==
  ASSUME NEW R, RunOK(R), Counted(R), R.status = "absent"
  PROVE  LET S == [R EXCEPT !.status = "pending", !.cursor = 1] IN
         /\ Counted(S) /\ Left(R, S)
         /\ Course(R).phase = "absent"
         /\ Course(S) = [Course(R) EXCEPT !.phase = "idle", !.at = 1]
<1> DEFINE S == [R EXCEPT !.status = "pending", !.cursor = 1]
<1>1. R \in RunRecords
  BY DEF RunOK
<1>2. S.status = "pending" /\ S.cursor = 1 /\ S.rows = R.rows
  BY <1>1 DEF RunRecords
<1>3. RunOK(S)
  BY StartMoves
<1>4. OpenRows(S) = {}
  BY <1>2 DEF OpenRows, RunOK
<1> HIDE DEF S
<1>5. Phase(S) = "idle" /\ Phase(R) = "absent"
  BY <1>2, <1>3, <1>4, Phases
<1>6. Counted(S) /\ \A s \in Steps : Made(S, s) = Made(R, s)
  <2>1. S.status # "absent" /\ \A x \in Rows : (S.rows[x] # "none") <=> (R.rows[x] # "none")
    BY <1>2
  <2> QED
    BY <2>1, SameTally
<1>7. Course(S) = [Course(R) EXCEPT !.phase = "idle", !.at = 1]
  <2>1. Course(S) = [Course(R) EXCEPT !.phase = Phase(S), !.at = S.cursor]
    BY <1>6, SameTries
  <2> QED
    BY <1>2, <1>5, <2>1
<1>8. Left(R, S)
  BY DEF Left, Counted
<1>9. Course(R).phase = "absent"
  BY <1>5 DEF Course
<1> QED
  BY <1>6, <1>7, <1>8, <1>9 DEF S

\* A process knows of a step the run has come to.
Reached(R, s) == R.cursor = s \/ \E m \in Attempts : R.rows[<<s, m>>] # "none"

Counts == \A r \in Runs : Counted(run[r])
Come   == \A w \in Workers : worker[w].at # "idle" => Reached(run[worker[w].run], worker[w].step)

LEMMA ReachedStays ==
  ASSUME NEW R, NEW S, Keeps(R, S), Left(R, S), NEW s \in Steps, Reached(R, s)
  PROVE  Reached(S, s)
<1>1. \A m \in Attempts : <<s, m>> \in Rows /\ (R.rows[<<s, m>>] # "none" => S.rows[<<s, m>>] # "none")
  BY Sorts DEF Keeps
<1>2. s # NoStep
  BY Sorts
<1> QED
  BY <1>1, <1>2 DEF Reached, Left

\* A step the run has come to while an attempt is open has been tried.
LEMMA ReachedTried ==
  ASSUME NEW R, RunOK(R), Counted(R), NEW x \in Rows, R.rows[x] \in Open,
         NEW s \in Steps, Reached(R, s)
  PROVE  Made(R, s) > 0
<1>1. PICK m \in Attempts : R.rows[<<s, m>>] # "none"
  BY AtWork, ZenonT(30) DEF Reached
<1>2. Tally(R, s, Made(R, s)) /\ Made(R, s) \in Nat
  BY MadeSorts
<1>3. m \in Nat \ {0} /\ m <= Made(R, s)
  BY <1>1, <1>2, Sorts DEF Tally
<1> QED
  BY <1>2, <1>3

\* What a process knows it has known, or has just loaded.
LEMMA Knows ==
  ASSUME TypeOK, [Next]_vars, NEW w \in Workers, worker'[w].at # "idle"
  PROVE  \/ /\ worker[w].at # "idle"
            /\ worker'[w].run = worker[w].run /\ worker'[w].step = worker[w].step
         \/ /\ run' = run /\ worker'[w].run \in Runs
            /\ run[worker'[w].run].cursor = worker'[w].step
<1> DEFINE Goal == \/ /\ worker[w].at # "idle"
                      /\ worker'[w].run = worker[w].run /\ worker'[w].step = worker[w].step
                   \/ /\ run' = run /\ worker'[w].run \in Runs
                      /\ run[worker'[w].run].cursor = worker'[w].step
<1>0. worker \in [Workers -> WorkerRecords]
  BY DEF TypeOK
<1>1. CASE worker' = worker
  BY <1>1
<1>2. ASSUME NEW v \in Workers, worker' = [worker EXCEPT ![v] = Idle] PROVE Goal
  BY <1>0, <1>2 DEF Idle
<1>3. ASSUME NEW v \in Workers, NEW r \in Runs, Load(v, r) PROVE Goal
  BY <1>0, <1>3 DEF Load
<1>4. ASSUME NEW v \in Workers, NEW r \in Runs, Begin(v, r) PROVE Goal
  BY <1>0, <1>4 DEF Begin
<1>5. ASSUME NEW v \in Workers, BeginRefused(v) \/ Park(v) \/ Finish(v) \/ Fail(v) \/ Crash(v)
      PROVE  Goal
  <2>1. worker' = [worker EXCEPT ![v] = Idle]
    BY <1>5 DEF BeginRefused, Park, Finish, Fail, Crash, Record
  <2> QED
    BY <1>2, <2>1
<1>6. ASSUME NEW r \in Runs, StartRun(r) \/ DeadlinePasses(r) \/ Respond(r) \/ Cancel(r)
      PROVE  Goal
  <2>1. worker' = worker
    BY <1>6 DEF StartRun, DeadlinePasses, Respond, Cancel
  <2> QED
    BY <1>1, <2>1
<1>7. CASE TimeoutSteps
  BY <1>1, <1>7 DEF TimeoutSteps
<1>8. CASE UNCHANGED vars
  BY <1>1, <1>8 DEF vars
<1> QED
  BY <1>3, <1>4, <1>5, <1>6, <1>7, <1>8 DEF Next

\* Every step keeps every run counted, lets it leave only steps it has tried, and is a
\* step of the promise or none.
LEMMA CourseMoves ==
  ASSUME IInv, Counts, Come, [Next]_vars
  PROVE  /\ \A r \in Runs : Counted(run'[r]) /\ Left(run[r], run'[r])
         /\ Promise!Next \/ UNCHANGED [r \in Runs |-> Course(run[r])]
<1> DEFINE Fine == \A r \in Runs : Counted(run'[r]) /\ Left(run[r], run'[r])
           Still == UNCHANGED [r \in Runs |-> Course(run[r])]
           Goal == Fine /\ (Promise!Next \/ Still)
<1>1. run \in [Runs -> RunRecords] /\ \A r \in Runs : RunOK(run[r]) /\ Counted(run[r])
  BY DEF IInv, TypeOK, Counts
<1>2. \A r \in Runs : Left(run[r], run[r])
  BY DEF Left
<1>3. CASE run' = run
  BY <1>1, <1>2, <1>3
\* One run goes on.
<1>4. ASSUME NEW r \in Runs, NEW S, run' = [run EXCEPT ![r] = S],
             Counted(S), Left(run[r], S)
      PROVE  Fine /\ Promise!Goes(r, Course(S))
  <2>1. \A q \in Runs : run'[q] = IF q = r THEN S ELSE run[q]
    BY <1>1, <1>4
  <2>2. Fine
    BY <1>1, <1>2, <1>4, <2>1
  <2>3. [q \in Runs |-> Course(run'[q])] = [[q \in Runs |-> Course(run[q])] EXCEPT ![r] = Course(S)]
    BY <2>1
  <2> QED
    BY <2>2, <2>3 DEF Promise!Goes
<1>5. ASSUME NEW r \in Runs, StartRun(r) PROVE Goal
  <2> DEFINE S == [run[r] EXCEPT !.status = "pending", !.cursor = 1]
  <2>1. /\ Counted(S) /\ Left(run[r], S)
        /\ Course(run[r]).phase = "absent"
        /\ Course(S) = [Course(run[r]) EXCEPT !.phase = "idle", !.at = 1]
    BY <1>1, <1>5, StartCourse DEF StartRun
  <2>2. run' = [run EXCEPT ![r] = S]
    BY <1>1, <1>5 DEF StartRun
  <2> DEFINE D == [Course(run[r]) EXCEPT !.phase = "idle", !.at = 1]
  <2>3. Course(S) = D
    BY <2>1
  <2> HIDE DEF S, D
  <2>4. Fine /\ Promise!Goes(r, D)
    BY <1>4, <2>1, <2>2, <2>3
  <2>5. Promise!Start(r)
    BY <2>1, <2>4 DEF Promise!Start, D
  <2> QED
    BY <2>4, <2>5 DEF Promise!Next
<1>6. ASSUME NEW r \in Runs, DeadlinePasses(r) PROVE Goal
  <2>1. PICK x \in Rows : run[r].rows[x] = "running" /\ run' = [run EXCEPT ![r].rows[x] = "late"]
    BY <1>6 DEF DeadlinePasses
  <2> DEFINE S == [run[r] EXCEPT !.rows[x] = "late"]
  <2>2. Counted(S) /\ Left(run[r], S) /\ Course(S) = Course(run[r])
    BY <1>1, <2>1, LateCourse
  <2>3. run' = [run EXCEPT ![r] = S]
    BY <1>1, <2>1
  <2> HIDE DEF S
  <2>4. Fine /\ Promise!Goes(r, Course(run[r]))
    BY <1>4, <2>2, <2>3
  <2>5. Still
    BY <2>4 DEF Promise!Goes
  <2> QED
    BY <2>4, <2>5
<1>7. ASSUME NEW r \in Runs, run[r].status \in Active, run' = [run EXCEPT ![r] = CancelRun(run[r])]
      PROVE  Goal
  <2>1. /\ Counted(CancelRun(run[r])) /\ Left(run[r], CancelRun(run[r]))
        /\ Course(run[r]).phase \in {"idle", "busy", "asking"}
        /\ Course(CancelRun(run[r])) = [Course(run[r]) EXCEPT !.phase = "cancelled"]
    BY <1>1, <1>7, CancelCourse
  <2> DEFINE D == [Course(run[r]) EXCEPT !.phase = "cancelled"]
  <2>2. Course(CancelRun(run[r])) = D
    BY <2>1
  <2> HIDE DEF D
  <2>3. Fine /\ Promise!Goes(r, D)
    BY <1>4, <1>7, <2>1, <2>2
  <2>4. Promise!Cancel(r)
    BY <2>1, <2>3 DEF Promise!Cancel, D
  <2> QED
    BY <2>3, <2>4 DEF Promise!Next
<1>8. ASSUME NEW r \in Runs, Respond(r) PROVE Goal
  <2>1. PICK x \in Rows : /\ run[r].rows[x] = "awaiting_human"
                          /\ Approve(r, x) \/ Retry(r, x) \/ Skip(r, x) \/ Abort(r)
    BY <1>8 DEF Respond
  <2>2. run[r].rows[x] \in Open /\ "succeeded" \in Closed /\ NoStep \in Steps \cup {NoStep}
    BY <2>1 DEF Open, Closed
  <2>3. run[r].status = "awaiting_human" /\ run[r].status \in Active
    BY <1>1, <2>1 DEF RunOK, Active
  <2>4. Course(run[r]).phase = "asking" /\ Course(run[r]).at = run[r].cursor
    BY <1>1, <2>3, Phases DEF Course
  <2> DEFINE A == AdvanceCursor([run[r] EXCEPT !.rows[x] = "succeeded"], x[1], NoStep)
             T == [run[r] EXCEPT !.rows[x] = "succeeded", !.status = "running"]
  <2>5. ASSUME Approve(r, x) \/ Skip(r, x) PROVE Goal
    <3>1. run' = [run EXCEPT ![r] = A]
      BY <2>5 DEF Approve, CompleteStep, Skip
    <3>2. /\ Counted(A) /\ Left(run[r], A)
          /\ Course(A) = Promise!Arrived(Course(run[r]), Promise!Following(run[r].cursor))
      BY <1>1, <2>2, CompleteCourse
    <3> HIDE DEF A
    <3>3. Fine /\ Promise!Goes(r, Promise!Arrived(Course(run[r]), Promise!Following(run[r].cursor)))
      BY <1>4, <3>1, <3>2
    <3>4. Promise!Answer(r)
      BY <2>4, <3>3 DEF Promise!Answer
    <3> QED
      BY <3>3, <3>4 DEF Promise!Next
  <2>6. ASSUME Retry(r, x) PROVE Goal
    <3>1. run' = [run EXCEPT ![r] = T]
      BY <1>1, <2>6 DEF Retry
    <3>2. Counted(T) /\ Left(run[r], T) /\ Course(T) = [Course(run[r]) EXCEPT !.phase = "idle"]
      BY <1>1, <2>1, RetryCourse
    <3> DEFINE D == [Course(run[r]) EXCEPT !.phase = "idle"]
    <3>3. Course(T) = D
      BY <3>2
    <3> HIDE DEF T, D
    <3>4. Fine /\ Promise!Goes(r, D)
      BY <1>4, <3>1, <3>2, <3>3
    <3>5. Promise!Answer(r)
      BY <2>4, <3>4 DEF Promise!Answer, D
    <3> QED
      BY <3>4, <3>5 DEF Promise!Next
  <2>7. ASSUME Abort(r) PROVE Goal
    BY <1>7, <2>3, <2>7 DEF Abort
  <2> QED
    BY <2>1, <2>5, <2>6, <2>7
<1>9. ASSUME NEW w \in Workers, NEW r \in Runs, Begin(w, r) PROVE Goal
  <2>1. PICK n \in Attempts :
          /\ NextAttempt(run[r], run[r].cursor, n) /\ n < MaxAttempts
          /\ run' = [run EXCEPT ![r] = BeginStep(@, n)]
    BY <1>9 DEF Begin
  <2> DEFINE S == BeginStep(run[r], n)
  <2>2. /\ Counted(S) /\ Left(run[r], S)
        /\ Course(run[r]).phase = "idle"
        /\ Course(S) = Promise!Tried(Course(run[r]), "busy")
    BY <1>1, <1>9, <2>1, BeginCourse DEF Begin
  <2>3. run' = [run EXCEPT ![r] = S]
    BY <2>1
  <2> HIDE DEF S
  <2>4. Fine /\ Promise!Goes(r, Promise!Tried(Course(run[r]), "busy"))
    BY <1>4, <2>2, <2>3
  <2>5. Promise!Take(r)
    BY <2>2, <2>4 DEF Promise!Take
  <2> QED
    BY <2>4, <2>5 DEF Promise!Next
<1>10. ASSUME NEW w \in Workers, Park(w) \/ Finish(w) \/ Fail(w) PROVE Goal
  <2> DEFINE x == worker[w].row  r == worker[w].run  R == run[r]  s == worker[w].step
  <2>1. Holds(w)
    BY <1>10 DEF Park, Finish, Fail, Holds
  <2>2. r \in Runs /\ x \in Rows /\ s \in Steps /\ worker[w].at # "idle"
    BY <2>1, WorkerSorts DEF Holds, IInv
  <2>3. RunOK(R) /\ Counted(R) /\ Reached(R, s)
    BY <1>1, <2>2 DEF Come
  <2>4. StillRunning(w) => R.rows[x] \in Running /\ R.rows[x] \in Open
    BY DEF StillRunning, Open
  <2>5. CASE run' = run
    BY <1>3, <2>5
  <2>6. CASE Park(w) /\ run' # run
    <3> DEFINE S == [R EXCEPT !.status = "awaiting_human", !.rows[x] = "awaiting_human"]
    <3>1. StillRunning(w) /\ Kind[x[1]] = "human" /\ run' = [run EXCEPT ![r] = S]
      BY <2>6 DEF Park, Record
    <3>2. /\ Counted(S) /\ Left(R, S)
          /\ Course(R).phase = "busy" /\ Course(R).at = x[1]
          /\ Course(S) = [Course(R) EXCEPT !.phase = "asking"]
      BY <2>2, <2>3, <2>4, <3>1, ParkCourse
    <3> DEFINE D == [Course(R) EXCEPT !.phase = "asking"]
    <3>3. Course(S) = D
      BY <3>2
    <3> HIDE DEF S, D
    <3>4. Fine /\ Promise!Goes(r, D)
      BY <1>4, <2>2, <3>1, <3>2, <3>3
    <3>5. Promise!Ask(r)
      BY <2>2, <3>1, <3>2, <3>4 DEF Promise!Ask, D
    <3> QED
      BY <2>2, <3>4, <3>5 DEF Promise!Next
  <2>7. CASE Finish(w) /\ run' # run
    <3>1. PICK goto \in IF Kind[s] = "decision" THEN Branches[s] ELSE {NoStep} :
            Record(w, StillRunning(w) /\ goto # Unknown, CompleteStep(R, x, goto))
      BY <2>7 DEF Finish
    <3>2. /\ StillRunning(w) /\ goto # Unknown
          /\ run' = [run EXCEPT ![r] = CompleteStep(R, x, goto)]
      BY <2>7, <3>1 DEF Record
    <3>3. goto \in Steps \cup {NoStep} /\ (goto # NoStep => Kind[s] = "decision" /\ goto \in Branches[s])
      BY <2>2, <3>1, <3>2, WorkflowOK
    <3> DEFINE way == IF goto # NoStep THEN goto ELSE Promise!Following(R.cursor)
               S == CompleteStep(R, x, goto)
    <3>4. /\ Counted(S) /\ Left(R, S)
          /\ Course(S) = Promise!Arrived(Course(R), way)
      BY <2>2, <2>3, <2>4, <3>2, <3>3, CompleteCourse DEF CompleteStep, Closed
    <3>5. /\ Course(R).at = R.cursor /\ Course(R).phase = "busy"
          /\ Course(R).tries = [t \in Steps |-> Made(R, t)]
      BY <2>2, <2>3, <2>4, <3>2, Phases DEF Course
    <3>6. Made(R, s) > 0
      BY <2>2, <2>3, <2>4, <3>2, ReachedTried
    <3>7. way \in Promise!Ways(Course(R))
      <4>1. CASE goto = NoStep
        BY <3>5, <4>1 DEF Promise!Ways
      <4>2. CASE goto # NoStep
        <5>1. goto \in Steps /\ Kind[s] = "decision" /\ Course(R).tries[s] > 0 /\ goto \in Branches[s]
          BY <2>2, <3>3, <3>5, <3>6, <4>2
        <5> QED
          BY <2>2, <4>2, <5>1 DEF Promise!Ways, Promise!Steps, Steps
      <4> QED
        BY <4>1, <4>2
    <3> HIDE DEF S, way
    <3>8. Fine /\ Promise!Goes(r, Promise!Arrived(Course(R), way))
      BY <1>4, <2>2, <3>2, <3>4 DEF S
    <3>9. Promise!GoOn(r)
      BY <2>2, <3>5, <3>7, <3>8 DEF Promise!GoOn
    <3> QED
      BY <2>2, <3>8, <3>9 DEF Promise!Next
  <2>8. CASE Fail(w) /\ run' # run
    <3> DEFINE S == FailStep(R, x)
    <3>1. StillRunning(w) /\ run' = [run EXCEPT ![r] = S]
      BY <2>8 DEF Fail, Record
    <3>2. /\ Counted(S) /\ Left(R, S)
          /\ Course(R).phase = "busy" /\ Course(S) = Promise!Failed(Course(R))
      BY <2>2, <2>3, <2>4, <3>1, FailCourse
    <3> HIDE DEF S
    <3>3. Fine
      BY <1>4, <2>2, <3>1, <3>2
    <3>4. \A q \in Runs : run'[q] = IF q = r THEN S ELSE run[q]
      BY <1>1, <2>2, <3>1
    <3> DEFINE F == {r}
    <3>5. [q \in Runs |-> Course(run'[q])]
            = [q \in Runs |-> IF q \in F THEN Promise!Failed(Course(run[q])) ELSE Course(run[q])]
      BY <3>2, <3>4
    <3>6. F \in SUBSET {q \in Runs : Course(run[q]).phase = "busy"} /\ F # {}
      BY <2>2, <3>2
    <3> HIDE DEF F
    <3>7. Promise!Fail
      BY <3>5, <3>6 DEF Promise!Fail
    <3> QED
      BY <3>3, <3>7 DEF Promise!Next
  <2> QED
    BY <1>10, <2>5, <2>6, <2>7, <2>8
<1>11. CASE TimeoutSteps
  <2> DEFINE L == {r \in Runs : LateRows(run[r]) # {}}
             late(r) == CHOOSE x \in LateRows(run[r]) : TRUE
  <2>1. ASSUME NEW r \in L
        PROVE  /\ Counted(FailStep(run[r], late(r))) /\ Left(run[r], FailStep(run[r], late(r)))
               /\ Course(run[r]).phase = "busy"
               /\ Course(FailStep(run[r], late(r))) = Promise!Failed(Course(run[r]))
    <3>1. late(r) \in LateRows(run[r])
      OBVIOUS
    <3>2. late(r) \in Rows /\ run[r].rows[late(r)] \in Running
      BY <3>1 DEF LateRows, Running
    <3> HIDE DEF late
    <3> QED
      BY <1>1, <3>2, FailCourse
  <2>2. /\ L # {}
        /\ run' = [r \in Runs |-> IF r \in L THEN FailStep(run[r], late(r)) ELSE run[r]]
    BY <1>11 DEF TimeoutSteps
  <2> HIDE DEF late
  <2>3. \A r \in Runs : run'[r] = IF r \in L THEN FailStep(run[r], late(r)) ELSE run[r]
    BY <2>2
  <2>4. L \in SUBSET {q \in Runs : Course(run[q]).phase = "busy"}
    BY <2>1
  <2> HIDE DEF L
  <2>5. Fine
    BY <1>1, <1>2, <2>1, <2>3
  <2>6. [q \in Runs |-> Course(run'[q])]
          = [q \in Runs |-> IF q \in L THEN Promise!Failed(Course(run[q])) ELSE Course(run[q])]
    BY <2>1, <2>3
  <2>7. Promise!Fail
    BY <2>2, <2>4, <2>6 DEF Promise!Fail
  <2> QED
    BY <2>5, <2>7 DEF Promise!Next
<1>12. ASSUME NEW r \in Runs, Cancel(r) PROVE Goal
  BY <1>7, <1>12 DEF Cancel
<1>13. CASE \/ \E w \in Workers, r \in Runs : Load(w, r)
            \/ \E w \in Workers : BeginRefused(w) \/ Crash(w)
            \/ UNCHANGED vars
  BY <1>3, <1>13 DEF Load, BeginRefused, Crash, vars
<1> QED
  BY <1>5, <1>6, <1>8, <1>9, <1>10, <1>11, <1>12, <1>13 DEF Next

\* The counts are right, and nobody works on a step the run has not come to.
LEMMA CourseInductive == IInv /\ Counts /\ Come /\ [Next]_vars => Counts' /\ Come'
<1> SUFFICES ASSUME IInv, Counts, Come, [Next]_vars PROVE Counts' /\ Come'
  OBVIOUS
<1>1. \A r \in Runs : Counted(run'[r]) /\ Left(run[r], run'[r]) /\ Keeps(run[r], run'[r])
  BY CourseMoves, StepMoves
<1>2. Come'
  <2> SUFFICES ASSUME NEW w \in Workers, worker'[w].at # "idle"
               PROVE  Reached(run'[worker'[w].run], worker'[w].step)
    BY DEF Come
  <2>1. CASE /\ worker[w].at # "idle"
             /\ worker'[w].run = worker[w].run /\ worker'[w].step = worker[w].step
    <3>1. worker[w].run \in Runs /\ worker[w].step \in Steps
      BY <2>1, WorkerSorts DEF IInv
    <3>2. Reached(run[worker[w].run], worker[w].step)
      BY <2>1 DEF Come
    <3> QED
      BY <1>1, <2>1, <3>1, <3>2, ReachedStays
  <2>2. CASE run' = run /\ run[worker'[w].run].cursor = worker'[w].step
    BY <2>2 DEF Reached
  <2> QED
    BY <2>1, <2>2, Knows DEF IInv
<1> QED
  BY <1>1, <1>2 DEF Counts

\* At first there is nothing to count, and nobody knows anything.
LEMMA CourseInit == Init => Counts /\ Come /\ Promise!Init
<1> SUFFICES ASSUME Init PROVE Counts /\ Come /\ Promise!Init
  OBVIOUS
<1>1. \A r \in Runs : /\ run[r].status = "absent" /\ run[r].cursor = NoStep
                      /\ \A x \in Rows : run[r].rows[x] = "none"
  BY DEF Init
<1>2. ASSUME NEW r \in Runs, NEW s \in Steps
      PROVE  Tally(run[r], s, 0) /\ 0 \in 0..MaxAttempts
  <2>1. \A m \in Attempts : run[r].rows[<<s, m>>] = "none" /\ ~ (m <= 0)
    BY <1>1, Sorts
  <2> QED
    BY <2>1, WorkflowOK DEF Tally
<1>3. Counts
  BY <1>1, <1>2 DEF Counts, Counted
<1>4. Come
  BY DEF Init, Come, Idle
<1>5. \A r \in Runs : Course(run[r]) = [phase |-> "absent", at |-> NoStep, tries |-> [s \in Steps |-> 0]]
  <2> SUFFICES ASSUME NEW r \in Runs
               PROVE  Course(run[r]) = [phase |-> "absent", at |-> NoStep, tries |-> [s \in Steps |-> 0]]
    OBVIOUS
  <2>1. \A s \in Steps : Made(run[r], s) = 0
    BY <1>2, MadeIs
  <2>2. Phase(run[r]) = "absent"
    BY <1>1 DEF Phase, Ended
  <2> QED
    BY <1>1, <2>1, <2>2 DEF Course
<1>6. Promise!Init
  BY <1>5 DEF Promise!Init, Promise!NoStep, Promise!Steps, NoStep, Steps
<1> QED
  BY <1>3, <1>4, <1>6

\* For every workflow, any number of runs and processes: whoever advances a run, dies or
\* answers late, the run goes the course RunPromise describes; no attempt is uncounted, no
\* step is given more tries than it has, and nobody sends it where no decision of its own
\* and no order of the steps would (013:404-442, 639-695).
THEOREM CourseKept == Spec => KeepsCourse
<1>1. IInv /\ Counts /\ Come /\ [Next]_vars
        => [Promise!Next]_([r \in Runs |-> Course(run[r])])
  BY CourseMoves
<1>2. Spec => [](Counts /\ Come)
  BY CourseInit, CourseInductive, Sound, PTL DEF Spec
<1> QED
  BY <1>1, <1>2, CourseInit, Sound, PTL DEF Spec, KeepsCourse, Promise!Spec
=============================================================================
