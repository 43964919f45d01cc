----------------------------- MODULE MCServices -----------------------------
(***************************************************************************)
(* Instance for TLC of the services around the gates, the runs and the     *)
(* graph.  Their models share no state, so a behaviour takes the steps of  *)
(* one of them, chosen in its initial state.                               *)
(***************************************************************************)
EXTENDS MigrationRunner, SorIngest, Embeddings, Administrators, Intake, DriftSignals,
        AgentLaunch, RolloutEpisode, Traversal, GateDecisions, TLC

CONSTANTS v1, v2, s1, s2, q1, q2, m1, m2, t1

\* The second release has a file the first does not.
MCRelease == v1 :> {1, 3} @@ v2 :> {1, 2, 3}
\* Two records of one stamp, and one nobody can decode.
MCStamp == <<1, 2, 2>>
MCGrade == <<"good", "undecodable", "good">>
\* A node and an edge from it.
MCEnds == s1 :> {} @@ s2 :> {s1}
MCPassagesOf == t1 :> {q1, q2}
MCMatches == q1 :> {m1} @@ q2 :> {m2}
\* Two edges side by side, a cycle, and a node reached along two ways.
Edge(s, d, t, c) == [src |-> s, dst |-> d, type |-> t, conf |-> c]
MCEdgeRows ==
  {Edge(1, 2, "depends", 2), Edge(1, 2, "depends", 3), Edge(2, 3, "depends", 2),
   Edge(3, 1, "depends", 1), Edge(3, 4, "depends", 3), Edge(2, 4, "flow", 2)}
\* The last asks for more hops than there may be.
MCQueries ==
  {DependencyClosure(1, 3, 3), ImpactRadius(4, 2, 9),
   [starts |-> {1, 4}, types |-> EdgeTypes, dir |-> "both", hops |-> 2, nodes |-> 2],
   DependencyClosure(1, 4, 1)}

VARIABLE focus    \* the service of this behaviour

others(S) ==
  /\ "mig" \in S => UNCHANGED migVars
  /\ "sor" \in S => UNCHANGED sorVars
  /\ "emb" \in S => UNCHANGED embVars
  /\ "adm" \in S => UNCHANGED admVars
  /\ "int" \in S => UNCHANGED intakeVars
  /\ "dri" \in S => UNCHANGED driftVars
  /\ "lau" \in S => UNCHANGED launchVars
  /\ "rol" \in S => UNCHANGED rolloutVars
  /\ "tra" \in S => UNCHANGED traverseVars
  /\ "dec" \in S => UNCHANGED decVars

Services == {"mig", "sor", "emb", "adm", "int", "dri", "lau", "rol", "tra", "dec"}

MCInit ==
  /\ focus \in Services
  /\ MigInit /\ SorInit /\ EmbInit /\ AdmInit
  /\ IntakeInit /\ DriftInit /\ LaunchInit /\ RolloutInit /\ TraverseInit
  /\ DecInit
  /\ focus # "sor" => sorKind = "event_stream"
  /\ focus # "tra" => graphKeys = {} /\ graphEdges = {} /\ query = ImpactRadius(4, 2, 9)

On(service) == focus = service /\ UNCHANGED focus /\ others(Services \ {service})

MCNext ==
  \/ On("mig") /\ MigNext
  \/ On("sor") /\ SorNext
  \/ On("emb") /\ EmbNext
  \/ On("adm") /\ AdmNext
  \/ On("int") /\ IntakeNext
  \/ On("dri") /\ DriftNext
  \/ On("lau") /\ LaunchNext
  \/ On("rol") /\ RolloutNext
  \/ On("tra") /\ TraverseNext
  \/ On("dec") /\ DecNext

\* Of the migration, the watchdog polls in a thread of its own and a PUT once claimed is
\* sent; the main path may hang for ever.
MigFairness == \A i \in Invocations :
  /\ WF_migVars(focus = "mig" /\ Fire(i)) /\ WF_migVars(focus = "mig" /\ PutMain(i))
  /\ WF_migVars(focus = "mig" /\ PutWatchdog(i))

\* The schedule goes on starting ingestions, and a run that does not die goes on.
SorFairness == \A p \in IngestRuns :
  /\ WF_sorVars(focus = "sor" /\ IngestStep(p))
  /\ WF_sorVars(focus = "sor" /\ ingesting[p].at = "idle" /\ StartIngest(p)
                /\ ~ingesting'[p].replay)

\* run_forever keeps polling, and processes the batch it claimed.
EmbFairness == \A w \in Embedders : WF_embVars(focus = "emb" /\ Embeds(w))

\* The schedule goes on scanning, and a publication tried again and again succeeds.
DriftFairness ==
  /\ \A s \in Scanners : WF_driftVars(focus = "dri" /\ Scan(s))
  /\ SF_driftVars(focus = "dri" /\ \E s \in Scanners : Publish(s))

allVars == <<focus, migVars, sorVars, embVars, admVars, intakeVars, driftVars,
             launchVars, rolloutVars, traverseVars, decVars>>

MCSpec == MCInit /\ [][MCNext]_allVars
          /\ MigFairness /\ SorFairness /\ EmbFairness /\ DriftFairness
=============================================================================
