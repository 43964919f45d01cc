---------------------------- MODULE DriftSignals ----------------------------
(***************************************************************************)
(* Drift signals (sor.drift_signal, db/007), their triage, and the scan    *)
(* that pages for a critical control bypass (fde_sor.detectors).  A scan   *)
(* records and selects in one transaction; the alert is published after    *)
(* the commit by a process that may die first, and the publication itself  *)
(* may fail.  The agents' drift_scan records without alerting.             *)
(***************************************************************************)
EXTENDS Integers, FiniteSets

CONSTANTS
  Controls,       \* the subject_ref of a control_bypass signal
  Scanners,
  MaxSignals      \* bound on the rows of sor.drift_signal

ASSUME DriftOK == MaxSignals \in Nat

VARIABLES
  bypass,         \* what the observations show of each control, as a severity
  signals,        \* sor.drift_signal, in the order of signal_id
  scanning,       \* the critical signals each scan has still to publish
  paged           \* the signals an alert was published for

driftVars == <<bypass, signals, scanning, paged>>

LiveStates  == {"open", "triaged", "proposal_raised"}
DriftStates == LiveStates \cup {"accepted", "dismissed", "resolved"}
Severities  == {"high", "critical"}
SignalRows  == [control : Controls, severity : Severities, state : DriftStates,
                resolvedAt : BOOLEAN]

DriftTypeOK ==
  /\ bypass \in [Controls -> Severities \cup {"none"}]
  /\ DOMAIN signals \subseteq 1..MaxSignals
  /\ \A x \in DOMAIN signals : signals[x] \in SignalRows
  /\ scanning \in [Scanners -> SUBSET DOMAIN signals]
  /\ paged \subseteq DOMAIN signals

DriftInit ==
  /\ bypass = [k \in Controls |-> "none"]
  /\ signals = [x \in {} |-> 0]
  /\ scanning = [s \in Scanners |-> {}]
  /\ paged = {}

-----------------------------------------------------------------------------
LiveSignals(k) ==
  {x \in DOMAIN signals : signals[x].control = k /\ signals[x].state \in LiveStates}
Undetected == {k \in Controls : bypass[k] = "none"}

Greatest(a, b) == IF "critical" \in {a, b} THEN "critical" ELSE "high"

\* sor.record_drift: the live signal of the control, never less severe, or a new one.
RecordDrift(k) ==
  IF LiveSignals(k) = {}
  THEN [x \in DOMAIN signals \cup {Cardinality(DOMAIN signals) + 1} |->
          IF x \in DOMAIN signals THEN signals[x]
          ELSE [control |-> k, severity |-> bypass[k], state |-> "open", resolvedAt |-> FALSE]]
  ELSE [x \in DOMAIN signals |->
          IF x \in LiveSignals(k)
          THEN [signals[x] EXCEPT !.severity = Greatest(@, bypass[k])] ELSE signals[x]]

\* detect_control_bypass, of the one control that is bypassed.
Detected(k) == bypass[k] # "none" /\ signals' = RecordDrift(k)

RoomFor(k) == LiveSignals(k) # {} \/ Cardinality(DOMAIN signals) < MaxSignals

\* Variant: only a signal this scan has opened.
ToPageNew(k) == {x \in DOMAIN signals' \ DOMAIN signals : signals'[x].severity = "critical"}

\* _CRITICAL_BYPASS_SQL: critical, open, seen by this scan.
ToPage(k) == {x \in DOMAIN signals' :
  /\ signals'[x].control = k /\ signals'[x].severity = "critical" /\ signals'[x].state = "open"}

\* drift_scan_once, of a control.
Scan(s) ==
  /\ scanning[s] = {}
  /\ \E k \in Controls :
       /\ RoomFor(k) /\ Detected(k)
       /\ scanning' = [scanning EXCEPT ![s] = ToPage(k)]
  /\ UNCHANGED <<bypass, paged>>

Publish(s) ==
  /\ scanning[s] # {}
  /\ paged' = paged \cup scanning[s]
  /\ scanning' = [scanning EXCEPT ![s] = {}]
  /\ UNCHANGED <<bypass, signals>>

\* The topic is not set, the publication raises and is logged, or the process dies.
PublishFails(s) ==
  /\ scanning[s] # {}
  /\ scanning' = [scanning EXCEPT ![s] = {}]
  /\ UNCHANGED <<bypass, signals, paged>>

\* The drift_scan tool.
AgentScan ==
  /\ \E k \in Controls : RoomFor(k) /\ Detected(k)
  /\ UNCHANGED <<bypass, scanning, paged>>

\* drift_triage of an agent, and triage of the console, which alone resolves: any state to
\* any other, stopped by the unique index when the control has another live signal.
Triage(resolve) == \E x \in DOMAIN signals, state \in DriftStates :
  /\ resolve = (state = "resolved")
  /\ state \in LiveStates => LiveSignals(signals[x].control) \subseteq {x}
  /\ signals' = [signals EXCEPT ![x].state = state, ![x].resolvedAt = @ \/ resolve]
  /\ UNCHANGED <<bypass, scanning, paged>>

\* The observations of the look-back window change.
Observe == \E k \in Controls, severity \in Severities \cup {"none"} :
  /\ bypass' = [bypass EXCEPT ![k] = severity]
  /\ UNCHANGED <<signals, scanning, paged>>

DriftNext ==
  \/ Observe \/ AgentScan \/ Triage(FALSE) \/ Triage(TRUE)
  \/ \E s \in Scanners : Scan(s) \/ Publish(s) \/ PublishFails(s)

DriftSpec == DriftInit /\ [][DriftNext]_driftVars

-----------------------------------------------------------------------------
(* Properties.                                                             *)

\* A critical bypass that stays open is paged, although publications fail and an agent's
\* scan may have recorded it, or made it critical, without alerting; unless the bypass goes
\* away first, or somebody triages it: the alert wants state = 'open', so a signal already
\* triaged that turns critical pages nobody.
CriticalPaged == \A x \in 1..MaxSignals :
  /\ x \in DOMAIN signals
  /\ signals[x].severity = "critical" /\ signals[x].state = "open"
  ~> \/ x \in paged
     \/ x \in DOMAIN signals /\ signals[x].state # "open"
     \/ x \in DOMAIN signals /\ signals[x].control \in Undetected
=============================================================================
