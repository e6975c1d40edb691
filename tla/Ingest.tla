------------------------------- MODULE Ingest -------------------------------
(***************************************************************************)
(* The ingest route over the incident store: a life-safety trigger raises  *)
(* or corroborates a pre-alert, the request then awaits storeEvidence, and *)
(* only afterwards fuses the observation and binds the alert to the        *)
(* incident (app/api/v1/ingest/observation/route.ts and                    *)
(* lib/store/prealerts.ts).  Understanding passes and operators clear the  *)
(* alerts of an incident; rulings on uploads, which raise none, and the    *)
(* removal of a source go on beside them.                                  *)
(*                                                                         *)
(* The reports modelled carry media: without media the route has no await  *)
(* between the alert and the fusion.  An alert is identified with the      *)
(* report that raised it, and a report without a position raises none.     *)
(* openPreAlerts hides alerts older than 30 minutes; that cap on a read,   *)
(* like the limit of eight, is not modelled.                               *)
(***************************************************************************)
EXTENDS Incidents

CONSTANTS
  LifeSafety,  \* reports whose situation the catalogue marks life_safety
  Trigger,     \* Trigger[r]: the trigger r's situation fires on
  Box,         \* Box[r]: reports less than 0.003 degrees from r in both axes
  AlertWindow, \* how old a detection may be and still be corroborated (120 s)
  MaxTime      \* bound on the clock

ASSUME AlertAssumption ==
  /\ LifeSafety \subseteq Report
  /\ Trigger \in [Report -> STRING]
  /\ Box \in [Report -> SUBSET Report]
  /\ \A r, s \in Report : r \in Box[s] <=> s \in Box[r]
  /\ AlertWindow \in Nat
  /\ MaxTime \in Nat
  /\ \A r \in Report : r.t \in 0..MaxTime

VARIABLES
  requests, \* the ingest request of each report
  alerts,   \* the pre_alerts table, a row per report that raised one
  unswept,  \* history: incidents whose pass died between storing and superseding
  now

ingestVars == <<vars, requests, alerts, unswept, now>>

Phase == {"unsent", "storing", "done", "failed"}

Alert == [raised : 0..MaxTime, incident : Report \cup {None}, superseded : BOOLEAN,
          corroborating : 1..Cardinality(Report)]

-----------------------------------------------------------------------------
(* raisePreAlert *)

\* open alerts of the same trigger whose detection is inside the window
Recent(r) ==
  {p \in DOMAIN alerts : /\ Trigger[p] = Trigger[r]
                         /\ ~alerts[p].superseded
                         /\ p.t > now - AlertWindow}

\* Mutant of Nearby: only another device's alert is corroborated.
NearbyOfOthers(r) == {p \in Recent(r) \cap Box[r] : p.of.source # r.of.source}

Nearby(r) == Recent(r) \cap Box[r]

Newest(S) == {p \in S : \A q \in S : alerts[p].raised >= alerts[q].raised}

Corroborate(r, p) ==
  alerts' = [alerts EXCEPT ![p].corroborating = IF p.of.source # r.of.source THEN @ + 1 ELSE @]

\* the count of a new alert is of other open alerts, wherever they are
Raise(r) ==
  LET n == Cardinality({p.of.source : p \in Recent(r)})
  IN  alerts' = [p \in DOMAIN alerts \cup {r} |->
                   IF p = r
                   THEN [raised |-> now, incident |-> None, superseded |-> FALSE,
                         corroborating |-> IF n > 1 THEN n ELSE 1]
                   ELSE alerts[p]]

Awaits(r, p) == requests' = [requests EXCEPT ![r] = [phase |-> "storing", alert |-> p]]

\* the route up to the await of storeEvidence
Post(r) ==
  /\ r \notin Ruling /\ requests[r].phase = "unsent"
  /\ r.t <= now
  /\ \/ r \notin LifeSafety /\ Awaits(r, None) /\ UNCHANGED alerts
     \/ \E p \in Newest(Nearby(r)) : r \in LifeSafety /\ Awaits(r, p) /\ Corroborate(r, p)
     \/ r \in LifeSafety /\ Nearby(r) = {} /\ Awaits(r, r) /\ Raise(r)
  /\ UNCHANGED <<vars, unswept, now>>

-----------------------------------------------------------------------------
(* the route after the await *)

\* bindPreAlert overwrites whatever the alert was bound to
Bound(r, i) ==
  IF requests[r].alert = None THEN alerts
  ELSE [alerts EXCEPT ![requests[r].alert].incident = i]

\* ingestObservation, recordTrigger and bindPreAlert
Fuse(r) ==
  /\ requests[r].phase = "storing"
  /\ RecordTrigger(r)
  /\ requests' = [requests EXCEPT ![r].phase = "done"]
  /\ alerts' = Bound(r, incidentOf'[r.of])
  /\ UNCHANGED <<unswept, now>>

\* storeEvidence throws, the upload is cut off, or the source was removed meanwhile:
\* the alert stays as it is
StoreFails(r) ==
  /\ requests[r].phase = "storing"
  /\ requests' = [requests EXCEPT ![r].phase = "failed"]
  /\ UNCHANGED <<vars, alerts, unswept, now>>

Lost == [r \in Report |-> IF requests[r].phase = "storing"
                          THEN [requests[r] EXCEPT !.phase = "failed"] ELSE requests[r]]

\* the process dies after the observation was attached
FuseCut(r) ==
  /\ requests[r].phase = "storing"
  /\ RecordTriggerCut(r)
  /\ requests' = Lost
  /\ UNCHANGED <<alerts, unswept, now>>

-----------------------------------------------------------------------------
(* supersedePreAlert *)

\* Mutant of Superseded: only the alert raised by the founding report is cleared.
SupersededFounder(i) ==
  [p \in DOMAIN alerts |->
     IF alerts[p].incident = i /\ p = i THEN [alerts[p] EXCEPT !.superseded = TRUE] ELSE alerts[p]]

Superseded(i) ==
  [p \in DOMAIN alerts |->
     IF alerts[p].incident = i THEN [alerts[p] EXCEPT !.superseded = TRUE] ELSE alerts[p]]

Finish(k) ==
  /\ \E claim \in Claim, amp \in Amp :
       FinishRun(k, claim, amp)
  /\ alerts' = Superseded(runs[k].incident)
  /\ unswept' = unswept \ {runs[k].incident}
  /\ UNCHANGED <<requests, now>>

FinishCut(k) ==
  /\ \E claim \in Claim, amp \in Amp :
       FinishRunCut(k, claim, amp)
  /\ requests' = Lost
  /\ \/ alerts' = Superseded(runs[k].incident) /\ UNCHANGED unswept
     \/ unswept' = unswept \cup {runs[k].incident} /\ UNCHANGED alerts
  /\ UNCHANGED now

\* POST /pre-alerts, for an alert resolved off-platform
Clear(i) ==
  /\ alerts' = Superseded(i)
  /\ UNCHANGED <<vars, requests, unswept, now>>

-----------------------------------------------------------------------------
(* What else reaches the store: adjudicate and deleteSource *)

Elsewhere == UNCHANGED <<requests, alerts, unswept, now>>

Rule(r) ==
  /\ r \in Ruling
  /\ \/ (RecordTrigger(r) \/ RuleOut(r)) /\ UNCHANGED requests
     \/ (RecordTriggerCut(r) \/ RulingCut(r)) /\ requests' = Lost
  /\ UNCHANGED <<alerts, unswept, now>>

Remove(source) == RemoveSource(source) /\ Elsewhere

-----------------------------------------------------------------------------
Tick ==
  /\ now < MaxTime
  /\ now' = now + 1
  /\ UNCHANGED <<vars, requests, alerts, unswept>>

IngestInit ==
  /\ Init
  /\ requests = [r \in Report |-> [phase |-> "unsent", alert |-> None]]
  /\ alerts = [p \in {} |-> [raised |-> 0, incident |-> None, superseded |-> FALSE,
                             corroborating |-> 1]]
  /\ unswept = {}
  /\ now = 0

IngestNext ==
  \/ \E r \in Report : Post(r) \/ Fuse(r) \/ StoreFails(r) \/ FuseCut(r) \/ Rule(r)
  \/ \E source \in Source : Remove(source)
  \/ \E k \in Run : Finish(k) \/ FinishCut(k)
  \/ \E k \in Run : \/ \E i \in DOMAIN incidents : StartRun(k, i) /\ Elsewhere
                    \/ FailRun(k) /\ Elsewhere
  \/ \E i \in DOMAIN incidents : Operate(i) /\ Elsewhere
  \/ \E i \in DOMAIN incidents : Clear(i)
  \/ Restart /\ requests' = Lost /\ UNCHANGED <<alerts, unswept, now>>
  \/ Tick

IngestSpec == IngestInit /\ [][IngestNext]_ingestVars

-----------------------------------------------------------------------------
(* Properties *)

\* raisePreAlert, "the same event seen twice raises one alert": two open banners of
\* one trigger in one place are at least a window apart, whichever device raised
\* them, however long their requests then waited and whoever was cleared between.
OneBannerPerEvent ==
  \A p, q \in DOMAIN alerts :
    p # q /\ ~alerts[p].superseded /\ ~alerts[q].superseded
      /\ Trigger[p] = Trigger[q] /\ p \in Box[q]
    => \/ p.t + AlertWindow <= alerts[q].raised
       \/ q.t + AlertWindow <= alerts[p].raised

\* bindPreAlert after the await and supersedePreAlert: the incident an alert names was
\* given an observation that was reported into that very alert, also after a second
\* report rebound it, after its request failed, after a crash in between and after the
\* source was removed; and a banner still open over an incident that has a package is
\* news, some report of it came later.
AlertsAreTrue ==
  \A p \in DOMAIN alerts : alerts[p].incident # None =>
    LET i == alerts[p].incident
        reported == {r \in Report : requests[r].alert = p /\ r.of \in held[i]}
    IN  /\ reported # {}
        /\ ~alerts[p].superseded /\ i \notin unswept /\ incidents[i].package # None =>
             \E r \in reported : r.of \notin incidents[i].package.seen

=============================================================================
