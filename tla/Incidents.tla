----------------------------- MODULE Incidents -----------------------------
(***************************************************************************)
(* The incident store: deterministic fusion of triggers into incidents,    *)
(* severity, the operator's actions, the understanding passes that run     *)
(* beside them, and the removal of a source with its observations          *)
(* (lib/store/incidents.ts, observations.ts and sources.ts, the trigger of *)
(* lib/store/uploads.ts, and lib/reasoning/pipeline.ts).                   *)
(*                                                                         *)
(* better-sqlite3 is synchronous and the server is one process, so the     *)
(* statements between two awaits are one step.  What does interleave is    *)
(* an understanding pass, which reads the incident, awaits four model      *)
(* calls and only then writes; and a process death, which can fall between *)
(* two statements that share no transaction (the *Cut actions).            *)
(*                                                                         *)
(* A Report is a call of recordTrigger for an observation.  The ingest     *)
(* route makes one for a row it has just inserted.  adjudicate makes one   *)
(* for the observation of an upload and marks the ruling afterwards, in no *)
(* transaction with it: after a death between the two the ruling is given  *)
(* again, for an observation that has an incident already.                 *)
(* An incident is identified with the report that founded it: its domain,  *)
(* situation, h3 cell, zone and detected_at columns are inserted from that *)
(* report and no statement updates them.                                   *)
(***************************************************************************)
EXTENDS Integers, FiniteSets, FiniteSetsExt

CONSTANTS
  Observation, \* rows of the observations table, each a record of its own
  Report,   \* calls of recordTrigger that may be made, each for an observation
  Ruling,   \* those adjudicate makes, for the observation of an upload
  Run,      \* understanding passes that may be in flight at once
  None,
  Domain,   \* Domain[r]: domain of the situation r reports
  Disk,     \* Disk[r]: reports whose cell lies in gridDisk(h3 of r, 1)
  Window,   \* Window[r]: fusion window for the sync quality of r's source
  Amp,      \* amplifier levels a context pass may return
  NoAmp,    \* the level used before any pass has run
  Full,     \* the head count at which the population component saturates
  Band,     \* Band[i][n][a]: band of an incident founded by i, n people, amplifier a
  Claim,    \* sets of observations a model's claim may cite
  MaxActions \* bound: rows operators may add to incident_actions

\* INFO = 0, LOW = 1, MEDIUM = 2, HIGH = 3, CRITICAL = 4
Priority == 0..4

ASSUME ReportAssumption ==
  /\ None \notin Report
  /\ \A r \in Report : r.of \in Observation /\ r.t \in Int /\ r.affected \in 1..Full
ASSUME RulingAssumption ==
  /\ Ruling \subseteq Report
  /\ \A r, s \in Report : r.of = s.of /\ r # s => r \in Ruling /\ s \in Ruling
ASSUME FusionAssumption ==
  /\ Window \in [Report -> Nat]
  /\ Disk \in [Report -> SUBSET Report]
  /\ \A r, s \in Report : r \in Disk[s] <=> s \in Disk[r]
  /\ \A r \in Report : r \in Disk[r]
ASSUME SeverityAssumption ==
  /\ Full \in Nat \ {0}
  /\ NoAmp \in Amp
  /\ Band \in [Report -> [1..Full -> [Amp -> Priority]]]
ASSUME ClaimAssumption == Claim \subseteq SUBSET Observation
ASSUME BoundAssumption == MaxActions \in Nat

VARIABLES
  incidentOf, \* observations.incident_id, None also when there is no such row
  settled,    \* observations no trigger will be recorded for any more
  incidents,  \* the incidents table, a row per founding report
  actions,    \* number of rows of incident_actions
  runs,       \* what each understanding pass in flight has read
  everClosed, \* history: incidents that were resolved or dismissed at some time
  held,       \* history: the observations each incident ever had
  unscored    \* history: incidents whose evidence or package changed since their rescore

vars == <<incidentOf, settled, incidents, actions, runs, everClosed, held, unscored>>

-----------------------------------------------------------------------------
(* Rows *)

Status == {"detected", "corroborated", "understood", "dispatched",
           "acknowledged", "resolved", "verified"}

Package == [seen : SUBSET Observation, cites : SUBSET Observation, amp : Amp]

ASSUME PackageAssumption == None \notin Package

\* deadline: department and sla_due_at are set
Row == [status : Status, priority : Priority, corroboration : -1..3,
        acknowledged : BOOLEAN, dismissed : BOOLEAN,
        deadline : BOOLEAN, package : Package \cup {None}]

Idle == [incident |-> None, seen |-> {}]

NewRow == [status |-> "detected", priority |-> 0, corroboration |-> 0,
           acknowledged |-> FALSE, dismissed |-> FALSE,
           deadline |-> FALSE, package |-> None]

Attached(i) == {o \in Observation : incidentOf[o] = i}

\* Mutant of Open: the filter forgets the dismissal.
OpenIgnoringDismissal(i) == incidents[i].status \notin {"resolved", "verified"}

Open(i) == incidents[i].status \notin {"resolved", "verified"} /\ ~incidents[i].dismissed

-----------------------------------------------------------------------------
(* Fusion *)

Distance(r, s) == IF r.t < s.t THEN s.t - r.t ELSE r.t - s.t

\* Mutant of Candidates: a strict comparison at the edge of the window.
CandidatesStrict(r) ==
  {i \in DOMAIN incidents : /\ Domain[i] = Domain[r]
                            /\ Open(i)
                            /\ Distance(i, r) < Window[r]
                            /\ i \in Disk[r]}

Candidates(r) ==
  {i \in DOMAIN incidents : /\ Domain[i] = Domain[r]
                            /\ Open(i)
                            /\ Distance(i, r) <= Window[r]
                            /\ i \in Disk[r]}

\* ORDER BY ABS(detected_at - t) LIMIT 1 leaves the choice among ties open
Nearest(r) == {i \in Candidates(r) : \A j \in Candidates(r) : Distance(i, r) <= Distance(j, r)}

-----------------------------------------------------------------------------
(* Severity *)

People == [o \in Observation |-> o.people]

\* SUM over the attached observations, at least one, saturating at Full
Counted(S) ==
  LET n == SumFunctionOnSet(People, S)
  IN  IF n \in 1..Full THEN n ELSE IF n > Full THEN Full ELSE 1

\* thirds of the corroboration column: distinct sources beyond the first, at most 3,
\* and below zero when no observation is left
Corroboration(S) ==
  LET n == Cardinality({o.source : o \in S})
  IN  IF n \in 0..3 THEN n - 1 ELSE 3

AmpOf(row) == IF row.package = None THEN NoAmp ELSE row.package.amp

Rescored(row, i, S, affected) ==
  [row EXCEPT !.priority = Band[i][affected][AmpOf(row)],
              !.corroboration = Corroboration(S)]

-----------------------------------------------------------------------------
(* recordTrigger *)

\* the incident an observation is taken from, which nothing rescores
Left(r, i) == {incidentOf[r.of]} \ {None, i}

Attach(r, i) ==
  /\ incidentOf' = [incidentOf EXCEPT ![r.of] = i]
  /\ held' = [held EXCEPT ![i] = @ \cup {r.of}]

\* Mutant of Join: the observation is attached and the incident not rescored.
JoinUnscored(r, i) ==
  /\ Attach(r, i)
  /\ unscored' = (unscored \cup Left(r, i)) \ {i}
  /\ UNCHANGED incidents

Join(r, i) ==
  LET S == Attached(i) \cup {r.of}
  IN  /\ Attach(r, i)
      /\ incidents' = [incidents EXCEPT ![i] = Rescored(@, i, S, Counted(S))]
      /\ unscored' = (unscored \cup Left(r, i)) \ {i}

Inserted(r, row) ==
  incidents' = [i \in DOMAIN incidents \cup {r} |-> IF i = r THEN row ELSE incidents[i]]

\* each row of incidents is another report's: what founds again is another call
Create(r) ==
  /\ Candidates(r) = {} /\ r \notin DOMAIN incidents
  /\ Attach(r, r)
  /\ Inserted(r, Rescored(NewRow, r, {r.of}, r.affected))
  /\ unscored' = unscored \cup Left(r, r)

Fused(r) == Create(r) \/ \E i \in Nearest(r) : Join(r, i)

\* and for a ruling the update of the detection, which no later ruling passes
RecordTrigger(r) ==
  /\ r.of \notin settled
  /\ Fused(r)
  /\ settled' = settled \cup {r.of}
  /\ UNCHANGED <<actions, runs, everClosed>>

Forgotten == [k \in Run |-> Idle]

\* the process dies after the observation was attached and before rescore
RecordTriggerCut(r) ==
  /\ r.of \notin settled
  /\ \/ \E i \in Nearest(r) : /\ Attach(r, i)
                              /\ unscored' = unscored \cup Left(r, i) \cup {i}
                              /\ UNCHANGED incidents
     \/ /\ Candidates(r) = {} /\ r \notin DOMAIN incidents
        /\ Attach(r, r)
        /\ Inserted(r, NewRow)
        /\ unscored' = unscored \cup Left(r, r) \cup {r}
  /\ settled' = IF r \in Ruling THEN settled ELSE settled \cup {r.of}
  /\ runs' = Forgotten
  /\ UNCHANGED <<actions, everClosed>>

\* the process dies after recordTrigger and before the detection is updated
RulingCut(r) ==
  /\ r \in Ruling /\ r.of \notin settled
  /\ Fused(r)
  /\ runs' = Forgotten
  /\ UNCHANGED <<settled, actions, everClosed>>

\* the ruling is a rejection: it leaves the incident of a confirmation cut off before
RuleOut(r) ==
  /\ r \in Ruling /\ r.of \notin settled
  /\ settled' = settled \cup {r.of}
  /\ UNCHANGED <<incidentOf, incidents, actions, runs, everClosed, held, unscored>>

-----------------------------------------------------------------------------
(* deleteSource *)

Source == {o.source : o \in Observation}

\* the rows cascade and no incident is rescored; an observation not attached yet may
\* come again under the source, registered anew
RemoveSource(source) ==
  LET gone == {o \in Observation : o.source = source /\ incidentOf[o] # None}
  IN  /\ incidentOf' = [o \in Observation |-> IF o \in gone THEN None ELSE incidentOf[o]]
      /\ settled' = settled \cup gone
      /\ unscored' = unscored \cup {incidentOf[o] : o \in gone}
      /\ UNCHANGED <<incidents, actions, runs, everClosed, held>>

-----------------------------------------------------------------------------
(* applyAction *)

Write(i, row) ==
  /\ actions < MaxActions
  /\ actions' = actions + 1
  /\ incidents' = [incidents EXCEPT ![i] = row]
  /\ UNCHANGED <<incidentOf, settled, runs, held, unscored>>

Ack(i) ==
  /\ Write(i, [incidents[i] EXCEPT
       !.acknowledged = TRUE,
       !.status = IF @ \in {"detected", "corroborated", "understood", "dispatched"}
                  THEN "acknowledged" ELSE @])
  /\ UNCHANGED everClosed

\* routeIncident reads no status: a closed incident is dispatched like any other
Dispatch(i) ==
  /\ Write(i, [incidents[i] EXCEPT !.status = "dispatched", !.deadline = TRUE])
  /\ UNCHANGED everClosed

\* Mutant of Escalate: the index moves the other way.
EscalateDown(i) ==
  /\ Write(i, [incidents[i] EXCEPT !.priority = IF @ > 0 THEN @ - 1 ELSE 0])
  /\ UNCHANGED everClosed

Escalate(i) ==
  /\ Write(i, [incidents[i] EXCEPT !.priority = IF @ < 4 THEN @ + 1 ELSE 4])
  /\ UNCHANGED everClosed

Resolve(i) ==
  /\ Write(i, [incidents[i] EXCEPT !.status = "resolved", !.acknowledged = TRUE])
  /\ everClosed' = everClosed \cup {i}

Dismiss(i) ==
  /\ Write(i, [incidents[i] EXCEPT !.dismissed = TRUE])
  /\ everClosed' = everClosed \cup {i}

-----------------------------------------------------------------------------
(* runPipeline: one step up to the first await, one step from the last *)

StartRun(k, i) ==
  /\ runs[k].incident = None
  /\ runs' = [runs EXCEPT ![k] = [incident |-> i, seen |-> Attached(i)]]
  /\ UNCHANGED <<incidentOf, settled, incidents, actions, everClosed, held, unscored>>

\* a model call throws: nothing of the incident is written
FailRun(k) ==
  /\ runs[k].incident # None
  /\ runs' = [runs EXCEPT ![k] = Idle]
  /\ UNCHANGED <<incidentOf, settled, incidents, actions, everClosed, held, unscored>>

\* validateClaims: a claim naming an id outside the evidence set is dropped whole
Kept(claim, seen) == IF claim \subseteq seen THEN claim ELSE {}

\* the guard's verdict and the package's own severity are stored too and read by
\* no later step of the store
Built(k, claim, amp) ==
  [seen |-> runs[k].seen, cites |-> Kept(claim, runs[k].seen), amp |-> amp]

Stored(row, package) ==
  [row EXCEPT !.package = package,
              !.status = IF @ = "corroborated" THEN "understood" ELSE @]

FinishRun(k, claim, amp) ==
  LET i   == runs[k].incident
      row == Stored(incidents[i], Built(k, claim, amp))
  IN  /\ runs[k].incident # None
      /\ incidents' = [incidents EXCEPT ![i] =
                         Rescored(row, i, Attached(i), Counted(Attached(i)))]
      /\ runs' = [runs EXCEPT ![k] = Idle]
      /\ unscored' = unscored \ {i}
      /\ UNCHANGED <<incidentOf, settled, actions, everClosed, held>>

\* the process dies after storePackage and before rescore
FinishRunCut(k, claim, amp) ==
  LET i == runs[k].incident
  IN  /\ runs[k].incident # None
      /\ incidents' = [incidents EXCEPT ![i] =
                         Stored(@, Built(k, claim, amp))]
      /\ runs' = Forgotten
      /\ unscored' = unscored \cup {i}
      /\ UNCHANGED <<incidentOf, settled, actions, everClosed, held>>

\* the process dies between requests: the passes in flight are gone
Restart ==
  /\ runs' = Forgotten
  /\ UNCHANGED <<incidentOf, settled, incidents, actions, everClosed, held, unscored>>

-----------------------------------------------------------------------------
Init ==
  /\ incidentOf = [o \in Observation |-> None]
  /\ settled = {}
  /\ incidents = [i \in {} |-> NewRow]
  /\ actions = 0
  /\ runs = Forgotten
  /\ everClosed = {}
  /\ held = [i \in Report |-> {}]
  /\ unscored = {}

Triggered(r) == RecordTrigger(r) \/ RecordTriggerCut(r) \/ RulingCut(r) \/ RuleOut(r)

Operate(i) == Ack(i) \/ Dispatch(i) \/ Escalate(i) \/ Resolve(i) \/ Dismiss(i)

Understand(k) ==
  \/ \E i \in DOMAIN incidents : StartRun(k, i)
  \/ FailRun(k)
  \/ \E claim \in Claim, amp \in Amp :
       \/ FinishRun(k, claim, amp)
       \/ FinishRunCut(k, claim, amp)

Next ==
  \/ \E r \in Report : Triggered(r)
  \/ \E source \in Source : RemoveSource(source)
  \/ \E i \in DOMAIN incidents : Operate(i)
  \/ \E k \in Run : Understand(k)
  \/ Restart

Spec == Init /\ [][Next]_vars

-----------------------------------------------------------------------------
(* Properties *)

\* The columns hold what the code may write to them, a pass in flight names an
\* existing incident, and the history sets name incidents.
TypeOK ==
  /\ DOMAIN incidents \subseteq Report
  /\ incidentOf \in [Observation -> DOMAIN incidents \cup {None}]
  /\ settled \subseteq Observation
  /\ incidents \in [DOMAIN incidents -> Row]
  /\ actions \in 0..MaxActions
  /\ runs \in [Run -> [incident : DOMAIN incidents \cup {None}, seen : SUBSET Observation]]
  /\ everClosed \subseteq DOMAIN incidents
  /\ held \in [Report -> SUBSET Observation]
  /\ unscored \subseteq DOMAIN incidents

\* What the properties below rest on.  An observation is where its incident has it,
\* and one a device sent is new to every incident when its trigger is recorded; a
\* pass in flight has read only what its incident had; and an incident
\* findCandidateIncident skips is one an operator closed.
Ruled == {r.of : r \in Ruling}

\* nothing but the removal of its source, or a ruling given again, takes an
\* observation from its incident
StillThere(o, i) ==
  \/ incidentOf[o] = i
  \/ incidentOf[o] = None /\ o \in settled
  \/ o \in Ruled

HeldIsAttached ==
  /\ \A o \in Observation : incidentOf[o] # None => o \in held[incidentOf[o]]
  /\ \A i \in Report : \A o \in held[i] : i \in DOMAIN incidents /\ StillThere(o, i)
  /\ \A r \in Report \ Ruling : r.of \notin settled => \A i \in Report : r.of \notin held[i]

PassesReadHeld ==
  \A k \in Run : runs[k].incident # None => runs[k].seen \subseteq held[runs[k].incident]

ClosedIsRemembered == \A i \in DOMAIN incidents : Open(i) \/ i \in everClosed

\* Two reports that either source's window puts in one event.
SameEvent(i, j) ==
  /\ Domain[i] = Domain[j]
  /\ i \in Disk[j]
  /\ Distance(i, j) <= Window[i]
  /\ Distance(i, j) <= Window[j]

\* findCandidateIncident: whatever the order of arrival, two incidents that were
\* never closed are two events.  A report may arrive late, be nearest to another
\* incident, or follow one that was closed and dispatched again; a ruling may be given
\* twice; a crash between the insert and the rescore must not leave a second incident.
NoTwinIncidents ==
  \A i, j \in DOMAIN incidents \ everClosed : i # j => ~SameEvent(i, j)

\* An incident one call founded and nothing has touched since is scored on the head
\* count that call reported.
Untouched(i) == held[i] = {i.of} /\ incidents[i].package = None

\* rescore: the corroboration column counts the distinct sources attached now, and the
\* band is at least the one today's evidence gives, the head count of every attached
\* report and the amplifiers of the stored package.  Left out are the incidents nobody
\* rescores until they are touched again: after a death before the rescore, after
\* the source of an observation was removed, after a second ruling took one away.
ScoreIsCurrent ==
  \A i \in DOMAIN incidents \ unscored :
    /\ incidents[i].corroboration = Corroboration(Attached(i))
    /\ \/ incidents[i].priority >= Band[i][Counted(Attached(i))][AmpOf(incidents[i])]
       \/ Untouched(i) /\ incidents[i].priority >= Band[i][i.affected][AmpOf(incidents[i])]

\* storePackage: a package that finishes after reports joined, after the incident was
\* closed or after another pass stored its own cites only observations that pass read,
\* and those are still the incident's unless their source was removed or a ruling was
\* given twice.
CitationsResolve ==
  \A i \in DOMAIN incidents :
    incidents[i].package # None =>
      /\ incidents[i].package.cites \subseteq incidents[i].package.seen
      /\ \A o \in incidents[i].package.seen : o \in held[i] /\ StillThere(o, i)

\* recordTrigger: once its trigger is recorded an observation changes its incident
\* only by vanishing with its source, and an incident closed at the time gains none,
\* whichever report, ruling or pass is late.
GainStep ==
  \A o \in Observation : incidentOf'[o] # incidentOf[o] =>
    \/ incidentOf'[o] = None /\ o \in settled'
    \/ /\ o \notin settled
       /\ incidentOf'[o] \in DOMAIN incidents =>
            /\ incidents[incidentOf'[o]].status # "resolved"
            /\ ~incidents[incidentOf'[o]].dismissed

ClosedGainNothing == [][GainStep]_vars

\* rescore: a band an operator raised falls only when evidence is scored, an
\* observation whose trigger is being recorded or a package that was stored; no action
\* of an operator, no restart and nothing that happens to another incident lowers it.
OnlyEvidenceLowersPriority ==
  [][\A i \in DOMAIN incidents : incidents'[i].priority < incidents[i].priority =>
       \/ incidents'[i].package # None /\ \E k \in Run : runs[k].incident = i /\ runs'[k] = Idle
       \/ actions' = actions /\ \E o \in Observation \ settled : incidentOf'[o] = i]_vars

-----------------------------------------------------------------------------
(* The store and the register *)

Reached == [r \in Report |-> {i \in Report : /\ Domain[i] = Domain[r]
                                             /\ i \in Disk[r]
                                             /\ Distance(i, r) <= Window[r]}]
Members == [i \in DOMAIN incidents |-> Attached(i)]
Held == [i \in DOMAIN incidents |-> held[i]]
StateOf(row) == IF row.dismissed THEN "dismissed"
                ELSE IF row.status \in {"resolved", "verified"} THEN "resolved" ELSE "open"
States == [i \in DOMAIN incidents |-> StateOf(incidents[i])]
CitedBy(row) == IF row.package = None THEN {} ELSE row.package.cites
Cited == [i \in DOMAIN incidents |-> CitedBy(incidents[i])]

Register == INSTANCE IncidentRegister
  WITH Reach <- Reached, members <- Members, history <- Held, state <- States, cited <- Cited

\* recordTrigger, applyAction, deleteSource and runPipeline together: whatever the
\* interleaving of passes with reports and operators, and wherever a death falls, an
\* observer of the register sees an observation filed once in an incident that admitted
\* it, moved only by a ruling given again and taken out only with its source, dismissals
\* that are for good, and understandings of observations the incident has had.
ImplementsRegister == Register!RegisterSpec
=============================================================================
