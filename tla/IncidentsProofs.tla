-------------------------- MODULE IncidentsProofs --------------------------
(***************************************************************************)
(* Theorems about Incidents, for every set of reports, every fusion window *)
(* and every number of passes in flight; that the store implements the     *)
(* register of IncidentRegister; and about Ingest: that the route with its *)
(* alerts is still that store, that an event has one banner, and that an   *)
(* alert names an incident that was given what it reported.                *)
(***************************************************************************)
EXTENDS Ingest, TLAPS

-----------------------------------------------------------------------------
(* The values the helpers return *)

\* Counted is a head count whatever the sum over the observations is.
LEMMA CountedType == ASSUME NEW S PROVE Counted(S) \in 1..Full
  <1> DEFINE n == SumFunctionOnSet(People, S)
  <1> HIDE DEF n
  <1>1. (IF n \in 1..Full THEN n ELSE IF n > Full THEN Full ELSE 1) \in 1..Full
    BY SeverityAssumption
  <1> QED BY <1>1 DEF Counted, n

\* Corroboration stays inside the column's range.
LEMMA CorroborationType == ASSUME NEW S PROVE Corroboration(S) \in -1..3
  <1> DEFINE n == Cardinality({o.source : o \in S})
  <1> HIDE DEF n
  <1>1. (IF n \in 0..3 THEN n - 1 ELSE 3) \in -1..3
    OBVIOUS
  <1> QED BY <1>1 DEF Corroboration, n

\* The amplifiers of a row are a level of Amp.
LEMMA AmpType == ASSUME NEW row \in Row PROVE AmpOf(row) \in Amp
  BY SeverityAssumption DEF AmpOf, Row, Package

\* Rescoring a row gives a row.
LEMMA RescoredType ==
  ASSUME NEW row \in Row, NEW i \in Report, NEW S, NEW n \in 1..Full
  PROVE  /\ Rescored(row, i, S, n) \in Row
         /\ Rescored(row, i, S, n).priority = Band[i][n][AmpOf(row)]
         /\ Rescored(row, i, S, n).corroboration = Corroboration(S)
         /\ Rescored(row, i, S, n).package = row.package
         /\ Rescored(row, i, S, n).status = row.status
         /\ Rescored(row, i, S, n).dismissed = row.dismissed
  <1>1. Band[i][n][AmpOf(row)] \in Priority
    BY AmpType, SeverityAssumption
  <1> QED BY <1>1, CorroborationType DEF Rescored, Row

\* A fresh row is a row and is open.
LEMMA NewRowType == /\ NewRow \in Row
                    /\ NewRow.package = None
                    /\ NewRow.status = "detected"
                    /\ NewRow.dismissed = FALSE
  BY DEF NewRow, Row, Status, Priority

\* The package a pass builds is one, and storing it gives a row.
LEMMA BuiltType ==
  ASSUME TypeOK, NEW k \in Run, runs[k].incident # None,
         NEW claim \in Claim, NEW amp \in Amp
  PROVE  /\ runs[k].incident \in DOMAIN incidents
         /\ Built(k, claim, amp) \in Package
         /\ Built(k, claim, amp).seen = runs[k].seen
         /\ Built(k, claim, amp).amp = amp
         /\ Built(k, claim, amp).cites \subseteq runs[k].seen
  <1>1. /\ runs[k].incident \in DOMAIN incidents
        /\ runs[k].incident \in Report
        /\ runs[k].seen \subseteq Observation
    BY DEF TypeOK
  <1>2. Kept(claim, runs[k].seen) \subseteq runs[k].seen
    BY DEF Kept
  <1> QED BY <1>1, <1>2 DEF Built, Package

LEMMA StoredType ==
  ASSUME NEW row \in Row, NEW package \in Package
  PROVE  /\ Stored(row, package) \in Row
         /\ Stored(row, package).package = package
         /\ Stored(row, package).dismissed = row.dismissed
         /\ row.status \in {"resolved", "verified"} <=>
              Stored(row, package).status \in {"resolved", "verified"}
  BY DEF Stored, Row, Status

-----------------------------------------------------------------------------
(* What a call of recordTrigger does, wherever it is cut off *)

Attaches(r, i) ==
  /\ r.of \notin settled
  /\ Attach(r, i)
  /\ settled' \in {settled, settled \cup {r.of}}
  /\ r \notin Ruling => settled' = settled \cup {r.of}
  /\ runs' \in {runs, Forgotten}
  /\ UNCHANGED <<actions, everClosed>>

Joins(r, i, row) ==
  LET S == Attached(i) \cup {r.of}
  IN  /\ i \in Nearest(r) /\ row \in Row
      /\ row.status = incidents[i].status /\ row.dismissed = incidents[i].dismissed
      /\ row.package = incidents[i].package
      /\ incidents' = [incidents EXCEPT ![i] = row]
      /\ \/ unscored' = unscored \cup Left(r, i) \cup {i}
         \/ /\ unscored' = (unscored \cup Left(r, i)) \ {i}
            /\ row.priority = Band[i][Counted(S)][AmpOf(row)] /\ row.corroboration = Corroboration(S)

Founds(r, row) ==
  /\ Candidates(r) = {} /\ r \notin DOMAIN incidents /\ row \in Row
  /\ row.status = "detected" /\ row.dismissed = FALSE /\ row.package = None
  /\ Inserted(r, row)
  /\ \/ unscored' = unscored \cup Left(r, r) \cup {r}
     \/ /\ unscored' = unscored \cup Left(r, r)
        /\ row.priority = Band[r][r.affected][AmpOf(row)] /\ row.corroboration = Corroboration({r.of})

Fuses(r, i, row) == Attaches(r, i) /\ (Joins(r, i, row) \/ (i = r /\ Founds(r, row)))

\* The observation joins an open incident or founds one, whichever statement was the last.
LEMMA TriggerShape ==
  ASSUME TypeOK, NEW r \in Report, RecordTrigger(r) \/ RecordTriggerCut(r) \/ RulingCut(r)
  PROVE  \E i \in Report, row \in Row : Fuses(r, i, row)
<1>1. ASSUME NEW i \in Nearest(r) PROVE i \in DOMAIN incidents /\ i \in Report /\ incidents[i] \in Row
  BY DEF Nearest, Candidates, TypeOK
<1>2. ASSUME Fused(r)
      PROVE  \E i \in Report, row \in Row : Attach(r, i) /\ (Joins(r, i, row) \/ (i = r /\ Founds(r, row)))
  <2>1. ASSUME NEW i \in Nearest(r), Join(r, i)
        PROVE  \E row \in Row : Attach(r, i) /\ Joins(r, i, row)
    <3> DEFINE S == Attached(i) \cup {r.of}
               new == Rescored(incidents[i], i, S, Counted(S))
    <3>1. /\ new \in Row /\ new.package = incidents[i].package
          /\ new.status = incidents[i].status /\ new.dismissed = incidents[i].dismissed
          /\ new.priority = Band[i][Counted(S)][AmpOf(incidents[i])] /\ new.corroboration = Corroboration(S)
      BY <1>1, RescoredType, CountedType
    <3>2. AmpOf(new) = AmpOf(incidents[i])
      BY <3>1 DEF AmpOf
    <3>3. Attach(r, i) /\ incidents' = [incidents EXCEPT ![i] = new] /\ unscored' = (unscored \cup Left(r, i)) \ {i}
      BY <2>1 DEF Join
    <3> HIDE DEF new
    <3> QED BY <3>1, <3>2, <3>3 DEF Joins
  <2>2. ASSUME Create(r) PROVE \E row \in Row : Attach(r, r) /\ Founds(r, row)
    <3> DEFINE new == Rescored(NewRow, r, {r.of}, r.affected)
    <3>1. /\ new \in Row /\ new.package = None /\ new.status = "detected" /\ new.dismissed = FALSE
          /\ new.priority = Band[r][r.affected][AmpOf(NewRow)] /\ new.corroboration = Corroboration({r.of})
      BY NewRowType, RescoredType, ReportAssumption
    <3>2. AmpOf(new) = AmpOf(NewRow)
      BY <3>1, NewRowType DEF AmpOf
    <3>3. /\ Attach(r, r) /\ Inserted(r, new) /\ unscored' = unscored \cup Left(r, r)
          /\ Candidates(r) = {} /\ r \notin DOMAIN incidents
      BY <2>2 DEF Create
    <3> HIDE DEF new
    <3> QED BY <3>1, <3>2, <3>3 DEF Founds
  <2> QED BY <1>1, <1>2, <2>1, <2>2 DEF Fused
<1>3. CASE RecordTrigger(r)
  <2>1. r.of \notin settled /\ settled' = settled \cup {r.of} /\ UNCHANGED <<actions, runs, everClosed>>
    BY <1>3 DEF RecordTrigger
  <2> QED BY <1>2, <1>3, <2>1 DEF RecordTrigger, Attaches, Fuses
<1>4. CASE RulingCut(r)
  <2>1. r.of \notin settled /\ r \in Ruling /\ runs' = Forgotten /\ UNCHANGED <<settled, actions, everClosed>>
    BY <1>4 DEF RulingCut
  <2> QED BY <1>2, <1>4, <2>1 DEF RulingCut, Attaches, Fuses
<1>5. CASE RecordTriggerCut(r)
  <2>1. /\ r.of \notin settled /\ runs' = Forgotten /\ UNCHANGED <<actions, everClosed>>
        /\ settled' = IF r \in Ruling THEN settled ELSE settled \cup {r.of}
    BY <1>5 DEF RecordTriggerCut
  <2>2. ASSUME NEW i \in Nearest(r), Attach(r, i), unscored' = unscored \cup Left(r, i) \cup {i}, UNCHANGED incidents
        PROVE  Attaches(r, i) /\ Joins(r, i, incidents[i])
    <3>1. incidents' = [incidents EXCEPT ![i] = incidents[i]]
      BY <1>1, <2>2 DEF TypeOK
    <3> QED BY <1>1, <2>1, <2>2, <3>1 DEF Attaches, Joins
  <2>3. ASSUME Candidates(r) = {}, r \notin DOMAIN incidents, Attach(r, r), Inserted(r, NewRow),
               unscored' = unscored \cup Left(r, r) \cup {r}
        PROVE  Attaches(r, r) /\ Founds(r, NewRow)
    BY <2>1, <2>3, NewRowType DEF Attaches, Founds
  <2> QED BY <1>1, <1>5, <2>2, <2>3, NewRowType DEF RecordTriggerCut, Fuses
<1> QED BY <1>3, <1>4, <1>5 DEF Fuses

\* The tables after it.
Tables(r, i, row) ==
  /\ r.of \in Observation /\ incidentOf'[r.of] = i
  /\ \A o \in Observation : o # r.of => incidentOf'[o] = incidentOf[o]
  /\ held'[i] = held[i] \cup {r.of} /\ \A j \in Report : j # i => held'[j] = held[j]
  /\ DOMAIN incidents' = DOMAIN incidents \cup {i} /\ incidents'[i] = row
  /\ \A j \in DOMAIN incidents : j # i => incidents'[j] = incidents[j]
  /\ \/ i \in DOMAIN incidents /\ i \in Candidates(r) /\ row.package = incidents[i].package
     \/ i \notin DOMAIN incidents /\ i = r /\ Candidates(r) = {} /\ row.package = None

LEMMA TriggerFacts ==
  ASSUME TypeOK, NEW r \in Report, NEW i \in Report, NEW row \in Row, Fuses(r, i, row)
  PROVE  Tables(r, i, row)
<1> USE DEF Tables
<1>1. r.of \in Observation
  BY ReportAssumption
<1>2. incidentOf' = [incidentOf EXCEPT ![r.of] = i] /\ held' = [held EXCEPT ![i] = @ \cup {r.of}]
  BY DEF Attaches, Attach, Fuses
<1>3. CASE Joins(r, i, row)
  <2>1. i \in Candidates(r) /\ i \in DOMAIN incidents
    BY <1>3 DEF Joins, Nearest, Candidates
  <2> QED BY <1>1, <1>2, <1>3, <2>1 DEF Joins, TypeOK
<1>4. CASE i = r /\ Founds(r, row)
  BY <1>1, <1>2, <1>4 DEF Founds, Inserted, TypeOK
<1> QED BY <1>3, <1>4 DEF Fuses

\* Both together, as every step that records a trigger uses them.
LEMMA Triggering ==
  ASSUME TypeOK, NEW r \in Report, RecordTrigger(r) \/ RecordTriggerCut(r) \/ RulingCut(r)
  PROVE  \E i \in Report, row \in Row : Fuses(r, i, row) /\ Tables(r, i, row)
<1>1. PICK i \in Report, row \in Row : Fuses(r, i, row)
  BY TriggerShape
<1>2. Tables(r, i, row)
  BY <1>1, TriggerFacts
<1> QED BY <1>1, <1>2

-----------------------------------------------------------------------------
(* Type correctness *)

\* Every step keeps the tables within their declared columns.
LEMMA TypeStep == TypeOK /\ [Next]_vars => TypeOK'
  <1> SUFFICES ASSUME TypeOK, [Next]_vars PROVE TypeOK'
    OBVIOUS
  <1>1. ASSUME NEW r \in Report, RecordTrigger(r) \/ RecordTriggerCut(r) \/ RulingCut(r) PROVE TypeOK'
    <2>1. PICK i \in Report, row \in Row : Fuses(r, i, row) /\ Tables(r, i, row)
      BY <1>1, Triggering
    <2>2. r.of \in Observation /\ DOMAIN incidents' = DOMAIN incidents \cup {i}
      BY <2>1 DEF Tables
    <2>3. incidents' \in [DOMAIN incidents' -> Row]
      BY <2>1, <2>2 DEF Joins, Founds, Inserted, TypeOK, Fuses
    <2>4. incidentOf' \in [Observation -> DOMAIN incidents' \cup {None}] /\ held' \in [Report -> SUBSET Observation]
      BY <2>1, <2>2 DEF Attaches, Attach, TypeOK, Fuses
    <2>5. /\ settled' \subseteq Observation /\ actions' \in 0..MaxActions /\ everClosed' \subseteq DOMAIN incidents'
          /\ runs' \in [Run -> [incident : DOMAIN incidents' \cup {None}, seen : SUBSET Observation]]
      BY <2>1, <2>2 DEF Attaches, Forgotten, Idle, TypeOK, Fuses
    <2>6. unscored' \subseteq DOMAIN incidents'
      BY <2>1, <2>2 DEF Joins, Founds, Left, TypeOK, Fuses
    <2> QED BY <2>2, <2>3, <2>4, <2>5, <2>6 DEF TypeOK
  <1>2. ASSUME NEW r \in Report, RuleOut(r) PROVE TypeOK'
    BY <1>2, ReportAssumption DEF RuleOut, TypeOK
  <1> USE DEF TypeOK
  <1>8. ASSUME NEW source \in Source, RemoveSource(source) PROVE TypeOK'
    <2> DEFINE gone == {o \in Observation : o.source = source /\ incidentOf[o] # None}
    <2>1. /\ gone \subseteq Observation /\ \A o \in gone : incidentOf[o] # None
          /\ incidentOf' = [o \in Observation |-> IF o \in gone THEN None ELSE incidentOf[o]]
          /\ settled' = settled \cup gone
          /\ unscored' = unscored \cup {incidentOf[o] : o \in gone}
          /\ UNCHANGED <<incidents, actions, runs, everClosed, held>>
      BY <1>8 DEF RemoveSource
    <2> HIDE DEF gone
    <2> QED BY <2>1
  <1>3. ASSUME NEW i \in DOMAIN incidents, Operate(i) PROVE TypeOK'
    <2>1. ASSUME NEW row \in Row, Write(i, row), everClosed' \in {everClosed, everClosed \cup {i}}
          PROVE  TypeOK'
      BY <2>1, BoundAssumption DEF Write
    <2>2. incidents[i] \in Row
      BY <1>3
    <2>3. CASE Ack(i)
      BY <2>1, <2>2, <2>3 DEF Ack, Row, Status
    <2>4. CASE Dispatch(i)
      BY <2>1, <2>2, <2>4 DEF Dispatch, Row, Status
    <2>5. CASE Escalate(i)
      BY <2>1, <2>2, <2>5 DEF Escalate, Row, Priority
    <2>6. CASE Resolve(i)
      BY <2>1, <2>2, <2>6 DEF Resolve, Row, Status
    <2>7. CASE Dismiss(i)
      BY <2>1, <2>2, <2>7 DEF Dismiss, Row
    <2> QED BY <1>3, <2>3, <2>4, <2>5, <2>6, <2>7 DEF Operate
  <1>4. ASSUME NEW k \in Run, Understand(k) PROVE TypeOK'
    <2>1. ASSUME NEW i \in DOMAIN incidents, StartRun(k, i) PROVE TypeOK'
      <3>1. Attached(i) \in SUBSET Observation
        BY DEF Attached
      <3> QED BY <2>1, <3>1 DEF StartRun
    <2>2. CASE FailRun(k)
      BY <2>2 DEF FailRun, Idle
    <2>3. ASSUME NEW claim \in Claim, NEW amp \in Amp,
                 FinishRun(k, claim, amp)
          PROVE  TypeOK'
      <3> DEFINE i == runs[k].incident
                 row == Stored(incidents[i], Built(k, claim, amp))
      <3>1. i \in DOMAIN incidents /\ Built(k, claim, amp) \in Package
        BY <2>3, BuiltType DEF FinishRun
      <3>2. row \in Row
        BY <3>1, StoredType
      <3>3. Rescored(row, i, Attached(i), Counted(Attached(i))) \in Row
        BY <3>1, <3>2, RescoredType, CountedType
      <3>4. /\ incidents' = [incidents EXCEPT ![i] =
                               Rescored(row, i, Attached(i), Counted(Attached(i)))]
            /\ runs' = [runs EXCEPT ![k] = [incident |-> None, seen |-> {}]]
            /\ unscored' = unscored \ {i}
            /\ UNCHANGED <<incidentOf, settled, actions, everClosed, held>>
        BY <2>3 DEF FinishRun, Idle
      <3> QED BY <3>1, <3>3, <3>4
    <2>4. ASSUME NEW claim \in Claim, NEW amp \in Amp,
                 FinishRunCut(k, claim, amp)
          PROVE  TypeOK'
      <3> DEFINE i == runs[k].incident
                 row == Stored(incidents[i], Built(k, claim, amp))
      <3>1. i \in DOMAIN incidents /\ Built(k, claim, amp) \in Package
        BY <2>4, BuiltType DEF FinishRunCut
      <3>2. row \in Row
        BY <3>1, StoredType
      <3>3. /\ incidents' = [incidents EXCEPT ![i] = row]
            /\ runs' = [j \in Run |-> [incident |-> None, seen |-> {}]]
            /\ unscored' = unscored \cup {i}
            /\ UNCHANGED <<incidentOf, settled, actions, everClosed, held>>
        BY <2>4 DEF FinishRunCut, Forgotten, Idle
      <3> QED BY <3>1, <3>2, <3>3
    <2> QED BY <1>4, <2>1, <2>2, <2>3, <2>4 DEF Understand
  <1>5. CASE Restart
    BY <1>5 DEF Restart, Forgotten, Idle
  <1>6. CASE UNCHANGED vars
    BY <1>6 DEF vars
  <1> QED BY <1>1, <1>2, <1>3, <1>4, <1>5, <1>6, <1>8 DEF Next, Triggered

\* The tables hold what their declarations allow, whatever happens.
THEOREM TypeCorrect == Spec => []TypeOK
  <1>1. Init => TypeOK
    BY BoundAssumption DEF Init, TypeOK, Forgotten, Idle
  <1> QED BY <1>1, TypeStep, PTL DEF Spec

-----------------------------------------------------------------------------
(* What every step leaves in place *)

\* A new incident is one no open incident was a candidate for; what an incident ever
\* had is remembered; an incident stops being open only by an operator's hand, and
\* that is remembered.
NewIncident(i) ==
  /\ Candidates(i) = {}
  /\ Open(i)'
  /\ \A j \in DOMAIN incidents' : j \in DOMAIN incidents \/ j = i

StepShape ==
  /\ DOMAIN incidents \subseteq DOMAIN incidents'
  /\ everClosed \subseteq everClosed'
  /\ \A i \in Report : held[i] \subseteq held'[i]
  /\ \A i \in DOMAIN incidents' \ DOMAIN incidents : NewIncident(i)
  /\ \A i \in DOMAIN incidents : Open(i) => Open(i)' \/ i \in everClosed'

\* Joining, creating, removing and operating keep that shape, and so does a pass.
LEMMA StepKeepsShape ==
  ASSUME TypeOK, [Next]_vars PROVE StepShape
  <1> USE DEF StepShape
  <1>1. ASSUME UNCHANGED <<incidents, held, everClosed>> PROVE StepShape
    BY <1>1 DEF Open
  <1>3. ASSUME NEW r \in Report, RecordTrigger(r) \/ RecordTriggerCut(r) \/ RulingCut(r) PROVE StepShape
    <2>1. PICK i \in Report, row \in Row : Fuses(r, i, row) /\ Tables(r, i, row)
      BY <1>3, Triggering
    <2>2. /\ everClosed' = everClosed /\ \A j \in Report : held[j] \subseteq held'[j]
          /\ DOMAIN incidents' = DOMAIN incidents \cup {i} /\ incidents'[i] = row
          /\ \A j \in DOMAIN incidents : j # i => incidents'[j] = incidents[j]
      BY <2>1 DEF Tables, Attaches, Fuses
    <2>3. CASE Joins(r, i, row)
      BY <2>2, <2>3 DEF Joins, Nearest, Candidates, Open, Fuses
    <2>4. CASE i = r /\ Founds(r, row)
      BY <2>2, <2>4 DEF Founds, NewIncident, Open, Fuses
    <2> QED BY <2>1, <2>3, <2>4 DEF Fuses
  <1>4. ASSUME NEW r \in Report, RuleOut(r) PROVE StepShape
    BY <1>1, <1>4 DEF RuleOut
  <1>2. ASSUME NEW source \in Source, RemoveSource(source) PROVE StepShape
    BY <1>1, <1>2 DEF RemoveSource
  <1>5. ASSUME NEW i \in DOMAIN incidents, Operate(i) PROVE StepShape
    <2>1. ASSUME NEW row, Write(i, row), everClosed \subseteq everClosed',
                 row.dismissed = incidents[i].dismissed \/ i \in everClosed',
                 \/ row.status = incidents[i].status
                 \/ row.status \in {"acknowledged", "dispatched"}
                 \/ i \in everClosed'
          PROVE  StepShape
      BY <2>1 DEF Write, TypeOK, Open
    <2>2. incidents[i] \in Row
      BY DEF TypeOK
    <2>3. CASE Ack(i)
      BY <2>1, <2>2, <2>3 DEF Ack, Row
    <2>4. CASE Dispatch(i)
      BY <2>1, <2>2, <2>4 DEF Dispatch, Row
    <2>5. CASE Escalate(i)
      BY <2>1, <2>2, <2>5 DEF Escalate, Row
    <2>6. CASE Resolve(i)
      BY <2>1, <2>2, <2>6 DEF Resolve, Row
    <2>7. CASE Dismiss(i)
      BY <2>1, <2>2, <2>7 DEF Dismiss, Row
    <2> QED BY <1>5, <2>3, <2>4, <2>5, <2>6, <2>7 DEF Operate
  <1>6. ASSUME NEW k \in Run, Understand(k) PROVE StepShape
    <2>2. ASSUME NEW i \in DOMAIN incidents, NEW row, incidents' = [incidents EXCEPT ![i] = row],
                 UNCHANGED <<held, everClosed>>,
                 row.dismissed = incidents[i].dismissed,
                 row.status \in {"resolved", "verified"} =>
                   incidents[i].status \in {"resolved", "verified"}
          PROVE  StepShape
      BY <2>2 DEF TypeOK, Open
    <2>3. ASSUME NEW claim \in Claim, NEW amp \in Amp,
                 \/ FinishRun(k, claim, amp)
                 \/ FinishRunCut(k, claim, amp)
          PROVE  StepShape
      <3> DEFINE i == runs[k].incident
                 row == Stored(incidents[i], Built(k, claim, amp))
                 new == Rescored(row, i, Attached(i), Counted(Attached(i)))
      <3>1. i \in DOMAIN incidents /\ Built(k, claim, amp) \in Package
        BY <2>3, BuiltType DEF FinishRun, FinishRunCut
      <3>2. /\ row \in Row
            /\ row.dismissed = incidents[i].dismissed
            /\ row.status \in {"resolved", "verified"} =>
                 incidents[i].status \in {"resolved", "verified"}
        BY <3>1, StoredType DEF TypeOK
      <3>3. new.status = row.status /\ new.dismissed = row.dismissed
        BY <3>1, <3>2, RescoredType, CountedType DEF TypeOK
      <3>4. /\ \/ incidents' = [incidents EXCEPT ![i] = row]
               \/ incidents' = [incidents EXCEPT ![i] = new]
            /\ UNCHANGED <<held, everClosed>>
        BY <2>3 DEF FinishRun, FinishRunCut
      <3> HIDE DEF row, new
      <3> QED BY <2>2, <3>1, <3>2, <3>3, <3>4
    <2> QED BY <1>1, <1>6, <2>3 DEF Understand, StartRun, FailRun
  <1>7. CASE Restart
    BY <1>1, <1>7 DEF Restart
  <1>8. CASE UNCHANGED vars
    BY <1>1, <1>8 DEF vars
  <1> QED BY <1>2, <1>3, <1>4, <1>5, <1>6, <1>7, <1>8 DEF Next, Triggered

\* Who changes the attachments.
LEMMA AttachingSteps ==
  ASSUME [Next]_vars
  PROVE  \/ UNCHANGED <<incidentOf, settled, held>>
         \/ \E r \in Report : RecordTrigger(r) \/ RecordTriggerCut(r) \/ RulingCut(r) \/ RuleOut(r)
         \/ \E source \in Source : RemoveSource(source)
  <1>1. ASSUME NEW i \in DOMAIN incidents, Operate(i) PROVE UNCHANGED <<incidentOf, settled, held>>
    BY <1>1 DEF Operate, Ack, Dispatch, Escalate, Resolve, Dismiss, Write
  <1>2. ASSUME NEW k \in Run, Understand(k) PROVE UNCHANGED <<incidentOf, settled, held>>
    BY <1>2 DEF Understand, StartRun, FailRun, FinishRun, FinishRunCut
  <1> QED BY <1>1, <1>2 DEF Next, Triggered, Restart, vars

\* An observation is where its incident has it, and a device's is filed once.
LEMMA HeldStep ==
  ASSUME TypeOK, HeldIsAttached, [Next]_vars PROVE HeldIsAttached'
  <1>1. CASE UNCHANGED <<incidentOf, settled, held>>
    BY <1>1, StepKeepsShape DEF HeldIsAttached, StillThere, StepShape
  <1>2. ASSUME NEW r \in Report, RecordTrigger(r) \/ RecordTriggerCut(r) \/ RulingCut(r) PROVE HeldIsAttached'
    <2>1. PICK i \in Report, row \in Row : Fuses(r, i, row) /\ Tables(r, i, row)
      BY <1>2, Triggering
    <2>2. /\ r.of \in Observation /\ incidentOf'[r.of] = i /\ i # None
          /\ \A o \in Observation : o # r.of => incidentOf'[o] = incidentOf[o]
          /\ held'[i] = held[i] \cup {r.of} /\ \A j \in Report : j # i => held'[j] = held[j]
          /\ DOMAIN incidents' = DOMAIN incidents \cup {i}
      BY <2>1, ReportAssumption DEF Tables
    <2>3. /\ r.of \notin settled /\ settled \subseteq settled' /\ settled' \subseteq settled \cup {r.of}
          /\ r \notin Ruling => r.of \in settled'
      BY <2>1 DEF Attaches, Fuses
    <2>4. \A s \in Report \ Ruling : s.of = r.of => s = r
      BY RulingAssumption
    <2>5. ASSUME NEW o \in Observation, incidentOf'[o] # None PROVE o \in held'[incidentOf'[o]]
      <3>1. CASE o = r.of
        BY <2>2, <3>1
      <3>2. CASE o # r.of
        <4>1. incidentOf[o] \in DOMAIN incidents /\ incidentOf[o] \in Report /\ o \in held[incidentOf[o]]
          BY <2>2, <2>5, <3>2 DEF HeldIsAttached, TypeOK
        <4> QED BY <2>2, <3>2, <4>1
      <3> QED BY <3>1, <3>2
    <2>6. ASSUME NEW j \in Report, NEW o \in held'[j] PROVE j \in DOMAIN incidents' /\ StillThere(o, j)'
      <3>1. o \in Observation
        BY <2>2, <2>6 DEF TypeOK
      <3>2. CASE o = r.of /\ j = i
        BY <2>2, <3>2 DEF StillThere
      <3>3. CASE o = r.of /\ j # i
        <4>1. o \in held[j]
          BY <2>2, <3>3
        <4>2. r \in Ruling
          BY <2>3, <3>3, <4>1 DEF HeldIsAttached
        <4>3. o \in Ruled
          BY <3>3, <4>2 DEF Ruled
        <4> QED BY <2>2, <4>1, <4>3 DEF StillThere, HeldIsAttached
      <3>4. CASE o # r.of
        <4>1. o \in held[j]
          BY <2>2, <3>4
        <4>2. j \in DOMAIN incidents /\ StillThere(o, j)
          BY <4>1 DEF HeldIsAttached
        <4> QED BY <2>2, <2>3, <3>1, <3>4, <4>2 DEF StillThere
      <3> QED BY <3>2, <3>3, <3>4
    <2>7. ASSUME NEW s \in Report \ Ruling, s.of \notin settled', NEW j \in Report PROVE s.of \notin held'[j]
      <3>1. s.of # r.of /\ s.of \notin settled
        BY <2>3, <2>4, <2>7
      <3>2. s.of \notin held[j]
        BY <3>1 DEF HeldIsAttached
      <3> QED BY <2>2, <3>1, <3>2
    <2> QED BY <2>5, <2>6, <2>7 DEF HeldIsAttached
  <1>3. ASSUME NEW r \in Report, RuleOut(r) PROVE HeldIsAttached'
    BY <1>3 DEF RuleOut, HeldIsAttached, StillThere
  <1>4. ASSUME NEW source \in Source, RemoveSource(source) PROVE HeldIsAttached'
    <2>1. /\ \A o \in Observation : \/ incidentOf'[o] = incidentOf[o]
                                    \/ incidentOf'[o] = None /\ o \in settled'
          /\ settled \subseteq settled' /\ UNCHANGED <<incidents, held>>
      BY <1>4 DEF RemoveSource
    <2>2. \A i \in Report : held[i] \subseteq Observation
      BY DEF TypeOK
    <2>3. \A o \in Observation : incidentOf'[o] # None => o \in held'[incidentOf'[o]]
      BY <2>1 DEF HeldIsAttached
    <2>4. \A i \in Report : \A o \in held'[i] : i \in DOMAIN incidents' /\ StillThere(o, i)'
      BY <2>1, <2>2 DEF HeldIsAttached, StillThere
    <2>5. \A r \in Report \ Ruling : r.of \notin settled' => \A i \in Report : r.of \notin held'[i]
      BY <2>1 DEF HeldIsAttached
    <2> QED BY <2>3, <2>4, <2>5 DEF HeldIsAttached
  <1> QED BY <1>1, <1>2, <1>3, <1>4, AttachingSteps

\* The two facts fusion rests on: an observation leaves its incident only with its
\* source or by a ruling given again, and an incident findCandidateIncident no longer
\* returns was closed by an operator.
THEOREM FusionFacts == Spec => [](HeldIsAttached /\ ClosedIsRemembered)
  <1>1. Init => HeldIsAttached /\ ClosedIsRemembered
    BY ReportAssumption DEF Init, HeldIsAttached, ClosedIsRemembered
  <1>2. TypeOK /\ HeldIsAttached /\ ClosedIsRemembered /\ [Next]_vars => (HeldIsAttached /\ ClosedIsRemembered)'
    <2> SUFFICES ASSUME TypeOK, HeldIsAttached, ClosedIsRemembered, [Next]_vars
                 PROVE  (HeldIsAttached /\ ClosedIsRemembered)'
      OBVIOUS
    <2>1. StepShape
      BY StepKeepsShape
    <2>2. HeldIsAttached'
      BY HeldStep
    <2>3. ClosedIsRemembered'
      BY <2>1 DEF StepShape, NewIncident, ClosedIsRemembered
    <2> QED BY <2>2, <2>3
  <1> QED BY <1>1, <1>2, TypeCorrect, PTL DEF Spec

\* Incidents that were never closed are separate events: a new one is created only
\* when no open incident is a candidate, and every incident never closed is open.
THEOREM OneIncidentPerEvent == Spec => []NoTwinIncidents
  <1>1. Init => NoTwinIncidents
    BY DEF Init, NoTwinIncidents
  <1>2. TypeOK /\ ClosedIsRemembered /\ NoTwinIncidents /\ [Next]_vars
          => NoTwinIncidents'
    <2> SUFFICES ASSUME TypeOK, ClosedIsRemembered, NoTwinIncidents, [Next]_vars,
                        NEW i \in DOMAIN incidents' \ everClosed',
                        NEW j \in DOMAIN incidents' \ everClosed', i # j
                 PROVE  ~SameEvent(i, j)
      BY DEF NoTwinIncidents, SameEvent, Distance
    <2>1. StepShape
      BY StepKeepsShape
    <2>2. i \in Report /\ j \in Report
      BY TypeStep DEF TypeOK
    <2>3. Distance(i, j) = Distance(j, i) /\ (i \in Disk[j] <=> j \in Disk[i])
      BY <2>2, ReportAssumption, FusionAssumption DEF Distance
    <2>4. CASE i \in DOMAIN incidents /\ j \in DOMAIN incidents
      BY <2>1, <2>4 DEF StepShape, NoTwinIncidents
    <2>5. ASSUME NEW new \in {i, j}, NEW old \in {i, j}, new # old,
                 new \notin DOMAIN incidents
          PROVE  ~SameEvent(i, j)
      <3>1. Candidates(new) = {} /\ old \in DOMAIN incidents
        BY <2>1, <2>5 DEF StepShape, NewIncident
      <3>2. Open(old)
        BY <2>1, <3>1 DEF StepShape, ClosedIsRemembered
      <3>3. ~(Domain[old] = Domain[new] /\ Distance(old, new) <= Window[new] /\ old \in Disk[new])
        BY <3>1, <3>2 DEF Candidates
      <3> QED BY <2>3, <2>5, <3>3 DEF SameEvent
    <2> QED BY <2>4, <2>5
  <1> QED BY <1>1, <1>2, TypeCorrect, FusionFacts, PTL DEF Spec

-----------------------------------------------------------------------------
(* Citations *)

\* What a step does to the passes and to the packages.
RunsStep ==
  \A k \in Run : \/ runs'[k] = runs[k]
                 \/ runs'[k].incident = None
                 \/ runs'[k].incident \in DOMAIN incidents /\ runs'[k].seen = Attached(runs'[k].incident)

PackageStep ==
  \A i \in DOMAIN incidents' :
    \/ i \in DOMAIN incidents /\ incidents'[i].package = incidents[i].package
    \/ incidents'[i].package = None
    \/ \E k \in Run : /\ runs[k].incident = i
                      /\ i \in DOMAIN incidents
                      /\ incidents'[i].package.seen = runs[k].seen
                      /\ incidents'[i].package.cites \subseteq runs[k].seen

LEMMA StepOnRuns == ASSUME TypeOK, [Next]_vars PROVE RunsStep
  <1> USE DEF RunsStep, TypeOK
  <1>1. ASSUME NEW k \in Run, Understand(k) PROVE RunsStep
    BY <1>1 DEF Understand, StartRun, FailRun, FinishRun, FinishRunCut, Forgotten, Idle
  <1>2. ASSUME NEW r \in Report, Triggered(r) PROVE RunsStep
    BY <1>2 DEF Triggered, RecordTrigger, RecordTriggerCut, RulingCut, RuleOut, Forgotten, Idle
  <1>3. ASSUME NEW i \in DOMAIN incidents, Operate(i) PROVE RunsStep
    BY <1>3 DEF Operate, Ack, Dispatch, Escalate, Resolve, Dismiss, Write
  <1>4. CASE Restart \/ UNCHANGED vars
    BY <1>4 DEF Restart, Forgotten, Idle, vars
  <1>5. ASSUME NEW source \in Source, RemoveSource(source) PROVE RunsStep
    BY <1>5 DEF RemoveSource
  <1> QED BY <1>1, <1>2, <1>3, <1>4, <1>5 DEF Next

LEMMA StepOnPackages == ASSUME TypeOK, [Next]_vars PROVE PackageStep
  <1>1. ASSUME NEW r \in Report, Triggered(r) PROVE PackageStep
    <2>1. CASE RuleOut(r)
      BY <2>1 DEF RuleOut, PackageStep
    <2>2. CASE RecordTrigger(r) \/ RecordTriggerCut(r) \/ RulingCut(r)
      <3>1. PICK i \in Report, row \in Row : Fuses(r, i, row) /\ Tables(r, i, row)
        BY <2>2, Triggering
      <3>2. /\ DOMAIN incidents' = DOMAIN incidents \cup {i} /\ incidents'[i] = row
            /\ \A j \in DOMAIN incidents : j # i => incidents'[j] = incidents[j]
        BY <3>1 DEF Tables
      <3>3. \/ i \in DOMAIN incidents /\ row.package = incidents[i].package
            \/ row.package = None
        BY <3>1 DEF Tables
      <3> QED BY <3>2, <3>3 DEF PackageStep
    <2> QED BY <1>1, <2>1, <2>2 DEF Triggered
  <1>3. ASSUME NEW i \in DOMAIN incidents, Operate(i) PROVE PackageStep
    <2>1. ASSUME NEW row, Write(i, row), row.package = incidents[i].package PROVE PackageStep
      BY <2>1 DEF Write, TypeOK, PackageStep
    <2>2. incidents[i] \in Row
      BY DEF TypeOK
    <2> QED BY <1>3, <2>1, <2>2 DEF Operate, Ack, Dispatch, Escalate, Resolve, Dismiss, Row
  <1>4. ASSUME NEW k \in Run, Understand(k) PROVE PackageStep
    <2>1. ASSUME NEW claim \in Claim, NEW amp \in Amp,
                 \/ FinishRun(k, claim, amp)
                 \/ FinishRunCut(k, claim, amp)
          PROVE  PackageStep
      <3> DEFINE i == runs[k].incident
                 built == Built(k, claim, amp)
                 row == Stored(incidents[i], built)
                 new == Rescored(row, i, Attached(i), Counted(Attached(i)))
      <3>1. /\ i \in DOMAIN incidents
            /\ built \in Package
            /\ built.seen = runs[k].seen
            /\ built.cites \subseteq runs[k].seen
        BY <2>1, BuiltType DEF FinishRun, FinishRunCut
      <3>2. row \in Row /\ row.package = built
        BY <3>1, StoredType DEF TypeOK
      <3>3. new.package = row.package
        BY <3>1, <3>2, RescoredType, CountedType DEF TypeOK
      <3>4. incidents' = [incidents EXCEPT ![i] = row] \/ incidents' = [incidents EXCEPT ![i] = new]
        BY <2>1 DEF FinishRun, FinishRunCut
      <3> HIDE DEF built, row, new
      <3> QED BY <3>1, <3>2, <3>3, <3>4 DEF TypeOK, PackageStep
    <2> QED BY <1>4, <2>1 DEF Understand, StartRun, FailRun, PackageStep
  <1>5. ASSUME UNCHANGED incidents PROVE PackageStep
    BY <1>5 DEF PackageStep
  <1>6. (\E source \in Source : RemoveSource(source)) \/ Restart \/ UNCHANGED vars => UNCHANGED incidents
    BY DEF RemoveSource, Restart, vars
  <1> QED BY <1>1, <1>3, <1>4, <1>5, <1>6 DEF Next

\* However late a pass finishes, its package cites what the pass read, and every
\* observation it read is still the incident's unless its source was removed or a ruling
\* was given again.
THEOREM CitationsStayInside == Spec => [](PassesReadHeld /\ CitationsResolve)
  <1>1. Init => PassesReadHeld /\ CitationsResolve
    BY DEF Init, PassesReadHeld, CitationsResolve, Forgotten, Idle
  <1>2. TypeOK /\ TypeOK' /\ HeldIsAttached /\ PassesReadHeld /\ CitationsResolve /\ [Next]_vars
          => (PassesReadHeld /\ CitationsResolve)'
    <2> SUFFICES ASSUME TypeOK, TypeOK', HeldIsAttached, PassesReadHeld, CitationsResolve, [Next]_vars
                 PROVE  (PassesReadHeld /\ CitationsResolve)'
      OBVIOUS
    <2>1. \A i \in Report : held[i] \subseteq held'[i]
      BY StepKeepsShape DEF StepShape
    <2>2. HeldIsAttached' /\ DOMAIN incidents \subseteq Report /\ DOMAIN incidents' \subseteq Report
      BY HeldStep DEF TypeOK
    <2>3. PassesReadHeld'
      <3> SUFFICES ASSUME NEW k \in Run, runs'[k].incident # None
                   PROVE  runs'[k].seen \subseteq held'[runs'[k].incident]
        BY DEF PassesReadHeld
      <3>0. runs'[k].incident \in Report
        BY <2>2 DEF TypeOK
      <3>1. CASE runs'[k] = runs[k]
        BY <2>1, <3>0, <3>1 DEF PassesReadHeld
      <3>2. CASE runs'[k].seen = Attached(runs'[k].incident)
        BY <2>1, <3>0, <3>2, ReportAssumption DEF HeldIsAttached, Attached
      <3> QED BY <3>1, <3>2, StepOnRuns DEF RunsStep
    <2>4. CitationsResolve'
      <3> SUFFICES ASSUME NEW i \in DOMAIN incidents', incidents'[i].package # None
                   PROVE  /\ incidents'[i].package.cites \subseteq incidents'[i].package.seen
                          /\ incidents'[i].package.seen \subseteq held'[i]
        BY <2>2 DEF CitationsResolve, HeldIsAttached
      <3>0. i \in Report
        BY <2>2
      <3>1. CASE i \in DOMAIN incidents /\ incidents'[i].package = incidents[i].package
        BY <2>1, <3>0, <3>1 DEF CitationsResolve
      <3>2. ASSUME NEW k \in Run, runs[k].incident = i, i \in DOMAIN incidents,
                   incidents'[i].package.seen = runs[k].seen,
                   incidents'[i].package.cites \subseteq runs[k].seen
            PROVE  /\ incidents'[i].package.cites \subseteq incidents'[i].package.seen
                   /\ incidents'[i].package.seen \subseteq held'[i]
        <4>1. i # None
          BY <3>0, ReportAssumption
        <4> QED BY <2>1, <3>0, <3>2, <4>1 DEF PassesReadHeld
      <3> QED BY <3>1, <3>2, StepOnPackages DEF PackageStep
    <2> QED BY <2>3, <2>4
  <1>3. QED BY <1>1, <1>2, TypeCorrect, FusionFacts, PTL DEF Spec

-----------------------------------------------------------------------------
(* Scores *)

Scored(i) ==
  /\ incidents[i].corroboration = Corroboration(Attached(i))
  /\ \/ incidents[i].priority >= Band[i][Counted(Attached(i))][AmpOf(incidents[i])]
     \/ Untouched(i) /\ incidents[i].priority >= Band[i][i.affected][AmpOf(incidents[i])]

\* An incident whose row and observations a step leaves alone keeps its score.
LEMMA LeftAloneStaysScored ==
  ASSUME NEW i, Scored(i), incidents'[i] = incidents[i], Attached(i)' = Attached(i), held'[i] = held[i]
  PROVE  Scored(i)'
  BY DEF Scored, Untouched, Counted, Corroboration, AmpOf

\* So does one whose band only rises.
LEMMA RisenStaysScored ==
  ASSUME TypeOK, NEW i \in DOMAIN incidents, Scored(i), NEW row \in Row, incidents'[i] = row,
         row.priority >= incidents[i].priority, row.corroboration = incidents[i].corroboration,
         row.package = incidents[i].package, Attached(i)' = Attached(i), held'[i] = held[i]
  PROVE  Scored(i)'
  <1>1. AmpOf(incidents[i])' = AmpOf(incidents[i]) /\ Untouched(i)' = Untouched(i)
    BY DEF AmpOf, Untouched
  <1>2. Counted(Attached(i))' = Counted(Attached(i)) /\ Corroboration(Attached(i))' = Corroboration(Attached(i))
    BY DEF Counted, Corroboration
  <1>3. /\ Counted(Attached(i)) \in 1..Full /\ AmpOf(incidents[i]) \in Amp /\ i \in Report /\ i.affected \in 1..Full
    BY CountedType, AmpType, ReportAssumption DEF TypeOK
  <1>4. \A n \in 1..Full, a \in Amp : Band[i][n][a] \in Int
    BY <1>3, SeverityAssumption DEF Priority
  <1>5. row.priority \in Int /\ incidents[i].priority \in Int
    BY DEF TypeOK, Row, Priority
  <1>6. ASSUME NEW n \in 1..Full, incidents[i].priority >= Band[i][n][AmpOf(incidents[i])]
        PROVE  row.priority >= Band[i][n][AmpOf(incidents[i])]
    <2>1. Band[i][n][AmpOf(incidents[i])] \in Int
      BY <1>3, <1>4
    <2> QED BY <1>5, <1>6, <2>1
  <1> QED BY <1>1, <1>2, <1>3, <1>6 DEF Scored

LEMMA ScoreStep ==
  ASSUME TypeOK, HeldIsAttached, ScoreIsCurrent, [Next]_vars,
         NEW j \in DOMAIN incidents', j \notin unscored'
  PROVE  Scored(j)'
  <1>0. \A i \in DOMAIN incidents \ unscored : Scored(i)
    BY DEF ScoreIsCurrent, Scored
  <1>1. ASSUME UNCHANGED <<incidentOf, incidents, held, unscored>> PROVE Scored(j)'
    <2>1. Attached(j)' = Attached(j)
      BY <1>1 DEF Attached
    <2> QED BY <1>0, <1>1, <2>1, LeftAloneStaysScored
  <1>2. ASSUME NEW r \in Report, RecordTrigger(r) \/ RecordTriggerCut(r) \/ RulingCut(r) PROVE Scored(j)'
    <2>1. PICK i \in Report, row \in Row : Fuses(r, i, row) /\ Tables(r, i, row)
      BY <1>2, Triggering
    <2>2. /\ r.of \in Observation /\ incidentOf'[r.of] = i
          /\ \A o \in Observation : o # r.of => incidentOf'[o] = incidentOf[o]
          /\ held'[i] = held[i] \cup {r.of} /\ \A x \in Report : x # i => held'[x] = held[x]
          /\ DOMAIN incidents' = DOMAIN incidents \cup {i} /\ incidents'[i] = row
          /\ \A x \in DOMAIN incidents : x # i => incidents'[x] = incidents[x]
      BY <2>1 DEF Tables
    <2>3. CASE j # i
      <3>1. j \in DOMAIN incidents /\ j \in Report /\ j # None
        BY <2>2, <2>3, ReportAssumption DEF TypeOK
      <3>2. j \notin unscored /\ j \notin Left(r, i)
        BY <2>1, <2>3 DEF Joins, Founds, Fuses
      <3>3. incidentOf[r.of] # j
        BY <2>3, <3>1, <3>2 DEF Left
      <3>4. Attached(j)' = Attached(j)
        BY <2>2, <2>3, <3>3 DEF Attached
      <3> QED BY <1>0, <2>2, <2>3, <3>1, <3>2, <3>4, LeftAloneStaysScored
    <2>4. CASE j = i /\ Joins(r, i, row)
      <3> DEFINE S == Attached(i) \cup {r.of}
      <3>1. Attached(i)' = S
        BY <2>2 DEF Attached
      <3>2. row.priority = Band[i][Counted(S)][AmpOf(row)] /\ row.corroboration = Corroboration(S)
        BY <2>4 DEF Joins, Fuses
      <3>3. Counted(Attached(i))' = Counted(S) /\ Corroboration(Attached(i))' = Corroboration(S)
        BY <3>1 DEF Counted, Corroboration
      <3>4. incidents'[i] = row /\ AmpOf(incidents[i])' = AmpOf(row) /\ row.priority \in Int
        BY <2>2 DEF AmpOf, Row, Priority
      <3> HIDE DEF S
      <3> QED BY <2>4, <3>2, <3>3, <3>4 DEF Scored
    <2>5. CASE j = i /\ i = r /\ Founds(r, row)
      <3>1. r \notin DOMAIN incidents /\ row.priority = Band[r][r.affected][AmpOf(row)] /\ row.corroboration = Corroboration({r.of})
        BY <2>5 DEF Founds, Fuses
      <3>2. held[r] = {} /\ Attached(r) = {}
        BY <3>1, ReportAssumption DEF HeldIsAttached, TypeOK, Attached
      <3>3. Attached(r)' = {r.of} /\ held'[r] = {r.of}
        BY <2>2, <2>5, <3>2 DEF Attached
      <3>4. incidents'[r] = row /\ AmpOf(incidents[r])' = AmpOf(row) /\ row.priority \in Int
        BY <2>2, <2>5 DEF AmpOf, Row, Priority
      <3>5. Untouched(r)' /\ Corroboration(Attached(r))' = Corroboration({r.of})
        BY <2>5, <3>3, <3>4 DEF Untouched, Corroboration, Founds, Fuses
      <3> QED BY <2>5, <3>1, <3>4, <3>5 DEF Scored
    <2> QED BY <2>1, <2>3, <2>4, <2>5 DEF Fuses
  <1>3. ASSUME NEW r \in Report, RuleOut(r) PROVE Scored(j)'
    BY <1>1, <1>3 DEF RuleOut
  <1>7. ASSUME NEW source \in Source, RemoveSource(source) PROVE Scored(j)'
    <2>1. /\ UNCHANGED <<incidents, held>> /\ j \in DOMAIN incidents /\ j \notin unscored
          /\ \A o \in Observation : \/ incidentOf'[o] = incidentOf[o]
                                    \/ incidentOf'[o] = None /\ incidentOf[o] # j
      BY <1>7 DEF RemoveSource
    <2>2. j # None
      BY <2>1, ReportAssumption DEF TypeOK
    <2>3. Attached(j)' = Attached(j)
      BY <2>1, <2>2 DEF Attached
    <2> QED BY <1>0, <2>1, <2>3, LeftAloneStaysScored
  <1>4. ASSUME NEW i \in DOMAIN incidents, Operate(i) PROVE Scored(j)'
    <2>0. incidents[i] \in Row /\ incidents[i].priority \in Int
      BY DEF TypeOK, Row, Priority
    <2>1. ASSUME NEW row \in Row, Write(i, row),
                 row.priority = incidents[i].priority \/ row.priority > incidents[i].priority,
                 row.corroboration = incidents[i].corroboration,
                 row.package = incidents[i].package
          PROVE  Scored(j)'
      <3>1. /\ Attached(j)' = Attached(j) /\ j \in DOMAIN incidents \ unscored /\ held' = held
            /\ incidents'[j] = IF j = i THEN row ELSE incidents[j]
        BY <2>1 DEF Write, Attached, TypeOK
      <3>2. CASE j # i
        BY <1>0, <3>1, <3>2, LeftAloneStaysScored
      <3>3. CASE j = i
        <4>1. row.priority >= incidents[i].priority
          BY <2>0, <2>1 DEF Row, Priority
        <4> QED BY <1>0, <2>1, <3>1, <3>3, <4>1, RisenStaysScored
      <3> QED BY <3>2, <3>3
    <2>2. incidents[i] \in Row /\ incidents[i].priority \in Priority
      BY DEF TypeOK, Row
    <2>3. CASE Ack(i)
      BY <2>1, <2>2, <2>3 DEF Ack, Row, Status, Priority
    <2>4. CASE Dispatch(i)
      BY <2>1, <2>2, <2>4 DEF Dispatch, Row, Status, Priority
    <2>5. CASE Escalate(i)
      BY <2>1, <2>2, <2>5 DEF Escalate, Row, Priority
    <2>6. CASE Resolve(i)
      BY <2>1, <2>2, <2>6 DEF Resolve, Row, Status, Priority
    <2>7. CASE Dismiss(i)
      BY <2>1, <2>2, <2>7 DEF Dismiss, Row, Priority
    <2> QED BY <1>4, <2>3, <2>4, <2>5, <2>6, <2>7 DEF Operate
  <1>5. ASSUME NEW k \in Run, Understand(k) PROVE Scored(j)'
    <2>1. ASSUME NEW claim \in Claim, NEW amp \in Amp,
                 \/ FinishRun(k, claim, amp)
                 \/ FinishRunCut(k, claim, amp)
          PROVE  Scored(j)'
      <3> DEFINE i == runs[k].incident
                 built == Built(k, claim, amp)
                 row == Stored(incidents[i], built)
                 new == Rescored(row, i, Attached(i), Counted(Attached(i)))
      <3>1. i \in DOMAIN incidents /\ i \in Report /\ built \in Package
        BY <2>1, BuiltType DEF FinishRun, FinishRunCut, TypeOK
      <3>2. row \in Row /\ row.package = built
        BY <3>1, StoredType DEF TypeOK
      <3>3. /\ new.priority = Band[i][Counted(Attached(i))][AmpOf(row)]
            /\ new.corroboration = Corroboration(Attached(i))
            /\ new.package = built
            /\ new \in Row
        BY <3>1, <3>2, RescoredType, CountedType
      <3>4. held' = held /\ \A x : Attached(x)' = Attached(x)
        BY <2>1 DEF FinishRun, FinishRunCut, Attached
      <3>5. CASE j # i
        <4>1. j \in DOMAIN incidents \ unscored /\ incidents'[j] = incidents[j]
          BY <2>1, <3>1, <3>5 DEF FinishRun, FinishRunCut, TypeOK
        <4> QED BY <1>0, <3>4, <4>1, LeftAloneStaysScored
      <3>6. CASE j = i
        <4>1. incidents' = [incidents EXCEPT ![i] = new]
          BY <2>1, <3>6 DEF FinishRun, FinishRunCut
        <4>2. incidents'[i] = new
          BY <3>1, <4>1 DEF TypeOK
        <4>4. Counted(Attached(j))' = Counted(Attached(i))
          BY <3>4, <3>6 DEF Counted
        <4>5. AmpOf(incidents[j])' = AmpOf(row)
          BY <3>2, <3>3, <3>6, <4>2 DEF AmpOf
        <4>6. Corroboration(Attached(j))' = Corroboration(Attached(i))
          BY <3>4, <3>6 DEF Corroboration
        <4>7. new.priority \in Int
          BY <3>3 DEF Row, Priority
        <4> HIDE DEF new, row, built, i
        <4> QED BY <3>3, <3>6, <4>2, <4>4, <4>5, <4>6, <4>7 DEF Scored
      <3> QED BY <3>5, <3>6
    <2> QED BY <1>1, <1>5, <2>1 DEF Understand, StartRun, FailRun
  <1>6. CASE Restart \/ UNCHANGED vars
    BY <1>1, <1>6 DEF Restart, vars
  <1> QED BY <1>2, <1>3, <1>4, <1>5, <1>6, <1>7 DEF Next, Triggered

\* The score columns are behind the evidence only where a step that owes a rescore,
\* a cut write, a removed source or a second ruling, has been.
THEOREM ScoreFollowsEvidence == Spec => []ScoreIsCurrent
  <1>1. Init => ScoreIsCurrent
    BY DEF Init, ScoreIsCurrent
  <1>2. TypeOK /\ HeldIsAttached /\ ScoreIsCurrent /\ [Next]_vars => ScoreIsCurrent'
    BY ScoreStep DEF ScoreIsCurrent, Scored
  <1> QED BY <1>1, <1>2, TypeCorrect, FusionFacts, PTL DEF Spec
-----------------------------------------------------------------------------
(* Attachment *)

\* Once its trigger is recorded an observation changes its incident only by vanishing
\* with its source, and an incident an operator closed gains none while it is closed.
THEOREM AttachmentIsFinal == Spec => ClosedGainNothing
  <1>1. TypeOK /\ [Next]_vars => [GainStep]_vars
    <2> SUFFICES ASSUME TypeOK, [Next]_vars PROVE GainStep
      OBVIOUS
    <2>1. ASSUME NEW r \in Report, RecordTrigger(r) \/ RecordTriggerCut(r) \/ RulingCut(r) PROVE GainStep
      <3>1. PICK i \in Report, row \in Row : Fuses(r, i, row) /\ Tables(r, i, row)
        BY <2>1, Triggering
      <3>2. r.of \notin settled
        BY <3>1 DEF Fuses, Attaches
      <3>3. /\ incidentOf'[r.of] = i
            /\ \A o \in Observation : o # r.of => incidentOf'[o] = incidentOf[o]
        BY <3>1 DEF Tables
      <3>4. i \in DOMAIN incidents => Open(i)
        BY <3>1 DEF Tables, Candidates
      <3>5. i \in DOMAIN incidents => incidents[i].status # "resolved" /\ ~incidents[i].dismissed
        BY <3>4 DEF Open
      <3> QED BY <3>2, <3>3, <3>5 DEF GainStep
    <2>2. CASE UNCHANGED <<incidentOf, settled, held>>
      BY <2>2 DEF GainStep
    <2>3. ASSUME NEW r \in Report, RuleOut(r) PROVE GainStep
      BY <2>3 DEF RuleOut, GainStep
    <2>4. ASSUME NEW source \in Source, RemoveSource(source) PROVE GainStep
      <3>1. \A o \in Observation : \/ incidentOf'[o] = incidentOf[o]
                                   \/ incidentOf'[o] = None /\ o \in settled'
        BY <2>4 DEF RemoveSource
      <3> QED BY <3>1 DEF GainStep
    <2> QED BY <2>1, <2>2, <2>3, <2>4, AttachingSteps
  <1> QED BY <1>1, TypeCorrect, PTL DEF Spec, ClosedGainNothing

-----------------------------------------------------------------------------
(* What lowers a band *)

LoweredByEvidence(i) ==
  incidents'[i].priority < incidents[i].priority =>
    \/ incidents'[i].package # None /\ \E k \in Run : runs[k].incident = i /\ runs'[k] = Idle
    \/ actions' = actions /\ \E o \in Observation \ settled : incidentOf'[o] = i

\* A band that stays or rises needs no evidence.
LEMMA NotLowered ==
  ASSUME TypeOK, NEW i \in DOMAIN incidents, NEW p \in Priority,
         incidents'[i].priority = p, p >= incidents[i].priority
  PROVE  LoweredByEvidence(i)
  <1>1. incidents[i].priority \in Priority
    BY DEF TypeOK, Row
  <1>2. ~ incidents'[i].priority < incidents[i].priority
    BY <1>1 DEF Priority
  <1> QED BY <1>2 DEF LoweredByEvidence

\* Operators raise a band and never lower one: escalation stops at CRITICAL.
LEMMA OperatingLowersNothing ==
  ASSUME TypeOK, NEW i \in DOMAIN incidents, NEW j \in DOMAIN incidents, Operate(j)
  PROVE  LoweredByEvidence(i)
  <1>1. /\ incidents[i] \in Row /\ incidents[j] \in Row
        /\ incidents[i].priority \in Priority /\ incidents[j].priority \in Priority
    BY DEF TypeOK, Row
  <1>2. ASSUME NEW row, Write(j, row),
               \/ row.priority = incidents[j].priority
               \/ row.priority = IF incidents[j].priority < 4 THEN incidents[j].priority + 1 ELSE 4
        PROVE  LoweredByEvidence(i)
    <2>1. row.priority \in Priority /\ row.priority >= incidents[j].priority
      BY <1>1, <1>2 DEF Priority
    <2>2. CASE i = j
      BY <1>2, <2>1, <2>2, NotLowered DEF Write
    <2>3. CASE i # j
      BY <1>1, <1>2, <2>3, NotLowered DEF Priority, Write
    <2> QED BY <2>2, <2>3
  <1>3. CASE Ack(j)
    BY <1>1, <1>2, <1>3 DEF Ack, Row
  <1>4. CASE Dispatch(j)
    BY <1>1, <1>2, <1>4 DEF Dispatch, Row
  <1>5. CASE Escalate(j)
    BY <1>1, <1>2, <1>5 DEF Escalate, Row
  <1>6. CASE Resolve(j)
    BY <1>1, <1>2, <1>6 DEF Resolve, Row
  <1>7. CASE Dismiss(j)
    BY <1>1, <1>2, <1>7 DEF Dismiss, Row
  <1> QED BY <1>3, <1>4, <1>5, <1>6, <1>7 DEF Operate

\* rescore: only an observation whose trigger is being recorded or a package that was
\* stored lowers a band, never an operator's action, the removal of a source, a restart
\* or what happens to another incident.
THEOREM BandFallsWithEvidence == Spec => OnlyEvidenceLowersPriority
  <1>1. TypeOK /\ [Next]_vars => [\A i \in DOMAIN incidents : LoweredByEvidence(i)]_vars
    <2> SUFFICES ASSUME TypeOK, Next, NEW i \in DOMAIN incidents PROVE LoweredByEvidence(i)
      OBVIOUS
    <2>0. incidents[i].priority \in Priority /\ i \in Report
      BY DEF TypeOK, Row
    <2>1. CASE incidents'[i] = incidents[i]
      BY <2>0, <2>1, NotLowered DEF Priority
    <2>2. ASSUME NEW r \in Report, Triggered(r) PROVE LoweredByEvidence(i)
      <3>1. CASE RuleOut(r)
        BY <2>1, <3>1 DEF RuleOut
      <3>2. CASE RecordTrigger(r) \/ RecordTriggerCut(r) \/ RulingCut(r)
        <4>1. PICK j \in Report, row \in Row : Fuses(r, j, row) /\ Tables(r, j, row)
          BY <3>2, Triggering
        <4>2. CASE i # j
          <5>1. incidents'[i] = incidents[i]
            BY <4>1, <4>2 DEF Tables
          <5> QED BY <2>1, <5>1
        <4>3. CASE i = j
          <5>1. r.of \in Observation \ settled /\ incidentOf'[r.of] = i
            BY <4>1, <4>3 DEF Tables, Fuses, Attaches
          <5>2. actions' = actions
            BY <4>1 DEF Fuses, Attaches
          <5> QED BY <5>1, <5>2 DEF LoweredByEvidence
        <4> QED BY <4>2, <4>3
      <3> QED BY <2>2, <3>1, <3>2 DEF Triggered
    <2>7. ASSUME NEW source \in Source, RemoveSource(source) PROVE LoweredByEvidence(i)
      BY <2>1, <2>7 DEF RemoveSource
    <2>3. ASSUME NEW j \in DOMAIN incidents, Operate(j) PROVE LoweredByEvidence(i)
      BY <2>3, OperatingLowersNothing
    <2>4. ASSUME NEW k \in Run, NEW claim \in Claim, NEW amp \in Amp,
                 FinishRun(k, claim, amp) \/ FinishRunCut(k, claim, amp)
          PROVE  LoweredByEvidence(i)
      <3>1. CASE runs[k].incident # i
        <4>1. incidents'[i] = incidents[i]
          BY <2>4, <3>1 DEF FinishRun, FinishRunCut
        <4> QED BY <2>1, <4>1
      <3>2. CASE runs[k].incident = i
        <4> DEFINE built == Built(k, claim, amp)
                   row == Stored(incidents[i], built)
                   new == Rescored(row, i, Attached(i), Counted(Attached(i)))
        <4>1. runs[k].incident # None
          BY <2>4 DEF FinishRun, FinishRunCut
        <4>2. built \in Package /\ built # None /\ incidents[i] \in Row
          BY <4>1, BuiltType, PackageAssumption DEF TypeOK
        <4>3. row \in Row /\ row.package = built
          BY <4>2, StoredType
        <4>4. new.package = row.package
          BY <2>0, <4>3, RescoredType, CountedType
        <4>5. incidents' = [incidents EXCEPT ![i] = new] \/ incidents' = [incidents EXCEPT ![i] = row]
          BY <2>4, <3>2 DEF FinishRun, FinishRunCut
        <4>6. runs'[k] = Idle
          BY <2>4 DEF FinishRun, FinishRunCut, Forgotten, TypeOK
        <4> HIDE DEF built, row, new
        <4>7. incidents'[i].package # None
          BY <4>2, <4>3, <4>4, <4>5
        <4> QED BY <3>2, <4>6, <4>7 DEF LoweredByEvidence
      <3> QED BY <3>1, <3>2
    <2>5. ASSUME NEW k \in Run, Understand(k) PROVE LoweredByEvidence(i)
      BY <2>1, <2>4, <2>5 DEF Understand, StartRun, FailRun
    <2>6. CASE Restart
      BY <2>1, <2>6 DEF Restart
    <2> QED BY <2>2, <2>3, <2>5, <2>6, <2>7 DEF Next
  <1> QED BY <1>1, TypeCorrect, PTL DEF Spec, OnlyEvidenceLowersPriority, LoweredByEvidence

-----------------------------------------------------------------------------
(* The store and the register *)

\* What the register shows is a function of the incidents that exist.
LEMMA RegisterView ==
  /\ DOMAIN Members = DOMAIN incidents /\ DOMAIN States = DOMAIN incidents
  /\ DOMAIN Cited = DOMAIN incidents /\ DOMAIN Held = DOMAIN incidents
  /\ \A i \in DOMAIN incidents : /\ Members[i] = Attached(i) /\ Held[i] = held[i]
                                 /\ States[i] = StateOf(incidents[i])
                                 /\ Cited[i] = CitedBy(incidents[i])
  BY DEF Members, Held, States, Cited

\* A row that keeps its status, its dismissal and its package looks the same.
LEMMA SameView ==
  ASSUME NEW row, NEW new, new.status = row.status, new.dismissed = row.dismissed,
         new.package = row.package
  PROVE  StateOf(new) = StateOf(row) /\ CitedBy(new) = CitedBy(row)
  BY DEF StateOf, CitedBy

\* The candidates of findCandidateIncident are the incidents the register admits to.
LEMMA CandidatesAdmit ==
  ASSUME TypeOK, NEW r \in Report
  PROVE  Register!Admitting(r) = Candidates(r)
  <1>1. Reached[r] = {i \in Report : /\ Domain[i] = Domain[r]
                                     /\ i \in Disk[r]
                                     /\ Distance(i, r) <= Window[r]}
    BY DEF Reached
  <1>2. \A i \in DOMAIN incidents : i \in Report /\ (States[i] = "open" <=> Open(i))
    <2> SUFFICES ASSUME NEW i \in DOMAIN incidents
                 PROVE  i \in Report /\ (States[i] = "open" <=> Open(i))
      OBVIOUS
    <2>1. States[i] = StateOf(incidents[i])
      BY RegisterView
    <2>2. StateOf(incidents[i]) = "open" <=> Open(i)
      BY DEF StateOf, Open
    <2> QED BY <2>1, <2>2 DEF TypeOK
  <1>3. \A i : i \in Register!Admitting(r) <=> i \in DOMAIN incidents /\ i \in Reached[r] /\ States[i] = "open"
    BY RegisterView DEF Register!Admitting, Register!Registered
  <1>4. \A i : i \in Candidates(r) <=> /\ i \in DOMAIN incidents /\ Open(i)
                                       /\ Domain[i] = Domain[r] /\ i \in Disk[r]
                                       /\ Distance(i, r) <= Window[r]
    BY DEF Candidates
  <1> QED BY <1>1, <1>2, <1>3, <1>4

\* The observations of the incidents after a trigger.
LEMMA MembersAfter ==
  ASSUME TypeOK, NEW r \in Report, NEW i \in Report, NEW row \in Row, Tables(r, i, row)
  PROVE  /\ Attached(i)' = Attached(i) \cup {r.of}
         /\ \A j \in DOMAIN incidents : j # i => Attached(j)' = Attached(j) \ {r.of}
         /\ Attached(i) # {} => i \in DOMAIN incidents
  <1>1. /\ r.of \in Observation /\ incidentOf'[r.of] = i
        /\ \A o \in Observation : o # r.of => incidentOf'[o] = incidentOf[o]
    BY DEF Tables
  <1>2. \A o \in Observation : incidentOf[o] = i => i \in DOMAIN incidents
    BY ReportAssumption DEF TypeOK
  <1> QED BY <1>1, <1>2 DEF Attached

\* What the register is asked to file, it has not filed for good.
LEMMA AttachingFiles ==
  ASSUME NEW r \in Report, NEW i, Attaches(r, i) PROVE Register!Filing(r)
  BY DEF Attaches, Register!Filing

\* Joining is filing, also when a death keeps the row from being rescored.
LEMMA JoinFiles ==
  ASSUME TypeOK, NEW r \in Report, NEW i \in Report, NEW row \in Row,
         Attaches(r, i), Joins(r, i, row), Tables(r, i, row)
  PROVE  i \in Register!Registered /\ Register!File(r, i)
  <1>0. i \in DOMAIN incidents /\ i \in Candidates(r)
    BY DEF Joins, Nearest, Candidates
  <1>1. i \in Register!Registered /\ i \in Register!Admitting(r) /\ Register!Filing(r)
    BY <1>0, CandidatesAdmit, AttachingFiles, RegisterView DEF Register!Registered
  <1>2. /\ DOMAIN incidents' = DOMAIN incidents /\ incidents'[i] = row
        /\ \A j \in DOMAIN incidents : j # i => incidents'[j] = incidents[j]
    BY <1>0 DEF Tables
  <1>3. Members' = [j \in Register!Registered |-> IF j = i THEN Members[j] \cup {r.of} ELSE Members[j] \ {r.of}]
    <2>1. \A j \in DOMAIN incidents : Attached(j)' = IF j = i THEN Members[j] \cup {r.of} ELSE Members[j] \ {r.of}
      BY <1>0, MembersAfter, RegisterView
    <2>2. Members' = [j \in DOMAIN incidents |-> Attached(j)']
      BY <1>2 DEF Members
    <2> QED BY <2>1, <2>2, RegisterView DEF Register!Registered
  <1>4. Held' = [Held EXCEPT ![i] = @ \cup {r.of}]
    <2>1. held'[i] = held[i] \cup {r.of} /\ \A j \in DOMAIN incidents : j # i => held'[j] = held[j]
      BY DEF Tables, TypeOK
    <2> QED BY <1>0, <1>2, <2>1 DEF Held
  <1>5. /\ row.status = incidents[i].status /\ row.dismissed = incidents[i].dismissed
        /\ row.package = incidents[i].package
    BY DEF Joins
  <1>6. StateOf(row) = StateOf(incidents[i]) /\ CitedBy(row) = CitedBy(incidents[i])
    BY <1>5, SameView
  <1>7. States' = States /\ Cited' = Cited
    BY <1>0, <1>2, <1>6 DEF States, Cited
  <1> QED BY <1>1, <1>3, <1>4, <1>7 DEF Register!File

\* Creating founds.
LEMMA CreateFounds ==
  ASSUME TypeOK, HeldIsAttached, NEW r \in Report, NEW row \in Row,
         Attaches(r, r), Founds(r, row), Tables(r, r, row)
  PROVE  Register!Found(r)
  <1>0. /\ r \notin DOMAIN incidents /\ DOMAIN incidents' = DOMAIN incidents \cup {r}
        /\ incidents'[r] = row /\ \A j \in DOMAIN incidents : incidents'[j] = incidents[j]
    BY DEF Founds, Tables
  <1>1. Register!Filing(r) /\ Register!Admitting(r) = {}
    BY CandidatesAdmit, AttachingFiles DEF Founds
  <1>2. held'[r] = {r.of} /\ \A j \in DOMAIN incidents : held'[j] = held[j]
    <2>1. held[r] = {}
      BY <1>0 DEF HeldIsAttached, TypeOK
    <2> QED BY <1>0, <2>1 DEF Tables, TypeOK
  <1>3. StateOf(row) = "open" /\ CitedBy(row) = {}
    BY DEF StateOf, CitedBy, Founds
  <1>4. Members' = [j \in DOMAIN incidents \cup {r} |-> IF j = r THEN {r.of} ELSE Members[j] \ {r.of}]
    <2>1. Members' = [j \in DOMAIN incidents \cup {r} |-> Attached(j)']
      BY <1>0 DEF Members
    <2>2. \A j \in DOMAIN incidents \cup {r} :
            Attached(j)' = IF j = r THEN {r.of} ELSE Members[j] \ {r.of}
      BY <1>0, MembersAfter, RegisterView
    <2> QED BY <2>1, <2>2
  <1>5. States' = [j \in DOMAIN incidents \cup {r} |-> IF j = r THEN "open" ELSE States[j]]
    BY <1>0, <1>3, RegisterView DEF States
  <1>6. Cited' = [j \in DOMAIN incidents \cup {r} |-> IF j = r THEN {} ELSE Cited[j]]
    BY <1>0, <1>3, RegisterView DEF Cited
  <1>7. Held' = [j \in DOMAIN incidents \cup {r} |-> IF j = r THEN {r.of} ELSE Held[j]]
    BY <1>0, <1>2, RegisterView DEF Held
  <1> QED BY <1>0, <1>1, <1>4, <1>5, <1>6, <1>7, RegisterView DEF Register!Found, Register!Registered

\* A step that changes one row and attaches nothing moves the incident or publishes.
LEMMA OneRow ==
  ASSUME TypeOK, NEW i \in DOMAIN incidents, NEW row,
         incidents' = [incidents EXCEPT ![i] = row], UNCHANGED <<incidentOf, settled, held>>
  PROVE  /\ DOMAIN incidents' = DOMAIN incidents
         /\ Members' = Members /\ Held' = Held /\ settled' = settled
         /\ States' = [States EXCEPT ![i] = StateOf(row)]
         /\ Cited' = [Cited EXCEPT ![i] = CitedBy(row)]
  <1>1. DOMAIN incidents' = DOMAIN incidents /\ incidents'[i] = row
    OBVIOUS
  <1>2. \A j \in DOMAIN incidents : j # i => incidents'[j] = incidents[j]
    OBVIOUS
  <1>3. Members' = Members
    BY <1>1 DEF Members, Attached
  <1>6. Held' = Held
    BY <1>1 DEF Held
  <1>4. States' = [States EXCEPT ![i] = StateOf(row)]
    <2>1. States' = [j \in DOMAIN incidents |-> StateOf(incidents'[j])]
      BY <1>1 DEF States
    <2>2. [States EXCEPT ![i] = StateOf(row)]
            = [j \in DOMAIN incidents |-> IF j = i THEN StateOf(row) ELSE StateOf(incidents[j])]
      BY DEF States
    <2> QED BY <1>1, <1>2, <2>1, <2>2
  <1>5. Cited' = [Cited EXCEPT ![i] = CitedBy(row)]
    <2>1. Cited' = [j \in DOMAIN incidents |-> CitedBy(incidents'[j])]
      BY <1>1 DEF Cited
    <2>2. [Cited EXCEPT ![i] = CitedBy(row)]
            = [j \in DOMAIN incidents |-> IF j = i THEN CitedBy(row) ELSE CitedBy(incidents[j])]
      BY DEF Cited
    <2> QED BY <1>1, <1>2, <2>1, <2>2
  <1> QED BY <1>1, <1>3, <1>4, <1>5, <1>6

LEMMA OperatingMoves ==
  ASSUME TypeOK, NEW i \in DOMAIN incidents, NEW row,
         incidents' = [incidents EXCEPT ![i] = row], UNCHANGED <<incidentOf, settled, held>>,
         row.package = incidents[i].package,
         incidents[i].dismissed => row.dismissed
  PROVE  [Register!RegisterNext]_(Register!register)
  <1>1. CitedBy(row) = Cited[i]
    BY RegisterView DEF CitedBy
  <1>2. Cited' = Cited
    BY <1>1, OneRow DEF Cited
  <1>3. CASE States[i] = "dismissed"
    <2>1. StateOf(row) = States[i]
      BY <1>3, RegisterView DEF StateOf
    <2>2. States' = States
      BY <2>1, OneRow DEF States
    <2> QED BY <1>2, <2>2, OneRow DEF Register!register
  <1>4. CASE States[i] # "dismissed"
    <2>1. StateOf(row) \in {"open", "resolved", "dismissed"}
      BY DEF StateOf
    <2>2. Register!Move(i, StateOf(row))
      BY <1>2, <1>4, OneRow DEF Register!Move
    <2> QED BY <2>1, <2>2, RegisterView DEF Register!RegisterNext, Register!Registered
  <1> QED BY <1>3, <1>4

LEMMA StoringPublishes ==
  ASSUME TypeOK, NEW i \in DOMAIN incidents, NEW row,
         incidents' = [incidents EXCEPT ![i] = row], UNCHANGED <<incidentOf, settled, held>>,
         StateOf(row) = StateOf(incidents[i]),
         row.package # None, row.package.cites \subseteq held[i]
  PROVE  Register!Publish(i)
  <1>1. States' = States
    BY OneRow DEF States
  <1>2. CitedBy(row) \in SUBSET Held[i]
    BY RegisterView DEF CitedBy
  <1> QED BY <1>1, <1>2, OneRow DEF Register!Publish

-----------------------------------------------------------------------------
(* Every step is a step of the register or none of its business *)

\* Recording is filing or founding, a removal withdraws, storing publishes.
LEMMA StepImplements ==
  ASSUME TypeOK, HeldIsAttached, PassesReadHeld, [Next]_vars
  PROVE  [Register!RegisterNext]_(Register!register)
  <1>0. DOMAIN incidents \subseteq Report /\ \A i \in DOMAIN incidents : incidents[i] \in Row
    BY DEF TypeOK
  <1>1. ASSUME NEW r \in Report, RecordTrigger(r) \/ RecordTriggerCut(r) \/ RulingCut(r)
        PROVE  Register!RegisterNext
    <2>1. PICK i \in Report, row \in Row : Fuses(r, i, row) /\ Tables(r, i, row)
      BY <1>1, Triggering
    <2>2. CASE Joins(r, i, row)
      BY <2>1, <2>2, JoinFiles DEF Fuses, Register!RegisterNext
    <2>3. CASE i = r /\ Founds(r, row)
      BY <2>1, <2>3, CreateFounds DEF Fuses, Register!RegisterNext
    <2> QED BY <2>1, <2>2, <2>3 DEF Fuses
  <1>2. ASSUME NEW r \in Report, RuleOut(r)
        PROVE  Register!RegisterNext
    <2>1. Members' = Members /\ Held' = Held /\ States' = States /\ Cited' = Cited
      BY <1>2 DEF RuleOut, Members, Held, States, Cited, Attached
    <2>2. Register!Reject(r)
      BY <1>2, <2>1 DEF RuleOut, Register!Reject
    <2> QED BY <2>2 DEF Register!RegisterNext
  <1>8. ASSUME NEW source \in Source, RemoveSource(source)
        PROVE  Register!RegisterNext
    <2> DEFINE gone == {o \in Observation : o.source = source /\ incidentOf[o] # None}
    <2>1. /\ gone \subseteq Observation /\ \A o \in gone : incidentOf[o] # None
          /\ incidentOf' = [o \in Observation |-> IF o \in gone THEN None ELSE incidentOf[o]]
          /\ settled' = settled \cup gone /\ UNCHANGED <<incidents, held>>
      BY <1>8 DEF RemoveSource
    <2> HIDE DEF gone
    <2>2. \A i \in DOMAIN incidents : Attached(i)' = Attached(i) \ gone
      <3>1. None \notin DOMAIN incidents
        BY <1>0, ReportAssumption
      <3> QED BY <2>1, <3>1 DEF Attached
    <2>3. Members' = [i \in DOMAIN incidents |-> Members[i] \ gone]
      BY <2>1, <2>2 DEF Members
    <2>4. Held' = Held /\ States' = States /\ Cited' = Cited
      BY <2>1 DEF Held, States, Cited
    <2>5. gone \subseteq Register!Filed
      <3>1. \A o \in gone : incidentOf[o] \in DOMAIN incidents /\ o \in Attached(incidentOf[o])
        BY <2>1 DEF TypeOK, Attached
      <3> QED BY <3>1, RegisterView DEF Register!Filed, Register!Registered
    <2>6. Register!Withdraw(gone)
      BY <2>1, <2>3, <2>4, RegisterView DEF Register!Withdraw, Register!Registered
    <2> QED BY <2>5, <2>6 DEF Register!RegisterNext
  <1>3. ASSUME NEW i \in DOMAIN incidents, Operate(i)
        PROVE  [Register!RegisterNext]_(Register!register)
    <2>1. ASSUME NEW row, Write(i, row), row.package = incidents[i].package,
                 incidents[i].dismissed => row.dismissed
          PROVE  [Register!RegisterNext]_(Register!register)
      BY <2>1, OperatingMoves DEF Write
    <2>2. incidents[i] \in Row
      BY <1>0
    <2>3. CASE Ack(i)
      BY <2>1, <2>2, <2>3 DEF Ack, Row
    <2>4. CASE Dispatch(i)
      BY <2>1, <2>2, <2>4 DEF Dispatch, Row
    <2>5. CASE Escalate(i)
      BY <2>1, <2>2, <2>5 DEF Escalate, Row
    <2>6. CASE Resolve(i)
      BY <2>1, <2>2, <2>6 DEF Resolve, Row
    <2>7. CASE Dismiss(i)
      BY <2>1, <2>2, <2>7 DEF Dismiss, Row
    <2> QED BY <1>3, <2>3, <2>4, <2>5, <2>6, <2>7 DEF Operate
  <1>4. ASSUME NEW k \in Run, NEW claim \in Claim, NEW amp \in Amp,
               FinishRun(k, claim, amp) \/ FinishRunCut(k, claim, amp)
        PROVE  Register!RegisterNext
    <2> DEFINE i == runs[k].incident
               built == Built(k, claim, amp)
               row == Stored(incidents[i], built)
               new == Rescored(row, i, Attached(i), Counted(Attached(i)))
    <2>1. /\ i \in DOMAIN incidents /\ built \in Package /\ runs[k].incident # None
          /\ built.cites \subseteq runs[k].seen
      BY <1>4, BuiltType DEF FinishRun, FinishRunCut
    <2>2. built.cites \subseteq held[i]
      BY <2>1 DEF PassesReadHeld
    <2>3. /\ row \in Row /\ row.package = built /\ row.dismissed = incidents[i].dismissed
          /\ incidents[i].status \in {"resolved", "verified"}
               <=> row.status \in {"resolved", "verified"}
      BY <1>0, <2>1, StoredType
    <2>4. new.package = row.package /\ new.status = row.status /\ new.dismissed = row.dismissed
      BY <1>0, <2>1, <2>3, RescoredType, CountedType
    <2>5. built # None
      BY <2>1, PackageAssumption
    <2>6. /\ incidents' = [incidents EXCEPT ![i] = row] \/ incidents' = [incidents EXCEPT ![i] = new]
          /\ UNCHANGED <<incidentOf, settled, held>>
      BY <1>4 DEF FinishRun, FinishRunCut
    <2> HIDE DEF i, built, row, new
    <2>7. StateOf(row) = StateOf(incidents[i]) /\ StateOf(new) = StateOf(incidents[i])
      BY <2>3, <2>4 DEF StateOf
    <2>8. Register!Publish(i)
      BY <2>1, <2>2, <2>3, <2>4, <2>5, <2>6, <2>7, StoringPublishes
    <2>9. i \in Register!Registered
      BY <2>1, RegisterView DEF Register!Registered
    <2> QED BY <2>8, <2>9 DEF Register!RegisterNext
  <1>5. CASE UNCHANGED <<incidentOf, settled, incidents, held>>
    <2>1. Members' = Members /\ Held' = Held /\ States' = States /\ Cited' = Cited
      BY <1>5 DEF Members, Held, States, Cited, Attached
    <2> QED BY <1>5, <2>1 DEF Register!register
  <1>6. ASSUME NEW k \in Run, Understand(k)
        PROVE  [Register!RegisterNext]_(Register!register)
    BY <1>4, <1>5, <1>6 DEF Understand, StartRun, FailRun
  <1>7. CASE Restart \/ UNCHANGED vars
    BY <1>5, <1>7 DEF Restart, vars
  <1> QED BY <1>1, <1>2, <1>3, <1>6, <1>7, <1>8 DEF Next, Triggered

\* Whatever interleaves with the passes and wherever the process dies, the store
\* behaves as the register: an observation is filed where it was admitted, moves only with
\* a ruling given again and goes only with its source, and the understanding published is
\* of observations the incident has had.
THEOREM StoreImplementsRegister == Spec => ImplementsRegister
  <1>1. Init => Register!RegisterInit
    <2> SUFFICES ASSUME Init PROVE Register!RegisterInit
      OBVIOUS
    <2>1. DOMAIN incidents = {}
      BY DEF Init
    <2>2. /\ Members = [i \in {} |-> {}] /\ Held = [i \in {} |-> {}]
          /\ settled = {} /\ States = [i \in {} |-> "open"]
          /\ Cited = [i \in {} |-> {}]
      BY <2>1 DEF Init, Members, Held, States, Cited
    <2> QED BY <2>2 DEF Register!RegisterInit
  <1>2. TypeOK /\ HeldIsAttached /\ PassesReadHeld /\ [Next]_vars
          => [Register!RegisterNext]_(Register!register)
    BY StepImplements
  <1> QED
    BY <1>1, <1>2, TypeCorrect, FusionFacts, CitationsStayInside, PTL
    DEF Spec, ImplementsRegister, Register!RegisterSpec


-----------------------------------------------------------------------------
(* The ingest route and its alerts *)

\* No incident ever had what r reports.
Fresh(r) == \A i \in Report : r.of \notin held[i]

\* A request waits with the alert it raised or joined; what is fused has been sent, and a
\* ruling is no request.
RequestsOK ==
  /\ requests \in [Report -> [phase : Phase, alert : DOMAIN alerts \cup {None}]]
  /\ \A r \in Report \ Ruling : requests[r].phase = "unsent" => Fresh(r) /\ r \notin DOMAIN alerts
  /\ \A r \in Ruling : requests[r].phase = "unsent"

\* The columns of an alert.  Its count of devices is of no consequence here.
AlertRow(row) ==
  /\ DOMAIN row = {"raised", "incident", "superseded", "corroborating"}
  /\ row.raised \in 0..MaxTime /\ row.superseded \in BOOLEAN
  /\ row.incident \in DOMAIN incidents \cup {None}

AlertsOK ==
  /\ DOMAIN alerts \subseteq Report /\ now \in 0..MaxTime
  /\ alerts = [p \in DOMAIN alerts |-> alerts[p]]
  /\ \A p \in DOMAIN alerts : AlertRow(alerts[p])

\* AlertsAreTrue, of one alert.
AlertIsTrue(p) ==
  alerts[p].incident # None =>
    LET i == alerts[p].incident
        reported == {r \in Report : requests[r].alert = p /\ r.of \in held[i]}
    IN  /\ reported # {}
        /\ ~alerts[p].superseded /\ i \notin unswept /\ incidents[i].package # None =>
             \E r \in reported : r.of \notin incidents[i].package.seen

RouteInv == RequestsOK /\ AlertsOK /\ OneBannerPerEvent /\ AlertsAreTrue

-----------------------------------------------------------------------------
(* The store underneath *)

\* What a step of the route does to the incident store is a step of it or nothing.
LEMMA RouteIsStore == [IngestNext]_ingestVars => [Next]_vars
  <1> SUFFICES ASSUME IngestNext PROVE [Next]_vars
    BY DEF ingestVars
  <1>1. ASSUME NEW r \in Report, Post(r) \/ StoreFails(r) PROVE UNCHANGED vars
    BY <1>1 DEF Post, StoreFails
  <1>2. ASSUME NEW r \in Report, Fuse(r) \/ FuseCut(r) PROVE Next
    BY <1>2 DEF Fuse, FuseCut, Next, Triggered
  <1>7. ASSUME NEW r \in Report, Rule(r) PROVE Next
    BY <1>7 DEF Rule, Next, Triggered
  <1>8. ASSUME NEW source \in Source, Remove(source) PROVE Next
    BY <1>8 DEF Remove, Next
  <1>3. ASSUME NEW k \in Run, Finish(k) \/ FinishCut(k) PROVE Next
    BY <1>3 DEF Finish, FinishCut, Next, Understand
  <1>4. ASSUME NEW k \in Run, (\E i \in DOMAIN incidents : StartRun(k, i)) \/ FailRun(k) PROVE Next
    BY <1>4 DEF Next, Understand
  <1>5. ASSUME NEW i \in DOMAIN incidents, Operate(i) \/ Clear(i) PROVE [Next]_vars
    BY <1>5 DEF Next, Clear
  <1>6. CASE Restart \/ Tick
    BY <1>6 DEF Next, Tick
  <1> QED BY <1>1, <1>2, <1>3, <1>4, <1>5, <1>6, <1>7, <1>8 DEF IngestNext

\* The ingest route over the incident store: whatever its requests await and wherever they
\* die, the store sees only steps of its own, so its theorems hold of the route.
THEOREM RouteImplementsStore == IngestSpec => Spec
  <1>1. IngestInit => Init
    BY DEF IngestInit
  <1> QED BY <1>1, RouteIsStore, PTL DEF IngestSpec, Spec

\* What the store keeps on every step, for use below.
StoreOK == TypeOK /\ HeldIsAttached /\ CitationsResolve

LEMMA StoreHolds == IngestSpec => []StoreOK
  BY RouteImplementsStore, TypeCorrect, FusionFacts, CitationsStayInside, PTL DEF StoreOK

-----------------------------------------------------------------------------
(* Rows of alerts *)

\* Changing a column of one alert leaves the other columns and the other alerts.
LEMMA AlertUpdate ==
  ASSUME AlertsOK, NEW p \in DOMAIN alerts, NEW row, AlertRow(row)',
         row.raised = alerts[p].raised, row.superseded = alerts[p].superseded,
         alerts' = [alerts EXCEPT ![p] = row], UNCHANGED now,
         DOMAIN incidents \subseteq DOMAIN incidents'
  PROVE  /\ AlertsOK' /\ DOMAIN alerts' = DOMAIN alerts /\ alerts'[p] = row
         /\ \A q \in DOMAIN alerts : q # p => alerts'[q] = alerts[q]
         /\ \A q \in DOMAIN alerts : /\ alerts'[q].raised = alerts[q].raised
                                     /\ alerts'[q].superseded = alerts[q].superseded
<1>1. /\ DOMAIN alerts' = DOMAIN alerts /\ alerts'[p] = row
      /\ \A q \in DOMAIN alerts : q # p => alerts'[q] = alerts[q]
      /\ alerts' = [q \in DOMAIN alerts' |-> alerts'[q]]
  OBVIOUS
<1>2. \A q \in DOMAIN alerts : AlertRow(alerts[q])' 
  BY <1>1 DEF AlertsOK, AlertRow
<1> QED BY <1>1, <1>2 DEF AlertsOK

\* raisePreAlert with nothing to join: one row more.
LEMMA RaiseFacts ==
  ASSUME AlertsOK, NEW r \in Report, Raise(r), r \notin DOMAIN alerts, UNCHANGED <<now, incidents>>
  PROVE  /\ AlertsOK' /\ DOMAIN alerts' = DOMAIN alerts \cup {r}
         /\ \A p \in DOMAIN alerts : alerts'[p] = alerts[p]
         /\ alerts'[r].raised = now /\ alerts'[r].incident = None /\ ~ alerts'[r].superseded
<1>1. PICK n : alerts' = [p \in DOMAIN alerts \cup {r} |->
                            IF p = r THEN [raised |-> now, incident |-> None, superseded |-> FALSE, corroborating |-> n]
                            ELSE alerts[p]]
  BY DEF Raise
<1>2. /\ DOMAIN alerts' = DOMAIN alerts \cup {r}
      /\ \A p \in DOMAIN alerts : alerts'[p] = alerts[p]
      /\ alerts'[r] = [raised |-> now, incident |-> None, superseded |-> FALSE, corroborating |-> n]
      /\ alerts' = [p \in DOMAIN alerts' |-> alerts'[p]]
  BY <1>1
<1>3. ASSUME NEW p \in DOMAIN alerts' PROVE AlertRow(alerts[p])'
  <2>1. CASE p = r
    <3>1. alerts'[p] = [raised |-> now, incident |-> None, superseded |-> FALSE, corroborating |-> n]
      BY <1>2, <2>1
    <3>2. now \in 0..MaxTime
      BY DEF AlertsOK
    <3> QED BY <3>1, <3>2 DEF AlertRow
  <2>2. CASE p # r
    <3>1. alerts'[p] = alerts[p] /\ AlertRow(alerts[p])
      BY <1>2, <2>2 DEF AlertsOK
    <3> QED BY <3>1 DEF AlertRow
  <2> QED BY <2>1, <2>2
<1> QED BY <1>2, <1>3 DEF AlertsOK

\* A device reporting an event that is open already: the count moves and nothing else.
LEMMA CorroborateFacts ==
  ASSUME AlertsOK, NEW r \in Report, NEW p \in DOMAIN alerts, Corroborate(r, p), UNCHANGED <<now, incidents>>
  PROVE  /\ AlertsOK' /\ DOMAIN alerts' = DOMAIN alerts
         /\ \A q \in DOMAIN alerts : /\ alerts'[q].raised = alerts[q].raised
                                     /\ alerts'[q].incident = alerts[q].incident
                                     /\ alerts'[q].superseded = alerts[q].superseded
<1>1. PICK n : alerts' = [alerts EXCEPT ![p] = [alerts[p] EXCEPT !.corroborating = n]]
  BY DEF Corroborate
<1>a. AlertRow(alerts[p])
  BY DEF AlertsOK
<1>b. PICK row : row = [alerts[p] EXCEPT !.corroborating = n]
  OBVIOUS
<1>c. /\ DOMAIN row = DOMAIN alerts[p] /\ row.raised = alerts[p].raised
      /\ row.superseded = alerts[p].superseded /\ row.incident = alerts[p].incident
  BY <1>a, <1>b DEF AlertRow
<1>2. AlertRow(row)'
  BY <1>a, <1>c DEF AlertRow
<1>3. alerts' = [alerts EXCEPT ![p] = row]
  BY <1>1, <1>b
<1>4. /\ AlertsOK' /\ DOMAIN alerts' = DOMAIN alerts /\ alerts'[p] = row
      /\ \A q \in DOMAIN alerts : q # p => alerts'[q] = alerts[q]
  BY <1>c, <1>2, <1>3, AlertUpdate
<1> QED BY <1>c, <1>4

\* bindPreAlert names another incident and changes nothing else.
LEMMA BoundFacts ==
  ASSUME AlertsOK, NEW r \in Report, requests[r].alert \in DOMAIN alerts \cup {None}, None \notin DOMAIN alerts,
         NEW i \in DOMAIN incidents', DOMAIN incidents \subseteq DOMAIN incidents',
         alerts' = Bound(r, i), UNCHANGED now
  PROVE  /\ AlertsOK' /\ DOMAIN alerts' = DOMAIN alerts
         /\ \A q \in DOMAIN alerts : /\ alerts'[q].raised = alerts[q].raised
                                     /\ alerts'[q].superseded = alerts[q].superseded
                                     /\ alerts'[q].incident = IF q = requests[r].alert THEN i ELSE alerts[q].incident
<1>1. CASE requests[r].alert = None
  <2>1. alerts' = alerts
    BY <1>1 DEF Bound
  <2> QED BY <1>1, <2>1 DEF AlertsOK, AlertRow
<1>2. CASE requests[r].alert # None
  <2>1. PICK p \in DOMAIN alerts : p = requests[r].alert
    BY <1>2
  <2>2. PICK row : row = [alerts[p] EXCEPT !.incident = i]
    OBVIOUS
  <2>3. AlertRow(alerts[p])
    BY DEF AlertsOK
  <2>4. /\ DOMAIN row = DOMAIN alerts[p] /\ row.raised = alerts[p].raised
        /\ row.superseded = alerts[p].superseded /\ row.incident = i
    BY <2>2, <2>3 DEF AlertRow
  <2>5. AlertRow(row)'
    BY <2>3, <2>4 DEF AlertRow
  <2>6. alerts' = [alerts EXCEPT ![p] = row]
    BY <1>2, <2>1, <2>2 DEF Bound
  <2>7. /\ AlertsOK' /\ DOMAIN alerts' = DOMAIN alerts /\ alerts'[p] = row
        /\ \A q \in DOMAIN alerts : q # p => alerts'[q] = alerts[q]
    BY <2>4, <2>5, <2>6, AlertUpdate
  <2> QED BY <2>1, <2>4, <2>7
<1> QED BY <1>1, <1>2

\* supersedePreAlert closes the alerts of an incident and changes nothing else.
LEMMA SupersededFacts ==
  ASSUME AlertsOK, NEW i, alerts' = Superseded(i), UNCHANGED now, DOMAIN incidents \subseteq DOMAIN incidents'
  PROVE  /\ AlertsOK' /\ DOMAIN alerts' = DOMAIN alerts
         /\ \A q \in DOMAIN alerts :
              /\ alerts'[q].raised = alerts[q].raised /\ alerts'[q].incident = alerts[q].incident
              /\ alerts'[q].superseded = (alerts[q].superseded \/ alerts[q].incident = i)
<1>1. DOMAIN alerts' = DOMAIN alerts /\ alerts' = [q \in DOMAIN alerts' |-> alerts'[q]]
  BY DEF Superseded
<1>2. ASSUME NEW q \in DOMAIN alerts
      PROVE  /\ AlertRow(alerts[q])' /\ alerts'[q].raised = alerts[q].raised
             /\ alerts'[q].incident = alerts[q].incident
             /\ alerts'[q].superseded = (alerts[q].superseded \/ alerts[q].incident = i)
  <2>1. AlertRow(alerts[q])
    BY DEF AlertsOK
  <2>2. CASE alerts[q].incident = i
    <3>1. alerts'[q] = [alerts[q] EXCEPT !.superseded = TRUE]
      BY <2>2 DEF Superseded
    <3> QED BY <2>1, <2>2, <3>1 DEF AlertRow
  <2>3. CASE alerts[q].incident # i
    <3>1. alerts'[q] = alerts[q]
      BY <2>3 DEF Superseded
    <3> QED BY <2>1, <2>3, <3>1 DEF AlertRow
  <2> QED BY <2>2, <2>3
<1> QED BY <1>1, <1>2 DEF AlertsOK

-----------------------------------------------------------------------------
(* Requests *)

\* A request that moves on keeps its alert.
LEMMA RequestMoves ==
  ASSUME RequestsOK, None \notin DOMAIN alerts, DOMAIN alerts' = DOMAIN alerts, NEW r \in Report, requests[r].phase # "unsent",
         NEW x \in Phase \ {"unsent"}, requests' = [requests EXCEPT ![r].phase = x],
         \A q \in Report \ Ruling : q # r /\ Fresh(q) => Fresh(q)'
  PROVE  RequestsOK' /\ \A q \in Report : requests'[q].alert = requests[q].alert
<1>1. requests' \in [Report -> [phase : Phase, alert : DOMAIN alerts' \cup {None}]]
  BY DEF RequestsOK
<1>2. requests'[r].phase = x /\ requests'[r].alert = requests[r].alert
  BY DEF RequestsOK
<1>3. \A q \in Report : q # r => requests'[q] = requests[q]
  BY DEF RequestsOK
<1> QED BY <1>1, <1>2, <1>3 DEF RequestsOK

\* The process dies: those that waited have failed and keep their alerts.
LEMMA RequestsLost ==
  ASSUME RequestsOK, DOMAIN alerts' = DOMAIN alerts, requests' = Lost,
         \A q \in Report \ Ruling : requests[q].phase = "unsent" /\ Fresh(q) => Fresh(q)'
  PROVE  RequestsOK' /\ \A q \in Report : requests'[q].alert = requests[q].alert
<1>1. ASSUME NEW q \in Report
      PROVE  /\ requests'[q] \in [phase : Phase, alert : DOMAIN alerts \cup {None}]
             /\ requests'[q].alert = requests[q].alert
             /\ requests'[q].phase = "unsent" <=> requests[q].phase = "unsent"
  <2>1. requests'[q] = IF requests[q].phase = "storing" THEN [requests[q] EXCEPT !.phase = "failed"] ELSE requests[q]
    BY DEF Lost
  <2>2. requests[q] \in [phase : Phase, alert : DOMAIN alerts \cup {None}]
    BY DEF RequestsOK
  <2>3. CASE requests[q].phase = "storing"
    BY <2>1, <2>2, <2>3 DEF Phase
  <2>4. CASE requests[q].phase # "storing"
    BY <2>1, <2>2, <2>4
  <2> QED BY <2>3, <2>4
<1>2. requests' \in [Report -> [phase : Phase, alert : DOMAIN alerts' \cup {None}]]
  BY <1>1 DEF Lost
<1>3. \A q \in Report \ Ruling : requests'[q].phase = "unsent" => Fresh(q)' /\ q \notin DOMAIN alerts'
  BY <1>1 DEF RequestsOK
<1>4. \A q \in Ruling : requests'[q].phase = "unsent"
  BY <1>1, RulingAssumption DEF RequestsOK
<1> QED BY <1>1, <1>2, <1>3, <1>4 DEF RequestsOK

-----------------------------------------------------------------------------
(* What keeps the two properties *)

\* No new alert, and none that opens again or was raised at another time.
LEMMA BannersKept ==
  ASSUME OneBannerPerEvent, DOMAIN alerts' = DOMAIN alerts,
         \A q \in DOMAIN alerts : /\ alerts'[q].raised = alerts[q].raised
                                  /\ alerts[q].superseded => alerts'[q].superseded
  PROVE  OneBannerPerEvent'
  BY DEF OneBannerPerEvent

\* An incident remembers what it had, so an alert stays true while the package of its
\* incident stays.
LEMMA TruthKept ==
  ASSUME TypeOK, StepShape, NEW p \in DOMAIN alerts, AlertIsTrue(p),
         alerts'[p].incident = alerts[p].incident, alerts[p].superseded => alerts'[p].superseded,
         alerts[p].incident # None => alerts[p].incident \in DOMAIN incidents,
         \A r \in Report : Fresh(r) \/ requests'[r].alert = requests[r].alert,
         \/ alerts'[p].superseded
         \/ alerts[p].incident \in unswept'
         \/ /\ alerts[p].incident \in unswept => alerts[p].incident \in unswept'
            /\ \A i \in DOMAIN incidents : i = alerts[p].incident => incidents'[i].package = incidents[i].package
  PROVE  AlertIsTrue(p)'
<1> SUFFICES ASSUME alerts[p].incident # None PROVE AlertIsTrue(p)'
  BY DEF AlertIsTrue
<1>1. PICK i \in DOMAIN incidents : i = alerts[p].incident
  OBVIOUS
<1> DEFINE reported == {r \in Report : requests[r].alert = p /\ r.of \in held[i]}
<1>2. reported \subseteq {r \in Report : requests'[r].alert = p /\ r.of \in held'[i]}
  BY <1>1 DEF StepShape, Fresh, TypeOK
<1>3. reported # {} /\ (~alerts[p].superseded /\ i \notin unswept /\ incidents[i].package # None =>
                           \E r \in reported : r.of \notin incidents[i].package.seen)
  BY <1>1 DEF AlertIsTrue
<1> HIDE DEF reported
<1> QED BY <1>1, <1>2, <1>3 DEF AlertIsTrue

-----------------------------------------------------------------------------
(* The steps *)

\* A trigger gives its incident one observation, and touches no package.
LEMMA FusingFacts ==
  ASSUME TypeOK, NEW r \in Report, RecordTrigger(r) \/ RecordTriggerCut(r) \/ RulingCut(r)
  PROVE  /\ r.of \notin settled
         /\ incidentOf'[r.of] \in DOMAIN incidents' /\ r.of \in held'[incidentOf'[r.of]]
         /\ \A q \in Report \ Ruling : q # r /\ Fresh(q) => Fresh(q)'
         /\ \A i \in DOMAIN incidents : incidents'[i].package = incidents[i].package
         /\ \A i \in DOMAIN incidents' \ DOMAIN incidents : incidents'[i].package = None
<1>1. PICK i \in Report, row \in Row : Fuses(r, i, row) /\ Tables(r, i, row)
  BY Triggering
<1>2. r.of \notin settled
  BY <1>1 DEF Fuses, Attaches
<1>3. /\ incidentOf'[r.of] = i /\ i \in DOMAIN incidents' /\ r.of \in held'[i]
  BY <1>1 DEF Tables
<1>4. ASSUME NEW q \in Report \ Ruling, q # r, Fresh(q) PROVE Fresh(q)'
  <2>1. q.of # r.of
    BY <1>4, RulingAssumption
  <2>2. \A j \in Report : held'[j] \subseteq held[j] \cup {r.of}
    BY <1>1 DEF Tables
  <2> QED BY <1>4, <2>1, <2>2 DEF Fresh
<1>5. /\ DOMAIN incidents' = DOMAIN incidents \cup {i} /\ incidents'[i] = row
      /\ \A j \in DOMAIN incidents : j # i => incidents'[j] = incidents[j]
  BY <1>1 DEF Tables
<1>6. \/ i \in DOMAIN incidents /\ row.package = incidents[i].package
      \/ i \notin DOMAIN incidents /\ row.package = None
  BY <1>1 DEF Tables
<1> QED BY <1>2, <1>3, <1>4, <1>5, <1>6

\* No action of an operator touches a package.
LEMMA OperatingFacts ==
  ASSUME TypeOK, NEW i \in DOMAIN incidents, Operate(i)
  PROVE  /\ UNCHANGED held /\ DOMAIN incidents' = DOMAIN incidents
         /\ \A j \in DOMAIN incidents : incidents'[j].package = incidents[j].package
<1>1. incidents[i] \in Row
  BY DEF TypeOK
<1>2. ASSUME NEW row, Write(i, row), row.package = incidents[i].package
      PROVE  /\ UNCHANGED held /\ DOMAIN incidents' = DOMAIN incidents
             /\ \A j \in DOMAIN incidents : incidents'[j].package = incidents[j].package
  BY <1>2 DEF Write
<1>3. CASE Ack(i)
  BY <1>1, <1>2, <1>3 DEF Ack, Row
<1>4. CASE Dispatch(i)
  BY <1>1, <1>2, <1>4 DEF Dispatch, Row
<1>5. CASE Escalate(i)
  BY <1>1, <1>2, <1>5 DEF Escalate, Row
<1>6. CASE Resolve(i)
  BY <1>1, <1>2, <1>6 DEF Resolve, Row
<1>7. CASE Dismiss(i)
  BY <1>1, <1>2, <1>7 DEF Dismiss, Row
<1> QED BY <1>3, <1>4, <1>5, <1>6, <1>7 DEF Operate

\* A report posted: the alert it joins is open, or none of its trigger is open near it.
LEMMA PostStep ==
  ASSUME StoreOK, RouteInv, StepShape, NEW r \in Report, Post(r)
  PROVE  RouteInv'
<1> USE DEF RouteInv
<1>0. /\ requests[r].phase = "unsent" /\ UNCHANGED <<vars, unswept, now>>
      /\ Fresh(r) /\ r \notin DOMAIN alerts /\ r \notin Ruling
  BY DEF Post, RequestsOK
<1>a. UNCHANGED <<held, incidents>> /\ \A q \in Report : Fresh(q)' <=> Fresh(q)
  BY <1>0 DEF vars, Fresh
<1>b. None \notin DOMAIN alerts /\ \A p \in DOMAIN alerts : AlertIsTrue(p) /\ alerts[p].incident \in DOMAIN incidents \cup {None}
  BY ReportAssumption DEF AlertsOK, AlertRow, AlertsAreTrue, AlertIsTrue
<1>1. ASSUME NEW p \in DOMAIN alerts' \cup {None}, Awaits(r, p), DOMAIN alerts' \subseteq DOMAIN alerts \cup {r},
             DOMAIN alerts \subseteq DOMAIN alerts'
      PROVE  RequestsOK' /\ \A q \in Report : q # r => requests'[q] = requests[q]
  <2>1. requests' = [requests EXCEPT ![r] = [phase |-> "storing", alert |-> p]]
    BY <1>1 DEF Awaits
  <2>2. requests'[r] = [phase |-> "storing", alert |-> p] /\ \A q \in Report : q # r => requests'[q] = requests[q]
    BY <2>1 DEF RequestsOK
  <2>3. [phase |-> "storing", alert |-> p] \in [phase : Phase, alert : DOMAIN alerts' \cup {None}]
    BY <1>1 DEF Phase
  <2>4. \A q \in Report : requests[q] \in [phase : Phase, alert : DOMAIN alerts' \cup {None}]
    BY <1>1 DEF RequestsOK
  <2>5. requests' \in [Report -> [phase : Phase, alert : DOMAIN alerts' \cup {None}]]
    BY <2>1, <2>3, <2>4 DEF RequestsOK
  <2>6. \A q \in Report \ Ruling : requests'[q].phase = "unsent" => Fresh(q)' /\ q \notin DOMAIN alerts'
    <3> SUFFICES ASSUME NEW q \in Report \ Ruling, requests'[q].phase = "unsent"
                 PROVE  Fresh(q)' /\ q \notin DOMAIN alerts'
      OBVIOUS
    <3>1. q # r /\ requests[q].phase = "unsent"
      BY <2>2
    <3> QED BY <1>a, <1>1, <3>1 DEF RequestsOK
  <2>7. \A q \in Ruling : requests'[q].phase = "unsent"
    BY <1>0, <2>2, RulingAssumption DEF RequestsOK
  <2> QED BY <2>2, <2>5, <2>6, <2>7 DEF RequestsOK
<1>2. ASSUME NEW p \in DOMAIN alerts, \A q \in Report : q # r => requests'[q] = requests[q],
             alerts'[p].incident = alerts[p].incident, alerts'[p].superseded = alerts[p].superseded
      PROVE  AlertIsTrue(p)'
  <2>1. \A q \in Report : Fresh(q) \/ requests'[q].alert = requests[q].alert
    BY <1>0, <1>2
  <2> QED BY <1>0, <1>a, <1>b, <1>2, <2>1, TruthKept DEF StoreOK
<1>3. CASE r \notin LifeSafety /\ Awaits(r, None) /\ UNCHANGED alerts
  <2>1. RequestsOK' /\ \A p \in DOMAIN alerts : AlertIsTrue(p)'
    BY <1>1, <1>2, <1>3
  <2>2. AlertsOK'
    BY <1>0, <1>a, <1>3 DEF AlertsOK, AlertRow
  <2>3. OneBannerPerEvent'
    BY <1>3, BannersKept
  <2>4. AlertsAreTrue'
    BY <1>3, <2>1 DEF AlertsAreTrue, AlertIsTrue
  <2> QED BY <2>1, <2>2, <2>3, <2>4
<1>4. ASSUME NEW p \in Newest(Nearby(r)), Awaits(r, p), Corroborate(r, p) PROVE RouteInv'
  <2>0. p \in DOMAIN alerts
    BY DEF Newest, Nearby, Recent
  <2>1. /\ AlertsOK' /\ DOMAIN alerts' = DOMAIN alerts
        /\ \A q \in DOMAIN alerts : /\ alerts'[q].raised = alerts[q].raised
                                    /\ alerts'[q].incident = alerts[q].incident
                                    /\ alerts'[q].superseded = alerts[q].superseded
    BY <1>0, <1>a, <1>4, <2>0, CorroborateFacts
  <2>2. RequestsOK' /\ \A q \in DOMAIN alerts : AlertIsTrue(q)'
    BY <1>1, <1>2, <1>4, <2>0, <2>1
  <2>3. OneBannerPerEvent'
    BY <2>1, BannersKept
  <2>4. AlertsAreTrue'
    BY <2>1, <2>2 DEF AlertsAreTrue, AlertIsTrue
  <2> QED BY <2>1, <2>2, <2>3, <2>4
<1>5. CASE Nearby(r) = {} /\ Awaits(r, r) /\ Raise(r)
  <2>1. /\ AlertsOK' /\ DOMAIN alerts' = DOMAIN alerts \cup {r}
        /\ \A p \in DOMAIN alerts : alerts'[p] = alerts[p]
        /\ alerts'[r].raised = now /\ alerts'[r].incident = None /\ ~ alerts'[r].superseded
    BY <1>0, <1>a, <1>5, RaiseFacts
  <2>2. RequestsOK' /\ \A q \in DOMAIN alerts : AlertIsTrue(q)'
    BY <1>1, <1>2, <1>5, <2>1
  <2>3. AlertsAreTrue'
    BY <2>1, <2>2 DEF AlertsAreTrue, AlertIsTrue
  <2>4. ASSUME NEW q \in DOMAIN alerts, ~ alerts[q].superseded, Trigger[q] = Trigger[r], q \in Box[r]
        PROVE  q.t + AlertWindow <= now
    <3>1. q \notin Recent(r)
      BY <1>5, <2>4 DEF Nearby
    <3>2. ~ q.t > now - AlertWindow
      BY <2>4, <3>1 DEF Recent
    <3>3. q.t \in Int /\ now \in Int /\ AlertWindow \in Int
      BY AlertAssumption DEF AlertsOK
    <3> QED BY <3>2, <3>3
  <2>5. OneBannerPerEvent'
    <3> SUFFICES ASSUME NEW p \in DOMAIN alerts', NEW q \in DOMAIN alerts', p # q,
                        ~ alerts'[p].superseded, ~ alerts'[q].superseded, Trigger[p] = Trigger[q], p \in Box[q]
                 PROVE  \/ p.t + AlertWindow <= alerts'[q].raised
                        \/ q.t + AlertWindow <= alerts'[p].raised
      BY DEF OneBannerPerEvent
    <3>1. p \in Report /\ q \in Report /\ q \in Box[p]
      BY <2>1, AlertAssumption DEF AlertsOK
    <3>2. CASE p = r
      BY <2>1, <2>4, <3>1, <3>2
    <3>3. CASE q = r
      BY <2>1, <2>4, <3>1, <3>3
    <3>4. CASE p # r /\ q # r
      BY <2>1, <3>4 DEF OneBannerPerEvent
    <3> QED BY <3>2, <3>3, <3>4
  <2> QED BY <2>1, <2>2, <2>3, <2>5
<1> QED BY <1>3, <1>4, <1>5 DEF Post

\* After the await: the alert is bound to the incident the report has just joined or
\* founded, and no package has read that report.
LEMMA FuseStep ==
  ASSUME StoreOK, TypeOK', RouteInv, StepShape, NEW r \in Report, Fuse(r)
  PROVE  RouteInv'
<1> USE DEF RouteInv
<1>0. /\ requests[r].phase = "storing" /\ requests' = [requests EXCEPT ![r].phase = "done"]
      /\ alerts' = Bound(r, incidentOf'[r.of]) /\ UNCHANGED <<unswept, now>>
  BY DEF Fuse
<1>a. /\ r.of \notin settled
      /\ incidentOf'[r.of] \in DOMAIN incidents' /\ r.of \in held'[incidentOf'[r.of]]
      /\ \A q \in Report \ Ruling : q # r /\ Fresh(q) => Fresh(q)'
      /\ \A j \in DOMAIN incidents : incidents'[j].package = incidents[j].package
      /\ \A j \in DOMAIN incidents' \ DOMAIN incidents : incidents'[j].package = None
  BY FusingFacts DEF Fuse, StoreOK
<1>b. DOMAIN incidents \subseteq DOMAIN incidents'
  BY DEF StepShape
<1>d. PICK i \in DOMAIN incidents' : i = incidentOf'[r.of]
  BY <1>a
<1>e. r \notin Ruling /\ \A j \in Report : r.of \notin held[j]
  <2>1. r \notin Ruling
    BY <1>0 DEF RequestsOK
  <2> QED BY <1>a, <2>1 DEF StoreOK, HeldIsAttached
<1>c. None \notin DOMAIN alerts /\ requests[r].alert \in DOMAIN alerts \cup {None}
  BY ReportAssumption DEF AlertsOK, RequestsOK
<1>1. /\ AlertsOK' /\ DOMAIN alerts' = DOMAIN alerts
      /\ \A q \in DOMAIN alerts : /\ alerts'[q].raised = alerts[q].raised
                                  /\ alerts'[q].superseded = alerts[q].superseded
                                  /\ alerts'[q].incident = IF q = requests[r].alert THEN i ELSE alerts[q].incident
  BY <1>0, <1>b, <1>c, <1>d, BoundFacts
<1>2. RequestsOK' /\ \A q \in Report : requests'[q].alert = requests[q].alert
  BY <1>0, <1>a, <1>c, <1>1, RequestMoves DEF Phase
<1>3. OneBannerPerEvent'
  BY <1>1, BannersKept
<1>4. ASSUME NEW p \in DOMAIN alerts PROVE AlertIsTrue(p)'
  <2>1. CASE p = requests[r].alert
    <3>1. r.of \in held'[i] /\ requests'[r].alert = p /\ alerts'[p].incident = i
      BY <1>1, <1>2, <1>a, <1>d, <2>1
    <3>2. incidents'[i].package # None => r.of \notin incidents'[i].package.seen
      <4>1. CASE i \in DOMAIN incidents
        BY <1>a, <1>b, <1>e, <4>1 DEF StoreOK, CitationsResolve, TypeOK
      <4>2. CASE i \notin DOMAIN incidents
        BY <1>a, <1>b, <4>2
      <4> QED BY <4>1, <4>2
    <3> QED BY <3>1, <3>2 DEF AlertIsTrue
  <2>2. CASE p # requests[r].alert
    <3>1. AlertIsTrue(p) /\ alerts[p].incident \in DOMAIN incidents \cup {None}
      BY DEF AlertsOK, AlertRow, AlertsAreTrue, AlertIsTrue
    <3>2. alerts'[p].incident = alerts[p].incident /\ alerts'[p].superseded = alerts[p].superseded
      BY <1>1, <2>2
    <3> QED BY <1>0, <1>a, <1>2, <3>1, <3>2, TruthKept DEF StoreOK
  <2> QED BY <2>1, <2>2
<1>5. AlertsAreTrue'
  BY <1>1, <1>4 DEF AlertsAreTrue, AlertIsTrue
<1> QED BY <1>1, <1>2, <1>3, <1>5

\* A step that leaves the alerts and the packages alone.
LEMMA AlertsStay ==
  ASSUME StoreOK, RouteInv, StepShape, RequestsOK', UNCHANGED alerts, now' \in 0..MaxTime,
         \A r \in Report : requests'[r].alert = requests[r].alert, unswept \subseteq unswept',
         \A i \in DOMAIN incidents : incidents'[i].package = incidents[i].package
  PROVE  RouteInv'
<1> USE DEF RouteInv
<1>1. AlertsOK'
  <2>1. ASSUME NEW p \in DOMAIN alerts PROVE AlertRow(alerts[p])'
    BY DEF AlertsOK, AlertRow, StepShape
  <2> QED BY <2>1 DEF AlertsOK
<1>2. OneBannerPerEvent'
  BY BannersKept
<1>3. ASSUME NEW p \in DOMAIN alerts PROVE AlertIsTrue(p)'
  <2>1. AlertIsTrue(p) /\ alerts[p].incident \in DOMAIN incidents \cup {None}
    BY DEF AlertsOK, AlertRow, AlertsAreTrue, AlertIsTrue
  <2> QED BY <2>1, TruthKept DEF StoreOK
<1>4. AlertsAreTrue'
  BY <1>3 DEF AlertsAreTrue, AlertIsTrue
<1> QED BY <1>1, <1>2, <1>4

\* A step that clears the alerts of an incident, and touches no other incident.
LEMMA AlertsCleared ==
  ASSUME StoreOK, RouteInv, StepShape, RequestsOK', NEW i, alerts' = Superseded(i), UNCHANGED now,
         \A r \in Report : requests'[r].alert = requests[r].alert, unswept \subseteq unswept' \cup {i},
         \A j \in DOMAIN incidents : j # i => incidents'[j].package = incidents[j].package
  PROVE  RouteInv'
<1> USE DEF RouteInv
<1>1. /\ AlertsOK' /\ DOMAIN alerts' = DOMAIN alerts
      /\ \A q \in DOMAIN alerts :
           /\ alerts'[q].raised = alerts[q].raised /\ alerts'[q].incident = alerts[q].incident
           /\ alerts'[q].superseded = (alerts[q].superseded \/ alerts[q].incident = i)
  BY SupersededFacts DEF StepShape
<1>2. OneBannerPerEvent'
  BY <1>1, BannersKept
<1>3. ASSUME NEW p \in DOMAIN alerts PROVE AlertIsTrue(p)'
  <2>1. AlertIsTrue(p) /\ alerts[p].incident \in DOMAIN incidents \cup {None}
    BY DEF AlertsOK, AlertRow, AlertsAreTrue, AlertIsTrue
  <2>2. alerts'[p].incident = alerts[p].incident /\ (alerts[p].superseded => alerts'[p].superseded)
    BY <1>1
  <2>3. CASE alerts[p].incident = i
    <3>1. alerts'[p].superseded
      BY <1>1, <2>3
    <3> QED BY <2>1, <2>2, <3>1, TruthKept DEF StoreOK
  <2>4. CASE alerts[p].incident # i
    BY <2>1, <2>2, <2>4, TruthKept DEF StoreOK
  <2> QED BY <2>3, <2>4
<1>4. AlertsAreTrue'
  BY <1>1, <1>3 DEF AlertsAreTrue, AlertIsTrue
<1> QED BY <1>1, <1>2, <1>4

\* A pass stores its package and clears the alerts of its incident, or dies between the two.
LEMMA FinishStep ==
  ASSUME StoreOK, RouteInv, StepShape, NEW k \in Run, Finish(k) \/ FinishCut(k)
  PROVE  RouteInv'
<1> DEFINE i == runs[k].incident
<1>1. /\ UNCHANGED <<held, now>> /\ \A j \in DOMAIN incidents : j # i => incidents'[j] = incidents[j]
      /\ \A q \in Report : Fresh(q)' <=> Fresh(q)
  BY DEF Finish, FinishCut, FinishRun, FinishRunCut, Fresh
<1>2. \/ alerts' = Superseded(i) /\ unswept \subseteq unswept' \cup {i}
      \/ UNCHANGED alerts /\ unswept' = unswept \cup {i}
  BY DEF Finish, FinishCut
<1>3. DOMAIN alerts' = DOMAIN alerts
  BY <1>2 DEF Superseded
<1>4. RequestsOK' /\ \A r \in Report : requests'[r].alert = requests[r].alert
  <2>1. CASE Finish(k)
    <3>1. UNCHANGED requests
      BY <2>1 DEF Finish
    <3> QED BY <1>1, <1>3, <3>1 DEF RouteInv, RequestsOK
  <2>2. CASE FinishCut(k)
    BY <1>1, <1>3, <2>2, RequestsLost DEF RouteInv, FinishCut
  <2> QED BY <2>1, <2>2
<1> HIDE DEF i
<1>5. CASE alerts' = Superseded(i) /\ unswept \subseteq unswept' \cup {i}
  BY <1>1, <1>4, <1>5, AlertsCleared
<1>6. CASE UNCHANGED alerts /\ unswept' = unswept \cup {i}
  <2> USE DEF RouteInv
  <2>1. AlertsOK'
    <3>1. ASSUME NEW p \in DOMAIN alerts PROVE AlertRow(alerts[p])'
      BY <1>6 DEF AlertsOK, AlertRow, StepShape
    <3> QED BY <1>1, <1>6, <3>1 DEF AlertsOK
  <2>2. OneBannerPerEvent'
    BY <1>6, BannersKept
  <2>3. ASSUME NEW p \in DOMAIN alerts PROVE AlertIsTrue(p)'
    <3>1. AlertIsTrue(p) /\ alerts[p].incident \in DOMAIN incidents \cup {None}
      BY DEF AlertsOK, AlertRow, AlertsAreTrue, AlertIsTrue
    <3>2. CASE alerts[p].incident = i
      BY <1>4, <1>6, <3>1, <3>2, TruthKept DEF StoreOK
    <3>3. CASE alerts[p].incident # i
      BY <1>1, <1>4, <1>6, <3>1, <3>3, TruthKept DEF StoreOK
    <3> QED BY <3>2, <3>3
  <2>4. AlertsAreTrue'
    BY <1>6, <2>3 DEF AlertsAreTrue, AlertIsTrue
  <2> QED BY <1>4, <2>1, <2>2, <2>4
<1> QED BY <1>2, <1>5, <1>6

LEMMA RouteStep ==
  ASSUME StoreOK, TypeOK', RouteInv, [IngestNext]_ingestVars
  PROVE  RouteInv'
<1>0. StepShape
  BY RouteIsStore, StepKeepsShape DEF StoreOK
<1>a. RequestsOK /\ AlertsOK /\ now \in 0..MaxTime /\ None \notin DOMAIN alerts
  BY ReportAssumption DEF RouteInv, AlertsOK
<1>1. ASSUME UNCHANGED <<requests, alerts, unswept>>, now' \in 0..MaxTime, UNCHANGED held,
             \A i \in DOMAIN incidents : incidents'[i].package = incidents[i].package
      PROVE  RouteInv'
  <2>1. RequestsOK'
    BY <1>a, <1>1 DEF RequestsOK, Fresh
  <2> QED BY <1>0, <1>1, <2>1, AlertsStay
<1>2. ASSUME NEW r \in Report, StoreFails(r) PROVE RouteInv'
  <2>1. UNCHANGED <<held, incidents, alerts, unswept, now>> /\ requests[r].phase = "storing"
        /\ requests' = [requests EXCEPT ![r].phase = "failed"]
    BY <1>2 DEF StoreFails, vars
  <2>3. \A q \in Report : Fresh(q)' <=> Fresh(q)
    BY <2>1 DEF Fresh
  <2>2. RequestsOK' /\ \A q \in Report : requests'[q].alert = requests[q].alert
    BY <1>a, <2>1, <2>3, RequestMoves DEF Phase
  <2> QED BY <1>0, <1>a, <2>1, <2>2, AlertsStay
<1>3. ASSUME NEW r \in Report, FuseCut(r) PROVE RouteInv'
  <2>1. /\ \A q \in Report \ Ruling : q # r /\ Fresh(q) => Fresh(q)'
        /\ \A j \in DOMAIN incidents : incidents'[j].package = incidents[j].package
    BY <1>3, FusingFacts DEF FuseCut, StoreOK
  <2>2. UNCHANGED <<alerts, unswept, now>> /\ requests[r].phase = "storing" /\ requests' = Lost
    BY <1>3 DEF FuseCut
  <2>3. RequestsOK' /\ \A q \in Report : requests'[q].alert = requests[q].alert
    BY <1>a, <2>1, <2>2, RequestsLost
  <2> QED BY <1>0, <1>a, <2>1, <2>2, <2>3, AlertsStay
<1>4. ASSUME NEW k \in Run, ((\E i \in DOMAIN incidents : StartRun(k, i)) \/ FailRun(k)) /\ Elsewhere PROVE RouteInv'
  BY <1>a, <1>1, <1>4 DEF StartRun, FailRun, Elsewhere
<1>5. ASSUME NEW i \in DOMAIN incidents, Operate(i) /\ Elsewhere PROVE RouteInv'
  BY <1>a, <1>1, <1>5, OperatingFacts DEF Elsewhere, StoreOK
<1>6. ASSUME NEW i \in DOMAIN incidents, Clear(i) PROVE RouteInv'
  <2>1. alerts' = Superseded(i) /\ UNCHANGED <<held, incidents, requests, unswept, now>>
    BY <1>6 DEF Clear, vars
  <2>2. RequestsOK'
    <3>1. DOMAIN alerts' = DOMAIN alerts
      BY <2>1 DEF Superseded
    <3> QED BY <1>a, <2>1, <3>1 DEF RequestsOK, Fresh
  <2> QED BY <1>0, <2>1, <2>2, AlertsCleared
<1>7. CASE Restart /\ requests' = Lost /\ UNCHANGED <<alerts, unswept, now>>
  <2>1. UNCHANGED <<held, incidents>> /\ \A q \in Report : Fresh(q)' <=> Fresh(q)
    BY <1>7 DEF Restart, Fresh
  <2>2. RequestsOK' /\ \A q \in Report : requests'[q].alert = requests[q].alert
    BY <1>a, <1>7, <2>1, RequestsLost
  <2> QED BY <1>0, <1>a, <1>7, <2>1, <2>2, AlertsStay
<1>8. CASE Tick
  <2>1. now' \in 0..MaxTime
    BY <1>a, <1>8, AlertAssumption DEF Tick
  <2> QED BY <1>1, <1>8, <2>1 DEF Tick, vars
<1>b. ASSUME NEW r \in Report, Rule(r) PROVE RouteInv'
  <2>0. r \in Ruling /\ UNCHANGED <<alerts, unswept, now>>
    BY <1>b DEF Rule
  <2>1. CASE RuleOut(r) /\ UNCHANGED requests
    BY <1>a, <1>1, <2>0, <2>1 DEF RuleOut
  <2>2. CASE RecordTrigger(r) \/ RecordTriggerCut(r) \/ RulingCut(r)
    <3>1. /\ \A q \in Report \ Ruling : Fresh(q) => Fresh(q)'
          /\ \A j \in DOMAIN incidents : incidents'[j].package = incidents[j].package
      BY <2>0, <2>2, FusingFacts DEF StoreOK
    <3>2. RequestsOK' /\ \A q \in Report : requests'[q].alert = requests[q].alert
      <4>1. CASE UNCHANGED requests
        BY <1>a, <2>0, <3>1, <4>1 DEF RequestsOK
      <4>2. CASE requests' = Lost
        BY <1>a, <2>0, <3>1, <4>2, RequestsLost
      <4> QED BY <1>b, <4>1, <4>2 DEF Rule
    <3> QED BY <1>0, <1>a, <2>0, <3>1, <3>2, AlertsStay
  <2> QED BY <1>b, <2>1, <2>2 DEF Rule
<1>c. ASSUME NEW source \in Source, Remove(source) PROVE RouteInv'
  BY <1>a, <1>1, <1>c DEF Remove, RemoveSource, Elsewhere
<1>9. CASE UNCHANGED ingestVars
  BY <1>a, <1>1, <1>9 DEF ingestVars, vars
<1> QED BY <1>0, <1>2, <1>3, <1>4, <1>5, <1>6, <1>7, <1>8, <1>9, <1>b, <1>c, PostStep, FuseStep, FinishStep DEF IngestNext

LEMMA RouteInitial == IngestInit => RouteInv
  <1> SUFFICES ASSUME IngestInit PROVE RouteInv
    OBVIOUS
  <1>1. DOMAIN alerts = {} /\ alerts = [p \in DOMAIN alerts |-> alerts[p]] /\ now = 0
        /\ requests = [r \in Report |-> [phase |-> "unsent", alert |-> None]] /\ held = [r \in Report |-> {}]
    BY DEF IngestInit, Init
  <1>2. RequestsOK
    BY <1>1, RulingAssumption DEF RequestsOK, Phase, Fresh
  <1>3. AlertsOK
    BY <1>1, AlertAssumption DEF AlertsOK
  <1> QED BY <1>1, <1>2, <1>3 DEF RouteInv, OneBannerPerEvent, AlertsAreTrue

-----------------------------------------------------------------------------
LEMMA RouteHolds == IngestSpec => []RouteInv
  <1>1. StoreOK /\ StoreOK' /\ RouteInv /\ [IngestNext]_ingestVars => RouteInv'
    BY RouteStep DEF StoreOK
  <1> QED BY <1>1, RouteInitial, StoreHolds, PTL DEF IngestSpec

\* raisePreAlert: however requests wait for their evidence, fail, die or are cleared in
\* between, two open banners of one trigger in one place are a window apart.
THEOREM OneBanner == IngestSpec => []OneBannerPerEvent
  <1>1. RouteInv => OneBannerPerEvent
    BY DEF RouteInv
  <1> QED BY <1>1, RouteHolds, PTL

\* bindPreAlert and supersedePreAlert: the incident an alert names holds a report of that
\* very alert, and a banner open over an understood incident has one the package lacks.
THEOREM AlertsStayTrue == IngestSpec => []AlertsAreTrue
  <1>1. RouteInv => AlertsAreTrue
    BY DEF RouteInv
  <1> QED BY <1>1, RouteHolds, PTL
=============================================================================
