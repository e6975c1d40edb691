---------------------------- MODULE RecordsProofs ----------------------------
(***************************************************************************)
(* Theorems about Records, for any recordings, people, roles, cases and    *)
(* bounds: rulings are final and lead to the incidents they name, the      *)
(* queue shows as done what the server keeps, and a completed check belongs*)
(* to a calibrated camera.                                                 *)
(***************************************************************************)
EXTENDS Records, ListFacts

LEMMA DeskSteps ==
  ASSUME [RecordsNext]_recordsVars
  PROVE  [UploadsNext]_uploadsVars /\ [CaseworkNext]_caseworkVars
  BY DEF RecordsNext, recordsVars

-----------------------------------------------------------------------------
(* Sources and calibration *)

LEMMA CalibratedStep ==
  CompletedRunMeansCalibrated /\ [CaseworkNext]_caseworkVars => CompletedRunMeansCalibrated'
<1> SUFFICES ASSUME CompletedRunMeansCalibrated, [CaseworkNext]_caseworkVars
             PROVE  CompletedRunMeansCalibrated'
  OBVIOUS
<1>1. CASE UNCHANGED <<camera, runs>>
  BY <1>1 DEF CompletedRunMeansCalibrated
<1>2. ASSUME NEW w \in Worker, RegisterSource(w) PROVE CompletedRunMeansCalibrated'
  BY <1>2, CaseworkAssumption DEF RegisterSource, CompletedRunMeansCalibrated
<1>3. ASSUME NEW w \in Worker, DeleteSource(w) PROVE CompletedRunMeansCalibrated'
  BY <1>3 DEF DeleteSource, CompletedRunMeansCalibrated
<1>4. ASSUME NEW w \in Worker, NEW r \in Run, QueueDriftCheck(w, r) PROVE CompletedRunMeansCalibrated'
  <2>1. runs' = [runs EXCEPT ![r] = "queued"] /\ camera' = camera
    BY <1>4 DEF QueueDriftCheck
  <2>2. \A q : runs'[q] = "complete" => runs[q] = "complete"
    BY <2>1
  <2> QED BY <2>1, <2>2 DEF CompletedRunMeansCalibrated
<1>5. CASE ReportApplied
  BY <1>5 DEF ReportApplied, CompletedRunMeansCalibrated
<1>6. CASE ReportRefused \/ \E r \in Run \cup {Nil} : ReportArrives(r)
  BY <1>1, <1>6 DEF ReportRefused, ReportArrives
<1>7. CASE Searching
  BY <1>1, <1>7 DEF Searching, Observe, SaveSearch, ToggleRerun, DeleteSearch, Submit, RunStanding, registry
<1>8. CASE CaseFiles
  BY <1>1, <1>8
  DEF CaseFiles, CreateCase, PatchCase, Press, Open, SetCertificate, SendToCase, CreateBundle, registry
<1>9. CASE UNCHANGED caseworkVars
  BY <1>1, <1>9 DEF caseworkVars
<1> QED BY <1>2, <1>3, <1>4, <1>5, <1>6, <1>7, <1>8, <1>9 DEF CaseworkNext, Registry

\* sources.ts: a drift check that reads complete belongs to a calibrated source, whatever reports
\* come late, whenever the source is removed and registered again, and wherever the process
\* dies between the writes of a report.
THEOREM ChecksAreEarned == RecordsSpec => []CompletedRunMeansCalibrated
<1>1. RecordsInit => CompletedRunMeansCalibrated
  BY DEF RecordsInit, CaseworkInit, CompletedRunMeansCalibrated
<1>2. CompletedRunMeansCalibrated /\ [RecordsNext]_recordsVars => CompletedRunMeansCalibrated'
  BY DeskSteps, CalibratedStep
<1> QED BY <1>1, <1>2, PTL DEF RecordsSpec

-----------------------------------------------------------------------------
(* The intake queue *)

Entry == [file : Recording, state : {"queued", "uploading", "done", "failed"}, says : {None, "proposes", "examined"}]
Request == [file : Recording \cup {None}, phase : {"unused", "examining", "recorded", "failed"}, heard : BOOLEAN]

\* The one request a console still listens to is about the file its loop is at.
QueueInv ==
  /\ queue \in Seq(Entry) /\ pass \in [at : Nat, limit : Nat] /\ requests \in [Send -> Request]
  /\ InPass => 1 <= pass.at /\ pass.at <= pass.limit /\ pass.limit <= Len(queue)
  /\ \A k \in Send : requests[k].phase # "unused" => requests[k].file \in Recording
  /\ \A k \in Send : requests[k].heard =>
       /\ requests[k].phase # "unused" /\ InPass
       /\ queue[pass.at].state = "uploading" /\ queue[pass.at].file = requests[k].file
  /\ \A j, k \in Send : requests[j].heard /\ requests[k].heard => j = k

LEMMA UnusedMin == ASSUME QueueInv, Unused # {} PROVE Min(Unused) \in Unused
<1>1. Unused \subseteq Nat
  BY UploadAssumption DEF Unused, Send
<1>2. PICK k \in Unused : \A n \in Unused : k <= n
  BY <1>1, LeastNatural
<1> QED BY <1>2 DEF Min

\* The server works on: what a request is for and who listens stays.
LEMMA ServerMoves ==
  ASSUME QueueInv, UNCHANGED client, requests' \in [Send -> Request],
         \A k \in Send : /\ requests'[k].file = requests[k].file /\ requests'[k].heard = requests[k].heard
                         /\ requests'[k].phase = "unused" <=> requests[k].phase = "unused"
  PROVE  QueueInv'
<1>1. UNCHANGED <<queue, pass>> /\ InPass' = InPass
  BY DEF client, InPass, Idle
<1> QED BY <1>1 DEF QueueInv

LEMMA KilledMoves ==
  ASSUME QueueInv, UNCHANGED client, requests' = Killed
  PROVE  QueueInv'
<1>1. \A k \in Send : requests'[k] = IF requests[k].phase = "examining" THEN [requests[k] EXCEPT !.phase = "failed"]
                                      ELSE requests[k]
  BY DEF Killed
<1>2. requests' \in [Send -> Request]
  BY <1>1 DEF Killed, QueueInv, Request
<1>3. \A k \in Send : /\ requests'[k].file = requests[k].file /\ requests'[k].heard = requests[k].heard
                      /\ requests'[k].phase = "unused" <=> requests[k].phase = "unused"
  BY <1>1 DEF QueueInv, Request
<1> QED BY <1>2, <1>3, ServerMoves

LEMMA PhaseMoves ==
  ASSUME QueueInv, UNCHANGED client, NEW j \in Send, requests[j].phase = "examining",
         NEW phase \in {"recorded", "failed"}, requests' = [requests EXCEPT ![j].phase = phase]
  PROVE  QueueInv'
<1>1. requests \in [Send -> Request]
  BY DEF QueueInv
<1>2. \A k \in Send : requests'[k] = IF k = j THEN [requests[j] EXCEPT !.phase = phase] ELSE requests[k]
  BY <1>1
<1>3. requests' \in [Send -> Request]
  BY <1>1 DEF Request
<1>4. \A k \in Send : /\ requests'[k].file = requests[k].file /\ requests'[k].heard = requests[k].heard
                      /\ requests'[k].phase = "unused" <=> requests[k].phase = "unused"
  BY <1>1, <1>2 DEF Request
<1> QED BY <1>3, <1>4, ServerMoves

\* The loop goes to the next file, or ends, when nothing is listened to any more.
LEMMA OnwardMoves ==
  ASSUME QueueInv, InPass, Onward, queue' \in Seq(Entry), Len(queue') = Len(queue),
         requests' \in [Send -> Request], \A k \in Send : ~ requests'[k].heard,
         \A k \in Send : requests'[k].phase # "unused" => requests'[k].file \in Recording
  PROVE  QueueInv'
<1>1. pass \in [at : Nat, limit : Nat] /\ 1 <= pass.at /\ pass.at <= pass.limit /\ pass.limit <= Len(queue)
  BY DEF QueueInv
<1>2. /\ pass' \in [at : Nat, limit : Nat]
      /\ InPass' => 1 <= pass'.at /\ pass'.at <= pass'.limit /\ pass'.limit <= Len(queue')
  <2>1. CASE pass.at < pass.limit
    <3>1. pass' = [pass EXCEPT !.at = pass.at + 1]
      BY <2>1 DEF Onward
    <3>2. pass'.at = pass.at + 1 /\ pass'.limit = pass.limit /\ pass' \in [at : Nat, limit : Nat]
      BY <3>1, <1>1
    <3> QED BY <3>2, <2>1, <1>1
  <2>2. CASE ~ pass.at < pass.limit
    BY <2>2 DEF Onward, Idle, InPass
  <2> QED BY <2>1, <2>2
<1> QED BY <1>2 DEF QueueInv

\* The line of the file the loop is at.
LEMMA ShownFacts ==
  ASSUME QueueInv, InPass, NEW state \in {"uploading", "done", "failed"},
         NEW says \in {None, "proposes", "examined"}, Shown(state, says)
  PROVE  /\ queue' \in Seq(Entry) /\ Len(queue') = Len(queue) /\ pass.at \in DOMAIN queue
         /\ DOMAIN queue' = DOMAIN queue
         /\ queue'[pass.at].state = state /\ queue'[pass.at].file = queue[pass.at].file
         /\ \A n \in DOMAIN queue : queue'[n].file = queue[n].file /\ (n # pass.at => queue'[n] = queue[n])
<1>1. queue \in Seq(Entry) /\ pass.at \in 1..Len(queue) /\ DOMAIN queue = 1..Len(queue)
  BY DEF QueueInv
<1>2. PICK entry : entry = [queue[pass.at] EXCEPT !.state = state, !.says = says]
  OBVIOUS
<1>3. queue[pass.at] \in Entry
  BY <1>1
<1>4. entry \in Entry /\ entry.state = state /\ entry.file = queue[pass.at].file
  BY <1>2, <1>3 DEF Entry
<1>5. queue' = [queue EXCEPT ![pass.at] = entry]
  BY <1>1, <1>2 DEF Shown
<1> QED BY <1>1, <1>4, <1>5

LEMMA QueueStep == QueueInv /\ [UploadsNext]_uploadsVars => QueueInv'
<1> SUFFICES ASSUME QueueInv, [UploadsNext]_uploadsVars PROVE QueueInv'
  OBVIOUS
<1> USE DEF client
<1>1. ASSUME NEW f \in Recording, AddFile(f) PROVE QueueInv'
  <2>1. queue' = Append(queue, [file |-> f, state |-> "queued", says |-> None]) /\ UNCHANGED <<pass, requests>>
    BY <1>1 DEF AddFile
  <2>2. [file |-> f, state |-> "queued", says |-> None] \in Entry
    BY DEF Entry
  <2>3. /\ queue' \in Seq(Entry) /\ Len(queue') = Len(queue) + 1
        /\ \A n \in 1..Len(queue) : queue'[n] = queue[n]
    BY <2>1, <2>2 DEF QueueInv
  <2>4. InPass => pass.at \in 1..Len(queue) /\ Len(queue) \in Nat
    BY DEF QueueInv
  <2>5. InPass' = InPass
    BY <2>1 DEF InPass, Idle
  <2> QED BY <2>1, <2>3, <2>4, <2>5 DEF QueueInv
<1>2. CASE RunQueue
  <2>1. /\ pass' = [at |-> 1, limit |-> Len(queue)] /\ UNCHANGED <<queue, requests>> /\ pass = Idle
        /\ queue \in Seq(Entry) /\ \E n \in DOMAIN queue : TRUE
    BY <1>2 DEF RunQueue, QueueInv
  <2>2. Len(queue) \in Nat /\ 1 <= Len(queue)
    BY <2>1
  <2>3. \A k \in Send : ~ requests[k].heard
    BY <2>1 DEF QueueInv, InPass
  <2> QED BY <2>1, <2>2, <2>3 DEF QueueInv
<1>3. CASE Clear
  <2>1. queue' = <<>> /\ UNCHANGED <<pass, requests>> /\ pass = Idle
    BY <1>3 DEF Clear
  <2>2. ~ InPass /\ ~ InPass'
    BY <2>1 DEF InPass, Idle
  <2> QED BY <2>1, <2>2 DEF QueueInv
<1>4. CASE SkipDone
  <2>1. InPass /\ queue[pass.at].state = "done" /\ Onward /\ UNCHANGED <<queue, requests>>
    BY <1>4 DEF SkipDone
  <2>2. \A k \in Send : ~ requests[k].heard
    BY <2>1 DEF QueueInv
  <2> QED BY <2>1, <2>2, OnwardMoves DEF QueueInv
<1>5. CASE SendOne
  <2>1. /\ InPass /\ queue[pass.at].state \in {"queued", "failed"} /\ Shown("uploading", None) /\ UNCHANGED pass
        /\ Unused = {} => requests' = requests
        /\ Unused # {} => requests' = [requests EXCEPT ![Min(Unused)] =
                             [file |-> queue[pass.at].file, phase |-> "examining", heard |-> TRUE]]
    BY <1>5 DEF SendOne
  <2>2. \A k \in Send : ~ requests[k].heard
    BY <2>1 DEF QueueInv
  <2>3. /\ queue' \in Seq(Entry) /\ Len(queue') = Len(queue)
        /\ queue'[pass.at].state = "uploading" /\ queue'[pass.at].file = queue[pass.at].file
    BY <2>1, ShownFacts
  <2>4. InPass' = InPass
    BY <2>1 DEF InPass, Idle
  <2>5. CASE Unused = {}
    BY <2>1, <2>2, <2>3, <2>4, <2>5 DEF QueueInv
  <2>6. CASE Unused # {}
    <3>1. PICK j \in Send : j = Min(Unused)
      BY <2>6, UnusedMin DEF Unused
    <3>2. PICK request : request = [file |-> queue[pass.at].file, phase |-> "examining", heard |-> TRUE]
      OBVIOUS
    <3>3. pass.at \in DOMAIN queue /\ queue \in Seq(Entry)
      BY <2>1, ShownFacts DEF QueueInv
    <3>4. queue[pass.at].file \in Recording
      <4>1. queue[pass.at] \in Entry
        BY <3>3
      <4> QED BY <4>1 DEF Entry
    <3>5. request \in Request /\ request.file = queue[pass.at].file /\ request.phase = "examining"
      BY <3>2, <3>4 DEF Request
    <3>6. requests' = [requests EXCEPT ![j] = request]
      BY <2>1, <2>6, <3>1, <3>2
    <3>7. /\ requests' \in [Send -> Request]
          /\ \A k \in Send : requests'[k] = IF k = j THEN request ELSE requests[k]
      BY <3>5, <3>6 DEF QueueInv
    <3>8. \A k \in Send : requests'[k].heard => k = j
      BY <2>2, <3>7
    <3>9. \A k \in Send : requests'[k].phase # "unused" => requests'[k].file \in Recording
      BY <3>4, <3>5, <3>7 DEF QueueInv
    <3> QED BY <2>1, <2>3, <2>4, <3>4, <3>5, <3>7, <3>8, <3>9 DEF QueueInv
  <2> QED BY <2>5, <2>6
<1>6. CASE Lose
  <2>1. /\ InPass /\ requests' = [k \in Send |-> [requests[k] EXCEPT !.heard = FALSE]]
        /\ Shown("failed", None) /\ Onward
    BY <1>6 DEF Lose
  <2>2. queue' \in Seq(Entry) /\ Len(queue') = Len(queue)
    BY <2>1, ShownFacts
  <2>3. \A k \in Send : requests'[k] = [requests[k] EXCEPT !.heard = FALSE] /\ requests[k] \in Request
    BY <2>1 DEF QueueInv
  <2>4. \A k \in Send : /\ requests'[k] \in Request /\ ~ requests'[k].heard
                        /\ requests'[k].phase = requests[k].phase /\ requests'[k].file = requests[k].file
    BY <2>3 DEF Request
  <2>5. requests' \in [Send -> Request]
    BY <2>1, <2>4
  <2>6. \A k \in Send : requests'[k].phase # "unused" => requests'[k].file \in Recording
    BY <2>4 DEF QueueInv
  <2> QED BY <2>1, <2>2, <2>4, <2>5, <2>6, OnwardMoves
<1>7. ASSUME NEW j \in Send, Hear(j) PROVE QueueInv'
  <2>1. InPass /\ requests[j].heard /\ requests' = [requests EXCEPT ![j].heard = FALSE] /\ Onward
    BY <1>7 DEF Hear, Waiting
  <2>2. \E state \in {"done", "failed"}, says \in {None, "proposes", "examined"} : Shown(state, says)
    BY <1>7 DEF Hear, Says
  <2>3. queue' \in Seq(Entry) /\ Len(queue') = Len(queue)
    BY <2>1, <2>2, ShownFacts
  <2>4. requests \in [Send -> Request]
    BY DEF QueueInv
  <2>5. /\ requests' \in [Send -> Request]
        /\ \A k \in Send : requests'[k] = IF k = j THEN [requests[j] EXCEPT !.heard = FALSE] ELSE requests[k]
    BY <2>1, <2>4 DEF Request
  <2>6. \A k \in Send : /\ requests'[k].heard <=> (k # j /\ requests[k].heard)
                        /\ requests'[k].phase = requests[k].phase /\ requests'[k].file = requests[k].file
    BY <2>4, <2>5 DEF Request
  <2>7. \A k \in Send : ~ requests'[k].heard
    BY <2>1, <2>6 DEF QueueInv
  <2>8. \A k \in Send : requests'[k].phase # "unused" => requests'[k].file \in Recording
    BY <2>6 DEF QueueInv
  <2> QED BY <2>1, <2>3, <2>5, <2>7, <2>8, OnwardMoves
<1>8. ASSUME NEW k \in Send, Server(k) PROVE QueueInv'
  <2>1. ASSUME NEW outcome \in Outcome, Record(k, outcome) PROVE QueueInv'
    BY <2>1, PhaseMoves DEF Record
  <2>2. ASSUME NEW outcome \in Outcome, RecordCut(k, outcome) PROVE QueueInv'
    BY <2>2, KilledMoves DEF RecordCut, Die
  <2>3. CASE Throw(k)
    BY <2>3, PhaseMoves DEF Throw
  <2> QED BY <1>8, <2>1, <2>2, <2>3 DEF Server
<1>9. ASSUME NEW k \in Send, Rule(k) PROVE QueueInv'
  <2>1. CASE ConfirmCut(k) \/ RejectCut(k)
    BY <2>1, KilledMoves DEF ConfirmCut, RejectCut, Die
  <2>2. CASE UNCHANGED <<client, requests>>
    BY <2>2, ServerMoves DEF QueueInv
  <2> QED BY <1>9, <2>1, <2>2 DEF Rule, Confirm, RuleOnly
<1>10. CASE Restart
  BY <1>10, KilledMoves DEF Restart, Die
<1>11. CASE UNCHANGED uploadsVars \/ RemoveSource \/ \E i \in Incident : Close(i)
  <2>1. UNCHANGED <<client, requests>>
    BY <1>11 DEF Close, RemoveSource, uploadsVars
  <2> QED BY <2>1, ServerMoves DEF QueueInv
<1> QED BY <1>1, <1>2, <1>3, <1>4, <1>5, <1>6, <1>7, <1>8, <1>9, <1>10, <1>11 DEF UploadsNext

-----------------------------------------------------------------------------
(* Uploads, rulings and the incidents they lead to *)

\* UploadsAreTrue, the rows and the queue apart.
RulingsTrue ==
  /\ \A k \in Send : attached[k] # None /\ k \notin torn =>
       uploads[k].ruling = "confirmed" /\ uploads[k].incident = attached[k]
  /\ \A k \in Send : uploads[k] # None /\ uploads[k].incident # None => attached[k] = uploads[k].incident
  /\ torn = {} => \A i \in Incident : incidents[i].place # None =>
       \E k \in Send : attached[k] = i \/ (removed[k] # None /\ removed[k].incident = i)

DoneTrue ==
  \A n \in DOMAIN queue : queue[n].state = "done" =>
    \E k \in Send : Made(k) # None /\ Made(k).file = queue[n].file

\* A post that was not recorded has left nothing, an open detection names no incident, and
\* only a proposal is ever attached to one.
RowsInv ==
  /\ uploads \in [Send -> UploadRow \cup {None}] /\ attached \in [Send -> Incident \cup {None}]
  /\ removed \in [Send -> UploadRow \cup {None}]
  /\ DOMAIN incidents = Incident /\ \A i \in Incident : DOMAIN incidents[i] = {"place", "open"}
  /\ \A k \in Send : requests[k].phase \in {"unused", "examining"} => Made(k) = None
  /\ \A k \in Send : requests[k].phase = "recorded" =>
       Made(k) # None /\ Made(k).file = requests[k].file
  /\ \A k \in Send : removed[k] # None => uploads[k] = None
  /\ \A k \in Send : attached[k] # None => uploads[k] # None /\ uploads[k].proposes
  /\ \A k \in Send : uploads[k] # None /\ uploads[k].ruling = "open" => uploads[k].incident = None
  /\ RulingsTrue

IntakeInv == QueueInv /\ RowsInv /\ DoneTrue

\* A row that was made stays in the table or in what went with the source, and no step
\* but the removal of the source touches one that is ruled on.
Kept ==
  \A k \in Send :
    /\ Made(k) # None => Made(k)' # None /\ Made(k)'.file = Made(k).file
    /\ uploads[k] # None /\ uploads[k].ruling # "open" =>
         \/ uploads'[k] = uploads[k] /\ attached'[k] = attached[k]
         \/ source' = None /\ uploads'[k] = None /\ attached'[k] = None

LEMMA RowIsNotNone == ASSUME NEW row \in UploadRow PROVE row # None
BY UploadAssumption

LEMMA UploadedRow ==
  ASSUME NEW f \in Recording, NEW outcome \in Outcome, NEW row,
         row \in {Upload(f, outcome), [Upload(f, outcome) EXCEPT !.detected = FALSE]}
  PROVE  row \in UploadRow /\ row.file = f /\ row.ruling = "open" /\ row.incident = None
<1>1. PICK whole : whole = Upload(f, outcome)
  OBVIOUS
<1>2. whole \in UploadRow /\ whole.file = f /\ whole.ruling = "open" /\ whole.incident = None
  BY <1>1 DEF Upload, UploadRow, Outcome
<1>3. CASE row = [whole EXCEPT !.detected = FALSE]
  BY <1>2, <1>3 DEF UploadRow
<1> QED BY <1>1, <1>2, <1>3

LEMMA RuledRow ==
  ASSUME NEW k \in Send, uploads[k] \in UploadRow, NEW decision \in {"confirmed", "rejected"},
         NEW i \in Incident \cup {None}, NEW row,
         row \in {Ruled(k, decision, i), [Ruled(k, decision, i) EXCEPT !.state = uploads[k].state]}
  PROVE  /\ row \in UploadRow /\ row.file = uploads[k].file /\ row.proposes = uploads[k].proposes
         /\ row.ruling = decision /\ row.incident = i
<1>1. PICK whole : whole = Ruled(k, decision, i)
  OBVIOUS
<1>2. /\ whole \in UploadRow /\ whole.file = uploads[k].file /\ whole.proposes = uploads[k].proposes
      /\ whole.ruling = decision /\ whole.incident = i
  BY <1>1 DEF Ruled, UploadRow
<1>3. uploads[k].state \in {"analysed", "awaiting", "confirmed", "rejected"}
  BY DEF UploadRow
<1>4. CASE row = [whole EXCEPT !.state = uploads[k].state]
  BY <1>2, <1>3, <1>4 DEF UploadRow
<1> QED BY <1>1, <1>2, <1>4

\* Requests go on, and none is recorded.
Going ==
  \A k \in Send : /\ requests'[k].phase \in {"unused", "examining"} =>
                       requests[k].phase \in {"unused", "examining"}
                  /\ requests'[k].phase = "recorded" =>
                       requests[k].phase = "recorded" /\ requests'[k].file = requests[k].file

\* The rows stay, and requests go on in a phase that says the same of them.
LEMMA RowsRest ==
  ASSUME RowsInv, UNCHANGED <<uploads, attached, torn, removed>>,
         DOMAIN incidents' = Incident,
         \A i \in Incident : DOMAIN incidents'[i] = {"place", "open"} /\ incidents'[i].place = incidents[i].place,
         Going
  PROVE  RowsInv' /\ Kept
<1>1. RulingsTrue'
  BY DEF RowsInv, RulingsTrue
<1> QED BY <1>1 DEF RowsInv, Kept, Going, Made

\* One upload is recorded, whole or cut.
LEMMA RowsRecorded ==
  ASSUME QueueInv, RowsInv, NEW j \in Send, requests[j].phase = "examining", NEW row \in UploadRow,
         row.file = requests[j].file, row.ruling = "open", row.incident = None,
         uploads' = [uploads EXCEPT ![j] = row], UNCHANGED <<attached, incidents, removed>>, torn \subseteq torn',
         requests'[j].phase \in {"recorded", "failed"}, requests'[j].file = requests[j].file,
         \A k \in Send : k # j =>
           /\ requests'[k].phase \in {"unused", "examining"} => requests[k].phase \in {"unused", "examining"}
           /\ requests'[k].phase = "recorded" =>
                requests[k].phase = "recorded" /\ requests'[k].file = requests[k].file
  PROVE  RowsInv' /\ Kept
<1>1. /\ uploads' \in [Send -> UploadRow \cup {None}]
      /\ \A k \in Send : uploads'[k] = IF k = j THEN row ELSE uploads[k]
  BY DEF RowsInv
<1>2. row # None /\ uploads[j] = None /\ attached[j] = None
  BY RowIsNotNone DEF RowsInv, Made
<1>0. \A k \in Send : Made(k)' = IF k = j THEN row ELSE Made(k)
  BY <1>1, <1>2 DEF Made
<1>3. \A k \in Send : requests'[k].phase \in {"unused", "examining"} => Made(k)' = None
  BY <1>0 DEF RowsInv
<1>4. \A k \in Send : requests'[k].phase = "recorded" => Made(k)' # None /\ Made(k)'.file = requests'[k].file
  BY <1>0, <1>2 DEF RowsInv
<1>5. \A k \in Send : /\ attached'[k] # None => uploads'[k] # None /\ uploads'[k].proposes
                      /\ uploads'[k] # None /\ uploads'[k].ruling = "open" => uploads'[k].incident = None
  BY <1>1, <1>2 DEF RowsInv
<1>6. RulingsTrue'
  <2>1. torn' = {} => torn = {}
    OBVIOUS
  <2> QED BY <1>1, <1>2, <2>1 DEF RowsInv, RulingsTrue
<1>7. Kept
  BY <1>0, <1>1, <1>2 DEF Kept, RowsInv
<1>8. removed' \in [Send -> UploadRow \cup {None}] /\ \A k \in Send : removed'[k] # None => uploads'[k] = None
  BY <1>1, <1>2 DEF RowsInv, Made
<1> QED BY <1>1, <1>3, <1>4, <1>5, <1>6, <1>7, <1>8 DEF RowsInv

\* A phase of one request, and every one the death of the server cut off.
LEMMA PhaseFacts ==
  ASSUME QueueInv, NEW j \in Send, requests[j].phase = "examining", NEW phase \in {"recorded", "failed"},
         requests' = [requests EXCEPT ![j].phase = phase]
  PROVE  /\ requests'[j].phase = phase /\ requests'[j].file = requests[j].file
         /\ \A k \in Send : k # j => requests'[k] = requests[k]
<1>1. requests \in [Send -> Request]
  BY DEF QueueInv
<1> QED BY <1>1 DEF Request

LEMMA KilledFacts ==
  ASSUME QueueInv, requests' = Killed
  PROVE  \A k \in Send : /\ requests'[k].file = requests[k].file
                         /\ requests'[k].phase = IF requests[k].phase = "examining" THEN "failed"
                                                 ELSE requests[k].phase
<1>1. \A k \in Send : requests'[k] = IF requests[k].phase = "examining" THEN [requests[k] EXCEPT !.phase = "failed"]
                                      ELSE requests[k]
  BY DEF Killed
<1>2. requests \in [Send -> Request]
  BY DEF QueueInv
<1> QED BY <1>1, <1>2 DEF Request

\* An upload is ruled on: its row, where its observation sits, and the incident there is for it.
Filed(j, row, i) ==
  /\ row = uploads[j] \/ (/\ row \in UploadRow /\ row.file = uploads[j].file
                          /\ row.proposes = uploads[j].proposes /\ row.ruling # "open")
  /\ uploads' = [uploads EXCEPT ![j] = row] /\ attached' = [attached EXCEPT ![j] = i]
  /\ i # None => row.proposes
  /\ i # None /\ j \notin torn' => row.ruling = "confirmed" /\ row.incident = i
  /\ row.incident # None => row.incident = i
  /\ torn \subseteq torn' /\ removed' = removed /\ DOMAIN incidents' = Incident
  /\ \A n \in Incident : /\ DOMAIN incidents'[n] = {"place", "open"}
                         /\ incidents'[n].place = incidents[n].place \/ n = i

LEMMA RowsRuled ==
  ASSUME RowsInv, NEW j \in Send, Rulable(j), NEW row, NEW i \in Incident \cup {None}, Filed(j, row, i), Going
  PROVE  RowsInv' /\ Kept
<1>0. row \in UploadRow
  BY DEF Filed, Rulable, RowsInv
<1>1. /\ uploads' \in [Send -> UploadRow \cup {None}] /\ attached' \in [Send -> Incident \cup {None}]
      /\ \A k \in Send : /\ uploads'[k] = IF k = j THEN row ELSE uploads[k]
                         /\ attached'[k] = IF k = j THEN i ELSE attached[k]
  BY <1>0 DEF RowsInv, Filed
<1>2. uploads[j] # None /\ uploads[j].ruling = "open" /\ row # None /\ row.file = uploads[j].file
      /\ uploads[j].incident = None
  BY <1>0, RowIsNotNone DEF Rulable, RowsInv, Filed
<1>10. \A k \in Send : Made(k)' = IF k = j THEN row ELSE Made(k)
  BY <1>1, <1>2 DEF Made, Filed
<1>11. Made(j) = uploads[j]
  BY <1>2 DEF Made
<1>3. \A k \in Send : requests'[k].phase \in {"unused", "examining"} => Made(k)' = None
  BY <1>2, <1>10, <1>11 DEF RowsInv, Going
<1>4. \A k \in Send : requests'[k].phase = "recorded" => Made(k)' # None /\ Made(k)'.file = requests'[k].file
  BY <1>2, <1>10, <1>11 DEF RowsInv, Going
<1>5. \A k \in Send : /\ attached'[k] # None => uploads'[k] # None /\ uploads'[k].proposes
                      /\ uploads'[k] # None /\ uploads'[k].ruling = "open" => uploads'[k].incident = None
  BY <1>1, <1>2 DEF RowsInv, Filed
<1>6. ASSUME NEW k \in Send
      PROVE  /\ attached'[k] # None /\ k \notin torn' =>
                  uploads'[k].ruling = "confirmed" /\ uploads'[k].incident = attached'[k]
             /\ uploads'[k] # None /\ uploads'[k].incident # None => attached'[k] = uploads'[k].incident
  BY <1>1 DEF RowsInv, RulingsTrue, Filed
<1>7. ASSUME torn' = {}, NEW n \in Incident, incidents'[n].place # None
      PROVE  \E k \in Send : attached'[k] = n \/ (removed'[k] # None /\ removed'[k].incident = n)
  <2>1. torn = {} /\ attached[j] = None
    BY <1>2, <1>7, UploadAssumption DEF RowsInv, RulingsTrue, Filed
  <2>2. CASE n = i
    BY <1>1, <2>2
  <2>3. CASE n # i
    <3>1. PICK k \in Send : attached[k] = n \/ (removed[k] # None /\ removed[k].incident = n)
      BY <1>7, <2>1, <2>3 DEF RowsInv, RulingsTrue, Filed
    <3>2. attached[k] = n => k # j
      BY <2>1, UploadAssumption
    <3> QED BY <1>1, <3>1, <3>2 DEF Filed
  <2> QED BY <2>2, <2>3
<1>8. RulingsTrue'
  BY <1>6, <1>7 DEF RulingsTrue
<1>9. Kept
  BY <1>1, <1>2, <1>10, <1>11, RowIsNotNone DEF Kept
<1>12. removed' \in [Send -> UploadRow \cup {None}] /\ \A k \in Send : removed'[k] # None => uploads'[k] = None
  BY <1>1, <1>2 DEF RowsInv, Filed
<1> QED BY <1>1, <1>3, <1>4, <1>5, <1>8, <1>9, <1>12 DEF RowsInv, Filed

LEMMA TriggerFacts ==
  ASSUME RowsInv, NEW k \in Send, NEW i \in Incident, RecordTrigger(k, i)
  PROVE  /\ attached' = [attached EXCEPT ![k] = i] /\ DOMAIN incidents' = Incident
         /\ \A n \in Incident : /\ DOMAIN incidents'[n] = {"place", "open"}
                                /\ incidents'[n].place = incidents[n].place \/ n = i
<1>1. attached' = [attached EXCEPT ![k] = i]
      /\ (incidents' = incidents \/ incidents' = [incidents EXCEPT ![i] = [place |-> PlaceOf(k), open |-> TRUE]])
  BY DEF RecordTrigger
<1> QED BY <1>1 DEF RowsInv

LEMMA RuleStep ==
  ASSUME QueueInv, RowsInv, NEW k \in Send, Rule(k)
  PROVE  RowsInv' /\ Kept
<1>1. /\ Rulable(k) /\ uploads[k] \in UploadRow /\ uploads[k].ruling = "open" /\ uploads[k].incident = None
      /\ attached \in [Send -> Incident \cup {None}] /\ uploads \in [Send -> UploadRow \cup {None}]
  <2>1. Rulable(k)
    BY DEF Rule, Confirm, ConfirmCut, RejectCut, RuleOnly
  <2> QED BY <2>1 DEF RowsInv, Rulable
<1>2. ASSUME requests' = requests \/ requests' = Killed PROVE Going
  BY <1>2, KilledFacts DEF Going
<1>3. CASE Confirm(k)
  <2>1. PICK i \in Incident : RecordTrigger(k, i) /\ uploads' = [uploads EXCEPT ![k] = Ruled(k, "confirmed", i)]
    BY <1>3 DEF Confirm
  <2>2. uploads[k].proposes /\ requests' = requests /\ torn' = torn /\ removed' = removed
    BY <1>3 DEF Confirm
  <2>3. PICK row : row = Ruled(k, "confirmed", i)
    OBVIOUS
  <2>4. /\ row \in UploadRow /\ row.file = uploads[k].file /\ row.proposes = uploads[k].proposes
        /\ row.ruling = "confirmed" /\ row.incident = i
    BY <1>1, <2>3, RuledRow
  <2>5. Filed(k, row, i)
    BY <2>1, <2>2, <2>3, <2>4, TriggerFacts DEF Filed
  <2> QED BY <1>1, <1>2, <2>2, <2>5, RowsRuled
<1>4. CASE ConfirmCut(k)
  <2>1. PICK i \in Incident :
          /\ RecordTrigger(k, i)
          /\ uploads' = uploads \/ uploads' = [uploads EXCEPT ![k] = [Ruled(k, "confirmed", i) EXCEPT !.state = uploads[k].state]]
    BY <1>4 DEF ConfirmCut
  <2>2. uploads[k].proposes /\ requests' = Killed /\ torn' = torn \cup {k} /\ removed' = removed
    BY <1>4 DEF ConfirmCut, Die
  <2>3. CASE uploads' = uploads
    <3>1. uploads' = [uploads EXCEPT ![k] = uploads[k]]
      BY <2>3, <1>1
    <3>2. Filed(k, uploads[k], i)
      BY <1>1, <2>1, <2>2, <3>1, TriggerFacts DEF Filed
    <3> QED BY <1>1, <1>2, <2>2, <3>2, RowsRuled
  <2>4. CASE uploads' = [uploads EXCEPT ![k] = [Ruled(k, "confirmed", i) EXCEPT !.state = uploads[k].state]]
    <3>1. PICK row : row = [Ruled(k, "confirmed", i) EXCEPT !.state = uploads[k].state]
      OBVIOUS
    <3>2. /\ row \in UploadRow /\ row.file = uploads[k].file /\ row.proposes = uploads[k].proposes
          /\ row.ruling = "confirmed" /\ row.incident = i
      BY <1>1, <3>1, RuledRow
    <3>3. Filed(k, row, i)
      BY <2>1, <2>2, <2>4, <3>1, <3>2, TriggerFacts DEF Filed
    <3> QED BY <1>1, <1>2, <2>2, <3>3, RowsRuled
  <2> QED BY <2>1, <2>3, <2>4
<1>5. ASSUME NEW decision \in {"confirmed", "rejected"}, RuleOnly(k, decision) \/ (RejectCut(k) /\ decision = "rejected")
      PROVE  RowsInv' /\ Kept
  <2>1. PICK row \in {Ruled(k, decision, None), [Ruled(k, decision, None) EXCEPT !.state = uploads[k].state]} :
          uploads' = [uploads EXCEPT ![k] = row]
    BY <1>5 DEF RuleOnly, RejectCut
  <2>2. /\ row \in UploadRow /\ row.file = uploads[k].file /\ row.proposes = uploads[k].proposes
        /\ row.ruling = decision /\ row.incident = None
    BY <1>1, <2>1, RuledRow
  <2>3. UNCHANGED <<attached, incidents, removed>> /\ torn \subseteq torn' /\ (requests' = requests \/ requests' = Killed)
    BY <1>5 DEF RuleOnly, RejectCut, Die
  <2>4. attached' = [attached EXCEPT ![k] = attached[k]] /\ attached[k] \in Incident \cup {None}
    BY <1>1, <2>3
  <2>5. /\ attached[k] # None => row.proposes
        /\ attached[k] # None => k \in torn
    BY <1>1, <2>2 DEF RowsInv, RulingsTrue
  <2>6. /\ DOMAIN incidents' = Incident
        /\ \A n \in Incident : DOMAIN incidents'[n] = {"place", "open"} /\ incidents'[n].place = incidents[n].place
    BY <2>3 DEF RowsInv
  <2>7. Filed(k, row, attached[k])
    BY <2>1, <2>2, <2>3, <2>4, <2>5, <2>6 DEF Filed
  <2> QED BY <1>1, <1>2, <2>3, <2>4, <2>7, RowsRuled
<1> QED BY <1>3, <1>4, <1>5 DEF Rule

LEMMA RowsStep == QueueInv /\ RowsInv /\ [UploadsNext]_uploadsVars => RowsInv' /\ Kept
<1> SUFFICES ASSUME QueueInv, RowsInv, [UploadsNext]_uploadsVars PROVE RowsInv' /\ Kept
  OBVIOUS
<1>1. ASSUME UNCHANGED <<rows, torn>>, Going PROVE RowsInv' /\ Kept
  <2>1. DOMAIN incidents' = Incident
        /\ \A i \in Incident : DOMAIN incidents'[i] = {"place", "open"} /\ incidents'[i].place = incidents[i].place
    BY <1>1 DEF rows, RowsInv
  <2> QED BY <1>1, <2>1, RowsRest DEF rows
<1>2. CASE requests' = requests /\ UNCHANGED <<rows, torn>>
  BY <1>1, <1>2 DEF Going
<1>3. ASSUME NEW f \in Recording, AddFile(f) PROVE RowsInv' /\ Kept
  BY <1>2, <1>3 DEF AddFile
<1>4. CASE RunQueue \/ Clear \/ SkipDone \/ UNCHANGED uploadsVars
  BY <1>2, <1>4 DEF RunQueue, Clear, SkipDone, uploadsVars, rows
<1>5. CASE SendOne
  <2>1. CASE Unused = {}
    BY <1>2, <1>5, <2>1 DEF SendOne
  <2>2. CASE Unused # {}
    <3>1. PICK j, request :
            /\ j \in Send /\ j = Min(Unused) /\ request.phase = "examining" /\ requests[j].phase = "unused"
            /\ requests' = [requests EXCEPT ![j] = request]
      <4>1. Min(Unused) \in Send /\ requests[Min(Unused)].phase = "unused"
        BY <2>2, UnusedMin DEF Unused
      <4>2. requests' = [requests EXCEPT ![Min(Unused)] =
                           [file |-> queue[pass.at].file, phase |-> "examining", heard |-> TRUE]]
        BY <1>5, <2>2 DEF SendOne
      <4> QED BY <4>1, <4>2
    <3>2. \A k \in Send : requests'[k] = IF k = j THEN request ELSE requests[k]
      BY <3>1 DEF QueueInv
    <3>3. UNCHANGED <<rows, torn>>
      BY <1>5 DEF SendOne
    <3> QED BY <1>1, <3>1, <3>2, <3>3 DEF Going
  <2> QED BY <2>1, <2>2
<1>6. ASSUME Lose \/ \E j \in Send : Hear(j) PROVE RowsInv' /\ Kept
  <2>1. \A k \in Send : requests'[k].phase = requests[k].phase /\ requests'[k].file = requests[k].file
    <3>1. requests \in [Send -> Request]
      BY DEF QueueInv
    <3>2. CASE Lose
      BY <3>1, <3>2 DEF Lose, Request
    <3>3. ASSUME NEW j \in Send, Hear(j) 
          PROVE \A k \in Send : requests'[k].phase = requests[k].phase /\ requests'[k].file = requests[k].file
      <4>1. requests' = [requests EXCEPT ![j].heard = FALSE]
        BY <3>3 DEF Hear
      <4> QED BY <4>1, <3>1 DEF Request
    <3> QED BY <1>6, <3>2, <3>3
  <2>2. UNCHANGED <<rows, torn>>
    BY <1>6 DEF Lose, Hear
  <2> QED BY <1>1, <2>1, <2>2 DEF Going
<1>7. ASSUME NEW k \in Send, NEW outcome \in Outcome, Record(k, outcome) PROVE RowsInv' /\ Kept
  <2>1. /\ requests[k].phase = "examining" /\ requests' = [requests EXCEPT ![k].phase = "recorded"]
        /\ uploads' = [uploads EXCEPT ![k] = Upload(requests[k].file, outcome)]
        /\ UNCHANGED <<attached, incidents, torn, removed>>
    BY <1>7 DEF Record
  <2>2. requests[k].file \in Recording
    BY <2>1 DEF QueueInv
  <2>3. PICK row : row = Upload(requests[k].file, outcome)
    OBVIOUS
  <2>5. row \in UploadRow /\ row.file = requests[k].file /\ row.ruling = "open" /\ row.incident = None
    BY <2>2, <2>3, UploadedRow
  <2>4. /\ requests'[k].phase = "recorded" /\ requests'[k].file = requests[k].file
        /\ \A j \in Send : j # k => requests'[j] = requests[j]
    BY <2>1, PhaseFacts
  <2> QED BY <2>1, <2>3, <2>4, <2>5, RowsRecorded
<1>8. ASSUME NEW k \in Send, NEW outcome \in Outcome, RecordCut(k, outcome) PROVE RowsInv' /\ Kept
  <2>1. /\ requests[k].phase = "examining" /\ requests' = Killed /\ UNCHANGED <<attached, incidents, removed>>
        /\ \/ UNCHANGED <<uploads, torn>>
           \/ /\ uploads' = [uploads EXCEPT ![k] = [Upload(requests[k].file, outcome) EXCEPT !.detected = FALSE]]
              /\ torn' = torn \cup {k}
    BY <1>8 DEF RecordCut, Die
  <2>2. requests[k].file \in Recording
    BY <2>1 DEF QueueInv
  <2>3. PICK row : row = [Upload(requests[k].file, outcome) EXCEPT !.detected = FALSE]
    OBVIOUS
  <2>7. row \in UploadRow /\ row.file = requests[k].file /\ row.ruling = "open" /\ row.incident = None
    BY <2>2, <2>3, UploadedRow
  <2>4. \A j \in Send : /\ requests'[j].file = requests[j].file
                        /\ requests'[j].phase = IF requests[j].phase = "examining" THEN "failed"
                                                ELSE requests[j].phase
    BY <2>1, KilledFacts
  <2>5. CASE UNCHANGED <<uploads, torn>>
    <3>1. DOMAIN incidents' = Incident /\ \A i \in Incident : DOMAIN incidents'[i] = {"place", "open"}
      BY <2>1 DEF RowsInv
    <3> QED BY <2>1, <2>4, <2>5, <3>1, RowsRest DEF Going
  <2>6. CASE uploads' = [uploads EXCEPT ![k] = row] /\ torn' = torn \cup {k}
    BY <2>1, <2>4, <2>6, <2>7, RowsRecorded
  <2> QED BY <2>1, <2>3, <2>5, <2>6
<1>9. ASSUME NEW k \in Send, Throw(k) PROVE RowsInv' /\ Kept
  <2>1. requests[k].phase = "examining" /\ requests' = [requests EXCEPT ![k].phase = "failed"]
        /\ UNCHANGED <<rows, torn>>
    BY <1>9 DEF Throw
  <2>2. /\ requests'[k].phase = "failed" /\ \A j \in Send : j # k => requests'[j] = requests[j]
    BY <2>1, PhaseFacts
  <2> QED BY <1>1, <2>1, <2>2 DEF Going
<1>10. CASE Restart
  <2>1. requests' = Killed /\ UNCHANGED <<rows, torn>>
    BY <1>10 DEF Restart, Die
  <2> QED BY <1>1, <2>1, KilledFacts DEF Going
<1>11. ASSUME NEW i \in Incident, Close(i) PROVE RowsInv' /\ Kept
  <2>1. incidents' = [incidents EXCEPT ![i].open = FALSE] /\ UNCHANGED <<requests, uploads, attached, torn, removed>>
    BY <1>11 DEF Close
  <2>2. DOMAIN incidents' = Incident
        /\ \A n \in Incident : DOMAIN incidents'[n] = {"place", "open"} /\ incidents'[n].place = incidents[n].place
    BY <2>1 DEF RowsInv
  <2> QED BY <2>1, <2>2, RowsRest DEF Going
<1>12. CASE RemoveSource
  <2>1. /\ source' = None /\ UNCHANGED <<requests, incidents, torn>>
        /\ uploads' = [k \in Send |-> None] /\ attached' = [k \in Send |-> None]
        /\ removed' = [k \in Send |-> Made(k)]
    BY <1>12 DEF RemoveSource
  <2>2. \A k \in Send : Made(k) \in UploadRow \cup {None}
    BY DEF RowsInv, Made
  <2>3. \A k \in Send : uploads'[k] = None /\ attached'[k] = None /\ removed'[k] = Made(k) /\ Made(k)' = Made(k)
    BY <2>1 DEF Made
  <2>4. Kept
    BY <2>1, <2>3 DEF Kept
  <2>5. ASSUME torn' = {}, NEW i \in Incident, incidents'[i].place # None
        PROVE  \E k \in Send : removed'[k] # None /\ removed'[k].incident = i
    <3>1. PICK k \in Send : attached[k] = i \/ (removed[k] # None /\ removed[k].incident = i)
      BY <2>1, <2>5 DEF RowsInv, RulingsTrue
    <3>2. CASE attached[k] = i
      <4>1. attached[k] # None /\ k \notin torn
        BY <2>1, <2>5, <3>2, UploadAssumption
      <4>2. uploads[k] # None /\ uploads[k].incident = i
        BY <3>2, <4>1 DEF RowsInv, RulingsTrue
      <4> QED BY <2>3, <4>2 DEF Made
    <3>3. CASE attached[k] # i
      <4>1. removed[k] # None /\ removed[k].incident = i
        BY <3>1, <3>3
      <4>2. uploads[k] = None
        BY <4>1 DEF RowsInv
      <4> QED BY <2>3, <4>1, <4>2 DEF Made
    <3> QED BY <3>2, <3>3
  <2>6. RulingsTrue'
    BY <2>3, <2>5 DEF RulingsTrue
  <2> QED BY <2>1, <2>2, <2>3, <2>4, <2>6 DEF RowsInv
<1> QED
  BY <1>3, <1>4, <1>5, <1>6, <1>7, <1>8, <1>9, <1>10, <1>11, <1>12, RuleStep DEF UploadsNext, Server

\* A line reads done by the answer about its own file, and the row made for it is remembered.
LEMMA DoneStep == IntakeInv /\ Kept /\ [UploadsNext]_uploadsVars => DoneTrue'
<1> SUFFICES ASSUME IntakeInv, Kept, [UploadsNext]_uploadsVars, NEW n \in DOMAIN queue', queue'[n].state = "done"
             PROVE  \E k \in Send : Made(k)' # None /\ Made(k)'.file = queue'[n].file
  BY DEF DoneTrue
<1>1. ASSUME n \in DOMAIN queue, queue'[n] = queue[n]
      PROVE  \E k \in Send : Made(k)' # None /\ Made(k)'.file = queue'[n].file
  BY <1>1 DEF IntakeInv, DoneTrue, Kept
<1>2. QueueInv /\ queue \in Seq(Entry)
  BY DEF IntakeInv, QueueInv
<1>3. ASSUME NEW f \in Recording, AddFile(f)
      PROVE  \E k \in Send : Made(k)' # None /\ Made(k)'.file = queue'[n].file
  <2>1. queue' = Append(queue, [file |-> f, state |-> "queued", says |-> None])
    BY <1>3 DEF AddFile
  <2>2. n \in DOMAIN queue /\ queue'[n] = queue[n]
    BY <2>1, <1>2
  <2> QED BY <1>1, <2>2
<1>4. CASE Clear
  BY <1>4 DEF Clear
<1>5. ASSUME InPass, NEW state \in {"uploading", "failed"}, Shown(state, None)
      PROVE  \E k \in Send : Made(k)' # None /\ Made(k)'.file = queue'[n].file
  <2>1. DOMAIN queue' = DOMAIN queue /\ n # pass.at /\ queue'[n] = queue[n]
    BY <1>2, <1>5, ShownFacts
  <2> QED BY <1>1, <2>1
<1>6. CASE SendOne \/ Lose
  BY <1>5, <1>6 DEF SendOne, Lose, InPass
<1>7. ASSUME NEW j \in Send, Hear(j)
      PROVE  \E k \in Send : Made(k)' # None /\ Made(k)'.file = queue'[n].file
  <2>1. CASE requests[j].phase # "recorded"
    BY <1>5, <1>7, <2>1 DEF Hear, Waiting
  <2>2. CASE requests[j].phase = "recorded"
    <3>1. /\ InPass /\ requests[j].heard /\ Shown("done", Says(j))
          /\ Says(j) \in {None, "proposes", "examined"}
      BY <1>7, <2>2 DEF Hear, Waiting, rows, Says
    <3>2. /\ DOMAIN queue' = DOMAIN queue /\ queue'[pass.at].file = queue[pass.at].file
          /\ n # pass.at => queue'[n] = queue[n]
      BY <1>2, <3>1, ShownFacts
    <3>3. queue[pass.at].file = requests[j].file
      BY <1>2, <3>1 DEF QueueInv
    <3>4. Made(j) # None /\ Made(j).file = requests[j].file
      BY <2>2 DEF IntakeInv, RowsInv
    <3>5. Made(j)' # None /\ Made(j)'.file = Made(j).file
      BY <3>4 DEF Kept
    <3> QED BY <1>1, <3>1, <3>2, <3>3, <3>4, <3>5
  <2> QED BY <2>1, <2>2
<1>8. CASE queue' = queue
  BY <1>1, <1>8
<1> QED
  BY <1>3, <1>4, <1>6, <1>7, <1>8
  DEF UploadsNext, RunQueue, SkipDone, Server, Record, RecordCut, Throw, Rule, Confirm, ConfirmCut, RejectCut,
      RuleOnly, Close, RemoveSource, Restart, Die, client, uploadsVars

LEMMA IntakeHolds ==
  /\ RecordsInit => IntakeInv
  /\ IntakeInv /\ [RecordsNext]_recordsVars => IntakeInv' /\ [Kept]_uploadsVars
<1>1. ASSUME RecordsInit PROVE IntakeInv
  <2>1. QueueInv
    BY <1>1 DEF RecordsInit, UploadsInit, QueueInv, Idle, InPass, Request
  <2>2. RowsInv
    BY <1>1 DEF RecordsInit, UploadsInit, RowsInv, RulingsTrue, Made
  <2>3. DoneTrue
    BY <1>1 DEF RecordsInit, UploadsInit, DoneTrue
  <2> QED BY <2>1, <2>2, <2>3 DEF IntakeInv
<1>2. ASSUME IntakeInv, [RecordsNext]_recordsVars PROVE IntakeInv' /\ Kept
  <2>1. [UploadsNext]_uploadsVars
    BY <1>2, DeskSteps
  <2>2. QueueInv' /\ RowsInv' /\ Kept
    BY <1>2, <2>1, QueueStep, RowsStep DEF IntakeInv
  <2>3. DoneTrue'
    BY <1>2, <2>1, <2>2, DoneStep
  <2> QED BY <2>2, <2>3 DEF IntakeInv
<1> QED BY <1>1, <1>2

\* adjudicate and recordUpload: an observation of handed-over material sits in the incident its
\* confirmed detection names, every incident was opened for one, and what the queue shows as done
\* is kept while its source is registered, for any recordings, lost answers, repeats, removals of
\* the source and deaths of the server between statements.
THEOREM UploadsStayTrue == RecordsSpec => []UploadsAreTrue
<1>1. IntakeInv => UploadsAreTrue
  BY DEF IntakeInv, RowsInv, RulingsTrue, DoneTrue, UploadsAreTrue
<1> QED BY <1>1, IntakeHolds, PTL DEF RecordsSpec

\* adjudicate: no step changes a ruling that was made, the incident it led to or where the
\* observation sits, except that all go with the source, whoever rules again on a list that still shows the detection as open.
THEOREM RulingsAreFinal == RecordsSpec => RulingIsFinal
<1> DEFINE Final ==
      \A k \in Send : uploads[k] # None /\ uploads[k].ruling # "open" =>
        \/ uploads'[k] = uploads[k] /\ attached'[k] = attached[k]
        \/ source' = None /\ uploads'[k] = None /\ attached'[k] = None
<1>1. IntakeInv /\ [RecordsNext]_recordsVars => [Final]_uploadsVars
  BY IntakeHolds DEF Kept
<1> QED BY <1>1, IntakeHolds, PTL DEF RecordsSpec, RulingIsFinal
=============================================================================
