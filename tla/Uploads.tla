------------------------------- MODULE Uploads -------------------------------
(***************************************************************************)
(* Material handed over: the intake queue of the console                   *)
(* (components/upload/UploadScreen.tsx), the upload route                  *)
(* (app/api/v1/uploads/route.ts), the rows it records and a person's       *)
(* ruling on what the model proposed (lib/store/uploads.ts).               *)
(*                                                                         *)
(* The route awaits storage, probing, sampling, the examination and the    *)
(* transcript, and then records source, observation, upload and detection  *)
(* in one synchronous stretch of single statements.  The examination       *)
(* itself is module Examination; here only its outcome matters.  One       *)
(* person brings in recordings of one stated kind, so all are attributed   *)
(* to one source, which an administrator may remove with all of them       *)
(* (lib/store/sources.ts) and the next recording registers again.  What    *)
(* they show lies within one fusion window, so an open incident at the     *)
(* place of a trigger is always a candidate.                               *)
(***************************************************************************)
EXTENDS Integers, FiniteSets, Sequences, SequencesExt, FiniteSetsExt

CONSTANTS
  Recording,    \* files the person has
  Stated,       \* Stated[f]: the place typed into the form for f, or None
  Centroid,     \* the place of material without a position
  None,
  MaxSends,     \* bound: posts to the route
  MaxIncidents, \* bound: incidents ever opened
  MaxDeaths     \* bound: deaths of the server

Send == 1..MaxSends
Incident == 1..MaxIncidents

\* an upload with its detection: file, state, detection, ruling and incident
UploadRow ==
  [file : Recording, state : {"analysed", "awaiting", "confirmed", "rejected"},
   examined : BOOLEAN, proposes : BOOLEAN, detected : BOOLEAN,
   ruling : {"open", "confirmed", "rejected"}, incident : Incident \cup {None}]

ASSUME UploadAssumption ==
  /\ None \notin Recording \cup {Centroid} \cup Incident \cup UploadRow
  /\ DOMAIN Stated = Recording
  /\ MaxSends \in Nat /\ MaxIncidents \in Nat /\ MaxDeaths \in Nat

VARIABLES
  queue,     \* the console's queue: a file, its state, what its line says
  pass,      \* the runQueue in flight: the position it is at, the length it captured
  requests,  \* the posts the server is working on
  source,    \* position of the source uploads are attributed to, None before any
  uploads,   \* uploads with their detection, by the post that made them
  attached,  \* observations.incident_id of an upload's observation
  incidents, \* the incidents: their place, and whether they are open
  deaths,
  torn,      \* history: uploads whose recording or ruling a death cut off
  removed    \* history: the row of an upload that went with its source, else None

uploadsVars == <<queue, pass, requests, source, uploads, attached, incidents, deaths, torn, removed>>
client == <<queue, pass>>
rows == <<source, uploads, attached, incidents, removed>>

Idle == [at |-> 0, limit |-> 0]

\* what the examination of a recording may come to
Outcome == {"proposes", "nothing", "unexamined"}

-----------------------------------------------------------------------------
(* The queue of the console *)

\* addFiles skips a file that is already listed
AddFile(f) ==
  /\ \A n \in DOMAIN queue : queue[n].file # f
  /\ queue' = Append(queue, [file |-> f, state |-> "queued", says |-> None])
  /\ UNCHANGED <<pass, requests, rows, deaths, torn>>

\* the button is enabled while a file waits or failed; the loop runs over the list
\* as it was when the button was pressed
RunQueue ==
  /\ pass = Idle
  /\ \E n \in DOMAIN queue : queue[n].state \in {"queued", "failed"}
  /\ pass' = [at |-> 1, limit |-> Len(queue)]
  /\ UNCHANGED <<queue, requests, rows, deaths, torn>>

Clear ==
  /\ pass = Idle /\ queue # <<>>
  /\ queue' = <<>>
  /\ UNCHANGED <<pass, requests, rows, deaths, torn>>

Shown(state, says) == queue' = [queue EXCEPT ![pass.at].state = state, ![pass.at].says = says]
Onward == pass' = IF pass.at < pass.limit THEN [pass EXCEPT !.at = @ + 1] ELSE Idle

InPass == pass # Idle

SkipDone ==
  /\ InPass /\ queue[pass.at].state = "done"
  /\ Onward
  /\ UNCHANGED <<queue, requests, rows, deaths, torn>>

Unused == {k \in Send : requests[k].phase = "unused"}

SendOne ==
  /\ InPass /\ queue[pass.at].state \in {"queued", "failed"}
  /\ Shown("uploading", None)
  /\ IF Unused = {} THEN UNCHANGED requests
     ELSE requests' = [requests EXCEPT ![Min(Unused)] =
                        [file |-> queue[pass.at].file, phase |-> "examining", heard |-> TRUE]]
  /\ UNCHANGED <<pass, rows, deaths, torn>>

Waiting(k) == InPass /\ requests[k].heard /\ requests[k].phase # "unused"

\* the row a post made, in the table or gone with its source
Made(k) == IF uploads[k] # None THEN uploads[k] ELSE removed[k]

\* the line of a finished file: the proposal, or the note of the route, which calls
\* everything that proposes nothing examined; written when the row was
Says(k) == IF Made(k).proposes THEN "proposes" ELSE "examined"

Hear(k) ==
  /\ Waiting(k) /\ requests[k].phase \in {"recorded", "failed"}
  /\ requests' = [requests EXCEPT ![k].heard = FALSE]
  /\ IF requests[k].phase = "recorded" THEN Shown("done", Says(k)) ELSE Shown("failed", None)
  /\ Onward
  /\ UNCHANGED <<rows, deaths, torn>>

\* Mutant of Lose: the failure is shown and the loop stays where it is.
LoseStuck ==
  /\ InPass /\ queue[pass.at].state = "uploading"
  /\ requests' = [k \in Send |-> [requests[k] EXCEPT !.heard = FALSE]]
  /\ UNCHANGED <<client, rows, deaths, torn>>

\* fetch throws: the connection is gone, and the server may still be at work
Lose ==
  /\ InPass /\ queue[pass.at].state = "uploading"
  /\ requests' = [k \in Send |-> [requests[k] EXCEPT !.heard = FALSE]]
  /\ Shown("failed", None)
  /\ Onward
  /\ UNCHANGED <<rows, deaths, torn>>

-----------------------------------------------------------------------------
(* recordUpload, after the awaits of the route *)

\* sourceForUpload: one id per uploader and kind, its position set by the first
Registered(f) ==
  IF source # None THEN source ELSE IF Stated[f] # None THEN Stated[f] ELSE Centroid

\* detected: the detection row is there; ruling and incident are its columns
Upload(f, outcome) ==
  [file |-> f,
   state |-> IF outcome = "proposes" THEN "awaiting" ELSE "analysed",
   examined |-> outcome # "unexamined", proposes |-> outcome = "proposes",
   detected |-> outcome # "unexamined", ruling |-> "open", incident |-> None]

Record(k, outcome) ==
  LET f == requests[k].file
  IN  /\ requests[k].phase = "examining"
      /\ source' = Registered(f)
      /\ uploads' = [uploads EXCEPT ![k] = Upload(f, outcome)]
      /\ requests' = [requests EXCEPT ![k].phase = "recorded"]
      /\ UNCHANGED <<client, attached, incidents, deaths, torn, removed>>

\* storage, probing or sampling throws: an answer other than 201, and no row
Throw(k) ==
  /\ requests[k].phase = "examining"
  /\ requests' = [requests EXCEPT ![k].phase = "failed"]
  /\ UNCHANGED <<client, rows, deaths, torn>>

Killed == [k \in Send |-> IF requests[k].phase = "examining"
                          THEN [requests[k] EXCEPT !.phase = "failed"] ELSE requests[k]]

Die ==
  /\ deaths < MaxDeaths
  /\ deaths' = deaths + 1
  /\ requests' = Killed
  /\ UNCHANGED client

\* the process dies inside recordUpload: after the source or the observation, or
\* after the upload and before its detection
RecordCut(k, outcome) ==
  LET f == requests[k].file
  IN  /\ requests[k].phase = "examining"
      /\ Die
      /\ source' = Registered(f)
      /\ \/ UNCHANGED <<uploads, torn>>
         \/ /\ uploads' = [uploads EXCEPT ![k] = [Upload(f, outcome) EXCEPT !.detected = FALSE]]
            /\ torn' = torn \cup {k}
      /\ UNCHANGED <<attached, incidents, removed>>

-----------------------------------------------------------------------------
(* adjudicate *)

\* Mutant of Rulable: a ruling that was made does not stop another.
RulableAgain(k) == uploads[k] # None /\ uploads[k].detected

\* only an open detection admits a ruling; any other answers with the ruling it has
Rulable(k) == uploads[k] # None /\ uploads[k].detected /\ uploads[k].ruling = "open"

\* stated_lat ?? source.lat
PlaceOf(k) == IF Stated[uploads[k].file] # None THEN Stated[uploads[k].file] ELSE source

Candidates(k) == {i \in Incident : incidents[i].open /\ incidents[i].place = PlaceOf(k)}
Unopened == {i \in Incident : incidents[i].place = None}

\* recordTrigger joins an open incident at the place or founds one; the observation
\* is attached anew even when it was attached before
RecordTrigger(k, i) ==
  /\ \/ i \in Candidates(k) /\ UNCHANGED incidents
     \/ /\ Candidates(k) = {} /\ i \in Unopened /\ i = Min(Unopened)
        /\ incidents' = [incidents EXCEPT ![i] = [place |-> PlaceOf(k), open |-> TRUE]]
  /\ attached' = [attached EXCEPT ![k] = i]

Ruled(k, decision, i) ==
  [uploads[k] EXCEPT !.ruling = decision, !.incident = i, !.state = decision]

\* Mutant of Confirm: the incident of an observation already attached is kept.
ConfirmKeeping(k) ==
  /\ Rulable(k) /\ uploads[k].proposes
  /\ \E i \in Incident :
       /\ RecordTrigger(k, i)
       /\ uploads' = [uploads EXCEPT ![k] =
                        Ruled(k, "confirmed", IF attached[k] # None THEN attached[k] ELSE i)]
  /\ UNCHANGED <<client, requests, source, deaths, torn, removed>>

Confirm(k) ==
  /\ Rulable(k) /\ uploads[k].proposes
  /\ \E i \in Incident :
       /\ RecordTrigger(k, i)
       /\ uploads' = [uploads EXCEPT ![k] = Ruled(k, "confirmed", i)]
  /\ UNCHANGED <<client, requests, source, deaths, torn, removed>>

\* a rejection, or a confirmation of a reading that proposed nothing
RuleOnly(k, decision) ==
  /\ Rulable(k) /\ (decision = "confirmed" => ~uploads[k].proposes)
  /\ uploads' = [uploads EXCEPT ![k] = Ruled(k, decision, None)]
  /\ UNCHANGED <<client, requests, source, attached, incidents, deaths, torn, removed>>

\* the process dies between recordTrigger and the update of the detection, or
\* between that and the update of the upload
ConfirmCut(k) ==
  /\ Rulable(k) /\ uploads[k].proposes
  /\ Die
  /\ \E i \in Incident :
       /\ RecordTrigger(k, i)
       /\ \/ UNCHANGED uploads
          \/ uploads' = [uploads EXCEPT ![k] =
                           [Ruled(k, "confirmed", i) EXCEPT !.state = uploads[k].state]]
  /\ torn' = torn \cup {k}
  /\ UNCHANGED <<source, removed>>

RejectCut(k) ==
  /\ Rulable(k)
  /\ Die
  /\ uploads' = [uploads EXCEPT ![k] =
                   [Ruled(k, "rejected", None) EXCEPT !.state = uploads[k].state]]
  /\ torn' = torn \cup {k}
  /\ UNCHANGED <<source, attached, incidents, removed>>

\* an operator resolves or dismisses an incident (module Incidents)
Close(i) ==
  /\ incidents[i].open
  /\ incidents' = [incidents EXCEPT ![i].open = FALSE]
  /\ UNCHANGED <<client, requests, source, uploads, attached, deaths, torn, removed>>

\* deleteSource: the foreign keys take the uploads with their detections and the
\* observations along, whatever was ruled; incidents have no key to a source
RemoveSource ==
  /\ source # None
  /\ source' = None
  /\ uploads' = [k \in Send |-> None]
  /\ attached' = [k \in Send |-> None]
  /\ removed' = [k \in Send |-> Made(k)]
  /\ UNCHANGED <<client, requests, incidents, deaths, torn>>

Restart == Die /\ UNCHANGED <<rows, torn>>

-----------------------------------------------------------------------------
UploadsInit ==
  /\ queue = <<>> /\ pass = Idle
  /\ requests = [k \in Send |-> [file |-> None, phase |-> "unused", heard |-> FALSE]]
  /\ source = None
  /\ uploads = [k \in Send |-> None]
  /\ attached = [k \in Send |-> None]
  /\ incidents = [i \in Incident |-> [place |-> None, open |-> FALSE]]
  /\ deaths = 0 /\ torn = {} /\ removed = [k \in Send |-> None]

Server(k) ==
  \/ \E outcome \in Outcome : Record(k, outcome) \/ RecordCut(k, outcome)
  \/ Throw(k)

Settle == Lose \/ \E k \in Send : Hear(k)

Rule(k) ==
  \/ Confirm(k) \/ ConfirmCut(k) \/ RejectCut(k)
  \/ \E decision \in {"confirmed", "rejected"} : RuleOnly(k, decision)

UploadsNext ==
  \/ \E f \in Recording : AddFile(f)
  \/ RunQueue \/ Clear \/ SkipDone \/ SendOne \/ Lose
  \/ \E k \in Send : Hear(k) \/ Server(k) \/ Rule(k)
  \/ \E i \in Incident : Close(i)
  \/ RemoveSource
  \/ Restart

\* the loop of the queue does not stop by itself, a fetch settles, a request ends
UploadsSpec ==
  /\ UploadsInit /\ [][UploadsNext]_uploadsVars
  /\ WF_uploadsVars(SkipDone) /\ WF_uploadsVars(SendOne) /\ WF_uploadsVars(Settle)

-----------------------------------------------------------------------------
(* Properties *)

\* adjudicate: a ruling is final.  Whoever rules second, on a list that still shows
\* the detection as open, changes neither the ruling nor the incident it led to, and the
\* upload's observation never moves again: it goes with its source or stays.
RulingIsFinal ==
  [][\A k \in Send :
       uploads[k] # None /\ uploads[k].ruling # "open" =>
         \/ uploads'[k] = uploads[k] /\ attached'[k] = attached[k]
         \/ source' = None /\ uploads'[k] = None /\ attached'[k] = None]_uploadsVars

\* "It proposes, a person disposes": apart from a death between the trigger and the
\* ruling's row, an observation of handed-over material sits in the incident its
\* confirmed detection names, every incident was opened for one, and a line the queue
\* shows as done stands for an upload the server keeps as long as its source is
\* registered, whatever connection was lost, request repeated or server restarted.
UploadsAreTrue ==
  /\ \A k \in Send : attached[k] # None /\ k \notin torn =>
       uploads[k].ruling = "confirmed" /\ uploads[k].incident = attached[k]
  /\ \A k \in Send : uploads[k] # None /\ uploads[k].incident # None =>
       attached[k] = uploads[k].incident
  /\ torn = {} => \A i \in Incident : incidents[i].place # None =>
       \E k \in Send : attached[k] = i \/ (removed[k] # None /\ removed[k].incident = i)
  /\ \A n \in DOMAIN queue : queue[n].state = "done" =>
       \E k \in Send : Made(k) # None /\ Made(k).file = queue[n].file

\* runQueue: "a file that fails does not stop the ones behind it".
QueueEnds == InPass ~> ~InPass

=============================================================================
