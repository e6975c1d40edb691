------------------------------ MODULE MCIngest ------------------------------
(* Values for the constants of Ingest.                                     *)
EXTENDS Ingest

CONSTANTS cam, phone, upload

Call(id, source, situation, cell, t) ==
  [of |-> [id |-> id, source |-> source, people |-> 0], situation |-> situation,
   cell |-> cell, t |-> t, affected |-> 1]

\* A collision two devices see, one of them twice, and a crowd reported beside it:
\* one domain, two triggers, all four reports within a fusion window.
Collision == {Call(1, cam, "collision", 0, 0),
              Call(2, phone, "collision", 1, 1),
              Call(3, cam, "collision", 1, 0),
              Call(4, phone, "crowd-risk", 0, 1)}

\* A clip of it, ruled on and, after a death, ruled on again.
Rulings == {Call(5, upload, "collision", 0, 0)}

MCReport == Collision \cup Rulings
MCObservation == {r.of : r \in MCReport}

\* What one device reports of it, and reports again after the window.
Repeat == {r \in Report : r.of.id \in {1, 3}}

MCDomain == [r \in Report |-> "safety"]
MCDisk == [r \in Report |-> {s \in Report : s.cell - r.cell \in -1..1}]
MCBox == [r \in Report |-> {s \in Report : s.cell - r.cell \in -2..2}]
MCWindow == [r \in Report |-> 2]
MCTrigger == [r \in Report |-> r.situation]
MCBand == [r \in Report |-> [n \in 1..Full |-> [a \in {0} |-> 3]]]
MCClaim == {Observation}
MCLifeSafety == Collision

\* All four reports while no operator acts; or the repetition while one does; or the
\* repetition while the clip is ruled on and sources are removed.
VARIABLE scenario
Only(S) == \A r \in Report \ S : requests'[r] = requests[r]
Removed(o) == incidentOf[o] # None /\ incidentOf'[o] = None
Unruled == settled' \subseteq {r.of : r \in Collision} /\ \A r \in Rulings : incidentOf'[r.of] = None
MCInit == IngestInit /\ scenario \in {"alerts", "operators", "rulings"}
MCNext ==
  /\ IngestNext
  /\ UNCHANGED scenario
  /\ scenario \in {"alerts", "operators"} => Unruled /\ \A o \in Observation : ~Removed(o)
  /\ scenario \in {"alerts", "rulings"} => actions' = actions
  /\ scenario \in {"operators", "rulings"} => Only(Repeat)
MCSpec == MCInit /\ [][MCNext]_<<ingestVars, scenario>>
=============================================================================
