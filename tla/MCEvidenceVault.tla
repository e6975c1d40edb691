-------------------------- MODULE MCEvidenceVault --------------------------
(* Values for the constants of EvidenceVault.                              *)
EXTENDS EvidenceVault

CONSTANTS clip, frame, camera, k1, forged

Sent(object, source, key, ext) == [object |-> object, source |-> source, key |-> key, ext |-> ext]

\* The same clip from its camera, signed, and twice from phones, once renamed;
\* the clip and a frame from the camera, not signed, for the exports.
MCUpload == {Sent(clip, camera, k1, "mp4"), Sent(clip, None, None, "mp4"),
             Sent(clip, None, None, "mov"), Sent(clip, camera, None, "mp4"),
             Sent(frame, camera, None, "mp4")}
Racing == {u \in MCUpload : u.object = clip /\ (u.source = camera => u.key = k1)}
Exported == {u \in MCUpload : u.key = None /\ (u.source = None => u.ext = "mov")}

MCOwner == [k \in Key |-> camera]

\* Three uploads of one object while keys come and go, or an export over two.
VARIABLE scenario
MCInit == Init /\ scenario \in {"race", "export"}
MCNext ==
  /\ Next
  /\ UNCHANGED scenario
  /\ scenario = "race" =>
       /\ exports' = exports
       /\ \A u \in Upload \ Racing : requests'[u] = requests[u]
  /\ scenario = "export" =>
       /\ keys' = keys
       /\ \A u \in Upload \ Exported : requests'[u] = requests[u]
MCSpec == MCInit /\ [][MCNext]_<<vars, scenario>>
=============================================================================
