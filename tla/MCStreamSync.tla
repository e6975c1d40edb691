---------------------------- MODULE MCStreamSync ----------------------------
(* Values for the constants of StreamSync.                                 *)
EXTENDS StreamSync

\* Two alerts and a transport error, three alerts on a screen of two, or an incident,
\* two errors and list requests that are lost: with the alerts none is.
VARIABLE scenario
MCInit == Init /\ scenario \in {"banners", "crowd", "reconnect"}
MCNext ==
  /\ Next
  /\ UNCHANGED scenario
  /\ scenario = "banners" => drops' <= 1 /\ Cardinality(raised') <= 2 /\ version' = version
  /\ scenario = "crowd" => drops' = 0 /\ mounts' <= 1 /\ version' = version
  /\ scenario # "reconnect" => list'.retries = 0 /\ list'.phase # "failed"
  /\ scenario = "reconnect" => raised' = raised
MCSpec == MCInit /\ [][MCNext]_<<vars, scenario>> /\ Fairness
=============================================================================
