--------------------------------- MODULE Fis ---------------------------------
(***************************************************************************)
(* The forensic tier and what the console does with its answers: the class *)
(* gate of its store, the clock model of a source, the acquisition of an   *)
(* export, the authenticity of an object, the measuring of tracks and the  *)
(* dossiers beside it.  They share no table and no state, so a behaviour   *)
(* exercises one of them.                                                  *)
(***************************************************************************)
EXTENDS ClassGate, Timebase, Acquisition, Authenticity, Tracks

VARIABLE service   \* the part of the tier a behaviour is about
fisVars == <<gateVars, clockVars, acquisitionVars, authVars, tracksVars, service>>

Init ==
  /\ service \in {"gate", "timebase", "acquire", "authenticity", "kinematics", "dossiers"}
  /\ GateInit /\ TimebaseInit /\ AcquisitionInit /\ AuthInit /\ TracksInit
  \* what a service does not look at is one and the same
  /\ service # "timebase" => history = CHOOSE h \in Histories : TRUE
  /\ service # "authenticity" => material = CHOOSE m \in Materials : TRUE

Next ==
  /\ UNCHANGED service
  /\ \/ service = "gate" /\ GateNext /\ UNCHANGED <<clockVars, acquisitionVars, authVars, tracksVars>>
     \/ service = "timebase" /\ TimebaseNext /\ UNCHANGED <<gateVars, acquisitionVars, authVars, tracksVars>>
     \/ service = "acquire" /\ AcquisitionNext /\ UNCHANGED <<gateVars, clockVars, authVars, tracksVars>>
     \/ service = "authenticity" /\ AuthNext /\ UNCHANGED <<gateVars, clockVars, acquisitionVars, tracksVars>>
     \/ service = "kinematics" /\ TracksNext /\ UNCHANGED <<gateVars, clockVars, acquisitionVars, authVars>>
     \/ service = "dossiers" /\ EntitiesNext /\ UNCHANGED <<gateVars, clockVars, acquisitionVars, authVars>>

Spec == Init /\ [][Next]_fisVars
=============================================================================
