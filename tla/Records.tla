------------------------------- MODULE Records -------------------------------
(***************************************************************************)
(* What people file: recordings brought in and ruled on, and the cases,    *)
(* sources and standing searches of an office.  Both write the table of    *)
(* sources, each a row of its own: the one uploads stand under, and the    *)
(* camera.  Removing either takes nothing of the other along (uploads,     *)
(* observations and runs hang on their own source; cases and evidence on   *)
(* none), so a behaviour exercises one desk.                               *)
(***************************************************************************)
EXTENDS Uploads, Casework

VARIABLE desk   \* the part a behaviour is about
recordsVars == <<uploadsVars, caseworkVars, desk>>

RecordsInit ==
  /\ desk \in {"intake", "cases"}
  /\ UploadsInit /\ CaseworkInit
  /\ desk = "intake" => left = CHOOSE b \in Budgets : TRUE

RecordsNext ==
  /\ UNCHANGED desk
  /\ \/ desk = "intake" /\ UploadsNext /\ UNCHANGED caseworkVars
     \/ desk = "cases" /\ CaseworkNext /\ UNCHANGED uploadsVars

RecordsSpec ==
  /\ RecordsInit /\ [][RecordsNext]_recordsVars
  /\ WF_uploadsVars(desk = "intake" /\ SkipDone)
  /\ WF_uploadsVars(desk = "intake" /\ SendOne)
  /\ WF_uploadsVars(desk = "intake" /\ Settle)
=============================================================================
