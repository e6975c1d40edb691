------------------------------ MODULE Workspace ------------------------------
(***************************************************************************)
(* What one operator has open in a browser: the control room, the palette  *)
(* and the forensics workspace (Console), the map (MapView), and the       *)
(* package with its copies (Review).  They meet in React's props and in    *)
(* the query cache only, so a behaviour exercises one of them.             *)
(***************************************************************************)
EXTENDS Console, MapView, Review

VARIABLE part   \* the part a behaviour is about
workspaceVars == <<vars, mapVars, reviewVars, part>>

WorkspaceInit ==
  /\ part \in {"console", "map", "review"}
  /\ Init /\ MapInit /\ ReviewInit
  /\ part # "console" => /\ session = CHOOSE s \in Sessions : s.act = 0
                         /\ bundle = CHOOSE b \in Bundles : TRUE
  /\ part # "review" => limit = CHOOSE l \in Limits : TRUE

WorkspaceNext ==
  /\ UNCHANGED part
  /\ \/ part = "console" /\ Next /\ UNCHANGED <<mapVars, reviewVars>>
     \/ part = "map" /\ MapNext /\ UNCHANGED <<vars, reviewVars>>
     \/ part = "review" /\ ReviewNext /\ UNCHANGED <<vars, mapVars>>

WorkspaceSpec ==
  /\ WorkspaceInit /\ [][WorkspaceNext]_workspaceVars
  /\ WF_vars(part = "console" /\ Restore)
  /\ WF_vars(part = "console" /\ StartDrain)
  /\ WF_vars(part = "console" /\ DrainOne)
=============================================================================
