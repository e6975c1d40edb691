--------------------------- MODULE IncidentRegister ---------------------------
(***************************************************************************)
(* What the incident store promises, without rows, scores, passes or       *)
(* crashes: a register of incidents with the observations they hold,       *)
(* whether they are open, and which observations the published             *)
(* understanding of each cites.  Every operation is one step.              *)
(***************************************************************************)
CONSTANTS
  Observation,
  Report,  \* calls that file an observation
  Ruling,  \* those that may be made again, as they need not be taken down
  Reach    \* Reach[r]: the reports whose incidents the source of r puts r in

VARIABLES
  members, \* the observations of each incident, named after its founder
  history, \* the observations each incident ever had
  settled, \* observations that are filed for good
  state,   \* open, resolved or dismissed
  cited    \* what the published understanding of each incident cites

register == <<members, history, settled, state, cited>>

Registered == DOMAIN members
Filed == UNION {members[i] : i \in Registered}
Admitting(r) == {i \in Registered : i \in Reach[r] /\ state[i] = "open"}

\* what a device sent is filed for good, a ruling when it is taken down
Filing(r) ==
  /\ r.of \notin settled
  /\ \/ settled' = settled \cup {r.of}
     \/ r \in Ruling /\ settled' = settled

\* an observation no open incident admits founds one
Found(r) ==
  /\ Filing(r)
  /\ Admitting(r) = {} /\ r \notin Registered
  /\ members' = [i \in Registered \cup {r} |-> IF i = r THEN {r.of} ELSE members[i] \ {r.of}]
  /\ history' = [i \in Registered \cup {r} |-> IF i = r THEN {r.of} ELSE history[i]]
  /\ state' = [i \in Registered \cup {r} |-> IF i = r THEN "open" ELSE state[i]]
  /\ cited' = [i \in Registered \cup {r} |-> IF i = r THEN {} ELSE cited[i]]

\* any other is filed with one of those that do, and nowhere else
File(r, i) ==
  /\ Filing(r)
  /\ i \in Admitting(r)
  /\ members' = [j \in Registered |-> IF j = i THEN members[j] \cup {r.of} ELSE members[j] \ {r.of}]
  /\ history' = [history EXCEPT ![i] = @ \cup {r.of}]
  /\ UNCHANGED <<state, cited>>

\* a ruling that files nothing
Reject(r) ==
  /\ r \in Ruling /\ r.of \notin settled
  /\ settled' = settled \cup {r.of}
  /\ UNCHANGED <<members, history, state, cited>>

\* observations are taken out, for good, and no incident with them
Withdraw(S) ==
  /\ members' = [i \in Registered |-> members[i] \ S]
  /\ settled' = settled \cup S
  /\ UNCHANGED <<history, state, cited>>

\* a dismissal is for good, a resolved incident may be taken up again
Move(i, s) ==
  /\ state[i] # "dismissed"
  /\ state' = [state EXCEPT ![i] = s]
  /\ UNCHANGED <<members, history, settled, cited>>

\* the understanding is of observations the incident has had
Publish(i) ==
  /\ \E S \in SUBSET history[i] : cited' = [cited EXCEPT ![i] = S]
  /\ UNCHANGED <<members, history, settled, state>>

RegisterInit ==
  /\ members = [i \in {} |-> {}]
  /\ history = [i \in {} |-> {}]
  /\ settled = {}
  /\ state = [i \in {} |-> "open"]
  /\ cited = [i \in {} |-> {}]

RegisterNext ==
  \/ \E r \in Report : Found(r) \/ Reject(r) \/ \E i \in Registered : File(r, i)
  \/ \E S \in SUBSET Filed : Withdraw(S)
  \/ \E i \in Registered : \/ Publish(i)
                           \/ \E s \in {"open", "resolved", "dismissed"} : Move(i, s)

RegisterSpec == RegisterInit /\ [][RegisterNext]_register
=============================================================================
