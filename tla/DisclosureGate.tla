---------------------------- MODULE DisclosureGate ----------------------------
(***************************************************************************)
(* What the class gate promises, without triggers, connections or stored   *)
(* floors: every write is one step, which judges the rows of that very     *)
(* moment by the steps their recipes have.  A recipe that was withdrawn    *)
(* once may have been away while what it made was judged; of such a        *)
(* derivative only the classes of the steps are known to have been seen.   *)
(***************************************************************************)
CONSTANTS
  Recipe, StepsOf, Derivative, Bundle,
  None, Deleted

VARIABLES
  recipes,    \* the recipes written
  withdrawn,  \* the recipes that were withdrawn once
  unseen,     \* the derivatives nobody looked at the tools of
  made,       \* per derivative: None, Deleted, or the recipe it was made by
  minimum,    \* per bundle: None, Deleted, or the weakest class it takes
  acks,       \* the derivatives acknowledged for a bundle
  disclosed   \* the derivatives in a bundle

gate == <<recipes, withdrawn, unseen, made, minimum, acks, disclosed>>

Present(row) == row \notin {None, Deleted}

\* no step is weaker than the bundle asks, and none seen left the container of evidence
Meets(d, min) ==
  \A s \in StepsOf[made[d]] : /\ s.class = "E" \/ s.class = min \/ min = "D"
                              /\ s.external /\ d \notin unseen => min # "E"

Write(r) ==
  /\ r \notin recipes /\ recipes' = recipes \cup {r}
  /\ UNCHANGED <<withdrawn, unseen, made, minimum, acks, disclosed>>

Withdraw(r) ==
  /\ r \in recipes /\ \A d \in Derivative : made[d] # r
  /\ recipes' = recipes \ {r} /\ withdrawn' = withdrawn \cup {r}
  /\ UNCHANGED <<unseen, made, minimum, acks, disclosed>>

Make(d, r) ==
  /\ made[d] = None /\ r \in recipes /\ StepsOf[r] # {}
  /\ made' = [made EXCEPT ![d] = r]
  /\ \/ UNCHANGED unseen
     \/ r \in withdrawn /\ unseen' = unseen \cup {d}
  /\ UNCHANGED <<recipes, withdrawn, minimum, acks, disclosed>>

Destroy(d) ==
  /\ Present(made[d]) /\ \A b \in Bundle : <<b, d>> \notin disclosed
  /\ made' = [made EXCEPT ![d] = Deleted]
  /\ acks' = {p \in acks : p[2] # d}
  /\ UNCHANGED <<recipes, withdrawn, unseen, minimum, disclosed>>

Open(b) ==
  /\ minimum[b] = None
  /\ \E min \in {"E", "I", "D"} : minimum' = [minimum EXCEPT ![b] = min]
  /\ UNCHANGED <<recipes, withdrawn, unseen, made, acks, disclosed>>

Drop(b) ==
  /\ Present(minimum[b])
  /\ minimum' = [minimum EXCEPT ![b] = Deleted]
  /\ acks' = {p \in acks : p[1] # b} /\ disclosed' = {p \in disclosed : p[1] # b}
  /\ UNCHANGED <<recipes, withdrawn, unseen, made>>

Approve(b, d) ==
  /\ Present(minimum[b]) /\ Present(made[d])
  /\ acks' = acks \cup {<<b, d>>}
  /\ UNCHANGED <<recipes, withdrawn, unseen, made, minimum, disclosed>>

\* what is added, or moved there, meets the minimum or is acknowledged now
Disclose(b, d, moved) ==
  /\ Present(minimum[b]) /\ Present(made[d])
  /\ Meets(d, minimum[b]) \/ <<b, d>> \in acks
  /\ <<b, d>> \notin disclosed /\ moved \subseteq disclosed
  /\ disclosed' = (disclosed \ moved) \cup {<<b, d>>}
  /\ UNCHANGED <<recipes, withdrawn, unseen, made, minimum, acks>>

GateInit ==
  /\ recipes = {} /\ withdrawn = {} /\ unseen = {} /\ acks = {} /\ disclosed = {}
  /\ made = [d \in Derivative |-> None] /\ minimum = [b \in Bundle |-> None]

GateNext ==
  \/ \E r \in Recipe : Write(r) \/ Withdraw(r) \/ \E d \in Derivative : Make(d, r)
  \/ \E b \in Bundle : Open(b) \/ Drop(b)
  \/ \E d \in Derivative :
       \/ Destroy(d)
       \/ \E b \in Bundle : \/ Approve(b, d) \/ Disclose(b, d, {})
                            \/ \E from \in Bundle : Disclose(b, d, {<<from, d>>})

GateSpec == GateInit /\ [][GateNext]_gate
=============================================================================
