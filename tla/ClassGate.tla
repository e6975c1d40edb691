------------------------------ MODULE ClassGate ------------------------------
(***************************************************************************)
(* The class gate of the forensic tier's store                             *)
(* (fis/db/migrations/0001_core.sql): what a derivative is worth is        *)
(* computed from the steps of its recipe, and an item weaker than its      *)
(* bundle's minimum enters only with a written acknowledgement.            *)
(*                                                                         *)
(* Both rules are triggers, run by statements of concurrent READ COMMITTED *)
(* transactions: every query of a trigger sees what is committed at that   *)
(* moment, the foreign keys are checked after it, and the row is visible   *)
(* to others when the statement's transaction commits.                     *)
(*                                                                         *)
(* The writers follow the order of ci/gate.sql, which is the only writer   *)
(* of these tables in the repository: a recipe's row comes in one          *)
(* statement, all its steps in the next, and both are deleted at the end   *)
(* and written again by the next run under the same ids; a statement names *)
(* bundles that are already committed; ids of derivatives and bundles are  *)
(* not used twice and rows are not rewritten in place.                     *)
(***************************************************************************)
EXTENDS Integers, FiniteSets

CONSTANTS
  Writer,      \* connections, one statement each at a time
  Recipe,
  StepsOf,     \* per recipe the steps its writer inserts
  Derivative,
  Bundle,
  None,        \* a row that is not there, and a NULL
  Deleted      \* a row that was there: its id is not used again

Class == {"E", "I", "D"}

ASSUME GateAssumption ==
  /\ StepsOf \in [Recipe -> SUBSET [class : Class, external : BOOLEAN]]
  /\ None \notin Recipe \cup Derivative \cup Bundle \cup Class
  /\ Deleted \notin Recipe \cup Class \cup {None}
  /\ {None, Deleted} \cap [recipe : Recipe, floor : Class] = {}

VARIABLES
  recipes,      \* recipes committed
  stepped,      \* those whose steps are committed too
  withdrawn,    \* history: recipes that were deleted once
  derivatives,  \* per id: None, Deleted, or its recipe and its class floor
  bundles,      \* per id: None, Deleted, or its minimum class
  acks,         \* demonstrative_ack: <<bundle, derivative>>
  items,        \* disclosure_item: <<bundle, derivative>>
  statement,    \* per writer the statement whose trigger is running
  unseen        \* history: derivatives whose recipe had no steps left for has_external
gateVars == <<recipes, stepped, withdrawn, derivatives, bundles, acks, items, statement, unseen>>

Idle == [op |-> "idle"]
Pairs == Bundle \X Derivative
Exists(b) == bundles[b] \in Class
Stored(d) == derivatives[d] \notin {None, Deleted}

\* class_rank: anything that is not E or I, a NULL too, is weakest
Rank(c) == IF c = "E" THEN 3 ELSE IF c = "I" THEN 2 ELSE 1

WeakerOf(a, b) == IF Rank(a) <= Rank(b) THEN a ELSE b

-----------------------------------------------------------------------------
(* Recipes and derivatives *)

WriteRecipe(r) ==
  /\ r \notin recipes
  /\ recipes' = recipes \cup {r}
  /\ UNCHANGED <<stepped, withdrawn, derivatives, bundles, acks, items, statement, unseen>>

WriteSteps(r) ==
  /\ r \in recipes \ stepped
  /\ stepped' = stepped \cup {r}
  /\ UNCHANGED <<recipes, withdrawn, derivatives, bundles, acks, items, statement, unseen>>

Weakest(steps) == CHOOSE c \in {s.class : s \in steps} : \A s \in steps : Rank(c) <= Rank(s.class)

\* derivative_class_floor, first query: the weakest step, whatever the writer supplied;
\* a recipe without steps has no class, and the trigger raises
Derive(w, d, r) ==
  /\ statement[w] = Idle /\ derivatives[d] = None
  /\ r \in stepped /\ StepsOf[r] # {}
  /\ statement' = [statement EXCEPT ![w] =
                     [op |-> "derive", d |-> d, r |-> r, at |-> "external", floor |-> Weakest(StepsOf[r])]]
  /\ UNCHANGED <<recipes, stepped, withdrawn, derivatives, bundles, acks, items, unseen>>

\* Mutant of Judged: bytes that left the container still count as evidentiary.
JudgedByClass(floor, steps) == floor

Judged(floor, steps) == IF \E s \in steps : s.external THEN WeakerOf(floor, "I") ELSE floor

StepsNow(r) == IF r \in stepped THEN StepsOf[r] ELSE {}

\* second query, of the steps there are then: bool_or over none is a NULL, no external step
ReadExternal(w) ==
  /\ statement[w].op = "derive" /\ statement[w].at = "external"
  /\ LET s == statement[w]
     IN  statement' = [statement EXCEPT ![w] =
                         [s EXCEPT !.at = IF s.r \in stepped THEN "keys" ELSE "blind",
                                   !.floor = Judged(s.floor, StepsNow(s.r))]]
  /\ UNCHANGED <<recipes, stepped, withdrawn, derivatives, bundles, acks, items, unseen>>

\* the recipe's key is checked; a derivative under the same id was faster, or not
CommitDerivative(w) ==
  /\ statement[w].op = "derive" /\ statement[w].at # "external"
  /\ LET s == statement[w]
         made == s.r \in recipes /\ derivatives[s.d] = None
     IN  /\ derivatives' = IF made THEN [derivatives EXCEPT ![s.d] = [recipe |-> s.r, floor |-> s.floor]]
                           ELSE derivatives
         /\ unseen' = IF made /\ s.at = "blind" THEN unseen \cup {s.d} ELSE unseen
  /\ statement' = [statement EXCEPT ![w] = Idle]
  /\ UNCHANGED <<recipes, stepped, withdrawn, bundles, acks, items>>

\* a derivative refers to its recipe without a cascade; the steps go with it
DeleteRecipe(r) ==
  /\ r \in recipes /\ \A d \in Derivative : Stored(d) => derivatives[d].recipe # r
  /\ recipes' = recipes \ {r} /\ stepped' = stepped \ {r}
  /\ withdrawn' = withdrawn \cup {r}
  /\ UNCHANGED <<derivatives, bundles, acks, items, statement, unseen>>

\* an item refers to it without a cascade; acknowledgements go with it
DeleteDerivative(d) ==
  /\ Stored(d) /\ \A b \in Bundle : <<b, d>> \notin items
  /\ derivatives' = [derivatives EXCEPT ![d] = Deleted]
  /\ acks' = {p \in acks : p[2] # d}
  /\ UNCHANGED <<recipes, stepped, withdrawn, bundles, items, statement, unseen>>

-----------------------------------------------------------------------------
(* Bundles and acknowledgements *)

CreateBundle(b, min) ==
  /\ bundles[b] = None
  /\ bundles' = [bundles EXCEPT ![b] = min]
  /\ UNCHANGED <<recipes, stepped, withdrawn, derivatives, acks, items, statement, unseen>>

\* its items and acknowledgements go with it
DeleteBundle(b) ==
  /\ Exists(b)
  /\ bundles' = [bundles EXCEPT ![b] = Deleted]
  /\ acks' = {p \in acks : p[1] # b} /\ items' = {p \in items : p[1] # b}
  /\ UNCHANGED <<recipes, stepped, withdrawn, derivatives, statement, unseen>>

\* with a written reason; both keys are checked and held until it commits
Acknowledge(b, d) ==
  /\ Exists(b) /\ Stored(d)
  /\ acks' = acks \cup {<<b, d>>}
  /\ UNCHANGED <<recipes, stepped, withdrawn, derivatives, bundles, items, statement, unseen>>

-----------------------------------------------------------------------------
(* The gate *)

\* an item inserted, or moved there from another bundle: the floor is read first
AddItem(w, from, b, d) ==
  /\ statement[w] = Idle /\ Exists(b)
  /\ from # None => <<from, d>> \in items /\ from # b
  /\ statement' = [statement EXCEPT ![w] =
                     [op |-> "item", from |-> from, b |-> b, d |-> d, at |-> "minimum",
                      floor |-> IF Stored(d) THEN derivatives[d].floor ELSE None]]
  /\ UNCHANGED <<recipes, stepped, withdrawn, derivatives, bundles, acks, items, unseen>>

\* then the minimum; a strong enough item needs no acknowledgement
ReadMinimum(w) ==
  /\ statement[w].op = "item" /\ statement[w].at = "minimum"
  /\ LET min == IF Exists(statement[w].b) THEN bundles[statement[w].b] ELSE None
     IN  statement' = [statement EXCEPT ![w].at =
                         IF Rank(statement[w].floor) < Rank(min) THEN "ack" ELSE "keys"]
  /\ UNCHANGED <<recipes, stepped, withdrawn, derivatives, bundles, acks, items, unseen>>

\* Mutant of Acked: somebody acknowledged the derivative, for some bundle.
AckedAnywhere(b, d) == \E other \in Bundle : <<other, d>> \in acks

Acked(b, d) == <<b, d>> \in acks

\* then the acknowledgement; without one the statement fails
ReadAck(w) ==
  /\ statement[w].op = "item" /\ statement[w].at = "ack"
  /\ statement' = [statement EXCEPT ![w] =
                     IF Acked(statement[w].b, statement[w].d) THEN [@ EXCEPT !.at = "keys"] ELSE Idle]
  /\ UNCHANGED <<recipes, stepped, withdrawn, derivatives, bundles, acks, items, unseen>>

\* then the keys, and the row is there; a move needs the row it moves
CommitItem(w) ==
  /\ statement[w].op = "item" /\ statement[w].at = "keys"
  /\ LET s == statement[w]
         moved == IF s.from = None THEN {} ELSE {<<s.from, s.d>>}
     IN  items' = IF Exists(s.b) /\ Stored(s.d) /\ moved \subseteq items /\ <<s.b, s.d>> \notin items
                  THEN (items \ moved) \cup {<<s.b, s.d>>} ELSE items
  /\ statement' = [statement EXCEPT ![w] = Idle]
  /\ UNCHANGED <<recipes, stepped, withdrawn, derivatives, bundles, acks, unseen>>

-----------------------------------------------------------------------------
GateInit ==
  /\ recipes = {} /\ stepped = {} /\ withdrawn = {} /\ unseen = {} /\ derivatives = [d \in Derivative |-> None] /\ bundles = [b \in Bundle |-> None]
  /\ acks = {} /\ items = {} /\ statement = [w \in Writer |-> Idle]

GateNext ==
  \/ \E r \in Recipe : WriteRecipe(r) \/ WriteSteps(r) \/ DeleteRecipe(r)
  \/ \E b \in Bundle : DeleteBundle(b) \/ (\E min \in Class : CreateBundle(b, min))
  \/ \E d \in Derivative : DeleteDerivative(d) \/ (\E b \in Bundle : Acknowledge(b, d))
  \/ \E w \in Writer :
       \/ \E d \in Derivative, r \in Recipe : Derive(w, d, r)
       \/ \E from \in Bundle \cup {None}, b \in Bundle, d \in Derivative : AddItem(w, from, b, d)
       \/ ReadExternal(w) \/ CommitDerivative(w) \/ ReadMinimum(w) \/ ReadAck(w) \/ CommitItem(w)

-----------------------------------------------------------------------------
GateTypeOK ==
  /\ stepped \subseteq recipes /\ recipes \subseteq Recipe /\ withdrawn \subseteq Recipe
  /\ derivatives \in [Derivative -> [recipe : Recipe, floor : Class] \cup {None, Deleted}]
  /\ bundles \in [Bundle -> Class \cup {None, Deleted}]
  /\ acks \subseteq Pairs /\ items \subseteq Pairs /\ unseen \subseteq Derivative
  /\ statement \in [Writer -> {Idle} \cup [op : {"derive"}, d : Derivative, r : Recipe,
                                    at : {"external", "keys", "blind"}, floor : Class]
                              \cup [op : {"item"}, from : Bundle \cup {None}, b : Bundle, d : Derivative,
                                    at : {"minimum", "ack", "keys"}, floor : Class \cup {None}]]

\* What is disclosed without an acknowledgement for that very bundle was made by steps
\* none of which is weaker than the bundle asks, and an evidentiary one in the container
\* alone, in every order of the statements of all writers and of their triggers' reads;
\* except what was derived while its recipe was being replaced, between the two queries.
DisclosedMeetsMinimum ==
  \A p \in items : p \notin acks =>
    \A s \in StepsOf[derivatives[p[2]].recipe] :
      /\ Rank(s.class) >= Rank(bundles[p[1]])
      /\ s.external /\ p[2] \notin unseen => bundles[p[1]] # "E"

\* "Bytes that left the container for a tool outside its pinned manifest cannot be shown
\* to be deterministic, so they can never be evidentiary" (0001_core.sql): not so when the
\* recipe is deleted and written again around the second query of derivative_class_floor.
ExternalNeverEvidentiary ==
  \A d \in Derivative : Stored(d) /\ (\E s \in StepsOf[derivatives[d].recipe] : s.external) =>
    derivatives[d].floor # "E"

-----------------------------------------------------------------------------
(* The gate is atomic *)

\* what a derivative is to an observer of the tables
Made == [d \in Derivative |-> IF Stored(d) THEN derivatives[d].recipe ELSE derivatives[d]]

Gate == INSTANCE DisclosureGate
  WITH made <- Made, minimum <- bundles, disclosed <- items

\* derivative_class_floor and disclosure_class_gate together: in whatever order the
\* writers' statements and their triggers' reads fall between each other's commits, what
\* an observer of the tables sees is one judged write after the other, and of a statement
\* whose rows went meanwhile, nothing; only a recipe that was deleted once can leave a
\* derivative whose external steps nobody saw.
ImplementsGate == Gate!GateSpec
=============================================================================
