------------------------------ MODULE FisProofs ------------------------------
(***************************************************************************)
(* Theorems about the forensic tier, for any writers, exports, objects and *)
(* reports: nothing weaker than its bundle asks is disclosed without an    *)
(* acknowledgement and the gate is atomic, the model of a clock is one,    *)
(* damage is shown, a master opens at a keyframe, a person is followed     *)
(* only under a flag, and a speed stays where it was measured.             *)
(***************************************************************************)
EXTENDS Fis, ListFacts

\* What a statement judged a moment ago still holds when its row appears: ids are not
\* used again, so a floor or a minimum that was read is the one that is there, or its
\* row is gone and the keys will not be found.
StrongEnough(b, d) == Rank(derivatives[d].floor) >= Rank(bundles[b]) \/ <<b, d>> \in acks

\* No step of the recipe is weaker, and no tool outside left it evidentiary.
Sound(r, floor) == \A s \in StepsOf[r] : Rank(floor) <= Rank(s.class)
Contained(r, floor) == \A s \in StepsOf[r] : s.external => Rank(floor) <= 2

FloorsComputed ==
  \A d \in Derivative : Stored(d) =>
    /\ StepsOf[derivatives[d].recipe] # {} /\ Sound(derivatives[d].recipe, derivatives[d].floor)
    /\ d \notin unseen => Contained(derivatives[d].recipe, derivatives[d].floor)

\* What a statement saw of its recipe: the steps, or that it was withdrawn meanwhile.
StatementOK(w) ==
  /\ statement[w].op = "derive" =>
       /\ StepsOf[statement[w].r] # {} /\ Sound(statement[w].r, statement[w].floor)
       /\ statement[w].at = "external" => statement[w].r \in stepped \cup withdrawn
       /\ statement[w].at = "keys" => Contained(statement[w].r, statement[w].floor)
       /\ statement[w].at = "blind" => statement[w].r \in withdrawn
  /\ statement[w].op = "item" =>
       /\ bundles[statement[w].b] # None
       /\ statement[w].floor # None /\ Stored(statement[w].d)
            => derivatives[statement[w].d].floor = statement[w].floor
       /\ statement[w].floor # None => derivatives[statement[w].d] # None
       /\ statement[w].at = "keys" /\ Exists(statement[w].b) /\ Stored(statement[w].d)
            => StrongEnough(statement[w].b, statement[w].d)
       /\ statement[w].at = "keys" /\ Exists(statement[w].b) /\ derivatives[statement[w].d] = None
            => bundles[statement[w].b] = "D"

StatementsOK == \A w \in Writer : StatementOK(w)

ItemsOK == \A b \in Bundle, d \in Derivative :
             <<b, d>> \in items => Exists(b) /\ Stored(d) /\ StrongEnough(b, d)

AcksOK == \A b \in Bundle, d \in Derivative : <<b, d>> \in acks => Stored(d)

\* A row of derivative on its way through the trigger.
Derivation == [op : {"derive"}, d : Derivative, r : Recipe, at : {"external", "keys", "blind"}, floor : Class]

GateInv == GateTypeOK /\ FloorsComputed /\ StatementsOK /\ ItemsOK /\ AcksOK

-----------------------------------------------------------------------------
\* The weakest step is a class and no step is weaker (derivative_class_floor).
LEMMA FloorFacts ==
  ASSUME NEW r \in Recipe, StepsOf[r] # {}
  PROVE  Weakest(StepsOf[r]) \in Class /\ Sound(r, Weakest(StepsOf[r]))
<1> DEFINE steps == StepsOf[r]
<1> DEFINE classes == {s.class : s \in steps}
<1>1. steps \subseteq [class : Class, external : BOOLEAN]
  BY GateAssumption
<1>2. classes \subseteq Class /\ classes # {}
  BY <1>1
<1>3. \E c \in classes : \A s \in steps : Rank(c) <= Rank(s.class)
  <2>1. CASE "D" \in classes
    BY <2>1, <1>1 DEF Rank, Class
  <2>2. CASE "D" \notin classes /\ "I" \in classes
    BY <2>2, <1>1 DEF Rank, Class
  <2>3. CASE "D" \notin classes /\ "I" \notin classes
    BY <2>3, <1>1, <1>2 DEF Rank, Class
  <2> QED BY <2>1, <2>2, <2>3
<1> QED BY <1>2, <1>3 DEF Weakest, Sound

\* The second query only weakens a floor, and of the steps it sees none is overlooked.
LEMMA JudgedFacts ==
  ASSUME NEW r \in Recipe, NEW floor \in Class, Sound(r, floor), NEW steps
  PROVE  /\ Judged(floor, steps) \in Class /\ Sound(r, Judged(floor, steps))
         /\ steps = StepsOf[r] => Contained(r, Judged(floor, steps))
<1>0. \A s \in StepsOf[r] : s.class \in Class
  BY GateAssumption
<1>1. CASE \E s \in steps : s.external
  <2>1. Judged(floor, steps) = WeakerOf(floor, "I")
    BY <1>1 DEF Judged
  <2>2. /\ Judged(floor, steps) \in Class /\ Rank(Judged(floor, steps)) <= 2
        /\ Rank(Judged(floor, steps)) <= Rank(floor)
    BY <2>1 DEF WeakerOf, Rank, Class
  <2> QED BY <1>0, <2>2 DEF Sound, Contained, Rank, Class
<1>2. CASE ~ \E s \in steps : s.external
  BY <1>2 DEF Judged, Sound, Contained
<1> QED BY <1>1, <1>2

\* Nothing is in the tables at first.
LEMMA GateInitial == GateInit => GateInv
  BY GateAssumption DEF GateInit, GateInv, GateTypeOK, FloorsComputed, StatementsOK, StatementOK, ItemsOK, AcksOK, Idle, Stored, Exists, Class

-----------------------------------------------------------------------------
(* The tables keep their columns *)

\* Every statement, at every step of its triggers, leaves rows of the declared types.
LEMMA GateTypeStep == GateInv /\ [GateNext]_gateVars => GateTypeOK'
  <1> SUFFICES ASSUME GateInv, [GateNext]_gateVars PROVE GateTypeOK'
    OBVIOUS
  <1> USE GateAssumption DEF GateInv, GateTypeOK
  <1>1. ASSUME NEW r \in Recipe, WriteRecipe(r) \/ WriteSteps(r) \/ DeleteRecipe(r) PROVE GateTypeOK'
    BY <1>1 DEF WriteRecipe, WriteSteps, DeleteRecipe
  <1>2. ASSUME NEW b \in Bundle, DeleteBundle(b) PROVE GateTypeOK'
    BY <1>2 DEF DeleteBundle, Pairs
  <1>3. ASSUME NEW b \in Bundle, NEW min \in Class, CreateBundle(b, min) PROVE GateTypeOK'
    BY <1>3 DEF CreateBundle
  <1>4. ASSUME NEW d \in Derivative, DeleteDerivative(d) PROVE GateTypeOK'
    BY <1>4 DEF DeleteDerivative
  <1>5. ASSUME NEW d \in Derivative, NEW b \in Bundle, Acknowledge(b, d) PROVE GateTypeOK'
    BY <1>5 DEF Acknowledge, Pairs
  <1>6. ASSUME NEW w \in Writer, NEW d \in Derivative, NEW r \in Recipe, Derive(w, d, r) PROVE GateTypeOK'
    <2>1. Weakest(StepsOf[r]) \in Class
      BY <1>6, FloorFacts DEF Derive
    <2>2. [op |-> "derive", d |-> d, r |-> r, at |-> "external", floor |-> Weakest(StepsOf[r])] \in Derivation
      BY <2>1 DEF Derivation
    <2> QED BY <1>6, <2>2 DEF Derive, Derivation
  <1>13. ASSUME NEW w \in Writer, ReadExternal(w) PROVE GateTypeOK'
    <2>1. /\ statement[w] \in Derivation /\ StatementOK(w)
          /\ statement[w].op = "derive"
      BY <1>13 DEF ReadExternal, Idle, StatementsOK, Derivation
    <2>2. PICK at \in {"keys", "blind"} :
            statement' = [statement EXCEPT ![w] = [@ EXCEPT !.at = at,
                                                    !.floor = Judged(statement[w].floor, StepsNow(statement[w].r))]]
      BY <1>13 DEF ReadExternal
    <2>3. PICK floor \in Class : floor = Judged(statement[w].floor, StepsNow(statement[w].r))
      BY <2>1, JudgedFacts DEF StatementOK, Derivation
    <2>4. [statement[w] EXCEPT !.at = at, !.floor = floor] \in Derivation
      BY <2>1 DEF Derivation
    <2> QED BY <1>13, <2>2, <2>3, <2>4 DEF ReadExternal, Derivation
  <1>7. ASSUME NEW w \in Writer, CommitDerivative(w) PROVE GateTypeOK'
    <2>1. statement[w] \in Derivation
      BY <1>7 DEF CommitDerivative, Idle, Derivation
    <2>2. [recipe |-> statement[w].r, floor |-> statement[w].floor] \in [recipe : Recipe, floor : Class]
      BY <2>1 DEF Derivation
    <2>4. unseen' \subseteq Derivative
      BY <1>7, <2>1 DEF CommitDerivative, Derivation
    <2>3. derivatives' \in [Derivative -> [recipe : Recipe, floor : Class] \cup {None, Deleted}]
      BY <1>7, <2>2 DEF CommitDerivative
    <2> QED BY <1>7, <2>3, <2>4 DEF CommitDerivative
  <1>8. ASSUME NEW w \in Writer, NEW from \in Bundle \cup {None}, NEW b \in Bundle, NEW d \in Derivative,
               AddItem(w, from, b, d)
        PROVE  GateTypeOK'
    <2>1. (IF Stored(d) THEN derivatives[d].floor ELSE None) \in Class \cup {None}
      BY DEF Stored
    <2>2. [op |-> "item", from |-> from, b |-> b, d |-> d, at |-> "minimum",
           floor |-> IF Stored(d) THEN derivatives[d].floor ELSE None]
            \in [op : {"item"}, from : Bundle \cup {None}, b : Bundle, d : Derivative,
                 at : {"minimum", "ack", "keys"}, floor : Class \cup {None}]
      BY <2>1
    <2> QED BY <1>8, <2>2 DEF AddItem
  <1>9. ASSUME NEW w \in Writer, ReadMinimum(w) PROVE GateTypeOK'
    <2>1. statement[w] \in [op : {"item"}, from : Bundle \cup {None}, b : Bundle, d : Derivative,
                            at : {"minimum", "ack", "keys"}, floor : Class \cup {None}]
      BY <1>9 DEF ReadMinimum, Idle
    <2>2. \A at \in {"ack", "keys"} : [statement[w] EXCEPT !.at = at]
            \in [op : {"item"}, from : Bundle \cup {None}, b : Bundle, d : Derivative,
                 at : {"minimum", "ack", "keys"}, floor : Class \cup {None}]
      BY <2>1
    <2>3. \E at \in {"ack", "keys"} : statement' = [statement EXCEPT ![w] = [@ EXCEPT !.at = at]]
      BY <1>9 DEF ReadMinimum
    <2> QED BY <1>9, <2>2, <2>3 DEF ReadMinimum
  <1>10. ASSUME NEW w \in Writer, ReadAck(w) PROVE GateTypeOK'
    <2>1. statement[w] \in [op : {"item"}, from : Bundle \cup {None}, b : Bundle, d : Derivative,
                            at : {"minimum", "ack", "keys"}, floor : Class \cup {None}]
      BY <1>10 DEF ReadAck, Idle
    <2>2. [statement[w] EXCEPT !.at = "keys"]
            \in [op : {"item"}, from : Bundle \cup {None}, b : Bundle, d : Derivative,
                 at : {"minimum", "ack", "keys"}, floor : Class \cup {None}]
      BY <2>1
    <2> QED BY <1>10, <2>2 DEF ReadAck
  <1>11. ASSUME NEW w \in Writer, CommitItem(w) PROVE GateTypeOK'
    <2>1. statement[w] \in [op : {"item"}, from : Bundle \cup {None}, b : Bundle, d : Derivative,
                            at : {"minimum", "ack", "keys"}, floor : Class \cup {None}]
      BY <1>11 DEF CommitItem, Idle
    <2>2. items' \subseteq Pairs
      BY <1>11, <2>1 DEF CommitItem, Pairs
    <2> QED BY <1>11, <2>2 DEF CommitItem
  <1>12. ASSUME UNCHANGED gateVars PROVE GateTypeOK'
    BY <1>12 DEF gateVars
  <1> QED BY <1>1, <1>2, <1>3, <1>4, <1>5, <1>6, <1>7, <1>8, <1>9, <1>10, <1>11, <1>12, <1>13 DEF GateNext

-----------------------------------------------------------------------------
(* Nothing that was judged changes behind the judgement *)

\* A row that was there stays as it is or is deleted for good, and an acknowledgement
\* stays as long as both its rows do.
LEMMA RowsStay ==
  ASSUME GateTypeOK, [GateNext]_gateVars
  PROVE  /\ \A b \in Bundle : bundles[b] # None => bundles'[b] \in {bundles[b], Deleted}
         /\ \A d \in Derivative : derivatives[d] # None => derivatives'[d] \in {derivatives[d], Deleted}
         /\ \A b \in Bundle, d \in Derivative :
              <<b, d>> \in acks /\ Exists(b)' /\ Stored(d)' => <<b, d>> \in acks'
  <1> DEFINE Kept == /\ \A b \in Bundle : bundles[b] # None => bundles'[b] \in {bundles[b], Deleted}
                     /\ \A d \in Derivative : derivatives[d] # None => derivatives'[d] \in {derivatives[d], Deleted}
                     /\ \A b \in Bundle, d \in Derivative :
                          <<b, d>> \in acks /\ Exists(b)' /\ Stored(d)' => <<b, d>> \in acks'
  <1> USE GateAssumption DEF GateTypeOK
  <1>1. ASSUME NEW b \in Bundle, DeleteBundle(b) PROVE Kept
    BY <1>1 DEF DeleteBundle, Exists
  <1>2. ASSUME NEW b \in Bundle, NEW min \in Class, CreateBundle(b, min) PROVE Kept
    BY <1>2 DEF CreateBundle
  <1>3. ASSUME NEW d \in Derivative, DeleteDerivative(d) PROVE Kept
    BY <1>3 DEF DeleteDerivative, Stored
  <1>4. ASSUME NEW d \in Derivative, NEW b \in Bundle, Acknowledge(b, d) PROVE Kept
    BY <1>4 DEF Acknowledge
  <1>5. ASSUME NEW w \in Writer, CommitDerivative(w) PROVE Kept
    <2>1. UNCHANGED <<bundles, acks>>
      BY <1>5 DEF CommitDerivative
    <2>2. \A d \in Derivative : derivatives[d] # None => derivatives'[d] = derivatives[d]
      BY <1>5 DEF CommitDerivative
    <2> QED BY <2>1, <2>2
  <1>6. ASSUME UNCHANGED <<bundles, derivatives, acks>> PROVE Kept
    BY <1>6
  <1>7. ASSUME NEW w \in Writer,
               \/ \E d \in Derivative, r \in Recipe : Derive(w, d, r)
               \/ \E from \in Bundle \cup {None}, b \in Bundle, d \in Derivative : AddItem(w, from, b, d)
               \/ ReadExternal(w) \/ ReadMinimum(w) \/ ReadAck(w) \/ CommitItem(w)
        PROVE  UNCHANGED <<bundles, derivatives, acks>>
    BY <1>7 DEF Derive, ReadExternal, AddItem, ReadMinimum, ReadAck, CommitItem
  <1>8. ASSUME NEW r \in Recipe, WriteRecipe(r) \/ WriteSteps(r) \/ DeleteRecipe(r) PROVE UNCHANGED <<bundles, derivatives, acks>>
    BY <1>8 DEF WriteRecipe, WriteSteps, DeleteRecipe
  <1>9. ASSUME UNCHANGED gateVars PROVE UNCHANGED <<bundles, derivatives, acks>>
    BY <1>9 DEF gateVars
  <1>10. Kept
    BY <1>1, <1>2, <1>3, <1>4, <1>5, <1>6, <1>7, <1>8, <1>9 DEF GateNext
  <1> QED BY <1>10

\* So a judgement that admits an item outlives every step of the others.
LEMMA StrengthStays ==
  ASSUME GateTypeOK, [GateNext]_gateVars, NEW b \in Bundle, NEW d \in Derivative,
         bundles[b] # None, derivatives[d] # None,
         Exists(b) /\ Stored(d) => StrongEnough(b, d), Exists(b)', Stored(d)'
  PROVE  Exists(b) /\ Stored(d) /\ StrongEnough(b, d)'
  <1>1. bundles'[b] = bundles[b] /\ derivatives'[d] = derivatives[d]
    BY RowsStay, GateAssumption DEF Exists, Stored
  <1>2. Exists(b) /\ Stored(d)
    BY <1>1 DEF Exists, Stored
  <1>3. <<b, d>> \in acks => <<b, d>> \in acks'
    BY RowsStay
  <1> QED BY <1>1, <1>2, <1>3 DEF StrongEnough

\* Every stored derivative carries a floor its recipe allows.
LEMMA FloorsStep == GateInv /\ [GateNext]_gateVars => FloorsComputed'
  <1> SUFFICES ASSUME GateInv, [GateNext]_gateVars, NEW d \in Derivative, Stored(d)'
               PROVE  /\ StepsOf[derivatives'[d].recipe] # {}
                      /\ Sound(derivatives'[d].recipe, derivatives'[d].floor)
                      /\ d \notin unseen' => Contained(derivatives'[d].recipe, derivatives'[d].floor)
    BY DEF FloorsComputed, Sound, Contained, Stored
  <1> USE DEF GateInv
  <1>0. unseen \subseteq unseen'
    BY DEF GateNext, gateVars, WriteRecipe, WriteSteps, DeleteRecipe, CreateBundle, DeleteBundle, Acknowledge,
       DeleteDerivative, Derive, ReadExternal, CommitDerivative, AddItem, ReadMinimum, ReadAck, CommitItem
  <1>1. CASE derivatives[d] # None
    BY <1>0, <1>1, RowsStay DEF FloorsComputed, Stored
  <1>2. CASE derivatives[d] = None
    <2>1. ASSUME NEW d2 \in Derivative, DeleteDerivative(d2) PROVE derivatives'[d] = None
      BY <1>2, <2>1, GateAssumption DEF DeleteDerivative, Stored, GateTypeOK
    <2>2. ASSUME NEW w \in Writer,
                 \/ \E d2 \in Derivative, r \in Recipe : Derive(w, d2, r)
                 \/ \E from \in Bundle \cup {None}, b2 \in Bundle, d2 \in Derivative : AddItem(w, from, b2, d2)
                 \/ ReadExternal(w) \/ ReadMinimum(w) \/ ReadAck(w) \/ CommitItem(w)
          PROVE  derivatives' = derivatives
      BY <2>2 DEF Derive, ReadExternal, AddItem, ReadMinimum, ReadAck, CommitItem
    <2>3. ASSUME \/ \E r \in Recipe : WriteRecipe(r) \/ WriteSteps(r) \/ DeleteRecipe(r)
                 \/ \E b \in Bundle : DeleteBundle(b) \/ (\E min \in Class : CreateBundle(b, min))
                 \/ \E d2 \in Derivative, b \in Bundle : Acknowledge(b, d2)
                 \/ UNCHANGED gateVars
          PROVE  derivatives' = derivatives
      BY <2>3 DEF WriteRecipe, WriteSteps, DeleteRecipe, DeleteBundle, CreateBundle, Acknowledge, gateVars
    <2>4. derivatives'[d] # None
      BY DEF Stored
    <2>5. PICK w \in Writer : CommitDerivative(w)
      BY <1>2, <2>1, <2>2, <2>3, <2>4 DEF GateNext
    <2>6. derivatives'[d] = [recipe |-> statement[w].r, floor |-> statement[w].floor] /\ statement[w].d = d
          /\ (statement[w].at = "blind" => d \in unseen')
      BY <1>2, <2>4, <2>5 DEF CommitDerivative, GateTypeOK
    <2>7. StatementOK(w) /\ statement[w].op = "derive" /\ statement[w].at \in {"keys", "blind"}
      BY <2>5 DEF StatementsOK, CommitDerivative, GateTypeOK, Idle
    <2>8. derivatives'[d].recipe = statement[w].r /\ derivatives'[d].floor = statement[w].floor
      BY <2>6
    <2> QED BY <2>6, <2>7, <2>8 DEF StatementOK
  <1> QED BY <1>1, <1>2

\* An acknowledgement refers to a derivative that is there.
LEMMA AcksStep == GateInv /\ [GateNext]_gateVars => AcksOK'
  <1> SUFFICES ASSUME GateInv, [GateNext]_gateVars, NEW b \in Bundle, NEW d \in Derivative, <<b, d>> \in acks'
               PROVE  Stored(d)'
    BY DEF AcksOK
  <1> USE DEF GateInv
  <1>1. CASE <<b, d>> \in acks
    <2>1. Stored(d) /\ derivatives[d] # None
      BY <1>1 DEF AcksOK, Stored
    <2>2. CASE DeleteDerivative(d)
      BY <2>2 DEF DeleteDerivative
    <2>3. CASE ~ DeleteDerivative(d)
      <3>1. derivatives'[d] = derivatives[d]
        BY <2>1, <2>3 DEF GateNext, gateVars, GateTypeOK, WriteRecipe, WriteSteps, DeleteRecipe, CreateBundle, DeleteBundle, Stored,
           Acknowledge, DeleteDerivative, Derive, ReadExternal, AddItem, ReadMinimum, ReadAck, CommitItem, CommitDerivative
      <3> QED BY <2>1, <3>1 DEF Stored
    <2> QED BY <2>2, <2>3
  <1>2. CASE <<b, d>> \notin acks
    <2>1. \/ acks' \subseteq acks
          \/ \E b2 \in Bundle, d2 \in Derivative : Acknowledge(b2, d2)
      <3>1. ASSUME NEW w \in Writer,
                   \/ \E d2 \in Derivative, r \in Recipe : Derive(w, d2, r)
                   \/ \E from \in Bundle \cup {None}, b2 \in Bundle, d2 \in Derivative : AddItem(w, from, b2, d2)
                   \/ ReadExternal(w) \/ CommitDerivative(w) \/ ReadMinimum(w) \/ ReadAck(w) \/ CommitItem(w)
            PROVE  acks' = acks
        BY <3>1 DEF Derive, ReadExternal, AddItem, CommitDerivative, ReadMinimum, ReadAck, CommitItem
      <3>2. ASSUME \/ \E r \in Recipe : WriteRecipe(r) \/ WriteSteps(r) \/ DeleteRecipe(r)
                   \/ \E b2 \in Bundle : DeleteBundle(b2) \/ (\E min \in Class : CreateBundle(b2, min))
                   \/ \E d2 \in Derivative : DeleteDerivative(d2)
                   \/ UNCHANGED gateVars
            PROVE  acks' \subseteq acks
        BY <3>2 DEF WriteRecipe, WriteSteps, DeleteRecipe, DeleteBundle, CreateBundle, DeleteDerivative, gateVars
      <3> QED BY <3>1, <3>2 DEF GateNext
    <2>2. PICK b2 \in Bundle, d2 \in Derivative : Acknowledge(b2, d2)
      BY <1>2, <2>1
    <2>3. <<b, d>> = <<b2, d2>> /\ Stored(d2) /\ derivatives' = derivatives
      BY <1>2, <2>2 DEF Acknowledge
    <2> QED BY <2>3 DEF Stored
  <1> QED BY <1>1, <1>2

\* A statement keeps what its trigger has read, while the others go on.
LEMMA StatementKeeps ==
  ASSUME GateInv, [GateNext]_gateVars, GateTypeOK', NEW w \in Writer, statement'[w] = statement[w]
  PROVE  StatementOK(w)'
  <1> USE DEF GateInv
  <1>0. StatementOK(w)
    BY DEF StatementsOK
  <1>1. CASE statement[w].op = "item"
    <2> DEFINE b == statement[w].b
    <2> DEFINE d == statement[w].d
    <2>1. b \in Bundle /\ d \in Derivative /\ bundles[b] # None
      BY <1>0, <1>1 DEF StatementOK, GateTypeOK, Idle
    <2>2. bundles'[b] # None
      BY <2>1, RowsStay, GateAssumption
    <2>3. statement[w].floor # None => derivatives'[d] # None
      BY <1>0, <1>1, <2>1, RowsStay, GateAssumption DEF StatementOK
    <2>4. statement[w].floor # None /\ Stored(d)' => derivatives'[d].floor = statement[w].floor
      BY <1>0, <1>1, <2>1, RowsStay DEF StatementOK, Stored
    <2>5. ASSUME statement[w].at = "keys", Exists(b)', Stored(d)' PROVE StrongEnough(b, d)'
      <3>1. CASE derivatives[d] # None
        BY <1>0, <1>1, <2>1, <2>5, <3>1, StrengthStays DEF StatementOK
      <3>2. CASE derivatives[d] = None
        <4>1. bundles'[b] = bundles[b] /\ Exists(b)
          BY <2>1, <2>5, RowsStay, GateAssumption DEF Exists
        <4>2. bundles'[b] = "D"
          BY <1>0, <1>1, <2>5, <3>2, <4>1 DEF StatementOK
        <4> QED BY <4>2 DEF StrongEnough, Rank
      <3> QED BY <3>1, <3>2
    <2>6. ASSUME statement[w].at = "keys", Exists(b)', derivatives'[d] = None PROVE bundles'[b] = "D"
      <3>1. derivatives[d] = None
        BY <2>1, <2>6, RowsStay, GateAssumption
      <3>2. bundles'[b] = bundles[b] /\ Exists(b)
        BY <2>1, <2>6, RowsStay, GateAssumption DEF Exists
      <3> QED BY <1>0, <1>1, <2>6, <3>1, <3>2 DEF StatementOK
    <2> QED BY <1>1, <2>2, <2>3, <2>4, <2>5, <2>6 DEF StatementOK
  <1>2. CASE statement[w].op # "item"
    <2>1. stepped \subseteq stepped' \cup withdrawn' /\ withdrawn \subseteq withdrawn'
      BY DEF GateNext, gateVars, GateTypeOK, WriteRecipe, WriteSteps, DeleteRecipe, CreateBundle, DeleteBundle, Acknowledge,
         DeleteDerivative, Derive, ReadExternal, CommitDerivative, AddItem, ReadMinimum, ReadAck, CommitItem
    <2> QED BY <1>0, <1>2, <2>1 DEF StatementOK, Sound, Contained
  <1> QED BY <1>1, <1>2

\* Every statement's own reads leave it with what they saw.
LEMMA StatementsStep == GateInv /\ GateTypeOK' /\ [GateNext]_gateVars => StatementsOK'
  <1> SUFFICES ASSUME GateInv, GateTypeOK', [GateNext]_gateVars, NEW w \in Writer PROVE StatementOK(w)'
    BY DEF StatementsOK
  <1> USE DEF GateInv
  <1>0. StatementOK(w) /\ w \in DOMAIN statement
    BY DEF StatementsOK, GateTypeOK
  <1>1. CASE statement'[w] = statement[w]
    BY <1>1, StatementKeeps
  <1>2. ASSUME NEW d \in Derivative, NEW r \in Recipe, Derive(w, d, r) PROVE StatementOK(w)'
    <2>1. statement'[w] = [op |-> "derive", d |-> d, r |-> r, at |-> "external", floor |-> Weakest(StepsOf[r])]
          /\ StepsOf[r] # {} /\ r \in stepped /\ stepped' = stepped
      BY <1>0, <1>2 DEF Derive
    <2>2. Sound(r, Weakest(StepsOf[r]))
      BY <2>1, FloorFacts
    <2> QED BY <2>1, <2>2 DEF StatementOK, Sound
  <1>9. ASSUME ReadExternal(w) PROVE StatementOK(w)'
    <2>1. PICK t : t = statement[w]
      OBVIOUS
    <2>2. /\ t.op = "derive" /\ t.at = "external" /\ t \in Derivation /\ UNCHANGED <<stepped, withdrawn>>
          /\ statement'[w] = [t EXCEPT !.at = IF t.r \in stepped THEN "keys" ELSE "blind",
                                       !.floor = Judged(t.floor, StepsNow(t.r))]
      BY <1>0, <1>9, <2>1 DEF ReadExternal, GateTypeOK, Idle, Derivation
    <2>3. /\ statement'[w].op = "derive" /\ statement'[w].r = t.r
          /\ statement'[w].at = IF t.r \in stepped THEN "keys" ELSE "blind"
          /\ statement'[w].floor = Judged(t.floor, StepsNow(t.r))
      BY <2>2 DEF Derivation
    <2>4. /\ t.r \in Recipe /\ t.floor \in Class /\ Sound(t.r, t.floor) /\ StepsOf[t.r] # {}
          /\ t.r \in stepped \cup withdrawn
      BY <1>0, <2>1, <2>2 DEF StatementOK, Derivation
    <2>5. /\ Sound(t.r, statement'[w].floor)
          /\ t.r \in stepped => Contained(t.r, statement'[w].floor)
      BY <2>3, <2>4, JudgedFacts DEF StepsNow
    <2> QED BY <2>2, <2>3, <2>4, <2>5 DEF StatementOK, Sound, Contained
  <1>3. ASSUME NEW from \in Bundle \cup {None}, NEW b \in Bundle, NEW d \in Derivative, AddItem(w, from, b, d)
        PROVE  StatementOK(w)'
    <2>1. /\ statement'[w] = [op |-> "item", from |-> from, b |-> b, d |-> d, at |-> "minimum",
                              floor |-> IF Stored(d) THEN derivatives[d].floor ELSE None]
          /\ Exists(b) /\ UNCHANGED <<bundles, derivatives>>
      BY <1>0, <1>3 DEF AddItem
    <2> QED BY <2>1, GateAssumption DEF StatementOK, Stored, Exists
  <1>4. ASSUME ReadMinimum(w) PROVE StatementOK(w)'
    <2> DEFINE b == statement[w].b
    <2> DEFINE d == statement[w].d
    <2> DEFINE floor == statement[w].floor
    <2> DEFINE min == IF Exists(b) THEN bundles[b] ELSE None
    <2>1. /\ statement[w].op = "item" /\ UNCHANGED <<bundles, derivatives, acks>>
          /\ statement[w] \in [op : {"item"}, from : Bundle \cup {None}, b : Bundle, d : Derivative,
                               at : {"minimum", "ack", "keys"}, floor : Class \cup {None}]
      BY <1>4 DEF ReadMinimum, GateTypeOK, Idle
    <2>2. PICK at \in {"ack", "keys"} : /\ statement'[w] = [statement[w] EXCEPT !.at = at]
                                        /\ at = "keys" => ~ (Rank(floor) < Rank(min))
      BY <1>0, <1>4 DEF ReadMinimum
    <2>3. statement'[w].op = "item" /\ statement'[w].b = b /\ statement'[w].d = d
          /\ statement'[w].floor = floor /\ statement'[w].at = at
      BY <2>1, <2>2
    <2>4. ASSUME at = "keys", Exists(b), Stored(d) PROVE StrongEnough(b, d)
      <3>1. Rank(floor) >= Rank(bundles[b])
        BY <2>2, <2>4 DEF Rank
      <3>2. CASE floor = None
        BY <3>1, <3>2, GateAssumption DEF StrongEnough, Rank, Class
      <3>3. CASE floor # None
        BY <3>1, <3>3, <2>1, <2>4, <1>0 DEF StatementOK, StrongEnough
      <3> QED BY <3>2, <3>3
    <2>5. ASSUME at = "keys", Exists(b), derivatives[d] = None PROVE bundles[b] = "D"
      <3>1. floor = None
        BY <2>1, <2>5, <1>0 DEF StatementOK
      <3>2. Rank(floor) >= Rank(bundles[b])
        BY <2>2, <2>5 DEF Rank
      <3> QED BY <3>1, <3>2, <2>5, GateAssumption DEF Rank, Exists, Class
    <2> QED BY <1>0, <2>1, <2>3, <2>4, <2>5 DEF StatementOK, Exists, Stored, StrongEnough
  <1>5. ASSUME ReadAck(w), statement'[w] # statement[w] PROVE StatementOK(w)'
    <2> DEFINE b == statement[w].b
    <2> DEFINE d == statement[w].d
    <2>1. /\ statement[w].op = "item" /\ UNCHANGED <<bundles, derivatives, acks>>
          /\ statement[w] \in [op : {"item"}, from : Bundle \cup {None}, b : Bundle, d : Derivative,
                               at : {"minimum", "ack", "keys"}, floor : Class \cup {None}]
      BY <1>5 DEF ReadAck, GateTypeOK, Idle
    <2>2. CASE Acked(b, d)
      <3>1. statement'[w] = [statement[w] EXCEPT !.at = "keys"]
        BY <1>0, <1>5, <2>2 DEF ReadAck
      <3>2. statement'[w].op = "item" /\ statement'[w].b = b /\ statement'[w].d = d
            /\ statement'[w].floor = statement[w].floor
        BY <2>1, <3>1
      <3>3. <<b, d>> \in acks /\ Stored(d)
        BY <2>1, <2>2 DEF Acked, AcksOK
      <3> QED BY <1>0, <2>1, <3>2, <3>3 DEF StatementOK, StrongEnough, Stored, Exists
    <2>3. CASE ~ Acked(b, d)
      <3>1. statement'[w] = Idle
        BY <1>0, <1>5, <2>3 DEF ReadAck
      <3> QED BY <3>1 DEF StatementOK, Idle
    <2> QED BY <2>2, <2>3
  <1>6. ASSUME CommitItem(w) \/ CommitDerivative(w) PROVE StatementOK(w)'
    <2>1. statement'[w] = Idle
      BY <1>0, <1>6 DEF CommitItem, CommitDerivative
    <2> QED BY <2>1 DEF StatementOK, Idle
  <1>7. ASSUME NEW v \in Writer, v # w,
               \/ \E d \in Derivative, r \in Recipe : Derive(v, d, r)
               \/ \E from \in Bundle \cup {None}, b \in Bundle, d \in Derivative : AddItem(v, from, b, d)
               \/ ReadExternal(v) \/ CommitDerivative(v) \/ ReadMinimum(v) \/ ReadAck(v) \/ CommitItem(v)
        PROVE  statement'[w] = statement[w]
    BY <1>0, <1>7 DEF Derive, ReadExternal, AddItem, CommitDerivative, ReadMinimum, ReadAck, CommitItem
  <1>8. ASSUME \/ \E r \in Recipe : WriteRecipe(r) \/ WriteSteps(r) \/ DeleteRecipe(r)
               \/ \E b \in Bundle : DeleteBundle(b) \/ (\E min \in Class : CreateBundle(b, min))
               \/ \E d \in Derivative : DeleteDerivative(d) \/ (\E b \in Bundle : Acknowledge(b, d))
               \/ UNCHANGED gateVars
        PROVE  statement'[w] = statement[w]
    BY <1>8 DEF WriteRecipe, WriteSteps, DeleteRecipe, DeleteBundle, CreateBundle, DeleteDerivative, Acknowledge, gateVars
  <1> QED BY <1>1, <1>2, <1>3, <1>4, <1>5, <1>6, <1>7, <1>8, <1>9 DEF GateNext

\* An item enters as its statement judged it, and stays as strong as that.
LEMMA ItemsStep == GateInv /\ GateTypeOK' /\ [GateNext]_gateVars => ItemsOK'
  <1> SUFFICES ASSUME GateInv, GateTypeOK', [GateNext]_gateVars,
                      NEW b \in Bundle, NEW d \in Derivative, <<b, d>> \in items'
               PROVE  Exists(b)' /\ Stored(d)' /\ StrongEnough(b, d)'
    BY DEF ItemsOK
  <1> USE DEF GateInv
  <1>1. CASE <<b, d>> \in items
    <2>1. Exists(b) /\ Stored(d) /\ StrongEnough(b, d) /\ bundles[b] # None /\ derivatives[d] # None
      BY <1>1, GateAssumption DEF ItemsOK, Exists, Stored
    <2>2. ~ DeleteBundle(b) /\ ~ DeleteDerivative(d)
      BY <1>1 DEF DeleteBundle, DeleteDerivative
    <2>3. bundles'[b] = bundles[b]
      BY <2>1, <2>2 DEF GateNext, gateVars, GateTypeOK, WriteRecipe, WriteSteps, DeleteRecipe, CreateBundle, DeleteBundle,
         Acknowledge, DeleteDerivative, Derive, ReadExternal, AddItem, ReadMinimum, ReadAck, CommitItem, CommitDerivative
    <2>4. derivatives'[d] = derivatives[d]
      BY <2>1, <2>2 DEF GateNext, gateVars, GateTypeOK, WriteRecipe, WriteSteps, DeleteRecipe, CreateBundle, DeleteBundle,
         Acknowledge, DeleteDerivative, Derive, ReadExternal, AddItem, ReadMinimum, ReadAck, CommitItem, CommitDerivative
    <2>5. Exists(b)' /\ Stored(d)'
      BY <2>1, <2>3, <2>4 DEF Exists, Stored
    <2> QED BY <2>1, <2>5, StrengthStays
  <1>2. CASE <<b, d>> \notin items
    <2>1. PICK w \in Writer : CommitItem(w)
      BY <1>2 DEF GateNext, gateVars, WriteRecipe, WriteSteps, DeleteRecipe, CreateBundle, DeleteBundle,
         Acknowledge, DeleteDerivative, Derive, ReadExternal, AddItem, ReadMinimum, ReadAck, CommitDerivative
    <2>2. /\ statement[w].op = "item" /\ statement[w].at = "keys" /\ statement[w].b = b /\ statement[w].d = d
          /\ Exists(b) /\ Stored(d) /\ UNCHANGED <<bundles, derivatives, acks>>
      BY <1>2, <2>1 DEF CommitItem
    <2>3. StrongEnough(b, d)
      BY <2>1, <2>2 DEF StatementsOK, StatementOK
    <2> QED BY <2>2, <2>3 DEF Exists, Stored, StrongEnough
  <1> QED BY <1>1, <1>2

-----------------------------------------------------------------------------
\* What each part of the tier does is a step of its own module or nothing.
LEMMA ServiceSteps ==
  ASSUME [Next]_fisVars
  PROVE  /\ [GateNext]_gateVars /\ [AcquisitionNext]_acquisitionVars /\ [AuthNext]_authVars
         /\ [TracksNext \/ EntitiesNext]_tracksVars /\ [TimebaseNext]_clockVars
  BY DEF Next, fisVars

LEMMA GateKept == Spec => []GateInv
  <1>1. Init => GateInv
    BY GateInitial DEF Init
  <1>2. GateInv /\ [Next]_fisVars => GateInv'
    BY ServiceSteps, GateTypeStep, FloorsStep, StatementsStep, ItemsStep, AcksStep DEF GateInv
  <1> QED BY <1>1, <1>2, PTL DEF Spec

\* The tables keep their columns under every interleaving of the writers (0001_core.sql).
THEOREM GateTypeCorrect == Spec => []GateTypeOK
  <1>1. GateInv => GateTypeOK
    BY DEF GateInv
  <1> QED BY <1>1, GateKept, PTL

\* Nothing weaker than its bundle asks is disclosed without an acknowledgement for that
\* bundle, whatever the writers do in whatever order (disclosure_class_gate), and no bytes
\* whose external steps the second query of derivative_class_floor found as evidence.
THEOREM GateHolds == Spec => []DisclosedMeetsMinimum
  <1>1. GateInv => DisclosedMeetsMinimum
    <2> SUFFICES ASSUME GateInv, NEW p \in items, p \notin acks,
                        NEW s \in StepsOf[derivatives[p[2]].recipe]
                 PROVE  Rank(s.class) >= Rank(bundles[p[1]]) /\ (s.external /\ p[2] \notin unseen => bundles[p[1]] # "E")
      BY DEF DisclosedMeetsMinimum
    <2>1. PICK b \in Bundle, d \in Derivative : p = <<b, d>>
      BY DEF GateInv, GateTypeOK, Pairs
    <2>2. Stored(d) /\ Exists(b) /\ Rank(derivatives[d].floor) >= Rank(bundles[b])
      BY <2>1 DEF GateInv, ItemsOK, StrongEnough
    <2>3. /\ derivatives[d].recipe \in Recipe /\ Sound(derivatives[d].recipe, derivatives[d].floor)
          /\ d \notin unseen => Contained(derivatives[d].recipe, derivatives[d].floor)
      BY <2>2 DEF GateInv, GateTypeOK, FloorsComputed, Stored
    <2>4. /\ Rank(derivatives[d].floor) <= Rank(s.class)
          /\ s.external /\ d \notin unseen => Rank(derivatives[d].floor) <= 2
      BY <2>1, <2>3 DEF Sound, Contained
    <2>5. s.class \in Class
      BY <2>1, <2>3, GateAssumption
    <2> QED BY <2>1, <2>2, <2>4, <2>5 DEF Rank, Class, Exists
  <1> QED BY <1>1, GateKept, PTL

-----------------------------------------------------------------------------
(* The gate is atomic *)

\* What an observer of the tables sees of a derivative.
LEMMA MadeFacts ==
  ASSUME GateTypeOK, NEW d \in Derivative
  PROVE  /\ Stored(d) => Made[d] = derivatives[d].recipe /\ Made[d] \in Recipe
         /\ Gate!Present(Made[d]) <=> Stored(d)
         /\ Made[d] = None <=> derivatives[d] = None
<1>1. Made[d] = IF Stored(d) THEN derivatives[d].recipe ELSE derivatives[d]
  BY DEF Made
<1>2. CASE Stored(d)
  <2>1. derivatives[d] \in [recipe : Recipe, floor : Class]
    BY <1>2 DEF GateTypeOK, Stored
  <2>2. Made[d] = derivatives[d].recipe /\ Made[d] \in Recipe
    BY <1>1, <1>2, <2>1
  <2>3. Made[d] \notin {None, Deleted} /\ derivatives[d] # None
    BY <1>2, <2>2, GateAssumption DEF Stored
  <2> QED BY <1>2, <2>2, <2>3 DEF Gate!Present
<1>3. CASE ~ Stored(d)
  BY <1>1, <1>3 DEF Stored, Gate!Present
<1> QED BY <1>2, <1>3

\* A write of one row is a write of one row to the observer.
LEMMA OneMade ==
  ASSUME GateTypeOK, NEW d \in Derivative, NEW row, derivatives' = [derivatives EXCEPT ![d] = row]
  PROVE  Made' = [Made EXCEPT ![d] = IF row \notin {None, Deleted} THEN row.recipe ELSE row]
<1>1. PICK shown : shown = IF row \notin {None, Deleted} THEN row.recipe ELSE row
  OBVIOUS
<1>2. \A e \in Derivative : derivatives'[e] = IF e = d THEN row ELSE derivatives[e]
  BY DEF GateTypeOK
<1>3. \A e \in Derivative : (IF Stored(e)' THEN derivatives'[e].recipe ELSE derivatives'[e])
                              = IF e = d THEN shown ELSE Made[e]
  BY <1>1, <1>2 DEF Stored, Made
<1>4. Made' = [e \in Derivative |-> IF Stored(e)' THEN derivatives'[e].recipe ELSE derivatives'[e]]
  BY DEF Made
<1>5. Made' = [e \in Derivative |-> IF e = d THEN shown ELSE Made[e]]
  BY <1>3, <1>4
<1>6. DOMAIN Made = Derivative
  BY DEF Made
<1>7. [Made EXCEPT ![d] = shown] = [e \in Derivative |-> IF e = d THEN shown ELSE Made[e]]
  BY <1>6
<1> QED BY <1>1, <1>5, <1>7

\* A floor as strong as the minimum is that of a derivative whose every step meets it.
LEMMA FloorMeets ==
  ASSUME NEW d \in Derivative, Made[d] \in Recipe, NEW floor \in Class, NEW min \in Class,
         Sound(Made[d], floor), d \notin unseen => Contained(Made[d], floor), Rank(floor) >= Rank(min)
  PROVE  Gate!Meets(d, min)
<1> SUFFICES ASSUME NEW s \in StepsOf[Made[d]]
             PROVE  (s.class = "E" \/ s.class = min \/ min = "D") /\ (s.external /\ d \notin unseen => min # "E")
  BY DEF Gate!Meets
<1>1. Rank(floor) <= Rank(s.class) /\ (s.external /\ d \notin unseen => Rank(floor) <= 2)
  BY DEF Sound, Contained
<1>2. s.class \in Class
  BY GateAssumption
<1> QED BY <1>1, <1>2 DEF Rank, Class

\* Whoever reads, the tables are as they were.
LEMMA ReadsUnseen ==
  ASSUME UNCHANGED <<recipes, withdrawn, unseen, derivatives, bundles, acks, items>>
  PROVE  UNCHANGED Gate!gate
BY DEF Gate!gate, Made, Stored

\* A row appears judged by what is there when it appears.
LEMMA GateImplements ==
  ASSUME GateInv, [GateNext]_gateVars
  PROVE  [Gate!GateNext]_(Gate!gate)
<1> USE DEF GateInv
<1>1. ASSUME UNCHANGED derivatives PROVE Made' = Made
  BY <1>1 DEF Made, Stored
<1>2. ASSUME NEW r \in Recipe, WriteRecipe(r) PROVE Gate!Write(r)
  BY <1>1, <1>2 DEF WriteRecipe, Gate!Write
<1>3. ASSUME NEW r \in Recipe, DeleteRecipe(r) PROVE Gate!Withdraw(r)
  <2>1. \A d \in Derivative : Made[d] # r
    <3> SUFFICES ASSUME NEW d \in Derivative PROVE Made[d] # r
      OBVIOUS
    <3>1. CASE Stored(d)
      BY <1>3, <3>1, MadeFacts DEF DeleteRecipe
    <3>2. CASE ~ Stored(d)
      BY <3>2, GateAssumption DEF Made, Stored
    <3> QED BY <3>1, <3>2
  <2> QED BY <1>1, <1>3, <2>1 DEF DeleteRecipe, Gate!Withdraw
<1>4. ASSUME NEW b \in Bundle, DeleteBundle(b) PROVE Gate!Drop(b)
  <2>1. Gate!Present(bundles[b])
    BY <1>4, GateAssumption DEF DeleteBundle, Exists, Gate!Present
  <2> QED BY <1>1, <1>4, <2>1 DEF DeleteBundle, Gate!Drop
<1>5. ASSUME NEW b \in Bundle, NEW min \in Class, CreateBundle(b, min) PROVE Gate!Open(b)
  BY <1>1, <1>5 DEF CreateBundle, Gate!Open, Class
<1>6. ASSUME NEW d \in Derivative, DeleteDerivative(d) PROVE Gate!Destroy(d)
  <2>1. Made' = [Made EXCEPT ![d] = Deleted]
    BY <1>6, OneMade DEF DeleteDerivative
  <2>2. Gate!Present(Made[d])
    BY <1>6, MadeFacts DEF DeleteDerivative
  <2> QED BY <1>6, <2>1, <2>2 DEF DeleteDerivative, Gate!Destroy
<1>7. ASSUME NEW b \in Bundle, NEW d \in Derivative, Acknowledge(b, d) PROVE Gate!Approve(b, d)
  <2>1. Gate!Present(bundles[b]) /\ Gate!Present(Made[d])
    <3>1. Gate!Present(bundles[b])
      BY <1>7, GateAssumption DEF Acknowledge, Exists, Gate!Present
    <3> QED BY <1>7, <3>1, MadeFacts DEF Acknowledge
  <2> QED BY <1>1, <1>7, <2>1 DEF Acknowledge, Gate!Approve
<1>8. ASSUME NEW w \in Writer, CommitDerivative(w)
      PROVE  UNCHANGED Gate!gate \/ \E d \in Derivative, r \in Recipe : Gate!Make(d, r)
  <2>1. PICK d \in Derivative, r \in Recipe, floor \in Class :
          /\ statement[w].op = "derive" /\ statement[w].d = d /\ statement[w].r = r
          /\ statement[w].floor = floor /\ statement[w].at \in {"keys", "blind"}
    <3>1. statement[w] \in Derivation /\ statement[w].at # "external"
      BY <1>8 DEF CommitDerivative, GateTypeOK, Idle, Derivation
    <3> QED BY <1>8, <3>1 DEF Derivation, CommitDerivative
  <2>2. StepsOf[r] # {} /\ (statement[w].at = "blind" => r \in withdrawn)
    BY <2>1 DEF StatementsOK, StatementOK
  <2>3. CASE r \in recipes /\ derivatives[d] = None
    <3>1. PICK row : row = [recipe |-> r, floor |-> floor]
      OBVIOUS
    <3>2. row \in [recipe : Recipe, floor : Class] /\ row.recipe = r
      BY <3>1
    <3>3. row \notin {None, Deleted}
      BY <3>2, GateAssumption
    <3>4. derivatives' = [derivatives EXCEPT ![d] = row]
      BY <1>8, <2>1, <2>3, <3>1 DEF CommitDerivative
    <3>5. Made' = [Made EXCEPT ![d] = r]
      BY <3>2, <3>3, <3>4, OneMade
    <3>6. Made[d] = None
      BY <2>3, MadeFacts
    <3>8. unseen' = unseen \/ (r \in withdrawn /\ unseen' = unseen \cup {d})
      BY <1>8, <2>1, <2>2, <2>3 DEF CommitDerivative
    <3>7. Gate!Make(d, r)
      BY <1>8, <2>2, <2>3, <3>5, <3>6, <3>8 DEF CommitDerivative, Gate!Make
    <3> QED BY <3>7
  <2>4. CASE ~ (r \in recipes /\ derivatives[d] = None)
    <3>1. UNCHANGED <<recipes, withdrawn, unseen, derivatives, bundles, acks, items>>
      BY <1>8, <2>1, <2>4 DEF CommitDerivative
    <3> QED BY <3>1, ReadsUnseen
  <2> QED BY <2>3, <2>4
<1>9. ASSUME NEW w \in Writer, CommitItem(w)
      PROVE  \/ UNCHANGED Gate!gate
             \/ \E b \in Bundle, d \in Derivative :
                  Gate!Disclose(b, d, {}) \/ \E from \in Bundle : Gate!Disclose(b, d, {<<from, d>>})
  <2>1. PICK b \in Bundle, d \in Derivative, from \in Bundle \cup {None} :
          /\ statement[w].op = "item" /\ statement[w].at = "keys"
          /\ statement[w].b = b /\ statement[w].d = d /\ statement[w].from = from
    <3>1. statement[w] \in [op : {"item"}, from : Bundle \cup {None}, b : Bundle, d : Derivative,
                            at : {"minimum", "ack", "keys"}, floor : Class \cup {None}]
      BY <1>9 DEF CommitItem, GateTypeOK, Idle
    <3> QED BY <1>9, <3>1 DEF CommitItem
  <2>2. PICK moved : moved = IF from = None THEN {} ELSE {<<from, d>>}
    OBVIOUS
  <2>3. UNCHANGED <<recipes, withdrawn, unseen, derivatives, bundles, acks>>
    BY <1>9 DEF CommitItem
  <2>4. CASE Exists(b) /\ Stored(d) /\ moved \subseteq items /\ <<b, d>> \notin items
    <3>1. items' = (items \ moved) \cup {<<b, d>>}
      BY <1>9, <2>1, <2>2, <2>4 DEF CommitItem
    <3>2. Gate!Present(bundles[b]) /\ Gate!Present(Made[d]) /\ bundles[b] \in Class
      <4>1. Gate!Present(bundles[b]) /\ bundles[b] \in Class
        BY <2>4, GateAssumption DEF Exists, Gate!Present
      <4> QED BY <2>4, <4>1, MadeFacts
    <3>3. Gate!Meets(d, bundles[b]) \/ <<b, d>> \in acks
      <4>1. StrongEnough(b, d)
        BY <2>1, <2>4 DEF StatementsOK, StatementOK
      <4>2. Made[d] = derivatives[d].recipe /\ Made[d] \in Recipe
        BY <2>4, MadeFacts
      <4>3. /\ Sound(Made[d], derivatives[d].floor) /\ derivatives[d].floor \in Class
            /\ d \notin unseen => Contained(Made[d], derivatives[d].floor)
        BY <2>4, <4>2 DEF FloorsComputed, GateTypeOK, Stored
      <4>4. CASE Rank(derivatives[d].floor) >= Rank(bundles[b])
        BY <3>2, <4>2, <4>3, <4>4, FloorMeets
      <4> QED BY <4>1, <4>4 DEF StrongEnough
    <3>4. Gate!Disclose(b, d, moved)
      BY <1>1, <2>3, <2>4, <3>1, <3>2, <3>3 DEF Gate!Disclose
    <3> QED BY <2>2, <3>4
  <2>5. CASE ~ (Exists(b) /\ Stored(d) /\ moved \subseteq items /\ <<b, d>> \notin items)
    <3>1. items' = items
      BY <1>9, <2>1, <2>2, <2>5 DEF CommitItem
    <3> QED BY <2>3, <3>1, ReadsUnseen
  <2> QED BY <2>4, <2>5
<1>10. ASSUME NEW w \in Writer,
              \/ \E d \in Derivative, r \in Recipe : Derive(w, d, r)
              \/ \E from \in Bundle \cup {None}, b \in Bundle, d \in Derivative : AddItem(w, from, b, d)
              \/ ReadExternal(w) \/ ReadMinimum(w) \/ ReadAck(w)
       PROVE  UNCHANGED Gate!gate
  <2>1. UNCHANGED <<recipes, withdrawn, unseen, derivatives, bundles, acks, items>>
    BY <1>10 DEF Derive, ReadExternal, AddItem, ReadMinimum, ReadAck
  <2> QED BY <2>1, ReadsUnseen
<1>11. ASSUME UNCHANGED gateVars PROVE UNCHANGED Gate!gate
  BY <1>11, ReadsUnseen DEF gateVars
<1>12. CASE UNCHANGED gateVars
  BY <1>11, <1>12
<1>13. CASE \E r \in Recipe : WriteRecipe(r) \/ DeleteRecipe(r)
  BY <1>2, <1>3, <1>13 DEF Gate!GateNext
<1>14. CASE \E b \in Bundle : DeleteBundle(b) \/ (\E min \in Class : CreateBundle(b, min))
  BY <1>4, <1>5, <1>14 DEF Gate!GateNext
<1>15. CASE \E d \in Derivative : DeleteDerivative(d) \/ (\E b \in Bundle : Acknowledge(b, d))
  BY <1>6, <1>7, <1>15 DEF Gate!GateNext
<1>16. CASE \E w \in Writer : CommitDerivative(w) \/ CommitItem(w)
  BY <1>8, <1>9, <1>16 DEF Gate!GateNext
<1>17. ASSUME NEW r \in Recipe, WriteSteps(r) PROVE UNCHANGED Gate!gate
  <2>1. UNCHANGED <<recipes, withdrawn, unseen, derivatives, bundles, acks, items>>
    BY <1>17 DEF WriteSteps
  <2> QED BY <2>1, ReadsUnseen
<1> QED BY <1>10, <1>12, <1>13, <1>14, <1>15, <1>16, <1>17 DEF GateNext

\* The class gate is as good as atomic: with every read of its triggers apart and any
\* number of writers between them, a row appears in one step, judged by the rows of that
\* step (derivative_class_floor, disclosure_class_gate).
THEOREM GateIsAtomic == Spec => ImplementsGate
<1>1. Init => Gate!GateInit
  <2>1. GateInit => Made = [d \in Derivative |-> None]
    BY DEF GateInit, Made, Stored
  <2> QED BY <2>1 DEF Init, GateInit, Gate!GateInit
<1>2. GateInv /\ [Next]_fisVars => [Gate!GateNext]_(Gate!gate)
  BY ServiceSteps, GateImplements
<1> QED BY <1>1, <1>2, GateKept, PTL DEF Spec, ImplementsGate, Gate!GateSpec

-----------------------------------------------------------------------------
(* The authenticity of an object *)

BundleFields == {"at", "rows", "spoilt", "report"}

\* The finding that something was wrong is among the rows from the start, and failing rows
\* are never dropped; a report is judged on all of its rows.
AuthInv ==
  /\ DOMAIN bundle = BundleFields /\ bytes \in {"intact", "damaged", "gone"}
  /\ bundle.at \in {"asking", "done"} /\ bundle.spoilt => Failed(bundle.rows)
  /\ DamageShows

LEMMA AuthStep == AuthInv /\ [AuthNext]_authVars => AuthInv'
<1> SUFFICES ASSUME AuthInv, [AuthNext]_authVars PROVE AuthInv'
  OBVIOUS
<1>1. CASE Spoil
  BY <1>1 DEF Spoil, AuthInv, DamageShows
<1>2. CASE BreakChain \/ TierSilent \/ TierReads \/ UNCHANGED authVars
  BY <1>2 DEF BreakChain, TierSilent, TierReads, authVars, AuthInv, DamageShows
<1>3. CASE CheckLocally
  <2>1. PICK rows, custody :
          /\ rows = {ContentHash, custody, Signature}
          /\ custody = Row("custody chain", IF chain THEN "pass" ELSE "fail", TRUE)
          /\ bundle' = [at |-> "asking", rows |-> rows, spoilt |-> bytes = "damaged" \/ ~ chain, report |-> NoReport]
    BY <1>3 DEF CheckLocally
  <2>2. ASSUME bytes = "damaged" \/ ~ chain PROVE Failed(rows)
    <3>1. CASE bytes = "damaged"
      <4>1. ContentHash.result = "fail"
        BY <3>1 DEF ContentHash, Row
      <4> QED BY <2>1, <4>1 DEF Failed
    <3>2. CASE ~ chain
      <4>1. custody.result = "fail"
        BY <2>1, <3>2 DEF Row
      <4> QED BY <2>1, <4>1 DEF Failed
    <3> QED BY <2>2, <3>1, <3>2
  <2>3. /\ DOMAIN bundle' = BundleFields /\ bundle'.at = "asking" /\ bundle'.rows = rows
        /\ bundle'.spoilt => bytes = "damaged" \/ ~ chain
    BY <2>1 DEF BundleFields
  <2>4. bytes' = bytes
    BY <1>3 DEF CheckLocally
  <2> QED BY <2>2, <2>3, <2>4 DEF AuthInv, DamageShows
<1>4. CASE Report
  <2>1. PICK report : report = [rows |-> Combined, verdict |-> ConsoleVerdict(Combined)]
    OBVIOUS
  <2>2. bundle' = [bundle EXCEPT !.at = "done", !.report = report] /\ bytes' = bytes /\ bundle.at = "asking"
    BY <1>4, <2>1 DEF Report
  <2>3. /\ DOMAIN bundle' = BundleFields /\ bundle'.at = "done" /\ bundle'.rows = bundle.rows
        /\ bundle'.spoilt = bundle.spoilt /\ bundle'.report = report
    BY <2>2 DEF AuthInv, BundleFields
  <2>4. bundle.rows \subseteq Combined
    BY DEF Combined
  <2>5. bundle.spoilt => Failed(Combined)
    BY <2>2, <2>4 DEF AuthInv, Failed
  <2>6. bundle.spoilt => report.verdict = "inconsistent"
    BY <2>1, <2>5 DEF ConsoleVerdict
  <2> QED BY <2>2, <2>3, <2>6 DEF AuthInv, DamageShows
<1> QED BY <1>1, <1>2, <1>3, <1>4 DEF AuthNext

\* authenticityOf: bytes or a chain that were wrong before the bundle was asked for make it say
\* so, for objects of any kind, whether the tier answers, answers late, or never, and whatever
\* it makes of the bytes it reads itself.
THEOREM DamageIsShown == Spec => []DamageShows
<1>1. Init => AuthInv
  <2> SUFFICES ASSUME Init PROVE AuthInv
    OBVIOUS
  <2>1. bytes = "intact" /\ bundle = [at |-> "idle", rows |-> {}, spoilt |-> FALSE, report |-> NoReport]
    BY DEF Init, AuthInit
  <2> QED BY <2>1 DEF AuthInv, BundleFields, DamageShows
<1>2. AuthInv /\ [Next]_fisVars => AuthInv'
  BY ServiceSteps, AuthStep
<1>3. AuthInv => DamageShows
  BY DEF AuthInv
<1> QED BY <1>1, <1>2, <1>3, PTL DEF Spec

-----------------------------------------------------------------------------
(* The acquisition of an export *)

Unit == [kind : Kinds, size : Nat]

AcquisitionInv ==
  /\ stream \in Seq(Unit)
  /\ export # Recording => MasterStartsAtAKeyframe

\* The units of some kinds are of those kinds, and all of them.
LEMMA OfFacts ==
  ASSUME NEW units \in Seq(Unit), NEW kinds
  PROVE  /\ Of(units, kinds) \in Seq(Unit)
         /\ \A i \in DOMAIN Of(units, kinds) : Of(units, kinds)[i].kind \in kinds
         /\ \A kind \in kinds : Has(units, kind) => Has(Of(units, kinds), kind)
<1>1. PICK T : T = [kind : kinds, size : Nat]
  OBVIOUS
<1>2. PICK of \in Seq(Unit) : of = Filter(units, T) /\ ToSet(of) = ToSet(units) \cap T
  BY FilterFacts
<1>3. ASSUME NEW i \in DOMAIN of PROVE of[i].kind \in kinds
  <2>1. of[i] \in T
    BY <1>2 DEF ToSet
  <2> QED BY <2>1, <1>1
<1>4. ASSUME NEW kind \in kinds, Has(units, kind) PROVE Has(of, kind)
  <2>1. PICK j \in DOMAIN units : units[j].kind = kind
    BY <1>4 DEF Has
  <2>2. PICK u \in Unit : u = units[j] /\ u.kind = kind
    BY <2>1
  <2>3. u \in T
    BY <1>1, <2>2 DEF Unit
  <2>4. u \in ToSet(of)
    BY <1>2, <2>1, <2>2, <2>3 DEF ToSet
  <2> QED BY <2>2, <2>4 DEF ToSet, Has
<1> QED BY <1>1, <1>2, <1>3, <1>4 DEF Of

\* What an interruption costs is a picture, never a parameter set.
LEMMA WholeFacts ==
  ASSUME NEW units \in Seq(Unit), units # <<>>, NEW kind \in ParameterSets, Has(units, kind)
  PROVE  Whole(units) \in Seq(Unit) /\ Has(Whole(units), kind)
<1>1. CASE ~ Interrupted(units)
  BY <1>1 DEF Whole
<1>2. CASE Interrupted(units)
  <2>1. PICK n \in Nat : n = Len(units) - 1
    OBVIOUS
  <2>2. units[n + 1].kind \in {"slice", "idr"}
    BY <1>2, <2>1 DEF Interrupted, Last
  <2>3. PICK i \in 1..(n + 1) : units[i].kind = kind
    BY <2>1 DEF Has
  <2>4. i \in 1..n
    <3>1. i # n + 1
      BY <2>2, <2>3 DEF ParameterSets
    <3> QED BY <2>1, <3>1
  <2>5. Front(units) = [j \in 1..n |-> units[j]]
    BY <2>1 DEF Front
  <2>6. \A j \in 1..n : units[j] \in Unit
    BY <2>1
  <2>7. Front(units) \in Seq(Unit)
    BY <2>1, <2>5, <2>6
  <2>8. Has(Front(units), kind)
    BY <2>3, <2>4, <2>5 DEF Has
  <2> QED BY <1>2, <2>7, <2>8 DEF Whole
<1> QED BY <1>1, <1>2

\* Parameter sets first and then from a keyframe on: every picture has them before it.
LEMMA DecodableFacts ==
  ASSUME NEW units \in Seq(Unit), NEW first \in DOMAIN units, units[first].kind = "idr",
         Has(units, "sps"), Has(units, "pps"),
         NEW i \in DOMAIN Decodable(units, first), Decodable(units, first)[i].kind \in {"idr", "slice"}
  PROVE  {"sps", "pps", "idr"} \subseteq {Decodable(units, first)[j].kind : j \in 1..i}
<1>1. PICK sets \in Seq(Unit) :
        /\ sets = Of(units, ParameterSets) /\ \A j \in DOMAIN sets : sets[j].kind \in ParameterSets
        /\ Has(sets, "sps") /\ Has(sets, "pps")
  BY OfFacts DEF ParameterSets
<1>2. PICK rest \in Seq(Unit) : rest = SubSeq(units, first, Len(units)) /\ rest # <<>> /\ rest[1] = units[first]
  <2>1. first \in 1..Len(units) /\ Len(units) \in Nat
    OBVIOUS
  <2>2. SubSeq(units, first, Len(units)) \in Seq(Unit)
    BY <2>1
  <2>3. Len(SubSeq(units, first, Len(units))) = Len(units) - first + 1
    BY <2>1
  <2>4. SubSeq(units, first, Len(units))[1] = units[first]
    BY <2>1
  <2>5. PICK r \in Seq(Unit) : r = SubSeq(units, first, Len(units))
    BY <2>2
  <2>6. r # <<>>
    BY <2>1, <2>3, <2>5
  <2> QED BY <2>4, <2>5, <2>6
<1>3. PICK pictures \in Seq(Unit) :
        /\ pictures = Of(rest, Kinds \ ParameterSets) /\ Len(pictures) >= 1 /\ pictures[1].kind = "idr"
  <2>1. PICK T : T = [kind : Kinds \ ParameterSets, size : Nat]
    OBVIOUS
  <2>2. rest[1] \in Unit /\ rest[1].kind = "idr"
    BY <1>2
  <2>3. rest[1] \in T
    BY <2>1, <2>2 DEF Unit, ParameterSets
  <2>4. Len(Filter(rest, T)) >= 1 /\ Filter(rest, T)[1] = rest[1]
    BY <1>2, <2>3, FilterHead
  <2>5. Of(rest, Kinds \ ParameterSets) \in Seq(Unit)
    BY OfFacts
  <2> QED BY <2>1, <2>2, <2>4, <2>5 DEF Of
<1>4. PICK m \in Seq(Unit) : m = Decodable(units, first) /\ m = sets \o pictures
  <2>1. Decodable(units, first) = sets \o pictures
    BY <1>1, <1>2, <1>3 DEF Decodable
  <2>2. sets \o pictures \in Seq(Unit)
    OBVIOUS
  <2> QED BY <2>1, <2>2
<1>5. PICK k \in Nat : k = Len(sets) /\ DOMAIN sets = 1..k
  OBVIOUS
<1>6. /\ \A j \in 1..k : m[j] = sets[j]
      /\ m[k + 1].kind = "idr" /\ DOMAIN m = 1..Len(m) /\ Len(m) \in Nat
  <2>1. Len(pictures) \in Nat /\ Len(m) = k + Len(pictures)
    BY <1>4, <1>5
  <2>2. m[k + 1] = pictures[1]
    BY <1>3, <1>4, <1>5, <2>1
  <2> QED BY <1>3, <1>4, <1>5, <2>1, <2>2
<1>7. i \in 1..Len(m) /\ m[i].kind \in {"idr", "slice"}
  BY <1>4, <1>6
<1>8. k + 1 <= i
  <2>1. ASSUME i \in 1..k PROVE FALSE
    BY <1>1, <1>5, <1>6, <1>7, <2>1 DEF ParameterSets
  <2> QED BY <2>1, <1>5, <1>7
<1>9. \A kind \in {"sps", "pps"} : \E j \in 1..k : m[j].kind = kind
  BY <1>1, <1>5, <1>6 DEF Has
<1>10. \A j \in 1..k : j \in 1..i
  BY <1>5, <1>7, <1>8
<1>11. k + 1 \in 1..i
  BY <1>5, <1>7, <1>8
<1> QED BY <1>4, <1>6, <1>9, <1>10, <1>11

LEMMA AcquiredFacts ==
  ASSUME NEW units \in Seq(Unit), Acquired(units).opened, NEW i \in DOMAIN Acquired(units).master,
         Acquired(units).master[i].kind \in {"idr", "slice"}
  PROVE  {"sps", "pps", "idr"} \subseteq {Acquired(units).master[j].kind : j \in 1..i}
<1>1. PICK whole, keyframes : /\ whole = Whole(units)
                              /\ keyframes = {j \in DOMAIN whole : whole[j].kind = "idr"}
  OBVIOUS
<1>2. /\ units # <<>> /\ Has(units, "sps") /\ Has(units, "pps") /\ keyframes # {}
      /\ Acquired(units) = [opened |-> TRUE, master |-> Decodable(whole, Min(keyframes))]
  BY <1>1 DEF Acquired, Refusal
<1>3. whole \in Seq(Unit) /\ Has(whole, "sps") /\ Has(whole, "pps")
  BY <1>1, <1>2, WholeFacts DEF ParameterSets
<1>4. PICK first \in keyframes : first = Min(keyframes)
  <2>1. keyframes \subseteq Nat
    BY <1>1, <1>3
  <2>2. \E m \in keyframes : \A n \in keyframes : m <= n
    BY <1>2, <2>1, LeastNatural
  <2> QED BY <2>2 DEF Min
<1>5. first \in DOMAIN whole /\ whole[first].kind = "idr"
  BY <1>1
<1>6. Acquired(units).master = Decodable(whole, first)
  BY <1>2, <1>4
<1> QED BY <1>3, <1>5, <1>6, DecodableFacts

LEMMA AcquisitionStep == AcquisitionInv /\ [AcquisitionNext]_acquisitionVars => AcquisitionInv'
<1> SUFFICES ASSUME AcquisitionInv, [AcquisitionNext]_acquisitionVars PROVE AcquisitionInv'
  OBVIOUS
<1>1. ASSUME NEW kind \in Kinds, Write(kind) PROVE AcquisitionInv'
  <2>1. [kind |-> kind, size |-> 8] \in Unit
    BY DEF Unit
  <2> QED BY <1>1, <2>1 DEF Write, AcquisitionInv
<1>2. CASE Interrupt
  <2>1. stream \in Seq(Unit) /\ stream # <<>>
    BY <1>2 DEF Interrupt, AcquisitionInv
  <2>2. PICK n \in 1..Len(stream), last \in Unit : n = Len(stream) /\ last = stream[n]
    BY <2>1
  <2>3. [last EXCEPT !.size = 2] \in Unit
    BY DEF Unit
  <2>4. stream' = [stream EXCEPT ![n] = [last EXCEPT !.size = 2]]
    BY <1>2, <2>2 DEF Interrupt
  <2>5. stream' \in Seq(Unit)
    BY <2>1, <2>2, <2>3, <2>4
  <2> QED BY <1>2, <2>5 DEF Interrupt, AcquisitionInv
<1>3. CASE Acquire
  <2>1. stream \in Seq(Unit) /\ stream' = stream /\ export' = Acquired(stream)
    BY <1>3 DEF Acquire, AcquisitionInv
  <2>2. PICK made : made = Acquired(stream)
    OBVIOUS
  <2>3. made.opened => \A i \in DOMAIN made.master : made.master[i].kind \in {"idr", "slice"} =>
                          {"sps", "pps", "idr"} \subseteq {made.master[j].kind : j \in 1..i}
    BY <2>1, <2>2, AcquiredFacts
  <2> QED BY <2>1, <2>2, <2>3 DEF AcquisitionInv, MasterStartsAtAKeyframe
<1>4. CASE UNCHANGED acquisitionVars
  BY <1>4 DEF acquisitionVars, AcquisitionInv, MasterStartsAtAKeyframe
<1> QED BY <1>1, <1>2, <1>3, <1>4 DEF AcquisitionNext

\* acquire, for recordings of any length and units of any kinds, cut anywhere: a decoder that
\* opens the master meets no picture before the parameter sets and a keyframe.
THEOREM MastersOpen == Spec => []MasterStartsAtAKeyframe
<1>1. Init => AcquisitionInv
  <2> SUFFICES ASSUME Init PROVE AcquisitionInv
    OBVIOUS
  <2>1. stream = <<>> /\ export = Recording
    BY DEF Init, AcquisitionInit
  <2> QED BY <2>1 DEF AcquisitionInv
<1>2. AcquisitionInv /\ [Next]_fisVars => AcquisitionInv'
  BY ServiceSteps, AcquisitionStep
<1>3. AcquisitionInv => MasterStartsAtAKeyframe
  <2>1. Recording.opened = FALSE
    BY DEF Recording, Refusal
  <2>2. CASE export = Recording
    BY <2>1, <2>2, Zenon DEF MasterStartsAtAKeyframe
  <2>3. CASE export # Recording
    BY <2>3 DEF AcquisitionInv
  <2> QED BY <2>2, <2>3
<1> QED BY <1>1, <1>2, <1>3, PTL DEF Spec

-----------------------------------------------------------------------------
(* The dossier of an entity *)

FigureFields == {"at", "of", "local", "answer", "list", "conflicts", "flag", "path"}

\* The kind never changes once there is one, so the kind a dossier looks at is the one first
\* reported; a dossier drawn before the first report follows the entity nowhere.
DossierInv ==
  /\ DOMAIN figures = FigureFields
  /\ entity = [kind |-> entity.kind, first |-> entity.kind]
  /\ entity = Unseen => DOMAIN seen = {}
  /\ figures.at = "done" /\ entity = Unseen => figures.path = {}
  /\ FollowedUnderFlag

LEMMA DossierStep == DossierInv /\ [TracksNext \/ EntitiesNext]_tracksVars => DossierInv'
<1> SUFFICES ASSUME DossierInv, [TracksNext \/ EntitiesNext]_tracksVars PROVE DossierInv'
  OBVIOUS
<1>1. ASSUME NEW o \in Sightings, NEW i \in Scenes, Bind(o, i) PROVE DossierInv'
  BY <1>1 DEF Bind, DossierInv, FollowedUnderFlag
<1>2. ASSUME NEW r \in Reports, PostTrack(r) PROVE DossierInv'
  BY <1>2 DEF PostTrack, DossierInv, FollowedUnderFlag
<1>3. ASSUME NEW i \in Scenes, AskTier(i) PROVE DossierInv'
  <2>1. PICK local, answer : figures' = [NoFigures EXCEPT !.at = "asking", !.of = i, !.local = local, !.answer = answer]
    BY <1>3 DEF AskTier
  <2>2. DOMAIN figures' = FigureFields /\ figures'.at = "asking"
    BY <2>1 DEF NoFigures, FigureFields
  <2>3. UNCHANGED <<entity, seen>>
    BY <1>3 DEF AskTier
  <2> QED BY <2>2, <2>3 DEF DossierInv, FollowedUnderFlag
<1>4. ASSUME NEW list, Hear(list) PROVE DossierInv'
  <2>1. PICK conflicts : figures' = [figures EXCEPT !.at = "listed", !.list = list, !.conflicts = conflicts]
    BY <1>4 DEF Hear
  <2>2. DOMAIN figures' = FigureFields /\ figures'.at = "listed"
    BY <2>1 DEF DossierInv, FigureFields
  <2>3. UNCHANGED <<entity, seen>>
    BY <1>4 DEF Hear
  <2> QED BY <2>2, <2>3 DEF DossierInv, FollowedUnderFlag
<1>5. ASSUME NEW flag \in BOOLEAN, Dossier(flag) PROVE DossierInv'
  <2> DEFINE all == {seen[o] : o \in DOMAIN seen}
  <2>1. PICK path : /\ path = IF flag \/ entity.kind # "person" THEN (IF figures.of \in all THEN all ELSE {})
                              ELSE all \cap {figures.of}
                    /\ figures' = [figures EXCEPT !.at = "done", !.flag = flag, !.path = path]
    BY <1>5 DEF Dossier
  <2>2. /\ DOMAIN figures' = FigureFields /\ figures'.at = "done" /\ figures'.of = figures.of
        /\ figures'.flag = flag /\ figures'.path = path
    BY <2>1 DEF DossierInv, FigureFields
  <2>3. UNCHANGED <<entity, seen>>
    BY <1>5 DEF Dossier
  <2>4. entity = Unseen => path = {}
    BY <2>1 DEF DossierInv
  <2>5. entity.kind = entity.first
    BY DEF DossierInv
  <2>6. entity.first = "person" /\ ~ flag => path \subseteq {figures.of}
    BY <2>1, <2>5
  <2> QED BY <2>2, <2>3, <2>4, <2>6 DEF DossierInv, FollowedUnderFlag
<1>6. ASSUME NEW o \in Sightings, NEW kind \in EntityKinds, PostEntity(o, kind) PROVE DossierInv'
  <2>1. UNCHANGED figures /\ entity' = Recorded(kind)
    BY <1>6 DEF PostEntity
  <2>2. CASE entity = Unseen
    <3>1. entity' = [kind |-> kind, first |-> kind]
      BY <2>1, <2>2 DEF Recorded
    <3>2. entity'.kind = kind /\ entity'.first = kind /\ entity' # Unseen
      BY <3>1, TracksAssumption DEF Unseen
    <3>3. figures.at = "done" => figures.path = {}
      BY <2>2 DEF DossierInv
    <3> QED BY <2>1, <3>1, <3>2, <3>3 DEF DossierInv, FollowedUnderFlag
  <2>3. CASE entity # Unseen
    <3>1. entity' = entity
      BY <2>1, <2>3 DEF Recorded
    <3> QED BY <2>1, <2>3, <3>1 DEF DossierInv, FollowedUnderFlag
  <2> QED BY <2>2, <2>3
<1>7. CASE UNCHANGED tracksVars
  BY <1>7 DEF tracksVars, DossierInv, FollowedUnderFlag
<1> QED
  BY <1>1, <1>2, <1>3, <1>4, <1>5, <1>6, <1>7
  DEF TracksNext, EntitiesNext, Bundled, TierAnswers, TierMissing

\* entityDossier and recordEntities: an entity first reported as a person is followed to no
\* other incident without a flag, for any incidents, any later reports of any kind, and however
\* they fall between the steps of the dossier.
THEOREM FollowedOnlyUnderFlag == Spec => []FollowedUnderFlag
<1>1. Init => DossierInv
  BY DEF Init, TracksInit, NoFigures, Unseen, FigureFields, DossierInv, FollowedUnderFlag
<1>2. DossierInv /\ [Next]_fisVars => DossierInv'
  BY ServiceSteps, DossierStep
<1>3. DossierInv => FollowedUnderFlag
  BY DEF DossierInv
<1> QED BY <1>1, <1>2, <1>3, PTL DEF Spec

-----------------------------------------------------------------------------
(* The figures of a bundle *)

\* What the tier is sent under an index is what the console drew under it.
Matches(item, figure) ==
  /\ item.id = figure.id /\ item.measured = figure.at /\ figure.measured = figure.at
  /\ figure.at = [n \in DOMAIN figure.at |-> figure.at[n]]
  /\ DOMAIN figure = {"id", "from", "at", "measured", "estimator", "grade"}

\* The answer is to the figures that were kept when the question was put, index by index,
\* however the table of tracks changes before it comes.
MeasuredInv ==
  /\ DOMAIN figures = FigureFields
  /\ IsList(trackRows) /\ IsList(figures.local) /\ IsList(figures.answer)
  /\ Len(figures.answer) = Len(figures.local)
  /\ \A k \in DOMAIN figures.local : Matches(figures.answer[k], figures.local[k])
  /\ PositionsAreTheirOwn

LEMMA LastFacts == ASSUME NEW X, NEW s \in Seq(X), s # <<>> PROVE Last(s) \in ToSet(s)
<1>1. Len(s) \in 1..Len(s) /\ DOMAIN s = 1..Len(s)
  OBVIOUS
<1> QED BY <1>1 DEF Last, ToSet

LEMMA DerivedIsList == ASSUME IsList(trackRows), NEW i PROVE IsList(Derived(i))
<1> DEFINE rows == Filter(trackRows, {row \in ToSet(trackRows) : row.incident = i})
<1> DEFINE tracks == [k \in DOMAIN rows |-> [id |-> rows[k].id, from |-> rows[k].from, points |-> Points(rows[k])]]
<1>1. IsList(rows)
  BY FilterIsList
<1>2. IsList(tracks)
  <2>1. tracks = [k \in DOMAIN rows |-> tracks[k]]
    <3> HIDE DEF rows
    <3> QED OBVIOUS
  <2> HIDE DEF rows, tracks
  <2> QED BY <1>1, <2>1, MappedIsList
<1>3. Derived(i) = Filter(tracks, {d \in ToSet(tracks) : Len(d.points) > 1})
  BY DEF Derived
<1> HIDE DEF tracks
<1> QED BY <1>2, <1>3, FilterIsList

\* What is drawn from an answer that matches, where no two figures have an id in common.
LEMMA FilteredFacts ==
  ASSUME MeasuredInv, \A j, k \in DOMAIN figures.local : figures.local[j].id = figures.local[k].id => j = k
  PROVE  \A k \in DOMAIN Filtered(figures.answer) :
           Filtered(figures.answer)[k].at = Filtered(figures.answer)[k].measured
<1> DEFINE answer == figures.answer
<1> DEFINE local == figures.local
<1> DEFINE T == {item \in ToSet(answer) : Base(item.id) # <<>> /\ item.refused = "no"}
<1> DEFINE kept == Filter(answer, T)
<1> DEFINE drawn(item) ==
      LET base == Last(Base(item.id))
      IN  [base EXCEPT !.estimator = "kalman-rts", !.measured = item.measured,
             !.at = [n \in DOMAIN item.measured |-> IF n \in DOMAIN base.at THEN base.at[n] ELSE base.at[1]],
             !.grade = IF item.grade \in {"A", "B"} THEN "measured" ELSE "indicative"]
<1>1. IsList(answer) /\ IsList(local) /\ Len(answer) = Len(local)
      /\ \A k \in DOMAIN local : Matches(answer[k], local[k])
  BY DEF MeasuredInv
<1>2. ToSet(kept) = ToSet(answer) \cap T
  BY <1>1, FilterFacts DEF IsList
<1>3. Filtered(answer) = [k \in DOMAIN kept |-> drawn(kept[k])]
  BY DEF Filtered
<1>4. SUFFICES ASSUME NEW k \in DOMAIN kept PROVE drawn(kept[k]).at = drawn(kept[k]).measured
  <2> HIDE DEF kept, drawn
  <2> QED BY <1>3
<1>5. kept[k] \in ToSet(answer) /\ Base(kept[k].id) # <<>>
  <2>1. kept[k] \in ToSet(kept)
    <3> HIDE DEF kept
    <3> QED BY DEF ToSet
  <2> QED BY <2>1, <1>2
<1>6. PICK item : item = kept[k]
  OBVIOUS
<1>7. PICK j \in DOMAIN answer : item = answer[j]
  BY <1>5, <1>6 DEF ToSet
<1>8. PICK base : base = Last(Base(item.id))
  OBVIOUS
<1>9. base \in ToSet(local) /\ base.id = item.id
  <2> DEFINE U == {f \in ToSet(local) : f.id = item.id}
  <2>1. Base(item.id) = Filter(local, U)
    BY DEF Base
  <2>2. Filter(local, U) \in Seq(ToSet(local)) /\ ToSet(Filter(local, U)) = ToSet(local) \cap U
    BY <1>1, FilterFacts DEF IsList
  <2>3. Filter(local, U) # <<>>
    BY <2>1, <1>5, <1>6
  <2>4. base \in ToSet(Filter(local, U))
    BY <1>8, <2>1, <2>2, <2>3, LastFacts
  <2> QED BY <2>2, <2>4
<1>10. j \in DOMAIN local /\ Matches(item, local[j])
  <2>1. DOMAIN answer = 1..Len(answer) /\ DOMAIN local = 1..Len(local)
    BY <1>1 DEF IsList
  <2> QED BY <2>1, <1>1, <1>7
<1>11. base = local[j]
  <2>1. PICK m \in DOMAIN local : base = local[m]
    BY <1>9 DEF ToSet
  <2>2. local[m].id = local[j].id
    BY <2>1, <1>9, <1>10 DEF Matches
  <2> QED BY <2>1, <2>2, <1>10
<1>12. /\ DOMAIN base = {"id", "from", "at", "measured", "estimator", "grade"}
       /\ item.measured = base.at /\ base.at = [n \in DOMAIN base.at |-> base.at[n]]
  BY <1>10, <1>11 DEF Matches
<1>13. [n \in DOMAIN item.measured |-> IF n \in DOMAIN base.at THEN base.at[n] ELSE base.at[1]] = base.at
  BY <1>12
<1>14. drawn(item).measured = item.measured /\ drawn(item).at = base.at
  BY <1>8, <1>12, <1>13
<1> QED BY <1>6, <1>12, <1>14

LEMMA MeasuredStep == MeasuredInv /\ [TracksNext \/ EntitiesNext]_tracksVars => MeasuredInv'
<1> SUFFICES ASSUME MeasuredInv, [TracksNext \/ EntitiesNext]_tracksVars PROVE MeasuredInv'
  OBVIOUS
<1>1. CASE UNCHANGED <<trackRows, figures>>
  BY <1>1 DEF MeasuredInv, PositionsAreTheirOwn
<1>2. ASSUME NEW r \in Reports, PostTrack(r) PROVE MeasuredInv'
  <2>1. figures' = figures /\ StoreTracks(r)
    BY <1>2 DEF PostTrack
  <2>2. IsList(trackRows')
    <3>1. CASE Len(r.samples) < 2
      BY <3>1, <2>1 DEF StoreTracks, MeasuredInv
    <3>2. CASE ~ Len(r.samples) < 2
      <4>1. PICK T, row : trackRows' = Filter(trackRows, T) \o <<row>>
        BY <3>2, <2>1 DEF StoreTracks
      <4>2. IsList(Filter(trackRows, T))
        BY FilterIsList DEF MeasuredInv
      <4> QED BY <4>1, <4>2, AppendedIsList
    <3> QED BY <3>1, <3>2
  <2> QED BY <2>1, <2>2 DEF MeasuredInv, PositionsAreTheirOwn
<1>3. ASSUME NEW i \in Scenes, AskTier(i) PROVE MeasuredInv'
  <2> DEFINE F(k) == LET d == Derived(i)[k]
                     IN  [id |-> d.id, from |-> d.from, at |-> Places(d), measured |-> Places(d),
                          estimator |-> "finite-difference", grade |-> LocalGrade(d)]
  <2> DEFINE G(k) == Estimate(Derived(i)[k])
  <2> DEFINE local == [k \in DOMAIN Derived(i) |-> F(k)]
  <2> DEFINE answer == [k \in DOMAIN Derived(i) |-> G(k)]
  <2>1. figures' = [NoFigures EXCEPT !.at = "asking", !.of = i, !.local = local, !.answer = answer]
    BY <1>3 DEF AskTier, Differenced
  <2>2. IsList(Derived(i))
    BY DerivedIsList DEF MeasuredInv
  <2>3. local = [k \in DOMAIN Derived(i) |-> local[k]] /\ answer = [k \in DOMAIN Derived(i) |-> answer[k]]
    <3> HIDE DEF F, G
    <3> QED OBVIOUS
  <2>4. /\ IsList(local) /\ IsList(answer) /\ Len(answer) = Len(local)
        /\ DOMAIN local = DOMAIN Derived(i)
    <3>1. DOMAIN local = DOMAIN Derived(i)
      OBVIOUS
    <3> HIDE DEF local, answer
    <3> QED BY <2>2, <2>3, <3>1, MappedIsList
  <2>5. ASSUME NEW k \in DOMAIN Derived(i) PROVE Matches(answer[k], local[k])
    <3>1. PICK d : d = Derived(i)[k]
      OBVIOUS
    <3>2. local[k] = [id |-> d.id, from |-> d.from, at |-> Places(d), measured |-> Places(d),
                      estimator |-> "finite-difference", grade |-> LocalGrade(d)]
      BY <3>1
    <3>3. answer[k].id = d.id /\ answer[k].measured = Places(d)
      BY <3>1 DEF Estimate
    <3>4. Places(d) = [n \in DOMAIN Places(d) |-> Places(d)[n]]
      BY DEF Places
    <3> HIDE DEF local, answer
    <3> QED BY <3>2, <3>3, <3>4 DEF Matches
  <2>6. /\ DOMAIN figures' = FigureFields /\ figures'.local = local /\ figures'.answer = answer
        /\ figures'.list = <<>>
    <3> HIDE DEF local, answer
    <3> QED BY <2>1 DEF NoFigures, FigureFields
  <2>7. trackRows' = trackRows
    BY <1>3 DEF AskTier
  <2> HIDE DEF local, answer
  <2> QED BY <2>4, <2>5, <2>6, <2>7 DEF MeasuredInv, PositionsAreTheirOwn
<1>4. ASSUME NEW list, Hear(list), list \in {Listed(figures.answer), figures.local} PROVE MeasuredInv'
  <2>1. PICK conflicts : figures' = [figures EXCEPT !.at = "listed", !.list = list, !.conflicts = conflicts]
    BY <1>4 DEF Hear
  <2>2. /\ DOMAIN figures' = FigureFields /\ figures'.local = figures.local
        /\ figures'.answer = figures.answer /\ figures'.list = list
    BY <2>1 DEF MeasuredInv, FigureFields
  <2>3. ASSUME \A j, k \in DOMAIN figures.local : figures.local[j].id = figures.local[k].id => j = k
        PROVE  \A k \in DOMAIN list : list[k].at = list[k].measured
    <3>1. \A k \in DOMAIN figures.local : figures.local[k].at = figures.local[k].measured
      BY DEF MeasuredInv, Matches
    <3> QED BY <1>4, <2>3, <3>1, FilteredFacts DEF Listed
  <2>4. trackRows' = trackRows
    BY <1>4 DEF Hear
  <2> QED BY <2>2, <2>3, <2>4 DEF MeasuredInv, PositionsAreTheirOwn
<1>5. ASSUME NEW flag \in BOOLEAN, Dossier(flag) PROVE MeasuredInv'
  <2>1. PICK path : figures' = [figures EXCEPT !.at = "done", !.flag = flag, !.path = path]
    BY <1>5 DEF Dossier
  <2>2. /\ DOMAIN figures' = FigureFields /\ figures'.local = figures.local
        /\ figures'.answer = figures.answer /\ figures'.list = figures.list
    BY <2>1 DEF MeasuredInv, FigureFields
  <2>3. trackRows' = trackRows
    BY <1>5 DEF Dossier
  <2> QED BY <2>2, <2>3 DEF MeasuredInv, PositionsAreTheirOwn
<1> QED
  BY <1>1, <1>2, <1>3, <1>4, <1>5
  DEF TracksNext, EntitiesNext, Bundled, TierAnswers, TierMissing, Bind, PostEntity, tracksVars

\* buildForensicBundle and fisKinematics: where the tracks of an incident have their own ids, each
\* speed is drawn where it was measured, for any reports, whatever replaced a track while the
\* tier was asked, and whichever tracks it refused.
THEOREM PositionsStayTheirOwn == Spec => []PositionsAreTheirOwn
<1>1. Init => MeasuredInv
  <2>1. <<>> \in Seq(ToSet(<<>>)) /\ Len(<<>>) = 0 /\ DOMAIN <<>> = {}
    OBVIOUS
  <2> QED BY <2>1 DEF Init, TracksInit, NoFigures, FigureFields, MeasuredInv, IsList, PositionsAreTheirOwn
<1>2. MeasuredInv /\ [Next]_fisVars => MeasuredInv'
  BY ServiceSteps, MeasuredStep
<1>3. MeasuredInv => PositionsAreTheirOwn
  BY DEF MeasuredInv
<1> QED BY <1>1, <1>2, <1>3, PTL DEF Spec
-----------------------------------------------------------------------------
(* The clock of a source *)

\* An order in which a query may return observations: none is before itself, and none
\* before one of an earlier source time.
Strict(b) ==
  /\ \A o \in Observation : <<o, o>> \notin b
  /\ \A o, p, q \in Observation : <<o, p>> \in b /\ <<p, q>> \in b => <<o, q>> \in b
  /\ \A o, p \in Observation : <<o, p>> \in b => At[o] <= At[p]

\* Observations of the clock in that order.
Run(b) == {s \in Seq(Observation) : s # <<>> /\ \A i, j \in DOMAIN s : i < j => <<s[i], s[j]>> \in b}

\* Runs one after the other, none beginning before the last has ended.
Arranged(rows, b) ==
  /\ rows \in Seq(Run(b))
  /\ \A i, j \in DOMAIN rows : i < j => <<Last(rows[i]), rows[j][1]>> \in b

\* What a fit has read, in the order it was returned in.
IsRun(s) == \E b : Strict(b) /\ s \in Run(b)

\* A fit works on what it read, in order, and the rows stored are those of one fit.
ClockInv ==
  /\ history \in [Observation -> Int] /\ observed \subseteq Observation /\ IsFiniteSet(observed)
  /\ \A f \in Fitter : fits[f].at \in {"loaded", "storing"} =>
                         fits[f] = [at |-> fits[f].at, list |-> fits[f].list] /\ IsRun(fits[f].list)
  /\ DOMAIN fits = Fitter
  /\ \E b : Strict(b) /\ Arranged(segments, b)

LEMMA AtIsWhole == \A o \in Observation : At[o] \in Nat /\ At[o] \in Int
<1>1. At \in [Observation -> Nat]
  BY TimebaseAssumption, Zenon
<1> QED BY <1>1

LEMMA RunFacts ==
  ASSUME NEW b, Strict(b), NEW s \in Run(b)
  PROVE  /\ s \in Seq(Observation) /\ Len(s) \in Nat /\ Len(s) >= 1 /\ DOMAIN s = 1..Len(s)
         /\ Last(s) = s[Len(s)] /\ Last(s) \in Observation /\ s[1] \in Observation
         /\ From(s) \in Int /\ To(s) \in Int /\ From(s) <= To(s)
         /\ \A i \in 1..Len(s) : s[i] \in Observation /\ At[s[i]] \in Int
         /\ \A i \in 1..Len(s) : s[i] = s[1] \/ <<s[1], s[i]>> \in b
         /\ \A i \in 1..Len(s) : s[i] = Last(s) \/ <<s[i], Last(s)>> \in b
         /\ \A i, j \in 1..Len(s) : i < j => <<s[i], s[j]>> \in b
<1>1. s \in Seq(Observation) /\ s # <<>> /\ \A i, j \in DOMAIN s : i < j => <<s[i], s[j]>> \in b
  BY DEF Run
<1>2. Len(s) \in Nat /\ Len(s) >= 1 /\ DOMAIN s = 1..Len(s) /\ Last(s) = s[Len(s)]
  BY <1>1 DEF Last
<1>3. \A i \in 1..Len(s) : s[i] \in Observation /\ At[s[i]] \in Int
  BY <1>1, AtIsWhole
<1>4. 1 \in 1..Len(s) /\ Len(s) \in 1..Len(s) /\ (Len(s) = 1 \/ 1 < Len(s))
  BY <1>2
<1>5. \A i \in 1..Len(s) : (i = 1 \/ 1 < i) /\ (i = Len(s) \/ i < Len(s))
  <2>1. PICK k \in Nat : k = Len(s)
    BY <1>2
  <2>2. \A i \in 1..k : (i = 1 \/ 1 < i) /\ (i = k \/ i < k)
    OBVIOUS
  <2> QED BY <2>1, <2>2
<1>6. From(s) \in Int /\ To(s) \in Int /\ From(s) <= To(s)
  <2>1. From(s) = At[s[1]] /\ To(s) = At[s[Len(s)]]
    BY <1>2 DEF From, To
  <2>2. CASE Len(s) = 1
    BY <1>3, <1>4, <2>1, <2>2
  <2>3. CASE 1 < Len(s)
    <3>1. <<s[1], s[Len(s)]>> \in b
      BY <1>1, <1>2, <1>4, <2>3
    <3>2. At[s[1]] <= At[s[Len(s)]]
      BY <1>3, <1>4, <3>1 DEF Strict
    <3> QED BY <1>3, <1>4, <2>1, <3>2
  <2> QED BY <1>4, <2>2, <2>3
<1>7. \A i \in 1..Len(s) : s[i] = s[1] \/ <<s[1], s[i]>> \in b
  BY <1>1, <1>2, <1>4, <1>5
<1>8. \A i \in 1..Len(s) : s[i] = Last(s) \/ <<s[i], Last(s)>> \in b
  BY <1>1, <1>2, <1>4, <1>5
<1> QED BY <1>1, <1>2, <1>3, <1>4, <1>6, <1>7, <1>8

\* A run goes on with a later observation.
LEMMA RunGoesOn ==
  ASSUME NEW b, Strict(b), NEW s \in Run(b), NEW o \in Observation, <<Last(s), o>> \in b
  PROVE  Append(s, o) \in Run(b) /\ Last(Append(s, o)) = o /\ Append(s, o)[1] = s[1]
<1>1. PICK k \in Nat : k = Len(s) /\ k >= 1 /\ DOMAIN s = 1..k
  BY RunFacts
<1>2. PICK r : r = Append(s, o)
  OBVIOUS
<1>3. /\ r \in Seq(Observation) /\ r # <<>> /\ DOMAIN r = 1..(k + 1) /\ r[k + 1] = o /\ Len(r) = k + 1
      /\ \A i \in 1..k : r[i] = s[i]
  BY <1>1, <1>2 DEF Run
<1>4. ASSUME NEW i \in 1..(k + 1), NEW j \in 1..(k + 1), i < j PROVE <<r[i], r[j]>> \in b
  <2>1. i \in 1..k
    BY <1>4
  <2>2. CASE j \in 1..k
    BY <1>1, <1>3, <1>4, <2>1, <2>2, RunFacts
  <2>3. CASE j = k + 1
    <3>1. s[i] \in Observation /\ Last(s) \in Observation /\ (s[i] = Last(s) \/ <<s[i], Last(s)>> \in b)
      BY <1>1, <2>1, RunFacts
    <3>2. <<s[i], o>> \in b
      BY <3>1 DEF Strict
    <3> QED BY <1>3, <2>1, <2>3, <3>2
  <2> QED BY <2>2, <2>3
<1>5. r \in Run(b)
  BY <1>3, <1>4 DEF Run
<1> QED BY <1>1, <1>2, <1>3, <1>5 DEF Last

\* One observation is a run.
LEMMA RunBegins ==
  ASSUME NEW b, NEW o \in Observation
  PROVE  <<o>> \in Run(b) /\ Last(<<o>>) = o /\ <<o>>[1] = o
  BY DEF Run, Last

LEMMA ArrangedFacts ==
  ASSUME NEW b, NEW rows, NEW s
  PROVE  Arranged(Append(rows, s), b) /\ rows \in Seq(Run(b)) <=>
           Arranged(rows, b) /\ s \in Run(b) /\ \A i \in 1..Len(rows) : <<Last(rows[i]), s[1]>> \in b
<1>1. ASSUME rows \in Seq(Run(b)), Arranged(Append(rows, s), b)
      PROVE  Arranged(rows, b) /\ s \in Run(b) /\ \A i \in 1..Len(rows) : <<Last(rows[i]), s[1]>> \in b
  <2>1. PICK k \in Nat : k = Len(rows) /\ DOMAIN rows = 1..k
    BY <1>1
  <2>2. PICK all \in Seq(Run(b)) : all = Append(rows, s)
    BY <1>1 DEF Arranged
  <2>3. DOMAIN all = 1..(k + 1) /\ all[k + 1] = s /\ \A i \in 1..k : all[i] = rows[i]
    BY <1>1, <2>1, <2>2
  <2>4. \A i, j \in 1..(k + 1) : i < j => <<Last(all[i]), all[j][1]>> \in b
    BY <1>1, <2>2, <2>3 DEF Arranged
  <2>5. ASSUME NEW i \in 1..k PROVE i \in 1..(k + 1) /\ i < k + 1 /\ k + 1 \in 1..(k + 1)
    OBVIOUS
  <2>6. s \in Run(b)
    <3>1. k + 1 \in DOMAIN all
      BY <2>3
    <3> QED BY <2>2, <2>3, <3>1
  <2> QED BY <1>1, <2>1, <2>3, <2>4, <2>5, <2>6 DEF Arranged
<1>2. ASSUME Arranged(rows, b), s \in Run(b), \A i \in 1..Len(rows) : <<Last(rows[i]), s[1]>> \in b
      PROVE  Arranged(Append(rows, s), b) /\ rows \in Seq(Run(b))
  <2>1. PICK k \in Nat : k = Len(rows) /\ DOMAIN rows = 1..k /\ rows \in Seq(Run(b))
    BY <1>2 DEF Arranged
  <2>2. PICK all \in Seq(Run(b)) : all = Append(rows, s)
    <3>1. Append(rows, s) \in Seq(Run(b))
      BY <1>2, <2>1
    <3> QED BY <3>1
  <2>3. DOMAIN all = 1..(k + 1) /\ all[k + 1] = s /\ \A i \in 1..k : all[i] = rows[i]
    BY <2>1, <2>2
  <2>4. ASSUME NEW i \in 1..(k + 1), NEW j \in 1..(k + 1), i < j PROVE <<Last(all[i]), all[j][1]>> \in b
    <3>1. i \in 1..k /\ (j \in 1..k \/ j = k + 1)
      BY <2>4
    <3> QED BY <1>2, <2>1, <2>3, <2>4, <3>1 DEF Arranged
  <2> QED BY <2>1, <2>2, <2>3, <2>4 DEF Arranged
<1>3. Arranged(rows, b) => rows \in Seq(Run(b))
  BY DEF Arranged
<1> QED BY <1>1, <1>2, <1>3

\* What has been split so far: the observations up to o, in order.
SplitUpTo(state, o, b) ==
  /\ Arranged(state.done, b) /\ state.current \in Run(b) /\ Last(state.current) = o
  /\ \A i \in 1..Len(state.done) : <<Last(state.done[i]), state.current[1]>> \in b

\* The next observation goes on the current segment or begins another.
LEMMA TakenKeeps ==
  ASSUME NEW state \in [done : Seq(Seq(Observation)), current : Seq(Observation)],
         NEW b, Strict(b), NEW u \in Observation, NEW t \in Observation, SplitUpTo(state, u, b), <<u, t>> \in b
  PROVE  SplitUpTo(Taken(state, t), t, b)
<1>1. Last(state.current) = u /\ state.current \in Run(b) /\ Arranged(state.done, b)
  BY DEF SplitUpTo
<1>2. CASE Taken(state, t) = [done |-> Append(state.done, state.current), current |-> <<t>>]
  <2>1. PICK next : next = Taken(state, t)
    OBVIOUS
  <2>2. next.done = Append(state.done, state.current) /\ next.current = <<t>>
    BY <1>2, <2>1
  <2>3. Arranged(next.done, b)
    BY <1>1, <2>2, ArrangedFacts DEF SplitUpTo
  <2>4. next.current \in Run(b) /\ Last(next.current) = t /\ next.current[1] = t
    BY <2>2, RunBegins
  <2>5. ASSUME NEW i \in 1..Len(next.done) PROVE <<Last(next.done[i]), t>> \in b
    <3>1. PICK k \in Nat : k = Len(state.done) /\ state.done \in Seq(Run(b))
      BY <1>1 DEF Arranged
    <3>2. /\ Len(next.done) = k + 1 /\ next.done[k + 1] = state.current
          /\ \A j \in 1..k : next.done[j] = state.done[j]
      BY <2>2, <3>1
    <3>3. CASE i = k + 1
      BY <1>1, <3>2, <3>3
    <3>4. CASE i \in 1..k
      <4>1. <<Last(state.done[i]), state.current[1]>> \in b
        BY <3>1, <3>4 DEF SplitUpTo
      <4>2. state.current[1] = u \/ <<state.current[1], u>> \in b
        <5>1. 1 \in 1..Len(state.current)
          BY <1>1, RunFacts
        <5> QED BY <1>1, <5>1, RunFacts
      <4>3. Last(state.done[i]) \in Observation /\ state.current[1] \in Observation
        <5>1. state.done[i] \in Run(b)
          BY <3>1, <3>4
        <5> QED BY <1>1, <5>1, RunFacts
      <4>4. <<Last(state.done[i]), u>> \in b
        <5>1. PICK x \in Observation, y \in Observation : x = Last(state.done[i]) /\ y = state.current[1]
          BY <4>3
        <5>2. <<x, y>> \in b /\ (y = u \/ <<y, u>> \in b)
          BY <4>1, <4>2, <5>1
        <5>3. <<x, u>> \in b
          BY <5>2 DEF Strict
        <5> QED BY <5>1, <5>3
      <4>5. <<Last(state.done[i]), t>> \in b
        BY <4>3, <4>4 DEF Strict
      <4> QED BY <3>2, <3>4, <4>5
    <3> QED BY <3>2, <3>3, <3>4
  <2> QED BY <2>1, <2>3, <2>4, <2>5 DEF SplitUpTo
<1>3. CASE Taken(state, t) = [state EXCEPT !.current = Append(@, t)]
  <2>1. PICK next : next = Taken(state, t)
    OBVIOUS
  <2>2. next.done = state.done /\ next.current = Append(state.current, t)
    <3>1. PICK longer : longer = Append(state.current, t)
      OBVIOUS
    <3>2. next = [state EXCEPT !.current = longer]
      BY <1>3, <2>1, <3>1
    <3> QED BY <3>1, <3>2
  <2>3. next.current \in Run(b) /\ Last(next.current) = t /\ next.current[1] = state.current[1]
    BY <1>1, <2>2, RunGoesOn
  <2> QED BY <1>1, <2>1, <2>2, <2>3 DEF SplitUpTo
<1> QED BY <1>2, <1>3 DEF Taken

\* The segments of a fit stand one after the other, whichever breaks it sees and whether
\* or not the last takes the place of the one before it.
LEMMA SegmentedIsArranged ==
  ASSUME NEW b, Strict(b), NEW list \in Run(b)
  PROVE  Arranged(Segmented(list), b)
<1> DEFINE State == [done : Seq(Seq(Observation)), current : Seq(Observation)]
<1>1. PICK k \in Nat : k = Len(list) /\ k >= 1 /\ list \in Seq(Observation)
  BY RunFacts
<1>2. \A n \in 1..k : list[n] \in Observation
  BY <1>1, RunFacts
<1>3. PICK base \in State : base = [done |-> <<>>, current |-> <<>>]
  <2>1. <<>> \in Seq(Seq(Observation)) /\ <<>> \in Seq(Observation)
    OBVIOUS
  <2>2. [done |-> <<>>, current |-> <<>>] \in State
    BY <2>1
  <2> QED BY <2>2
<1>4. ASSUME NEW s \in State, NEW t \in Observation PROVE Taken(s, t) \in State
  <2>1. /\ Append(s.done, s.current) \in Seq(Seq(Observation)) /\ <<t>> \in Seq(Observation)
        /\ Append(s.current, t) \in Seq(Observation)
    OBVIOUS
  <2>2. [done |-> Append(s.done, s.current), current |-> <<t>>] \in State
    BY <2>1
  <2>3. [s EXCEPT !.current = Append(@, t)] \in State
    BY <2>1
  <2> QED BY <2>2, <2>3 DEF Taken
<1> DEFINE Takes(f) == f = [n \in 0..k |-> IF n = 0 THEN base ELSE Taken(f[n - 1], list[n])]
<1>5. \E f : Takes(f)
  <2> HIDE DEF State
  <2>1. PICK step : step = [p \in (1..k) \X State |-> Taken(p[2], list[p[1]])]
    OBVIOUS
  <2>2. ASSUME NEW n \in 1..k, NEW v \in State PROVE step[<<n, v>>] = Taken(v, list[n])
    <3>1. <<n, v>> \in (1..k) \X State
      OBVIOUS
    <3> QED BY <2>1, <3>1
  <2>3. step \in [(1..k) \X State -> State]
    <3>1. ASSUME NEW p \in (1..k) \X State PROVE Taken(p[2], list[p[1]]) \in State
      <4>1. PICK n \in 1..k, v \in State : p = <<n, v>>
        OBVIOUS
      <4>2. p[1] = n /\ p[2] = v
        BY <4>1
      <4> QED BY <1>2, <1>4, <4>2
    <3> QED BY <2>1, <3>1
  <2>4. PICK G \in [0..k -> State] : G[0] = base /\ \A n \in 1..k : G[n] = step[<<n, G[n - 1]>>]
    <3>1. HasFold(k, State, base, step)
      BY <2>3, FoldExists, Zenon
    <3> QED BY <3>1 DEF HasFold
  <2>5. ASSUME NEW n \in 0..k PROVE G[n] = IF n = 0 THEN base ELSE Taken(G[n - 1], list[n])
    <3>1. CASE n = 0
      BY <2>4, <3>1
    <3>2. CASE n # 0
      <4>1. n \in 1..k /\ n - 1 \in 0..k
        BY <3>2
      <4>2. G[n - 1] \in State
        BY <2>4, <4>1
      <4> QED BY <2>2, <2>4, <3>2, <4>1, <4>2
    <3> QED BY <3>1, <3>2
  <2>6. Takes(G)
    BY <2>4, <2>5
  <2> QED BY <2>6
<1>6. PICK f : f = CHOOSE g : Takes(g)
  OBVIOUS
<1>7. Takes(f)
  BY <1>5, <1>6
<1>8. Segmented(list) = IF f[k].done # <<>> /\ Len(f[k].current) < 3
                        THEN Append(Front(f[k].done), f[k].current)
                        ELSE Append(f[k].done, f[k].current)
  BY <1>1, <1>3, <1>6 DEF Segmented
<1>9. f[0] = base /\ \A n \in 1..k : f[n] = Taken(f[n - 1], list[n])
  BY <1>7
<1> HIDE DEF Takes
<1> DEFINE Good == {n \in 0..k : f[n] \in State /\ (n # 0 => SplitUpTo(f[n], list[n], b))}
<1>10. 0 \in Good
  BY <1>9
<1>11. ASSUME NEW n \in 1..k, n - 1 \in Good PROVE n \in Good
  <2>1. f[n - 1] \in State /\ f[n] = Taken(f[n - 1], list[n]) /\ list[n] \in Observation
    BY <1>2, <1>9, <1>11
  <2>2. f[n] \in State
    BY <1>4, <2>1
  <2>3. CASE n = 1
    <3>1. f[0] = base
      BY <1>9
    <3>2. base.done = <<>> /\ base.current = <<>>
      BY <1>3
    <3>3. Taken(base, list[1]) = [base EXCEPT !.current = Append(@, list[1])]
      BY <3>2, TimebaseAssumption DEF Taken
    <3>4. Taken(base, list[1]).done = <<>> /\ Taken(base, list[1]).current = <<list[1]>>
      BY <3>2, <3>3
    <3>5. Arranged(<<>>, b) /\ Len(<<>>) = 0
      BY DEF Arranged
    <3>6. SplitUpTo(Taken(base, list[1]), list[1], b)
      <4>1. <<list[1]>> \in Run(b) /\ Last(<<list[1]>>) = list[1]
        BY <2>1, <2>3, RunBegins
      <4>2. PICK next : next = Taken(base, list[1])
        OBVIOUS
      <4>3. next.done = <<>> /\ next.current = <<list[1]>> /\ Len(next.done) = 0
        BY <3>4, <4>2
      <4> QED BY <3>5, <4>1, <4>2, <4>3 DEF SplitUpTo
    <3> QED BY <2>1, <2>2, <2>3, <3>1, <3>6
  <2>4. CASE n # 1
    <3>1. n - 1 \in 1..k /\ n - 1 # 0 /\ n - 1 < n
      BY <2>4
    <3>2. SplitUpTo(f[n - 1], list[n - 1], b)
      BY <1>11, <3>1
    <3>3. <<list[n - 1], list[n]>> \in b
      BY <1>1, <3>1, RunFacts
    <3>4. SplitUpTo(f[n], list[n], b)
      <4>1. list[n - 1] \in Observation
        BY <1>2, <3>1
      <4> QED BY <2>1, <3>2, <3>3, <4>1, TakenKeeps
    <3> QED BY <2>2, <3>4
  <2> QED BY <2>3, <2>4
<1>12. f[k] \in State /\ SplitUpTo(f[k], list[k], b)
  <2>1. k \in 0..k /\ k # 0
    BY <1>1
  <2>2. k \in Good
    <3> HIDE DEF Good
    <3> QED BY <1>10, <1>11, <2>1, SetInduction
  <2> QED BY <2>1, <2>2
<1>13. PICK done \in Seq(Run(b)), current \in Run(b) : done = f[k].done /\ current = f[k].current
  BY <1>12 DEF SplitUpTo, Arranged
<1>14. Arranged(done, b) /\ \A i \in 1..Len(done) : <<Last(done[i]), current[1]>> \in b
  BY <1>12, <1>13 DEF SplitUpTo
<1>15. Arranged(Append(done, current), b)
  BY <1>14, ArrangedFacts
<1>16. ASSUME done # <<>> PROVE Arranged(Append(Front(done), current), b)
  <2>1. PICK m \in Nat : m = Len(done) /\ m >= 1 /\ DOMAIN done = 1..m
    BY <1>16
  <2>2. PICK front : front = Front(done)
    OBVIOUS
  <2>3. front \in Seq(Run(b)) /\ Len(front) = m - 1 /\ DOMAIN front = 1..(m - 1) /\ \A i \in 1..(m - 1) : front[i] = done[i]
    BY <2>1, <2>2 DEF Front
  <2>4. \A i \in 1..(m - 1) : i \in 1..m
    BY <2>1
  <2>5. Arranged(front, b)
    BY <1>14, <2>1, <2>3, <2>4 DEF Arranged
  <2>6. \A i \in 1..Len(front) : <<Last(front[i]), current[1]>> \in b
    BY <1>14, <2>1, <2>3, <2>4
  <2> QED BY <2>2, <2>5, <2>6, ArrangedFacts
<1> QED BY <1>8, <1>13, <1>15, <1>16
\* A sum is reached one term at a time.
UpTo(T, list, n) == T \in [0..n -> Int] /\ T[0] = 0 /\ \A i \in 1..n : T[i] = T[i - 1] + list[i]

LEMMA TotalFacts ==
  ASSUME NEW list \in Seq(Int)
  PROVE  \E T : UpTo(T, list, Len(list)) /\ Total(list) = T[Len(list)]
<1>1. PICK k \in Nat : k = Len(list) /\ \A i \in 1..k : list[i] \in Int
  OBVIOUS
<1> DEFINE Adds(T) == T = [n \in 0..k |-> IF n = 0 THEN 0 ELSE T[n - 1] + list[n]]
<1>2. \E T : Adds(T)
  <2>1. PICK step : step = [p \in (1..k) \X Int |-> p[2] + list[p[1]]]
    OBVIOUS
  <2>2. \A n \in 1..k, v \in Int : step[<<n, v>>] = v + list[n] /\ v + list[n] \in Int
    BY <1>1, <2>1
  <2>3. step \in [(1..k) \X Int -> Int]
    <3>1. ASSUME NEW p \in (1..k) \X Int PROVE p[2] + list[p[1]] \in Int
      BY <1>1
    <3> QED BY <2>1, <3>1
  <2>4. PICK G \in [0..k -> Int] : G[0] = 0 /\ \A n \in 1..k : G[n] = step[<<n, G[n - 1]>>]
    <3>1. HasFold(k, Int, 0, step)
      <4>1. 0 \in Int
        OBVIOUS
      <4> QED BY <2>3, <4>1, FoldExists, Zenon
    <3> QED BY <3>1 DEF HasFold
  <2>5. ASSUME NEW n \in 0..k PROVE G[n] = IF n = 0 THEN 0 ELSE G[n - 1] + list[n]
    <3>1. CASE n = 0
      BY <2>4, <3>1
    <3>2. CASE n # 0
      <4>1. n \in 1..k /\ n - 1 \in 0..k
        BY <3>2
      <4>2. G[n - 1] \in Int
        BY <2>4, <4>1
      <4> QED BY <2>2, <2>4, <3>2, <4>1, <4>2
    <3> QED BY <3>1, <3>2
  <2>6. Adds(G)
    BY <2>4, <2>5
  <2> QED BY <2>6
<1>3. PICK f : f = CHOOSE T : Adds(T)
  OBVIOUS
<1>4. Adds(f)
  BY <1>2, <1>3
<1>5. Total(list) = f[k]
  BY <1>1, <1>3 DEF Total
<1>6. f[0] = 0 /\ \A n \in 1..k : f[n] = f[n - 1] + list[n]
  BY <1>4
<1>12. f = [n \in 0..k |-> f[n]]
  BY <1>4
<1> HIDE DEF Adds
<1> DEFINE Good == {n \in 0..k : f[n] \in Int}
<1>7. 0 \in Good
  BY <1>6
<1>8. ASSUME NEW n \in 1..k, n - 1 \in Good PROVE n \in Good
  <2>1. f[n - 1] \in Int
    BY <1>8
  <2> QED BY <1>1, <1>6, <2>1
<1>9. \A n \in 0..k : n \in Good
  <2> HIDE DEF Good
  <2> QED BY <1>7, <1>8, SetInduction
<1>10. f \in [0..k -> Int]
  BY <1>9, <1>12
<1>11. UpTo(f, list, k)
  BY <1>6, <1>10 DEF UpTo
<1> QED BY <1>1, <1>5, <1>11

\* The squares about a reading, out of its sums, and how the determinant grows by them.
LEMMA SquareStep ==
  ASSUME NEW q \in Int, NEW s \in Int, NEW m \in Int, NEW x \in Int, NEW c \in Int
  PROVE  /\ (q + x * x) - 2 * c * (s + x) + (m + 1) * c * c = (q - 2 * c * s + m * c * c) + (x - c) * (x - c)
         /\ (m + 1) * (q + c * c) - (s + c) * (s + c) = (m * q - s * s) + (q - 2 * c * s + m * c * c)
  OBVIOUS

LEMMA SquareIsPositive == \A x \in Int : x * x >= 0 /\ x * x \in Int /\ (x > 0 => x * x > 0)
  OBVIOUS

LEMMA SumsAreWhole ==
  \A q, s, m, c \in Int : q - 2 * c * s + m * c * c \in Int /\ m * q - s * s \in Int
  OBVIOUS

\* Observations at times that do not fall, and of which not all are zero, are spread: the
\* determinant of the fit is positive.
LEMMA SpreadFacts ==
  ASSUME NEW k \in Nat, k >= 1, NEW x, x[1] = 0, \A i \in 1..k : x[i] \in Int /\ x[i] >= 0, x[k] > 0,
         NEW S, UpTo(S, x, k), NEW Q, UpTo(Q, [i \in 1..k |-> x[i] * x[i]], k)
  PROVE  k * Q[k] - S[k] * S[k] > 0
<1>1. /\ S \in [0..k -> Int] /\ Q \in [0..k -> Int] /\ S[0] = 0 /\ Q[0] = 0
      /\ \A i \in 1..k : S[i] = S[i - 1] + x[i] /\ Q[i] = Q[i - 1] + x[i] * x[i]
  BY DEF UpTo
<1> DEFINE About(m, c) == Q[m] - 2 * c * S[m] + m * c * c
<1> DEFINE Det(m) == m * Q[m] - S[m] * S[m]
<1>2. ASSUME NEW c \in Int, c > 0 PROVE \A m \in 1..k : About(m, c) > 0
  <2> DEFINE Good == {m \in 0..k : m # 0 => About(m, c) > 0}
  <2>1. 0 \in Good
    OBVIOUS
  <2>2. ASSUME NEW m \in 1..k, m - 1 \in Good PROVE m \in Good
    <3>1. PICK q \in Int, s \in Int, y \in Int : q = Q[m - 1] /\ s = S[m - 1] /\ y = x[m]
      <4>1. m - 1 \in 0..k
        OBVIOUS
      <4> QED BY <1>1, <4>1
    <3>2. Q[m] = q + y * y /\ S[m] = s + y
      BY <1>1, <3>1
    <3>3. About(m, c) = (q - 2 * c * s + (m - 1) * c * c) + (y - c) * (y - c)
      <4>1. m - 1 \in Int /\ (m - 1) + 1 = m
        OBVIOUS
      <4> QED BY <3>2, <4>1, SquareStep
    <3>4. (y - c) * (y - c) >= 0 /\ (y - c) * (y - c) \in Int
      <4>1. PICK z \in Int : z = y - c
        OBVIOUS
      <4> QED BY <4>1, SquareIsPositive
    <3>5. CASE m = 1
      <4>1. q = 0 /\ s = 0 /\ y = 0
        BY <1>1, <3>1, <3>5
      <4>2. About(m, c) = c * c
        BY <3>2, <3>5, <4>1
      <4> QED BY <1>2, <4>2, SquareIsPositive
    <3>6. CASE m # 1
      <4>1. m - 1 # 0 /\ About(m - 1, c) > 0
        BY <2>2, <3>6
      <4>2. About(m - 1, c) = q - 2 * c * s + (m - 1) * c * c
        BY <3>1
      <4>3. PICK a \in Int : a = q - 2 * c * s + (m - 1) * c * c
        <5>1. m - 1 \in Int
          OBVIOUS
        <5> QED BY <5>1, SumsAreWhole
      <4>4. PICK b \in Int : b = (y - c) * (y - c)
        BY <3>4
      <4>5. About(m, c) = a + b /\ a > 0 /\ b >= 0
        BY <3>3, <3>4, <4>1, <4>2, <4>3, <4>4
      <4>6. About(m, c) > 0
        <5> HIDE DEF About
        <5> QED BY <4>5
      <4> QED BY <4>6
    <3> QED BY <3>5, <3>6
  <2>3. \A m \in 0..k : m \in Good
    <3> HIDE DEF Good
    <3> QED BY <2>1, <2>2, SetInduction
  <2> QED BY <2>3
<1> DEFINE Spread == {m \in 0..k : Q[m] >= 0 /\ Det(m) >= 0 /\ (m # 0 /\ x[m] > 0 => Det(m) > 0)}
<1>3. 0 \in Spread
  BY <1>1
<1>4. ASSUME NEW m \in 1..k, m - 1 \in Spread PROVE m \in Spread
  <2>1. PICK q \in Int, s \in Int, y \in Int : q = Q[m - 1] /\ s = S[m - 1] /\ y = x[m]
    <3>1. m - 1 \in 0..k
      OBVIOUS
    <3> QED BY <1>1, <3>1
  <2>2. Q[m] = q + y * y /\ S[m] = s + y
    BY <1>1, <2>1
  <2>3. q >= 0 /\ Q[m] >= 0 /\ y >= 0
    <3>1. q >= 0 /\ y >= 0
      BY <1>4, <2>1
    <3>2. PICK yy \in Int : yy = y * y /\ yy >= 0
      BY SquareIsPositive
    <3>3. Q[m] = q + yy
      BY <2>2, <3>2
    <3> QED BY <2>1, <3>1, <3>2, <3>3
  <2>4. CASE m = 1
    <3>1. q = 0 /\ s = 0 /\ y = 0
      BY <1>1, <2>1, <2>4
    <3>2. Det(m) = 0
      BY <2>2, <2>4, <3>1
    <3>3. x[m] = 0
      BY <2>1, <3>1
    <3>4. Det(m) >= 0
      <4> HIDE DEF Det
      <4> QED BY <3>2
    <3> QED
      <4> HIDE DEF Det
      <4> QED BY <2>3, <3>3, <3>4
  <2>5. CASE m # 1
    <3>1. m - 1 \in 1..k
      BY <2>5
    <3>2. About(m - 1, y) = q - 2 * y * s + (m - 1) * y * y
      BY <2>1
    <3>3. About(m - 1, y) >= 0 /\ (y > 0 => About(m - 1, y) > 0)
      <4>1. ASSUME y > 0 PROVE About(m - 1, y) > 0
        BY <1>2, <3>1, <4>1
      <4>2. ASSUME y = 0 PROVE About(m - 1, y) = q
        BY <2>1, <4>2
      <4>3. PICK a \in Int : a = About(m - 1, y)
        <5>1. m - 1 \in Int
          OBVIOUS
        <5> QED BY <3>2, <5>1, SumsAreWhole
      <4>4. a >= 0 /\ (y > 0 => a > 0)
        <5> HIDE DEF About
        <5> QED BY <2>3, <4>1, <4>2, <4>3
      <4> QED
        <5> HIDE DEF About
        <5> QED BY <4>3, <4>4
    <3>4. Det(m - 1) >= 0 /\ Det(m - 1) = (m - 1) * q - s * s
      BY <1>4, <2>1
    <3>5. Det(m) = ((m - 1) * q - s * s) + (q - 2 * y * s + (m - 1) * y * y)
      <4>1. m - 1 \in Int /\ (m - 1) + 1 = m
        OBVIOUS
      <4> QED BY <2>2, <4>1, SquareStep
    <3>6. PICK a \in Int, b \in Int : a = (m - 1) * q - s * s /\ b = q - 2 * y * s + (m - 1) * y * y
      <4>1. m - 1 \in Int
        OBVIOUS
      <4> QED BY <4>1, SumsAreWhole
    <3>7. Det(m) = a + b /\ a >= 0 /\ b >= 0 /\ (y > 0 => b > 0)
      BY <3>2, <3>3, <3>4, <3>5, <3>6
    <3>8. Det(m) >= 0 /\ (y > 0 => Det(m) > 0)
      <4> HIDE DEF Det
      <4> QED BY <3>7
    <3> QED BY <2>1, <2>3, <3>8
  <2> QED BY <2>4, <2>5
<1>5. k \in Spread
  <2> HIDE DEF Spread
  <2>1. k \in 0..k
    OBVIOUS
  <2> QED BY <1>3, <1>4, <2>1, SetInduction
<1> QED BY <1>5

LEMMA SumIsWhole ==
  ASSUME NEW k \in Nat, NEW list \in Seq(Int), Len(list) = k
  PROVE  Total(list) \in Int
<1>1. PICK T : UpTo(T, list, k) /\ Total(list) = T[k]
  BY TotalFacts
<1>2. T \in [0..k -> Int] /\ k \in 0..k
  BY <1>1 DEF UpTo
<1> QED BY <1>1, <1>2

\* A fit has a length, a spread and a scatter.
FitOK(fit) ==
  /\ fit.n \in Nat /\ fit.n >= 1 /\ fit.det \in Int /\ fit.det >= 1
  /\ fit.offsetVar \in Int /\ fit.driftVar \in Nat /\ fit.rss \in Int

LEMMA FitFacts ==
  ASSUME history \in [Observation -> Int], NEW b, Strict(b), NEW s \in Run(b)
  PROVE  FitOK(Fit(s))
<1>1. PICK k \in Nat : k = Len(s) /\ k >= 1 /\ DOMAIN s = 1..k
  BY RunFacts
<1>2. \A i \in 1..k : s[i] \in Observation /\ At[s[i]] \in Int /\ history[s[i]] \in Int
  BY <1>1, RunFacts
<1>3. CASE From(s) = To(s)
  <2>1. PICK fit : fit = Fit(s)
    OBVIOUS
  <2>2. /\ fit.n = k /\ fit.det = k /\ fit.offsetVar = 1 /\ fit.driftVar = 0 /\ fit.rss = 0
    BY <1>1, <1>3, <2>1 DEF Fit
  <2> QED BY <1>1, <2>1, <2>2 DEF FitOK
<1>4. CASE From(s) # To(s)
  <2>1. PICK x : x = [i \in 1..k |-> At[s[i]] - At[s[1]]]
    OBVIOUS
  <2>2. PICK y : y = [i \in 1..k |-> history[s[i]]]
    OBVIOUS
  <2>3. 1 \in 1..k /\ \A i \in 1..k : x[i] = At[s[i]] - At[s[1]] /\ x[i] \in Int /\ y[i] \in Int
    BY <1>1, <1>2, <2>1, <2>2
  <2>4. x \in Seq(Int) /\ Len(x) = k /\ y \in Seq(Int) /\ Len(y) = k /\ DOMAIN x = 1..k
    <3>1. x \in [1..k -> Int] /\ y \in [1..k -> Int]
      BY <2>1, <2>2, <2>3
    <3> QED BY <3>1
  <2>5. PICK xx : xx = [i \in 1..k |-> x[i] * x[i]]
    OBVIOUS
  <2>6. PICK xy : xy = [i \in 1..k |-> x[i] * y[i]]
    OBVIOUS
  <2>7. xx \in Seq(Int) /\ Len(xx) = k /\ xy \in Seq(Int) /\ Len(xy) = k
    <3>1. \A i \in 1..k : x[i] * x[i] \in Int /\ x[i] * y[i] \in Int
      BY <2>3
    <3>2. xx \in [1..k -> Int] /\ xy \in [1..k -> Int]
      BY <2>5, <2>6, <3>1
    <3> QED BY <3>2
  <2>8. PICK S : UpTo(S, x, k) /\ Total(x) = S[k]
    BY <2>4, TotalFacts
  <2>9. PICK Q : UpTo(Q, xx, k) /\ Total(xx) = Q[k]
    BY <2>7, TotalFacts
  <2>10. PICK sx \in Int, sy \in Int, sxx \in Int, sxy \in Int :
           sx = Total(x) /\ sy = Total(y) /\ sxx = Total(xx) /\ sxy = Total(xy)
    BY <2>4, <2>7, SumIsWhole
  <2>11. PICK sums : sums = Sums(s)
    OBVIOUS
  <2>12. /\ sums.n = k /\ sums.x = x /\ sums.y = y
         /\ sums.sx = sx /\ sums.sy = sy /\ sums.sxx = sxx /\ sums.sxy = sxy
    BY <1>1, <2>1, <2>2, <2>4, <2>5, <2>6, <2>10, <2>11 DEF Sums
  <2>13. PICK det \in Int : det = k * sxx - sx * sx
    OBVIOUS
  <2>14. det >= 1
    <3>1. x[1] = 0
      BY <1>2, <2>3
    <3>2. ASSUME NEW i \in 1..k PROVE x[i] >= 0
      <4>1. s[i] = s[1] \/ <<s[1], s[i]>> \in b
        BY <1>1, RunFacts
      <4>2. At[s[1]] <= At[s[i]]
        BY <1>2, <2>3, <4>1 DEF Strict
      <4> QED BY <1>2, <2>3, <4>2
    <3>3. x[k] > 0
      <4>1. From(s) = At[s[1]] /\ To(s) = At[s[k]] /\ From(s) <= To(s) /\ k \in 1..k
        BY <1>1, RunFacts DEF From, To
      <4> QED BY <1>2, <1>4, <2>3, <4>1
    <3>4. k * Q[k] - S[k] * S[k] > 0
      BY <1>1, <2>3, <2>5, <2>8, <2>9, <3>1, <3>2, <3>3, SpreadFacts
    <3> QED BY <2>8, <2>9, <2>10, <2>13, <3>4
  <2>15. PICK b0 \in Int : b0 = sxx * sy - sx * sxy
    OBVIOUS
  <2>16. PICK b1 \in Int : b1 = k * sxy - sx * sy
    OBVIOUS
  <2>17. PICK res : res = [i \in 1..k |-> det * y[i] - b0 - b1 * x[i]]
    OBVIOUS
  <2>18. PICK squares : squares = [i \in 1..k |-> res[i] * res[i]]
    OBVIOUS
  <2>19. squares \in Seq(Int) /\ Len(squares) = k
    <3>1. ASSUME NEW i \in 1..k PROVE res[i] * res[i] \in Int
      <4>1. PICK r \in Int : r = det * y[i] - b0 - b1 * x[i]
        BY <2>3
      <4>2. res[i] = r
        BY <2>17, <4>1
      <4> QED BY <4>2
    <3>2. squares \in [1..k -> Int]
      BY <2>18, <3>1
    <3> QED BY <3>2
  <2>20. PICK fit : fit = Fit(s)
    OBVIOUS
  <2>21. /\ fit.n = k /\ fit.det = det /\ fit.offsetVar = sxx /\ fit.driftVar = k
         /\ fit.rss = Total(squares)
    <3>1. fit = Line(sums)
      BY <1>1, <1>4, <2>11, <2>20 DEF Fit
    <3>2. fit.n = k /\ fit.det = det /\ fit.offsetVar = sxx /\ fit.driftVar = k
      BY <2>12, <2>13, <3>1 DEF Line
    <3>3. fit.rss = Total(squares)
      BY <2>4, <2>12, <2>13, <2>15, <2>16, <2>17, <2>18, <3>1 DEF Line
    <3> QED BY <3>2, <3>3
  <2>22. Total(squares) \in Int
    BY <2>19, SumIsWhole
  <2> QED BY <1>1, <2>14, <2>20, <2>21, <2>22 DEF FitOK
<1> QED BY <1>3, <1>4

\* One unit further past the fit, the variance is greater.
LEMMA WideningGrows ==
  ASSUME NEW fit, FitOK(fit), NEW e \in Nat, NEW free \in Nat
  PROVE  Widened(fit, e, free) < Widened(fit, e + 1, free + 1)
<1>1. PICK a \in Int : a = fit.n * fit.det /\ a >= 1
  <2>1. \A n, d \in Int : n >= 1 /\ d >= 1 => n * d \in Int /\ n * d >= 1
    OBVIOUS
  <2> QED BY <2>1 DEF FitOK
<1>2. PICK b \in Int : b = fit.det * fit.det * fit.n /\ b >= 1
  <2>1. \A n, d \in Int : n >= 1 /\ d >= 1 => d * d * n \in Int /\ d * d * n >= 1
    OBVIOUS
  <2> QED BY <2>1 DEF FitOK
<1>3. PICK v \in Nat, o \in Int, r \in Int : v = fit.driftVar /\ o = fit.offsetVar /\ r = fit.rss
  BY DEF FitOK
<1>4. ASSUME NEW g \in Nat, NEW h \in Nat
      PROVE  Widened(fit, g, h) = a * (o + g * g * v) + h * h * b + r
  <2>1. h * h * fit.det * fit.det * fit.n = h * h * b
    BY <1>2 DEF FitOK
  <2> QED BY <1>1, <1>3, <2>1 DEF Widened
<1>5. a * (o + (e + 1) * (e + 1) * v) = a * (o + e * e * v) + a * ((2 * e + 1) * v)
  OBVIOUS
<1>6. (free + 1) * (free + 1) * b = free * free * b + (2 * free + 1) * b
  OBVIOUS
<1>7. a * ((2 * e + 1) * v) >= 0
  <2>1. \A m, n \in Nat : m * n \in Nat
    OBVIOUS
  <2>2. 2 * e + 1 \in Nat /\ a \in Nat
    BY <1>1
  <2>3. PICK m \in Nat : m = (2 * e + 1) * v
    BY <2>1, <2>2
  <2>4. a * m \in Nat
    BY <2>1, <2>2
  <2> QED BY <2>3, <2>4
<1>8. (2 * free + 1) * b >= 1
  <2>1. \A m, n \in Int : m >= 1 /\ n >= 1 => m * n >= 1
    OBVIOUS
  <2>2. 2 * free + 1 \in Int /\ 2 * free + 1 >= 1
    OBVIOUS
  <2> QED BY <1>2, <2>1, <2>2
<1>9. PICK p \in Int, q \in Int, d \in Int, f \in Int :
        p = a * (o + e * e * v) /\ q = free * free * b /\ d = a * ((2 * e + 1) * v) /\ f = (2 * free + 1) * b
  <2>1. a * (o + e * e * v) \in Int
    OBVIOUS
  <2>2. free * free * b \in Int
    OBVIOUS
  <2>3. a * ((2 * e + 1) * v) \in Int
    OBVIOUS
  <2>4. (2 * free + 1) * b \in Int
    OBVIOUS
  <2> QED BY <2>1, <2>2, <2>3, <2>4
<1>10. e + 1 \in Nat /\ free + 1 \in Nat
  OBVIOUS
<1>11. Widened(fit, e, free) = p + q + r
  BY <1>4, <1>9
<1>12. Widened(fit, e + 1, free + 1) = (p + d) + (q + f) + r
  BY <1>4, <1>5, <1>6, <1>9, <1>10
<1>13. d >= 0 /\ f >= 1
  BY <1>7, <1>8, <1>9
<1> QED BY <1>11, <1>12, <1>13
LEMMA GreatestIs ==
  ASSUME NEW S, S \subseteq Int, NEW m \in S, \A x \in S : x <= m
  PROVE  Max(S) = m
<1>1. m \in S /\ \A x \in S : m >= x
  OBVIOUS
<1>2. Max(S) \in S /\ \A x \in S : Max(S) >= x
  BY <1>1, Zenon DEF Max
<1>3. PICK c \in Int, n \in Int : c = Max(S) /\ n = m
  BY <1>1, <1>2
<1>4. n >= c /\ c >= n
  BY <1>1, <1>2, <1>3
<1>5. c = n
  BY <1>4
<1> QED BY <1>3, <1>5

LEMMA LeastIs ==
  ASSUME NEW S, S \subseteq Int, NEW m \in S, \A x \in S : m <= x
  PROVE  Min(S) = m
<1>1. Min(S) \in S /\ \A x \in S : Min(S) <= x
  BY Zenon DEF Min
<1>2. PICK c \in Int, n \in Int : c = Min(S) /\ n = m
  BY <1>1
<1>3. n <= c /\ c <= n
  BY <1>1, <1>2
<1>4. c = n
  BY <1>3
<1> QED BY <1>2, <1>4

\* A reading past a run is as far from it as from its last observation.
LEMMA DistancePast ==
  ASSUME NEW b, Strict(b), NEW s \in Run(b), NEW t \in Int, To(s) < t
  PROVE  Distance(s, t) = t - To(s) /\ ~ Covers(s, t)
<1>1. From(s) \in Int /\ To(s) \in Int /\ From(s) <= To(s)
  BY RunFacts
<1>2. PICK near : near = {t - From(s), t - To(s)}
  OBVIOUS
<1>3. Min(near) = t - To(s)
  <2>1. near \subseteq Int /\ t - To(s) \in near /\ \A x \in near : t - To(s) <= x
    BY <1>1, <1>2
  <2> QED BY <2>1, LeastIs
<1>4. From(s) < t
  BY <1>1
<1>5. Distance(s, t) = Min(near)
  BY <1>2, <1>4 DEF Distance
<1> QED BY <1>1, <1>3, <1>5 DEF Covers

\* Rows that are arranged share no observation, and none begins before another has ended.
LEMMA ArrangedIsApart ==
  ASSUME NEW b, Strict(b), NEW rows, Arranged(rows, b), NEW i \in DOMAIN rows, NEW j \in DOMAIN rows, i < j
  PROVE  To(rows[i]) <= From(rows[j]) /\ ToSet(rows[i]) \cap ToSet(rows[j]) = {}
<1>1. rows[i] \in Run(b) /\ rows[j] \in Run(b) /\ <<Last(rows[i]), rows[j][1]>> \in b
  BY DEF Arranged
<1>2. Last(rows[i]) \in Observation /\ rows[j][1] \in Observation
  BY <1>1, RunFacts
<1>3. To(rows[i]) <= From(rows[j])
  BY <1>1, <1>2 DEF Strict, To, From
<1>4. ASSUME NEW o \in ToSet(rows[i]), o \in ToSet(rows[j]) PROVE FALSE
  <2>1. PICK m \in DOMAIN rows[i] : o = rows[i][m]
    BY DEF ToSet
  <2>2. PICK n \in DOMAIN rows[j] : o = rows[j][n]
    BY <1>4 DEF ToSet
  <2>3. o \in Observation /\ (o = Last(rows[i]) \/ <<o, Last(rows[i])>> \in b)
    BY <1>1, <2>1, RunFacts
  <2>4. o = rows[j][1] \/ <<rows[j][1], o>> \in b
    BY <1>1, <2>2, RunFacts
  <2> QED BY <1>1, <1>2, <2>3, <2>4 DEF Strict
<1> QED BY <1>3, <1>4

\* What a reading past the segments is taken from: one that ends with the last observation,
\* the same for all such readings.
LEMMA LastSegment ==
  ASSUME NEW b, Strict(b), Arranged(segments, b), segments # <<>>
  PROVE  \E final \in Run(b) :
           /\ Max({To(segments[i]) : i \in DOMAIN segments}) = To(final)
           /\ \A t \in Int : To(final) < t => Chosen(t) = final
<1>1. PICK k \in Nat : k = Len(segments) /\ k >= 1 /\ DOMAIN segments = 1..k /\ segments \in Seq(Run(b))
  BY DEF Arranged
<1>2. \A i \in 1..k : segments[i] \in Run(b)
  BY <1>1
<1>3. \A i \in 1..k : From(segments[i]) \in Int /\ To(segments[i]) \in Int /\ From(segments[i]) <= To(segments[i])
  BY <1>2, RunFacts
<1>4. k \in 1..k /\ \A i \in 1..k : i = k \/ i < k
  BY <1>1
<1>5. ASSUME NEW i \in 1..k PROVE To(segments[i]) <= To(segments[k])
  <2>1. CASE i < k
    <3>1. To(segments[i]) <= From(segments[k])
      BY <1>1, <1>4, <2>1, ArrangedIsApart
    <3> QED BY <1>3, <1>4, <3>1
  <2> QED BY <1>3, <1>4, <2>1
<1>6. PICK ends : ends = {To(segments[i]) : i \in 1..k}
  OBVIOUS
<1>7. Max(ends) = To(segments[k])
  <2>1. ends \subseteq Int /\ To(segments[k]) \in ends
    BY <1>3, <1>4, <1>6
  <2>2. ASSUME NEW x \in ends PROVE x <= To(segments[k])
    BY <1>5, <1>6
  <2> QED BY <2>1, <2>2, GreatestIs
<1>8. PICK final : final = {i \in 1..k : To(segments[i]) = To(segments[k])}
  OBVIOUS
<1>9. PICK f \in final : \A i \in final : f <= i
  <2>1. final \subseteq Nat /\ final # {}
    BY <1>4, <1>8
  <2> QED BY <2>1, LeastNatural
<1>10. f \in 1..k /\ To(segments[f]) = To(segments[k])
  BY <1>8, <1>9
<1>11. ASSUME NEW t \in Int, To(segments[k]) < t PROVE Chosen(t) = segments[f]
  <2>1. ASSUME NEW i \in 1..k PROVE /\ Distance(segments[i], t) = t - To(segments[i])
                                    /\ ~ Covers(segments[i], t)
    <3>1. To(segments[i]) < t
      <4>1. To(segments[i]) \in Int /\ To(segments[k]) \in Int /\ To(segments[i]) <= To(segments[k])
        BY <1>3, <1>4, <1>5
      <4> QED BY <1>11, <4>1
    <3> QED BY <1>2, <3>1, DistancePast
  <2>2. PICK inside : inside = {i \in 1..k : Covers(segments[i], t)}
    OBVIOUS
  <2>3. PICK nearest : nearest = {i \in 1..k : \A j \in 1..k :
                                    Distance(segments[i], t) <= Distance(segments[j], t)}
    OBVIOUS
  <2>4. inside = {}
    BY <2>1, <2>2
  <2>5. ASSUME NEW i \in 1..k, NEW j \in 1..k
        PROVE  Distance(segments[i], t) <= Distance(segments[j], t) <=> To(segments[j]) <= To(segments[i])
    <3>1. To(segments[i]) \in Int /\ To(segments[j]) \in Int
      BY <1>3
    <3> QED BY <2>1, <3>1
  <2>6. nearest = final
    <3>1. ASSUME NEW i \in final PROVE i \in nearest
      <4>1. i \in 1..k /\ To(segments[i]) = To(segments[k])
        BY <1>8
      <4>2. ASSUME NEW j \in 1..k PROVE Distance(segments[i], t) <= Distance(segments[j], t)
        BY <1>5, <2>5, <4>1
      <4> QED BY <2>3, <4>1, <4>2
    <3>2. ASSUME NEW i \in nearest PROVE i \in final
      <4>1. i \in 1..k /\ Distance(segments[i], t) <= Distance(segments[k], t)
        BY <1>4, <2>3
      <4>2. To(segments[k]) <= To(segments[i]) /\ To(segments[i]) <= To(segments[k])
        BY <1>4, <1>5, <2>5, <4>1
      <4>3. To(segments[k]) \in Int /\ To(segments[i]) \in Int
        BY <1>3, <1>4, <4>1
      <4> QED BY <1>8, <4>1, <4>2, <4>3
    <3> QED BY <3>1, <3>2
  <2>7. Min(nearest) = f
    <3>1. nearest \subseteq Int
      BY <2>3
    <3> QED BY <1>9, <2>6, <3>1, LeastIs
  <2> QED BY <1>1, <2>2, <2>3, <2>4, <2>7 DEF Chosen
<1>12. segments[f] \in Run(b)
  BY <1>2, <1>10
<1> QED BY <1>1, <1>6, <1>7, <1>10, <1>11, <1>12

\* Past the last observation, a reading is known the less the further it lies.
LEMMA DoubtGrows ==
  ASSUME NEW b, Strict(b), Arranged(segments, b), segments # <<>>, history \in [Observation -> Int],
         NEW d \in Nat, d >= 1
  PROVE  LET last == Max({To(segments[i]) : i \in DOMAIN segments})
         IN  Sigma(last + d) < Sigma(last + d + 1)
<1>1. PICK last : last = Max({To(segments[i]) : i \in DOMAIN segments})
  OBVIOUS
<1>2. PICK final \in Run(b) : last = To(final) /\ \A t \in Int : last < t => Chosen(t) = final
  BY <1>1, LastSegment
<1>3. PICK first \in Int, z \in Int : first = From(final) /\ z = last /\ first <= z
  BY <1>2, RunFacts
<1>4. PICK fit : fit = Fit(final)
  OBVIOUS
<1>5. FitOK(fit)
  BY <1>2, <1>4, FitFacts
<1>6. ASSUME NEW c \in Nat, c >= 1
      PROVE  Sigma(z + c) = Widened(fit, (z + c) - first, c)
  <2>1. z + c \in Int /\ z < z + c /\ (z + c) - z = c
    BY <1>6
  <2>2. Chosen(z + c) = final
    BY <1>2, <1>3, <2>1
  <2>3. ~ Covers(final, z + c) /\ Distance(final, z + c) = (z + c) - z
    BY <1>2, <1>3, <2>1, DistancePast
  <2>4. FreeRunning * c = c
    BY DEF FreeRunning
  <2>5. FreeRunning * Unobserved(final, z + c) = c
    BY <2>1, <2>3, <2>4 DEF Unobserved
  <2> QED BY <1>3, <1>4, <2>2, <2>5 DEF Sigma, SigmaIn
<1>7. PICK e \in Nat : e = (z + d) - first
  BY <1>3
<1>8. (z + d) + 1 = z + (d + 1) /\ (z + (d + 1)) - first = e + 1 /\ d + 1 \in Nat /\ d + 1 >= 1
  BY <1>7
<1>9. Sigma(z + d) = Widened(fit, e, d)
  BY <1>6, <1>7
<1>10. Sigma(z + (d + 1)) = Widened(fit, e + 1, d + 1)
  BY <1>6, <1>8
<1>11. Widened(fit, e, d) < Widened(fit, e + 1, d + 1)
  BY <1>5, WideningGrows
<1> QED BY <1>1, <1>3, <1>8, <1>9, <1>10, <1>11

LEMMA ArrangedIsSound ==
  ASSUME ClockInv
  PROVE  ClockIsSound
<1>1. PICK b : Strict(b) /\ Arranged(segments, b)
  BY DEF ClockInv
<1>2. \A i, j \in DOMAIN segments : i < j =>
        To(segments[i]) <= From(segments[j]) /\ ToSet(segments[i]) \cap ToSet(segments[j]) = {}
  BY <1>1, ArrangedIsApart
<1>3. PICK last : last = Max({To(segments[i]) : i \in DOMAIN segments})
  OBVIOUS
<1>4. ASSUME segments # <<>>, NEW d \in 1 .. 3 PROVE Sigma(last + d) < Sigma(last + d + 1)
  <2>1. d \in Nat /\ d >= 1
    OBVIOUS
  <2> QED BY <1>1, <1>3, <1>4, <2>1, DoubtGrows DEF ClockInv
<1> QED BY <1>2, <1>3, <1>4 DEF ClockIsSound

\* The order a query returns observations in: by source time, and as it happens within one.
Returned(tie) ==
  {pair \in Observation \X Observation : \/ At[pair[1]] < At[pair[2]]
                                         \/ At[pair[1]] = At[pair[2]] /\ pair \in tie}

LEMMA ReturnedIsStrict ==
  ASSUME NEW tie \in TieOrders
  PROVE  Strict(Returned(tie)) /\ Orders(Returned(tie), Observation)
<1>1. \A o, p \in Observation : <<o, p>> \in tie <=> o # p /\ <<p, o>> \notin tie
  BY TimebaseAssumption
<1>2. \A o, p, q \in Observation : <<o, p>> \in tie /\ <<p, q>> \in tie => <<o, q>> \in tie
  BY TimebaseAssumption
<1>3. \A o, p \in Observation :
        <<o, p>> \in Returned(tie) <=> (At[o] < At[p] \/ (At[o] = At[p] /\ <<o, p>> \in tie))
  BY DEF Returned
<1>4. ASSUME NEW o \in Observation PROVE <<o, o>> \notin Returned(tie)
  BY <1>1, <1>3, AtIsWhole
<1>5. ASSUME NEW o \in Observation, NEW p \in Observation, NEW q \in Observation,
             <<o, p>> \in Returned(tie), <<p, q>> \in Returned(tie)
      PROVE  <<o, q>> \in Returned(tie)
  BY <1>2, <1>3, <1>5, AtIsWhole
<1>6. ASSUME NEW o \in Observation, NEW p \in Observation
      PROVE  o = p \/ <<o, p>> \in Returned(tie) \/ <<p, o>> \in Returned(tie)
  BY <1>1, <1>3, AtIsWhole
<1>7. ASSUME NEW o \in Observation, NEW p \in Observation, <<o, p>> \in Returned(tie) PROVE At[o] <= At[p]
  BY <1>3, <1>7, AtIsWhole
<1> QED BY <1>4, <1>5, <1>6, <1>7 DEF Strict, Orders

\* A fit reads the observations it finds in the order of their source times.
LEMMA LoadedIsRun ==
  ASSUME observed \subseteq Observation, IsFiniteSet(observed), ~ Cardinality(observed) < 2,
         NEW tie \in TieOrders
  PROVE  IsRun(InOrder(observed, tie))
<1>1. PICK S : S = observed
  OBVIOUS
<1>2. PICK before : before = {pair \in S \X S : \/ At[pair[1]] < At[pair[2]]
                                                \/ At[pair[1]] = At[pair[2]] /\ pair \in tie}
  OBVIOUS
<1>3. \A o, p \in S : <<o, p>> \in before <=> <<o, p>> \in Returned(tie)
  BY <1>1, <1>2 DEF Returned
<1>4. Orders(before, S)
  BY <1>1, <1>3, ReturnedIsStrict DEF Orders
<1>5. PICK list : list = Ordered(S, before)
  OBVIOUS
<1>6. PICK k \in Nat : k = Cardinality(S)
  BY <1>1, FS_CardinalityType
<1>7. list \in Seq(S) /\ Len(list) = k /\ \A i, j \in 1..k : i < j => <<list[i], list[j]>> \in before
  BY <1>1, <1>4, <1>5, <1>6, OrderedFacts
<1>8. \A i \in 1..k : list[i] \in S
  BY <1>7
<1>9. list \in Seq(Observation)
  BY <1>1, <1>7
<1>10. \A i, j \in 1..k : i < j => <<list[i], list[j]>> \in Returned(tie)
  BY <1>3, <1>7, <1>8
<1>11. list \in Run(Returned(tie))
  BY <1>1, <1>6, <1>7, <1>9, <1>10 DEF Run
<1>12. IsRun(list)
  BY <1>11, ReturnedIsStrict DEF IsRun
<1> QED BY <1>1, <1>2, <1>5, <1>12 DEF InOrder

LEMMA ClockStep == ClockInv /\ [TimebaseNext]_clockVars => ClockInv'
<1> SUFFICES ASSUME ClockInv, [TimebaseNext]_clockVars PROVE ClockInv'
  OBVIOUS
<1> DEFINE Works(fit) == fit.at \in {"loaded", "storing"} =>
                           fit = [at |-> fit.at, list |-> fit.list] /\ IsRun(fit.list)
<1>1. CASE \E o \in Observation : Observe(o)
  <2>1. PICK o \in Observation : observed' = observed \cup {o} /\ UNCHANGED <<history, fits, segments>>
    BY <1>1 DEF Observe
  <2>2. observed' \subseteq Observation /\ IsFiniteSet(observed')
    BY <2>1, FS_AddElement DEF ClockInv
  <2> QED BY <2>1, <2>2 DEF ClockInv, Arranged
<1>2. CASE \E f \in Fitter, tie \in TieOrders : Load(f, tie)
  <2>1. PICK f \in Fitter, tie \in TieOrders :
          /\ fits' = [fits EXCEPT ![f] = IF Cardinality(observed) < 2 THEN [at |-> "done"]
                                         ELSE [at |-> "loaded", list |-> InOrder(observed, tie)]]
          /\ UNCHANGED <<history, observed, segments>>
    BY <1>2 DEF Load
  <2>2. ASSUME NEW g \in Fitter PROVE Works(fits'[g])
    <3>1. CASE g # f
      BY <2>1, <3>1 DEF ClockInv
    <3>2. CASE g = f /\ Cardinality(observed) < 2
      BY <2>1, <3>2 DEF ClockInv
    <3>3. CASE g = f /\ ~ Cardinality(observed) < 2
      <4>1. PICK list : list = InOrder(observed, tie) /\ IsRun(list)
        BY <3>3, LoadedIsRun DEF ClockInv
      <4>2. fits'[g] = [at |-> "loaded", list |-> list]
        BY <2>1, <3>3, <4>1 DEF ClockInv
      <4> QED BY <4>1, <4>2
    <3> QED BY <3>1, <3>2, <3>3
  <2> QED BY <2>1, <2>2 DEF ClockInv, Arranged
<1>3. CASE \E f \in Fitter : Replace(f)
  <2>1. PICK f \in Fitter : /\ fits[f].at = "loaded" /\ fits' = [fits EXCEPT ![f].at = "storing"]
                            /\ UNCHANGED <<history, observed, segments>>
    BY <1>3 DEF Replace
  <2>2. ASSUME NEW g \in Fitter PROVE Works(fits'[g])
    <3>1. CASE g # f
      BY <2>1, <3>1 DEF ClockInv
    <3>2. CASE g = f
      <4>1. PICK list : fits[f] = [at |-> "loaded", list |-> list] /\ IsRun(list)
        BY <2>1 DEF ClockInv
      <4>2. fits'[f] = [fits[f] EXCEPT !.at = "storing"]
        BY <2>1 DEF ClockInv
      <4>3. fits'[f] = [at |-> "storing", list |-> list]
        BY <4>1, <4>2
      <4> QED BY <3>2, <4>1, <4>3
    <3> QED BY <3>1, <3>2
  <2> QED BY <2>1, <2>2 DEF ClockInv, Arranged
<1>4. CASE \E f \in Fitter : Store(f)
  <2>1. PICK f \in Fitter : Store(f)
    BY <1>4
  <2>2. PICK b : Strict(b) /\ fits[f].list \in Run(b)
    BY <2>1 DEF Store, ClockInv, IsRun
  <2>3. segments' = Segmented(fits[f].list) /\ UNCHANGED <<history, observed>>
    BY <2>1 DEF Store, Rows
  <2>4. Arranged(Segmented(fits[f].list), b)
    BY <2>2, SegmentedIsArranged
  <2>5. \E c : Strict(c) /\ Arranged(segments', c)
    BY <2>2, <2>3, <2>4
  <2>6. PICK answer : fits' = [g \in Fitter |-> IF g = f THEN [at |-> "answered", list |-> fits[f].list, segments |-> answer]
                                               ELSE IF fits[g].at = "storing" THEN [at |-> "done"] ELSE fits[g]]
    BY <2>1 DEF Store
  <2>7. ASSUME NEW g \in Fitter PROVE Works(fits'[g])
    <3>1. CASE g = f \/ fits[g].at = "storing"
      BY <2>6, <3>1
    <3>2. CASE g # f /\ fits[g].at # "storing"
      BY <2>6, <3>2 DEF ClockInv
    <3> QED BY <3>1, <3>2
  <2>8. DOMAIN fits' = Fitter
    BY <2>6
  <2> QED BY <2>3, <2>5, <2>7, <2>8 DEF ClockInv, Arranged, Run, Strict
<1>5. CASE UNCHANGED clockVars
  BY <1>5 DEF clockVars, ClockInv, Arranged
<1> QED BY <1>1, <1>2, <1>3, <1>4, <1>5 DEF TimebaseNext

\* Whatever the clock does, however often it is read at one time, in whatever order readings
\* and fits arrive, and wherever a fit sees a break: the stored segments are those of one
\* fit, one after the other, none sharing an observation with another, and past the last the doubt about a reading grows (timebase.py 196-212, 338-351).
THEOREM ClockStaysSound == Spec => []ClockIsSound
<1>1. Init => ClockInv
  <2> SUFFICES ASSUME Init PROVE ClockInv
    OBVIOUS
  <2>1. Strict({}) /\ Arranged(<<>>, {})
    BY DEF Strict, Arranged
  <2>2. history \in [Observation -> Int]
    BY TimebaseAssumption DEF Init, TimebaseInit
  <2> QED BY <2>1, <2>2, FS_EmptySet DEF Init, TimebaseInit, ClockInv
<1>2. ClockInv /\ [Next]_fisVars => ClockInv'
  BY ServiceSteps, ClockStep
<1>3. ClockInv => ClockIsSound
  BY ArrangedIsSound
<1> QED BY <1>1, <1>2, <1>3, PTL DEF Spec
=============================================================================
