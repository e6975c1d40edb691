----------------------------- MODULE MCReasoning -----------------------------
(* The chain of the scene role, whose primary takes a schema and whose         *)
(* fallback takes json_object; two sources, two calls and answers of up to two *)
(* competitors: priors near both thresholds, one out of range, an empty answer.*)
(* Questions about a day and about the whole time, and one that is screened.   *)
(* A founding frame and one that overlaps it and runs past the window; one     *)
(* image is offered.  Answers of a pass that cite what was read, what was not, *)
(* nothing at all, and answers without claims; a situation with a statute and  *)
(* one with none.                                                              *)
EXTENDS Reasoning

SceneChain == <<"qwen3.8", "qwen3.6">>
SceneObjectMode == {"qwen3.6"}

CONSTANTS H1, H2, Device, Camera

Item(prior, asks) == [prior |-> prior, asks |-> asks]

Pair == {<<Item(60, <<Device>>), Item(105, <<Camera>>)>>, <<Item(33, <<Camera>>)>>, <<>>}

TheQuestions == {[days |-> 1, screened |-> FALSE], [days |-> 2, screened |-> FALSE], [days |-> 2, screened |-> TRUE]}

Captures == <<[from |-> -1, to |-> 1], [from |-> 0, to |-> 5]>>
Kinds == <<"frame", "frame">>

SceneAnswer(findings, violation, agrees) ==
  [findings |-> findings, actors |-> {{2}, {9}}, violation |-> violation, agrees |-> agrees]
Scenes == {SceneAnswer(<<{1}, {9}>>, {{2}}, TRUE), SceneAnswer(<<{1, 2}>>, {{}}, TRUE),
           SceneAnswer(<<>>, {}, FALSE)}

Contexts == {[factors |-> <<{2}, {1}>>, next |-> {1}, chain |-> 2],
             [factors |-> <<>>, next |-> {9}, chain |-> 1]}

Legals == {[sections |-> {"s129", "s999"}, line |-> "listed"],
           [sections |-> {}, line |-> "none"]}
=============================================================================
