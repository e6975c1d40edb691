------------------------------ MODULE Reasoning ------------------------------
(***************************************************************************)
(* The places where the console waits for a model and acts on what comes   *)
(* back: the examination of a recording, with the gateway under it, the    *)
(* investigation loop of an incident, the stages of an understanding pass, *)
(* and the query console.  They share no state, so a behaviour exercises   *)
(* one of them.                                                            *)
(***************************************************************************)
EXTENDS Examination, Hypotheses, Query, Understanding

VARIABLE work   \* the part a behaviour is about
reasoningVars == <<examVars, hypothesesVars, queryVars, understandingVars, work>>

ReasoningInit ==
  /\ work \in {"examination", "investigation", "query", "understanding"}
  /\ ExamInit /\ HypothesesInit /\ QueryInit /\ UnderstandingInit
  \* what the others do not look at is one and the same
  /\ work # "query" => keyed
  /\ work # "understanding" => cleared = CHOOSE c \in Situations : TRUE

ReasoningNext ==
  /\ UNCHANGED work
  /\ \/ work = "examination" /\ ExamNext
        /\ UNCHANGED <<hypothesesVars, queryVars, understandingVars>>
     \/ work = "investigation" /\ HypothesesNext
        /\ UNCHANGED <<examVars, queryVars, understandingVars>>
     \/ work = "query" /\ QueryNext
        /\ UNCHANGED <<examVars, hypothesesVars, understandingVars>>
     \/ work = "understanding" /\ UnderstandingNext
        /\ UNCHANGED <<examVars, hypothesesVars, queryVars>>

ReasoningSpec ==
  /\ ReasoningInit /\ [][ReasoningNext]_reasoningVars
  /\ WF_examVars(work = "examination" /\ ExamNext)
=============================================================================
