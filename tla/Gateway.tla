------------------------------- MODULE Gateway -------------------------------
(***************************************************************************)
(* One call through the model gateway: the fallback chain, the corrective  *)
(* retry of object mode, the waits on capacity signals and the ledger      *)
(* (lib/groq/client.ts).  Calls share nothing but the ledger, so one is    *)
(* enough.  The gateway is configured, and an insert into the ledger       *)
(* succeeds.                                                               *)
(***************************************************************************)
EXTENDS Integers, FiniteSets, Sequences, SequencesExt, Lists

CONSTANTS
  Chain,          \* the primary model and its fallback
  ObjectMode,     \* models of the chain that take json_object only
  Structured,     \* the caller passes a schema
  CapacityRetries \* waits on 498 and 429 per model (3)

ASSUME ChainAssumption ==
  /\ Chain \in Seq(ToSet(Chain)) /\ Chain # <<>> /\ IsInjective(Chain)
  /\ ObjectMode \subseteq ToSet(Chain)
  /\ Structured \in BOOLEAN
  /\ CapacityRetries \in Nat

VARIABLES
  phase,    \* of the call: ready to send, awaiting an answer, backing off, returned, threw
  index,    \* position in the chain
  attempt,  \* attempts of this model already failed
  waits,    \* capacityRetries
  sent,     \* history: model and outcome of every request
  ledger    \* rows of model_calls

vars == <<phase, index, attempt, waits, sent, ledger>>

Model == Chain[index]

Attempts(model) == IF Structured /\ model \in ObjectMode THEN 2 ELSE 1

Outcome == {"capacity", "refused", "unreadable", "truncated", "unusable", "usable"}

Row(ok) == [model |-> Model, ok |-> ok, fallback |-> index > 1]

-----------------------------------------------------------------------------
Send ==
  /\ phase = "ready"
  /\ phase' = "awaiting"
  /\ UNCHANGED <<index, attempt, waits, sent, ledger>>

\* the catch block and the two loop headers
NextAttempt ==
  IF attempt + 1 < Attempts(Model)
  THEN phase' = "ready" /\ attempt' = attempt + 1 /\ UNCHANGED <<index, waits>>
  ELSE IF index < Len(Chain)
  THEN phase' = "ready" /\ attempt' = 0 /\ waits' = 0 /\ index' = index + 1
  ELSE phase' = "threw" /\ UNCHANGED <<index, attempt, waits>>

Log(outcome, rows) ==
  /\ phase = "awaiting"
  /\ sent' = Append(sent, [model |-> Model, outcome |-> outcome])
  /\ ledger' = ledger \o rows

\* Mutants of Capacity: the wait uses up an attempt; the waits are not counted.
CapacityBurns ==
  /\ Log("capacity", <<Row(FALSE)>>)
  /\ IF waits < CapacityRetries /\ attempt + 1 < Attempts(Model)
     THEN phase' = "backoff" /\ waits' = waits + 1 /\ attempt' = attempt + 1 /\ UNCHANGED index
     ELSE NextAttempt

CapacityUncounted ==
  /\ phase = "awaiting"
  /\ phase' = "backoff"
  /\ UNCHANGED <<index, attempt, waits, sent, ledger>>

\* 498 or 429: wait and send the same attempt again, a bounded number of times
Capacity ==
  /\ Log("capacity", <<Row(FALSE)>>)
  /\ IF waits < CapacityRetries
     THEN phase' = "backoff" /\ waits' = waits + 1 /\ UNCHANGED <<index, attempt>>
     ELSE NextAttempt

BackoffOver ==
  /\ phase = "backoff"
  /\ phase' = "ready"
  /\ UNCHANGED <<index, attempt, waits, sent, ledger>>

Refused == Log("refused", <<Row(FALSE)>>) /\ NextAttempt

\* fetch throws, the 120 s timeout aborts it, or the body does not parse
Unreadable == Log("unreadable", <<>>) /\ NextAttempt

\* finish_reason length
Truncated == Log("truncated", <<Row(FALSE)>>) /\ NextAttempt

\* the answer is recorded, and then parseStructured throws
Unusable == Structured /\ Log("unusable", <<Row(TRUE)>>) /\ NextAttempt

Usable ==
  /\ Log("usable", <<Row(TRUE)>>)
  /\ phase' = "returned"
  /\ UNCHANGED <<index, attempt, waits>>

Answered == Capacity \/ Refused \/ Unreadable \/ Truncated \/ Unusable \/ Usable

Init ==
  /\ phase = "ready" /\ index = 1 /\ attempt = 0 /\ waits = 0
  /\ sent = <<>> /\ ledger = <<>>

Next == Send \/ Answered \/ BackoffOver

\* fetch carries a timeout and the back-off is a timer: neither waits for ever
Spec == Init /\ [][Next]_vars /\ WF_vars(Send) /\ WF_vars(Answered) /\ WF_vars(BackoffOver)

-----------------------------------------------------------------------------
(* Properties *)

Count(model, outcomes) == Len(Filter(sent, [model : {model}, outcome : outcomes]))

\* capacity signals beyond the ones that are waited out
Excess(model) ==
  LET n == Count(model, {"capacity"}) IN IF n > CapacityRetries THEN n - CapacityRetries ELSE 0

Spent(model) == Count(model, Outcome \ {"capacity", "usable"}) + Excess(model)

\* "Falling through to a weaker model on a transient capacity signal would quietly
\* degrade every assessment": a model is left behind only when real failures, and
\* capacity signals past the waits, have used up every attempt it is entitled to.
FallbackIsEarned ==
  \A n \in 1..(IF phase = "threw" THEN index ELSE index - 1) :
    Spent(Chain[n]) = Attempts(Chain[n])

=============================================================================
