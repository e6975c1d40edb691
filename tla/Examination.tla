----------------------------- MODULE Examination -----------------------------
(***************************************************************************)
(* What looks at an uploaded recording: frames sampled evenly              *)
(* (lib/ingest/frames.ts), examined in batches of at most three, each      *)
(* batch a call through the gateway and retried on its own, and merged     *)
(* into one finding (lib/ingest/detect.ts).  Each examination of a batch   *)
(* is a call of module Gateway; the ledger and the history of a call are   *)
(* dropped with it.                                                        *)
(***************************************************************************)
EXTENDS Gateway, FiniteSetsExt

CONSTANTS
  Duration,   \* lengths a recording may have, in ms; 0 for a still image
  Confidence  \* confidences a proposal may carry, 0 for no proposal

ASSUME ExaminationAssumption ==
  /\ Duration \subseteq Nat
  /\ Confidence \subseteq Nat /\ 0 \in Confidence

VARIABLES
  verdict,  \* of detect: sampling, running, merged, unavailable
  frames,   \* frames large enough to be examined
  batch,    \* the batch being examined
  tries,    \* attempts of this batch that failed
  parts,    \* parts[b]: confidence of what batch b proposed, 0 for nothing
  examined, \* framesExamined
  finding   \* the batch whose situation is proposed, 0 for none

exam == <<verdict, frames, batch, tries, parts, examined, finding>>
examVars == <<vars, exam>>

MaxImages == 3
MaxTries == 3

-----------------------------------------------------------------------------
(* extractFrames *)

Ceil(a, b) == (a + b - 1) \div b

\* an image is its own frame; a recording gives one frame per four seconds, at most 8
Sampled(duration) ==
  IF duration = 0 THEN 1 ELSE Max({1, Min({8, Ceil(duration, 4000)})})

\* frames that do not decode, or that are too small to be examined, are left out
Sample(n) ==
  /\ verdict = "sampling"
  /\ frames' = n
  /\ verdict' = IF n = 0 THEN "unavailable" ELSE "running"
  /\ UNCHANGED <<vars, batch, tries, parts, examined, finding>>

-----------------------------------------------------------------------------
(* detect *)

Batches == Ceil(frames, MaxImages)
SizeOf(b) == IF b < Batches THEN MaxImages ELSE frames - MaxImages * (Batches - 1)

Fresh == phase' = "ready" /\ index' = 1 /\ attempt' = 0 /\ waits' = 0 /\ sent' = <<>> /\ ledger' = <<>>

Working == verdict = "running" /\ batch <= Batches

Call == Working /\ Next /\ UNCHANGED exam

\* examine returns
Part(confidence) ==
  /\ Working /\ phase = "returned"
  /\ parts' = [b \in DOMAIN parts \cup {batch} |-> IF b = batch THEN confidence ELSE parts[b]]
  /\ examined' = examined + SizeOf(batch)
  /\ batch' = batch + 1 /\ tries' = 0
  /\ Fresh
  /\ UNCHANGED <<verdict, frames, finding>>

\* examine throws: the batch is tried again after a pause, and lost the third time
Failed ==
  /\ Working /\ phase = "threw"
  /\ IF tries + 1 < MaxTries THEN tries' = tries + 1 /\ UNCHANGED batch
     ELSE tries' = 0 /\ batch' = batch + 1
  /\ Fresh
  /\ UNCHANGED <<verdict, frames, parts, examined, finding>>

\* the proposal of the highest confidence, the earliest among equals: sort is stable
Strongest(S) ==
  {b \in S : \A c \in S : parts[c] < parts[b] \/ (parts[c] = parts[b] /\ b <= c)}

\* Mutant of Merge: one batch that answered is not enough.
MergeAll ==
  /\ verdict = "running" /\ batch > Batches
  /\ IF Cardinality(DOMAIN parts) < Batches THEN verdict' = "unavailable" /\ UNCHANGED finding
     ELSE /\ verdict' = "merged"
          /\ finding' = Max({0} \cup Strongest({b \in DOMAIN parts : parts[b] > 0}))
  /\ UNCHANGED <<vars, frames, batch, tries, parts, examined>>

\* merge, or the throw of DetectionUnavailable, which the route does not try again
Merge ==
  /\ verdict = "running" /\ batch > Batches
  /\ IF parts = <<>> THEN verdict' = "unavailable" /\ UNCHANGED finding
     ELSE /\ verdict' = "merged"
          /\ finding' = Max({0} \cup Strongest({b \in DOMAIN parts : parts[b] > 0}))
  /\ UNCHANGED <<vars, frames, batch, tries, parts, examined>>

-----------------------------------------------------------------------------
ExamInit ==
  /\ Init
  /\ verdict = "sampling" /\ frames = 0 /\ batch = 1 /\ tries = 0
  /\ parts = <<>> /\ examined = 0 /\ finding = 0

ExamNext ==
  \/ \E duration \in Duration : \E n \in 0..Sampled(duration) : Sample(n)
  \/ Call
  \/ \E confidence \in Confidence : Part(confidence)
  \/ Failed
  \/ Merge

\* as in Gateway, and the pauses between attempts are timers
ExamSpec == ExamInit /\ [][ExamNext]_examVars /\ WF_examVars(ExamNext)

-----------------------------------------------------------------------------
(* Properties *)

\* "a flaky call costs coverage rather than the whole examination": once any batch
\* proposed a situation the finding proposes one, and no weaker than any batch did.
ProposalSurvives ==
  verdict # "running" => \A b \in DOMAIN parts : parts[b] > 0 =>
    finding \in DOMAIN parts /\ parts[finding] >= parts[b]

\* detect ends, in a finding or unavailable, whatever the models answer.
ExaminationEnds == (verdict = "running") ~> (verdict \in {"merged", "unavailable"})

=============================================================================
