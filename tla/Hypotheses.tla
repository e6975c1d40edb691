------------------------------ MODULE Hypotheses ------------------------------
(***************************************************************************)
(* The investigation loop of one incident (lib/store/hypotheses.ts):       *)
(* competing explanations generated by a model call, the retrieval         *)
(* requests that separate them, and the posteriors a pulled request moves. *)
(* Code between awaits is atomic; each statement of a handler is committed *)
(* by itself, so the process may die between two of them.  Probabilities   *)
(* are hundredths; the priors a model answers are hundredths too.  The     *)
(* evidence ids a returned request adds decide nothing and are left out.   *)
(***************************************************************************)
EXTENDS Integers, FiniteSets, Sequences, SequencesExt, Lists

CONSTANTS
  Hyp,             \* hypothesis ids
  Source,          \* ids of registered sources near the incident
  Caller,          \* requests to generate that may be in flight together
  Answers,         \* what the model may answer: sequences of [prior, asks]
  Absent,
  MaxCalls, MaxEffort, MaxRemovals   \* bounds: a call counts for two pulls

ASSUME AnswersAssumption ==
  Answers \subseteq Seq([prior : Int, asks : Seq(Source)])

VARIABLES
  hyps,      \* the rows of hypotheses, each with its requests (ON DELETE CASCADE)
  sources,   \* sources registered now
  calls,     \* what each generation in flight has read: the known sources, or Absent
  counts,    \* history: calls made, pulls made, sources removed
  torn       \* history: a generations that died between two statements

hypothesesVars == <<hyps, sources, calls, counts, torn>>

Present == {h \in Hyp : hyps[h] # Absent}

Clamp(x, low, high) == IF x < low THEN low ELSE IF x > high THEN high ELSE x

-----------------------------------------------------------------------------
\* generateHypotheses up to its await; the record of an incident is never empty
Ask(c) ==
  /\ counts.calls < MaxCalls
  /\ calls[c] = Absent
  /\ calls' = [calls EXCEPT ![c] = sources]
  /\ counts' = [counts EXCEPT !.calls = @ + 1]
  /\ UNCHANGED <<hyps, sources, torn>>

\* the call throws: what is stored is returned
AnswerLost(c) ==
  /\ calls[c] # Absent
  /\ calls' = [calls EXCEPT ![c] = Absent]
  /\ UNCHANGED <<hyps, sources, counts, torn>>

\* of each hypothesis the requests of known sources, and of the hypotheses those with any
Asking == [prior : Int, asks : Seq(Source) \ {<<>>}]
Testable(answer, known) ==
  Filter([i \in DOMAIN answer |-> [answer[i] EXCEPT !.asks = Filter(@, known)]], Asking)

NewRow(item, n) ==
  LET prior == Clamp(item.prior, 0, 100)
  IN [prior |-> prior, posterior |-> prior, status |-> "open",
      requests |-> [j \in 1..n |-> [source |-> item.asks[j], state |-> "queued"]]]

\* Mutant of Survivors: the delete forgets the status.
SurvivorsNone(rows) == {}

Survivors(rows) == {h \in Hyp : rows[h] # Absent /\ rows[h].status # "open"}

\* The rows after the delete and the inserts of the first n hypotheses, the
\* last of them with only its first k requests.
Inserted(ids, items, n, k) ==
  [h \in Hyp |->
    IF h \in Survivors(hyps) THEN hyps[h]
    ELSE IF \E i \in 1..n : ids[i] = h
    THEN LET i == CHOOSE i \in 1..n : ids[i] = h
         IN NewRow(items[i], IF i = n THEN k ELSE Len(items[i].asks))
    ELSE Absent]

FreshIds(n) == {ids \in [1..n -> Hyp \ Survivors(hyps)] : IsInjective(ids)}

\* the rest of generateHypotheses
Generate(c) ==
  /\ calls[c] # Absent
  /\ \E answer \in Answers :
       LET items == Testable(answer, calls[c])
           last  == IF items = <<>> THEN 0 ELSE Len(Last(items).asks)
       IN \E ids \in FreshIds(Len(items)) : hyps' = Inserted(ids, items, Len(items), last)
  /\ calls' = [calls EXCEPT ![c] = Absent]
  /\ UNCHANGED <<sources, counts, torn>>

\* the process dies within it; with it die the other calls in flight
GenerateCut(c) ==
  /\ calls[c] # Absent
  /\ \E answer \in Answers :
       LET items == Testable(answer, calls[c])
       IN \E n \in 0..Len(items) :
          \E k \in IF n = 0 THEN {0} ELSE 0..Len(items[n].asks) :
          \E ids \in FreshIds(n) : hyps' = Inserted(ids, items, n, k)
  /\ calls' = [x \in Caller |-> Absent]
  /\ torn' = torn + 1
  /\ UNCHANGED <<sources, counts>>

-----------------------------------------------------------------------------
\* Mutant of Label: nothing is refuted by a number any more.
LabelOneSided(x, n, kept) == IF x >= 70 * n THEN {"supported"} ELSE {kept}

\* The label of x/n hundredths.  Exactly 0.15 is compared as a double that may
\* lie on either side (0.05 + 0.1 above it, 0.25 - 0.1 on it).
Label(x, n, kept) ==
  IF x >= 70 * n THEN {"supported"}
  ELSE IF x < 15 * n THEN {"refuted"}
  ELSE IF x = 15 * n THEN {"refuted", kept} ELSE {kept}

\* Math.round of x/n, for positive x
Rounded(x, n) == (2 * x + n) \div (2 * n)

\* n times the posterior of a sibling after its share of delta
Shift(row, delta, n) == Clamp(row.posterior * n - delta, n, 99 * n)

Siblings(h) == Present \ {h}
Shares(h) == IF Siblings(h) = {} THEN 1 ELSE Cardinality(Siblings(h))
Delta(hit) == IF hit THEN 18 ELSE -10
Own(h, hit) == Clamp(hyps[h].posterior + Delta(hit), 1, 99)

\* the labels the update may give to the hypothesis pulled for and to the others
Labels(h, hit) ==
  LET n == Shares(h)
      may(s) == IF s = h THEN Label(Own(h, hit), 1, "open")
                ELSE Label(Shift(hyps[s], Delta(hit), n), n, hyps[s].status)
  IN {labels \in [Present -> {"open", "supported", "refuted"}] : \A s \in Present : labels[s] \in may(s)}

PullAnswered(h, j, hit) ==
  [hyps[h] EXCEPT !.requests[j].state = IF hit THEN "returned" ELSE "unavailable"]

Moved(h, j, hit, labels) ==
  [s \in Present |->
    IF s = h
    THEN [PullAnswered(h, j, hit) EXCEPT !.posterior = Own(h, hit), !.status = labels[h]]
    ELSE [hyps[s] EXCEPT !.status = labels[s],
            !.posterior = Rounded(Shift(hyps[s], Delta(hit), Shares(h)), Shares(h))]]

Asked(h, j) ==
  /\ 2 * counts.calls + counts.pulls < MaxEffort
  /\ h \in Present /\ j \in DOMAIN hyps[h].requests
  /\ counts' = [counts EXCEPT !.pulls = @ + 1]

\* pullRequest: what the window holds is whatever was ingested meanwhile
Pull(h, j) ==
  /\ Asked(h, j)
  /\ \E hit \in BOOLEAN : \E labels \in Labels(h, hit) :
       hyps' = [s \in Hyp |-> IF s \in Present THEN Moved(h, j, hit, labels)[s] ELSE hyps[s]]
  /\ UNCHANGED <<sources, calls, torn>>

\* what a death leaves written: the request alone, or the hypothesis and some siblings
Written(h) == {{}} \union {{h} \union some : some \in SUBSET Siblings(h) \ {Siblings(h)}}

\* the process dies within it
PullCut(h, j) ==
  /\ Asked(h, j)
  /\ \E hit \in BOOLEAN : \E labels \in Labels(h, hit) :
     \E done \in Written(h) :
       hyps' = [s \in Hyp |-> IF s \in done THEN Moved(h, j, hit, labels)[s]
                              ELSE IF s = h THEN PullAnswered(h, j, hit) ELSE hyps[s]]
  /\ calls' = [x \in Caller |-> Absent]
  /\ UNCHANGED <<sources, torn>>

\* DELETE of a source of the registry, and its registration
RemoveSource(s) ==
  /\ counts.removals < MaxRemovals
  /\ s \in sources
  /\ sources' = sources \ {s}
  /\ counts' = [counts EXCEPT !.removals = @ + 1]
  /\ UNCHANGED <<hyps, calls, torn>>

RegisterSource(s) ==
  /\ s \notin sources
  /\ sources' = sources \union {s}
  /\ UNCHANGED <<hyps, calls, counts, torn>>

HypothesesInit ==
  /\ hyps = [h \in Hyp |-> Absent]
  /\ sources = Source
  /\ calls = [c \in Caller |-> Absent]
  /\ counts = [calls |-> 0, pulls |-> 0, removals |-> 0]
  /\ torn = 0

HypothesesNext ==
  \/ \E c \in Caller : Ask(c) \/ AnswerLost(c) \/ Generate(c) \/ GenerateCut(c)
  \/ \E h \in Present : \E j \in DOMAIN hyps[h].requests : Pull(h, j) \/ PullCut(h, j)
  \/ \E s \in Source : RemoveSource(s) \/ RegisterSource(s)

-----------------------------------------------------------------------------
\* A hypothesis that names no retrieval is kept only where a death cut its inserts
\* short, one for each death (hypotheses.ts:18-20), and however the siblings drag a
\* settled hypothesis about, it never carries one label with a number beyond the
\* threshold of the other.
LabelsAreEarned ==
  /\ Cardinality({h \in Present : hyps[h].requests = <<>>}) <= torn
  /\ \A h \in Present :
       /\ hyps[h].status = "supported" => hyps[h].posterior >= 15
       /\ hyps[h].status = "refuted" => hyps[h].posterior <= 70

\* A generation removes no hypothesis that is settled when it writes, those
\* settled while its call was in flight included, and changes nothing in them.
SettledSurvive ==
  [][(\E c \in Caller : calls[c] # Absent /\ calls'[c] = Absent /\ counts' = counts)
       => \A h \in Present : hyps[h].status # "open" => hyps'[h] = hyps[h]]_hypothesesVars

=============================================================================
