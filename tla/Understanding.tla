---------------------------- MODULE Understanding ----------------------------
(***************************************************************************)
(* What one understanding pass makes of an incident (lib/reasoning/        *)
(* pipeline.ts): it reads the observations and their frames, awaits a      *)
(* scene, a context, a legal and a policy answer, drops what is not cited  *)
(* by an observation it read, and stores a package.  A claim is the set of *)
(* ids it cites; hazards and intent hypotheses, which are validated alike, *)
(* are one list of findings.  The models may answer anything their schemas *)
(* allow.  What a pass does to the incident's row is in Incidents.         *)
(*                                                                         *)
(* Meanwhile reports join, a removed source takes its observations away,   *)
(* and files are lost on disk.                                             *)
(***************************************************************************)
EXTENDS Integers, FiniteSets, Sequences, Lists

CONSTANTS
  Obs,             \* ids of the observations that may be in the incident
  Foreign,         \* ids a model may cite that are none of them
  Founder,         \* the observation the incident was detected by
  Capture,         \* [Obs -> [from, to]], minutes from the detection
  Media,           \* [Obs -> "frame", "tiny" (too small to be read), "clip" or "none"]
  MaxFrames,       \* images sent to the scene model, 3 in the code
  Statutes,        \* sections a model may name
  Situations,      \* what counsel cleared, per situation: subsets of Statutes
  SceneAnswers, ContextAnswers, LegalAnswers,
  NoPackage, NoRouting

Ids == Obs \union Foreign
Claim == SUBSET Ids
Line == {"none", "neutral", "listed"}  \* listed: a punitive word of the pattern stands in it

ASSUME UnderstandingAssumption ==
  /\ Obs \subseteq Nat /\ Founder \in Obs
  /\ Capture \in [Obs -> [from : Int, to : Int]]
  /\ \A s \in Situations : s \subseteq Statutes
  /\ NoRouting \notin Line
  /\ \A a \in SceneAnswers :
       /\ a.findings \in Seq(Claim) /\ a.agrees \in BOOLEAN
       /\ a.actors \subseteq Claim /\ a.violation \subseteq Claim
       /\ IsFiniteSet(a.violation) /\ Cardinality(a.violation) <= 1
  /\ \A a \in ContextAnswers :
       a.factors \in Seq(Claim) /\ a.next \in Claim /\ a.chain \in Nat
  /\ \A a \in LegalAnswers : a.sections \subseteq Statutes /\ a.line \in Line

VARIABLES
  attached,        \* observations whose incident_id is this incident
  removed,         \* observations that went with their source
  lost,            \* observations whose file is gone from disk
  cleared,         \* the sections cleared for the incident's situation
  stage,           \* what the pass awaits, or "idle"
  read,            \* validIds
  scene, context, legal, line,
  claimsSeen, dropped,
  stored           \* package_json

world == <<attached, removed, lost, cleared>>
draft == <<read, scene, context, legal, line, claimsSeen, dropped>>
understandingVars == <<world, stage, draft, stored>>

----------------------------------------------------------------------------
(* Helpers *)

Precedes(o, p) ==
  \/ Capture[o].from < Capture[p].from
  \/ Capture[o].from = Capture[p].from /\ o < p

\* observationsForIncident, ORDER BY t_start
InOrder(S) == Ordered(S, {pair \in Obs \X Obs : Precedes(pair[1], pair[2])})

\* validIds.slice(0, 1)
Earliest(S) == {o \in S : \A p \in S \ {o} : Precedes(o, p)}

\* boardFor: an entry per medium; at most MaxFrames images are offered to the model
Tiles(S) == {o \in S : Media[o] \in {"frame", "tiny", "clip"}}
Offered(S) ==
  {o \in S : /\ Media[o] = "frame"
             /\ Cardinality({p \in S : Media[p] = "frame" /\ Precedes(p, o)}) < MaxFrames}

\* Mutant of Kept: one id that was read is enough.
KeptIfSome(claims) == {i \in DOMAIN claims : claims[i] \intersect read # {}}

\* validateClaims: the places of the claims that are kept
Kept(claims) == {i \in DOMAIN claims : claims[i] # {} /\ claims[i] \subseteq read}
DroppedOf(claims) == Len(claims) - Cardinality(Kept(claims))

\* a claim tested with `every` alone: one that cites nothing passes
Resolving(claims) == {c \in claims : c \subseteq read}

\* contributing_factors[i] after the others have closed up
Nth(factors, i) ==
  {k \in DOMAIN factors : Cardinality({j \in DOMAIN factors : j <= k}) = i}

Carried(i) ==
  LET at == Nth(context.factors, i)
  IN  IF at # {} THEN UNION {context.factors[k] : k \in at} ELSE Earliest(read)

\* coverageOf: minutes of the window [-2, 3] around the detection, of Span
From == -2
Until == 3
Span == Until - From

Smaller(a, b) == IF a < b THEN a ELSE b
Larger(a, b) == IF a > b THEN a ELSE b

Cover(sofar, o) ==
  LET end == Smaller(Capture[o].to, Until)
  IN  IF end <= sofar.cursor THEN sofar
      ELSE [covered |-> sofar.covered + end - Larger(Capture[o].from, sofar.cursor),
            cursor |-> end]

Coverage ==
  LET rows == InOrder(attached)
      swept[n \in 0..Len(rows)] ==
        IF n = 0 THEN [covered |-> 0, cursor |-> From] ELSE Cover(swept[n - 1], rows[n])
  IN  Smaller(Span, swept[Len(rows)].covered)

\* citationValidity, rounded to thousandths; a context answer always adds a claim
Validity == (2000 * (claimsSeen - dropped) + claimsSeen) \div (2 * claimsSeen)

\* the item "every claim carries evidence" of the admissibility list
Citations ==
  IF Validity >= 990 THEN "met" ELSE IF Validity >= 800 THEN "partial" ELSE "unmet"

----------------------------------------------------------------------------
(* The pass *)

NoScene == [findings |-> <<>>, actors |-> {}, violation |-> {}, agrees |-> TRUE]
NoContext == [factors |-> <<>>, next |-> {}, chain |-> 0]

NoDraft ==
  /\ read = {} /\ scene = NoScene /\ context = NoContext
  /\ legal = {} /\ line = "none" /\ claimsSeen = 0 /\ dropped = 0

Begin ==
  /\ stage = "idle" /\ stage' = "frames"
  /\ read' = attached
  /\ UNCHANGED <<world, scene, context, legal, line, claimsSeen, dropped, stored>>

\* GET: the stored package is answered as it is
Open == stored = NoPackage /\ Begin

\* POST, or GET with refresh=1
Refresh == stored # NoPackage /\ Begin

\* one file that cannot be read ends the pass
ReadFrames ==
  /\ stage = "frames" /\ stage' = "scene"
  /\ \A o \in Offered(read) : o \notin lost
  /\ UNCHANGED <<world, draft, stored>>

SceneCall ==
  /\ stage = "scene" /\ stage' = "context"
  /\ \E a \in SceneAnswers :
       /\ scene' = [findings |-> [i \in Kept(a.findings) |-> a.findings[i]],
                    actors |-> Resolving(a.actors),
                    violation |-> Resolving(a.violation),
                    agrees |-> a.agrees]
       /\ claimsSeen' = Len(a.findings) + Cardinality(a.violation)
       /\ dropped' = DroppedOf(a.findings) + Cardinality(a.violation \ Resolving(a.violation))
  /\ UNCHANGED <<world, read, context, legal, line, stored>>

\* what happens next is kept without its citations when one does not resolve
Contexted(before) ==
  /\ stage = "context"
  /\ \E a \in ContextAnswers :
       LET next == UNION Resolving({a.next})
       IN  /\ context' = [factors |-> [i \in Kept(a.factors) |-> a.factors[i]],
                          next |-> next, chain |-> a.chain]
           /\ claimsSeen' = claimsSeen + Len(a.factors) + 1
           /\ dropped' = before + DroppedOf(a.factors) + (IF next = {} THEN 1 ELSE 0)
  /\ stage' = IF cleared = {} THEN "guard" ELSE "legal"
  /\ UNCHANGED <<world, read, scene, legal, line, stored>>

\* Mutant of ContextCall: the number dropped is assigned, not added to.
ContextCallForgetting == Contexted(0)

ContextCall == Contexted(dropped)

\* Mutant of LegalCall: the disagreement is left to the prompt.
LegalCallTrusting ==
  /\ stage = "legal" /\ stage' = "guard"
  /\ \E a \in LegalAnswers :
       legal' = a.sections \intersect cleared /\ line' = a.line /\ UNCHANGED dropped
  /\ UNCHANGED <<world, read, scene, context, claimsSeen, stored>>

LegalCall ==
  /\ stage = "legal" /\ stage' = "guard"
  /\ \E a \in LegalAnswers :
       LET selected == a.sections \intersect cleared
       IN  IF scene.agrees
           THEN legal' = selected /\ line' = a.line /\ UNCHANGED dropped
           ELSE /\ legal' = {}
                /\ line' = IF a.line = "listed" THEN "neutral" ELSE a.line
                /\ dropped' = dropped + (IF selected # {} THEN 1 ELSE 0)
  /\ UNCHANGED <<world, read, scene, context, claimsSeen, stored>>

Package(verdict) ==
  [ids |-> read, board |-> Tiles(read),
   scene |-> scene, legal |-> legal,
   factors |-> context.factors, next |-> context.next,
   causal |-> {Carried(i) : i \in 1..context.chain},
   \* an empty line is replaced by an instruction to verify on site
   routing |-> IF verdict = "blocked" THEN NoRouting
               ELSE IF line = "none" THEN "neutral" ELSE line,
   validity |-> Validity, citations |-> Citations, coverage |-> Coverage,
   claims |-> claimsSeen,
   over |-> attached]   \* history: what coverageOf read

\* the policy audit sees scene, context, severity and statutes; its redactions are kept
\* beside the package and applied to nothing
GuardCall ==
  /\ stage = "guard" /\ stage' = "idle"
  /\ \E verdict \in {"pass", "redacted", "blocked"} : stored' = Package(verdict)
  /\ read' = {} /\ scene' = NoScene /\ context' = NoContext
  /\ legal' = {} /\ line' = "none" /\ claimsSeen' = 0 /\ dropped' = 0
  /\ UNCHANGED world

\* a file is gone, a model call has failed for good, or the process died
Fails ==
  /\ stage # "idle" /\ stage' = "idle"
  /\ read' = {} /\ scene' = NoScene /\ context' = NoContext
  /\ legal' = {} /\ line' = "none" /\ claimsSeen' = 0 /\ dropped' = 0
  /\ UNCHANGED <<world, stored>>

----------------------------------------------------------------------------
(* What happens meanwhile *)

Attach(o) ==
  /\ o \notin attached \union removed /\ attached' = attached \union {o}
  /\ UNCHANGED <<removed, lost, cleared, stage, draft, stored>>

\* deleteSource, whose deletion cascades to the observations
Cascade(o) ==
  /\ o \in attached /\ attached' = attached \ {o} /\ removed' = removed \union {o}
  /\ UNCHANGED <<lost, cleared, stage, draft, stored>>

LoseFile(o) ==
  /\ o \in attached \ lost /\ Media[o] # "none"
  /\ lost' = lost \union {o}
  /\ UNCHANGED <<attached, removed, cleared, stage, draft, stored>>

UnderstandingInit ==
  /\ attached = {Founder} /\ removed = {} /\ lost = {}
  /\ cleared \in Situations
  /\ stage = "idle" /\ NoDraft /\ stored = NoPackage

UnderstandingNext ==
  \/ Open \/ Refresh \/ ReadFrames \/ SceneCall \/ ContextCall \/ LegalCall \/ GuardCall \/ Fails
  \/ \E o \in Obs : Attach(o) \/ Cascade(o) \/ LoseFile(o)

----------------------------------------------------------------------------
(* Properties *)

Values(f) == {f[i] : i \in DOMAIN f}

\* Every citation in a stored package, also those the causal graph carries from the
\* factors, is of an observation the pass that stored it had read, and findings and
\* factors cite at least one (pipeline.ts 30: a claim citing an id that is not in the
\* evidence set is dropped before storage).
CitesWhatItRead(p) ==
  /\ \A c \in Values(p.scene.findings) \union Values(p.factors) : c # {} /\ c \subseteq p.ids
  /\ \A c \in p.scene.actors \union p.scene.violation \union p.causal : c \subseteq p.ids
  /\ p.next \subseteq p.ids

PackageIsCited == stored # NoPackage => CitesWhatItRead(stored)

\* The statutes of a package are ones counsel cleared for the situation, and when the
\* scene pass disagreed with the trigger, two model calls earlier, there are none and
\* the line that is routed names no penalty of the list.
StatutesAreEarned ==
  stored # NoPackage =>
    /\ stored.legal \subseteq cleared
    /\ ~stored.scene.agrees => stored.legal = {} /\ stored.routing # "listed"

\* What a stored package says was read, and what it threatens was cleared: neither late
\* reports, nor what one answer leaves for the next, lets a claim or a statute in.
PackageIsSound == PackageIsCited /\ StatutesAreEarned

\* A package that lists "every claim carries evidence" as met kept the claims the models
\* made, of the scene and of the context: what one stage dropped stays counted until the
\* rate is computed, three awaits later.  Of up to 95 claims none is missing; of more, one
\* in 95 may be: 95/96, rounded to thousandths, is 0.99.
MetIsKept ==
  stored # NoPackage /\ stored.citations = "met" =>
    LET kept == Cardinality(DOMAIN stored.scene.findings) + Cardinality(stored.scene.violation)
                + Cardinality(DOMAIN stored.factors) + 1
    IN  2000 * (stored.claims - kept) <= 21 * stored.claims

\* The coverage of a package never claims more of the incident's window than the
\* observations it is computed from, however they overlap, have seen (pipeline.ts 498).
Seen(S) == {t \in From..(Until - 1) : \E o \in S : Capture[o].from <= t /\ t < Capture[o].to}

CoverageIsSeen ==
  stored # NoPackage => stored.coverage <= Cardinality(Seen(stored.over))

\* The two rates of a package, accumulated over several steps of a pass, promise no more
\* than was kept and seen.
RatesAreEarned == MetIsKept /\ CoverageIsSeen

\* The citation validity of a package is a share (api/schemas/incident.ts 173, against
\* which the console parses every package it is sent).
ValidityIsAShare == stored # NoPackage => stored.validity \in 0..1000
=============================================================================
