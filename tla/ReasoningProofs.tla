--------------------------- MODULE ReasoningProofs ---------------------------
(***************************************************************************)
(* Theorems about what the models are asked and what becomes of their      *)
(* answers, for any answers: the citations, statutes and rates of a        *)
(* package, the citations of a query, the hypotheses that survive a        *)
(* generation and the labels they bear, the fall through the chain of      *)
(* models, and the proposals of an examination.                            *)
(***************************************************************************)
EXTENDS Reasoning, ListFacts, FiniteSetTheorems

\* the claims of a stage are cited, by observations the pass has read
Cited(claims) == \A i \in DOMAIN claims : claims[i] # {} /\ claims[i] \subseteq read

\* What a pass holds between two awaits cites what it read.
DraftCites ==
  /\ Cited(scene.findings) /\ Cited(context.factors)
  /\ \A c \in scene.actors \union scene.violation : c \subseteq read
  /\ context.next \subseteq read

\* Statutes come with the legal answer alone, and go when the scene disagrees.
DraftIsEarned ==
  /\ legal \subseteq cleared
  /\ stage # "guard" => legal = {} /\ line = "none"
  /\ ~scene.agrees => legal = {} /\ line # "listed"

\* A pass holds nothing before the answer it would be from.
DraftIsFresh ==
  /\ stage \in {"idle", "frames", "scene"} => scene = NoScene
  /\ stage \in {"idle", "frames", "scene", "context"} => context = NoContext

DraftInv == DraftCites /\ DraftIsEarned /\ DraftIsFresh
PassInv == DraftInv /\ PackageIsCited /\ StatutesAreEarned

\* Whatever has been read, a pass that has no answer yet holds no claim.
LEMMA NothingHeld ==
  ASSUME scene' = NoScene, context' = NoContext, legal' = {}, line' = "none"
  PROVE  DraftInv'
<1>1. DraftCites'
  BY DEF DraftCites, Cited, NoScene, NoContext
<1>2. DraftIsEarned' /\ DraftIsFresh'
  BY DEF DraftIsEarned, DraftIsFresh, NoScene
<1> QED
  BY <1>1, <1>2 DEF DraftInv

\* A package that stays is cited and earned as before: the situation of an incident
\* never changes.
LEMMA SamePackage ==
  ASSUME PassInv, UNCHANGED <<stored, cleared>>
  PROVE  PackageIsCited' /\ StatutesAreEarned'
  BY DEF PassInv, PackageIsCited, StatutesAreEarned, CitesWhatItRead, Values

\* The causal graph carries the evidence of a kept factor, or that of the earliest
\* observation read.
LEMMA CarriedWasRead ==
  ASSUME DraftCites, NEW i \in Int
  PROVE  Carried(i) \subseteq read
<1>1. Nth(context.factors, i) \subseteq DOMAIN context.factors
  BY DEF Nth
<1>2. \A k \in DOMAIN context.factors : context.factors[k] \subseteq read
  BY DEF DraftCites, Cited
<1>3. UNION {context.factors[k] : k \in Nth(context.factors, i)} \subseteq read
  BY <1>1, <1>2
<1>4. Earliest(read) \subseteq read
  BY DEF Earliest
<1> QED
  BY <1>3, <1>4 DEF Carried

\* The package built from such a draft cites what the pass read.
LEMMA BuiltIsCited ==
  ASSUME DraftCites, NEW ruling
  PROVE  CitesWhatItRead(Package(ruling))
<1> DEFINE p == Package(ruling)
<1>1. /\ p.ids = read /\ p.scene = scene /\ p.factors = context.factors
      /\ p.next = context.next /\ p.causal = {Carried(i) : i \in 1..context.chain}
  BY DEF Package
<1>2. \A c \in Values(scene.findings) \union Values(context.factors) : c # {} /\ c \subseteq read
  BY DEF DraftCites, Cited, Values
<1>3. \A c \in {Carried(i) : i \in 1..context.chain} : c \subseteq read
  BY CarriedWasRead
<1>4. /\ \A c \in scene.actors \union scene.violation : c \subseteq read
      /\ context.next \subseteq read
  BY DEF DraftCites
<1> HIDE DEF p
<1>5. CitesWhatItRead(p)
  BY <1>1, <1>2, <1>3, <1>4 DEF CitesWhatItRead
<1> QED
  BY <1>5 DEF p

\* What a scene answer leaves behind after validation.
LEMMA SceneKeeps ==
  ASSUME PassInv, SceneCall
  PROVE  DraftInv'
<1>1. PICK a \in SceneAnswers :
        scene' = [findings |-> [i \in Kept(a.findings) |-> a.findings[i]],
                  actors |-> Resolving(a.actors),
                  violation |-> Resolving(a.violation), agrees |-> a.agrees]
  BY DEF SceneCall
<1>2. /\ stage = "scene" /\ stage' = "context"
      /\ UNCHANGED <<read, context, legal, line, cleared>>
  BY DEF SceneCall, world
<1>3. context = NoContext /\ legal = {} /\ line = "none"
  BY <1>2 DEF PassInv, DraftInv, DraftIsFresh, DraftIsEarned
<1>4. \A i \in DOMAIN scene'.findings : scene'.findings[i] # {} /\ scene'.findings[i] \subseteq read
  BY <1>1 DEF Kept
<1>5. \A c \in scene'.actors \union scene'.violation : c \subseteq read
  BY <1>1 DEF Resolving
<1>6. DraftCites'
  BY <1>2, <1>3, <1>4, <1>5 DEF DraftCites, Cited, NoContext
<1>7. DraftIsEarned' /\ DraftIsFresh'
  BY <1>2, <1>3 DEF DraftIsEarned, DraftIsFresh
<1> QED
  BY <1>6, <1>7 DEF DraftInv

\* What a context answer leaves behind after validation.
LEMMA ContextKeeps ==
  ASSUME PassInv, ContextCall
  PROVE  DraftInv'
<1>1. PICK a \in ContextAnswers :
        context' = [factors |-> [i \in Kept(a.factors) |-> a.factors[i]],
                    next |-> UNION Resolving({a.next}), chain |-> a.chain]
  BY DEF ContextCall, Contexted
<1>2. /\ stage = "context" /\ stage' \in {"guard", "legal"}
      /\ UNCHANGED <<read, scene, legal, line, cleared>>
  BY DEF ContextCall, Contexted, world
<1>3. legal = {} /\ line = "none"
  BY <1>2 DEF PassInv, DraftInv, DraftIsEarned
<1>4. \A i \in DOMAIN context'.factors :
        context'.factors[i] # {} /\ context'.factors[i] \subseteq read
  BY <1>1 DEF Kept
<1>5. context'.next \subseteq read
  BY <1>1 DEF Resolving
<1>6. DraftCites'
  BY <1>2, <1>4, <1>5 DEF PassInv, DraftInv, DraftCites, Cited
<1>7. DraftIsEarned' /\ DraftIsFresh'
  BY <1>2, <1>3 DEF DraftIsEarned, DraftIsFresh
<1> QED
  BY <1>6, <1>7 DEF DraftInv

\* What a legal answer leaves behind.
LEMMA LegalKeeps ==
  ASSUME PassInv, LegalCall
  PROVE  DraftInv'
<1>1. /\ stage' = "guard" /\ UNCHANGED <<read, scene, context, cleared>>
  BY DEF LegalCall, world
<1>2. legal' \subseteq cleared /\ (~scene.agrees => legal' = {} /\ line' # "listed")
  BY DEF LegalCall
<1>3. DraftCites'
  BY <1>1 DEF PassInv, DraftInv, DraftCites, Cited
<1>4. DraftIsEarned' /\ DraftIsFresh'
  BY <1>1, <1>2 DEF DraftIsEarned, DraftIsFresh
<1> QED
  BY <1>3, <1>4 DEF DraftInv

\* Storing a package built from the draft.
LEMMA GuardStores ==
  ASSUME PassInv, GuardCall
  PROVE  PassInv'
<1>1. PICK ruling \in {"pass", "redacted", "blocked"} : stored' = Package(ruling)
  BY DEF GuardCall
<1>2. /\ scene' = NoScene /\ context' = NoContext /\ legal' = {} /\ line' = "none"
      /\ UNCHANGED cleared
  BY DEF GuardCall, world
<1>3. DraftInv'
  BY <1>2, NothingHeld
<1>4. PackageIsCited'
  <2>1. CitesWhatItRead(stored')
    BY <1>1, BuiltIsCited DEF PassInv, DraftInv
  <2> QED
    BY <2>1 DEF PackageIsCited, CitesWhatItRead, Values
<1>5. StatutesAreEarned'
  <2>1. /\ stored'.legal = legal /\ stored'.scene = scene
        /\ stored'.routing = IF ruling = "blocked" THEN NoRouting
                             ELSE IF line = "none" THEN "neutral" ELSE line
    BY <1>1 DEF Package
  <2>2. legal \subseteq cleared /\ (~scene.agrees => legal = {} /\ line # "listed")
    BY DEF PassInv, DraftInv, DraftIsEarned
  <2>3. NoRouting # "listed"
    BY UnderstandingAssumption DEF Line
  <2> QED
    BY <1>2, <2>1, <2>2, <2>3 DEF StatutesAreEarned
<1> QED
  BY <1>3, <1>4, <1>5 DEF PassInv

\* Steps that leave the pass alone, or move it without an answer.
LEMMA SameDraft ==
  ASSUME PassInv, UNCHANGED <<draft, cleared, stored>>,
         stage' = stage \/ (stage = "frames" /\ stage' = "scene")
  PROVE  PassInv'
<1>1. DraftInv'
  BY DEF PassInv, DraftInv, DraftCites, DraftIsEarned, DraftIsFresh, Cited, draft
<1>2. PackageIsCited' /\ StatutesAreEarned'
  BY SamePackage DEF draft
<1> QED
  BY <1>1, <1>2 DEF PassInv

LEMMA PassInvInit ==
  UnderstandingInit => PassInv
  BY DEF UnderstandingInit, NoDraft, NoScene, NoContext, PassInv, DraftInv, DraftCites, DraftIsEarned,
         DraftIsFresh, Cited, PackageIsCited, StatutesAreEarned

LEMMA PassInvStep ==
  PassInv /\ [UnderstandingNext]_understandingVars => PassInv'
<1> SUFFICES ASSUME PassInv, [UnderstandingNext]_understandingVars PROVE PassInv'
  OBVIOUS
<1>1. CASE Open \/ Refresh
  <2>1. /\ stage = "idle" /\ UNCHANGED <<cleared, scene, context, legal, line, stored>>
    BY <1>1 DEF Open, Refresh, Begin, world
  <2>2. scene = NoScene /\ context = NoContext /\ legal = {} /\ line = "none"
    BY <2>1 DEF PassInv, DraftInv, DraftIsFresh, DraftIsEarned
  <2>3. DraftInv'
    BY <2>1, <2>2, NothingHeld
  <2> QED
    BY <2>1, <2>3, SamePackage DEF PassInv
<1>2. CASE ReadFrames
  BY <1>2, SameDraft DEF ReadFrames, world
<1>3. CASE SceneCall
  <2>1. UNCHANGED <<stored, cleared>>
    BY <1>3 DEF SceneCall, world
  <2> QED
    BY <1>3, <2>1, SceneKeeps, SamePackage DEF PassInv
<1>4. CASE ContextCall
  <2>1. UNCHANGED <<stored, cleared>>
    BY <1>4 DEF ContextCall, Contexted, world
  <2> QED
    BY <1>4, <2>1, ContextKeeps, SamePackage DEF PassInv
<1>5. CASE LegalCall
  <2>1. UNCHANGED <<stored, cleared>>
    BY <1>5 DEF LegalCall, world
  <2> QED
    BY <1>5, <2>1, LegalKeeps, SamePackage DEF PassInv
<1>6. CASE GuardCall
  BY <1>6, GuardStores
<1>7. CASE Fails
  <2>1. /\ scene' = NoScene /\ context' = NoContext /\ legal' = {} /\ line' = "none"
        /\ UNCHANGED <<stored, cleared>>
    BY <1>7 DEF Fails, world
  <2> QED
    BY <2>1, NothingHeld, SamePackage DEF PassInv
<1>8. CASE \E o \in Obs : Attach(o) \/ Cascade(o) \/ LoseFile(o)
  <2>1. UNCHANGED <<draft, cleared, stored, stage>>
    BY <1>8 DEF Attach, Cascade, LoseFile
  <2> QED
    BY <2>1, SameDraft
<1>9. CASE UNCHANGED understandingVars
  BY <1>9, SameDraft DEF understandingVars, world
<1> QED
  BY <1>1, <1>2, <1>3, <1>4, <1>5, <1>6, <1>7, <1>8, <1>9 DEF UnderstandingNext

\* What each part of Reasoning does is a step of its own module or nothing.
LEMMA PartSteps ==
  ASSUME [ReasoningNext]_reasoningVars
  PROVE  /\ [ExamNext]_examVars /\ [HypothesesNext]_hypothesesVars
         /\ [QueryNext]_queryVars /\ [UnderstandingNext]_understandingVars
  BY DEF ReasoningNext, reasoningVars

\* The pass holds nothing uncited and nothing unearned at any await.
THEOREM PassHolds == ReasoningSpec => []PassInv
<1>1. ReasoningInit => PassInv
  BY PassInvInit DEF ReasoningInit
<1>2. PassInv /\ [ReasoningNext]_reasoningVars => PassInv'
  BY PartSteps, PassInvStep
<1> QED
  BY <1>1, <1>2, PTL DEF ReasoningSpec

\* Every citation of a stored package, that of the causal graph included, is of an
\* observation its pass had read (pipeline.ts 162, 297, 335); and it has no statute
\* counsel did not clear, and none when the scene disagreed (pipeline.ts 376, 399).
THEOREM StoredIsSound == ReasoningSpec => []PackageIsSound
<1>1. PassInv => PackageIsSound
  BY DEF PassInv, PackageIsSound
<1> QED
  BY <1>1, PassHolds, PTL

-----------------------------------------------------------------------------
(* The rates of a package *)

Swept == [covered : Int, cursor : Int]

LEMMA WindowFacts ==
  /\ From \in Int /\ Until \in Int /\ From <= Until /\ Span \in Int /\ Span = Until - From
  /\ IsFiniteSet(From..(Until - 1))
<1>1. From \in Int /\ Until \in Int /\ From <= Until /\ Span \in Int /\ Span = Until - From /\ Until - 1 \in Int
  BY DEF From, Until, Span
<1> QED BY <1>1, FS_Interval

\* A row adds no more than the minutes it sees between the cursor it finds and the one it leaves.
LEMMA CoverFacts ==
  ASSUME NEW S, S \subseteq Obs, NEW o \in S, NEW sofar \in Swept,
         From <= sofar.cursor, sofar.cursor <= Until,
         sofar.covered <= Cardinality({t \in Seen(S) : t < sofar.cursor})
  PROVE  LET next == Cover(sofar, o)
         IN  /\ next \in Swept /\ From <= next.cursor /\ next.cursor <= Until
             /\ next.covered <= Cardinality({t \in Seen(S) : t < next.cursor})
<1>1. PICK from \in Int, to \in Int : from = Capture[o].from /\ to = Capture[o].to
  BY UnderstandingAssumption
<1>2. PICK end \in Int : end = Smaller(to, Until)
  BY WindowFacts DEF Smaller
<1>3. CASE end <= sofar.cursor
  <2>1. Cover(sofar, o) = sofar
    BY <1>1, <1>2, <1>3 DEF Cover
  <2> QED BY <2>1
<1>4. CASE ~ end <= sofar.cursor
  <2>1. PICK start \in Int : start = Larger(from, sofar.cursor)
    BY DEF Larger, Swept
  <2>2. Cover(sofar, o) = [covered |-> sofar.covered + end - start, cursor |-> end]
    BY <1>1, <1>2, <1>4, <2>1 DEF Cover
  <2>3. end <= Until /\ end <= to /\ from <= start /\ sofar.cursor <= start /\ sofar.cursor < end
    BY <1>2, <1>4, <2>1, WindowFacts DEF Smaller, Larger, Swept
  <2>4. PICK old : old = {t \in Seen(S) : t < sofar.cursor}
    OBVIOUS
  <2>5. PICK new : new = {t \in Seen(S) : t < end}
    OBVIOUS
  <2>6. PICK added : added = start..(end - 1)
    OBVIOUS
  <2>7. /\ IsFiniteSet(new) /\ Cardinality(new) \in Nat /\ IsFiniteSet(old) /\ Cardinality(old) \in Nat
        /\ old \subseteq new
    <3>1. IsFiniteSet(From..(Until - 1))
      BY WindowFacts
    <3>2. new \in SUBSET (From..(Until - 1)) /\ old \in SUBSET new
      BY <2>3, <2>4, <2>5, WindowFacts DEF Seen, Swept
    <3>3. IsFiniteSet(new)
      BY <3>1, <3>2, FS_Subset
    <3>4. IsFiniteSet(old)
      BY <3>2, <3>3, FS_Subset
    <3> QED BY <3>2, <3>3, <3>4, FS_CardinalityType
  <2>8. IsFiniteSet(added) /\ Cardinality(added) = IF start > end - 1 THEN 0 ELSE end - start
    <3>1. end - 1 \in Int /\ (end - 1) - start + 1 = end - start
      OBVIOUS
    <3> QED BY <2>6, <3>1, FS_Interval
  <2>9. added \subseteq new /\ old \cap added = {}
    <3>1. ASSUME NEW t \in added PROVE t \in Seen(S) /\ t < end /\ ~ t < sofar.cursor
      <4>1. t \in Int /\ start <= t /\ t < end
        BY <2>6
      <4>2. t \in From..(Until - 1) /\ from <= t /\ t < to
        BY <2>3, <4>1, WindowFacts DEF Swept
      <4> QED BY <1>1, <2>3, <4>1, <4>2 DEF Seen, Swept
    <3> QED BY <2>4, <2>5, <3>1
  <2>10. Cardinality(old) + Cardinality(added) <= Cardinality(new)
    <3>1. IsFiniteSet(old \cup added) /\ Cardinality(old \cup added) = Cardinality(old) + Cardinality(added)
      <4>1. IsFiniteSet(old) /\ IsFiniteSet(added)
        BY <2>7, <2>8
      <4>2. /\ IsFiniteSet(old \cup added)
            /\ Cardinality(old \cup added)
                 = Cardinality(old) + Cardinality(added) - Cardinality(old \cap added)
        BY <4>1, FS_Union
      <4>3. Cardinality(old \cap added) = 0
        BY <2>9, FS_EmptySet
      <4>4. PICK m \in Nat : m = Cardinality(old)
        BY <2>7
      <4>5. PICK n \in Nat : n = Cardinality(added)
        BY <4>1, FS_CardinalityType
      <4> QED BY <4>2, <4>3, <4>4, <4>5
    <3>2. old \cup added \in SUBSET new
      BY <2>7, <2>9
    <3> QED BY <2>7, <3>1, <3>2, FS_Subset
  <2>11. sofar.covered + end - start <= Cardinality(new)
    BY <2>4, <2>7, <2>8, <2>10 DEF Swept
  <2>12. sofar.covered + end - start \in Int
    BY DEF Swept
  <2>13. PICK next \in Swept : next = [covered |-> sofar.covered + end - start, cursor |-> end]
    <3>1. [covered |-> sofar.covered + end - start, cursor |-> end] \in Swept
      BY <2>12 DEF Swept
    <3> QED BY <3>1
  <2>14. next.cursor = end /\ next.covered = sofar.covered + end - start
    BY <2>13
  <2>15. From <= end
    BY <2>3, WindowFacts DEF Swept
  <2>16. Cover(sofar, o) = next
    BY <2>2, <2>13
  <2>17. next.covered <= Cardinality({t \in Seen(S) : t < next.cursor})
    BY <2>5, <2>11, <2>14
  <2> QED BY <2>3, <2>14, <2>15, <2>16, <2>17
<1> QED BY <1>3, <1>4

\* The order of the rows is one: a capture is before, or of two at once the lower id.
LEMMA RowsInOrder ==
  ASSUME attached \subseteq Obs, IsFiniteSet(attached)
  PROVE  InOrder(attached) \in Seq(attached)
<1> DEFINE before == {pair \in Obs \X Obs : Precedes(pair[1], pair[2])}
<1>1. \A o \in Obs : o \in Nat /\ Capture[o].from \in Int
  BY UnderstandingAssumption
<1>2. \A o, p \in Obs : <<o, p>> \in before <=> Precedes(o, p)
  OBVIOUS
<1>3. Orders(before, attached)
  <2> HIDE DEF before
  <2> QED BY <1>1, <1>2 DEF Orders, Precedes
<1> HIDE DEF before
<1>4. Ordered(attached, before) \in Seq(attached)
  BY <1>3, OrderedFacts
<1> QED BY <1>4 DEF InOrder, before

\* coverageOf counts no minute that nothing saw, and none twice.
LEMMA CoverageFacts ==
  ASSUME attached \subseteq Obs, IsFiniteSet(attached)
  PROVE  Coverage <= Cardinality(Seen(attached))
<1>1. PICK rows \in Seq(attached) : rows = InOrder(attached)
  BY RowsInOrder
<1>2. PICK k \in Nat : k = Len(rows)
  BY <1>1
<1>3. PICK base \in Swept : base = [covered |-> 0, cursor |-> From]
  <2>1. [covered |-> 0, cursor |-> From] \in Swept
    BY WindowFacts DEF Swept
  <2> QED BY <2>1
<1> DEFINE Sweeps(f) == f = [n \in 0..k |-> IF n = 0 THEN base ELSE Cover(f[n - 1], rows[n])]
<1>4. \E f : Sweeps(f)
  <2>1. PICK step : step = [p \in (1..k) \X Swept |-> Cover(p[2], rows[p[1]])]
    OBVIOUS
  <2>2. ASSUME NEW n \in 1..k, NEW v \in Swept PROVE step[<<n, v>>] = Cover(v, rows[n]) /\ Cover(v, rows[n]) \in Swept
    <3>1. rows[n] \in Obs
      BY <1>1, <1>2
    <3>2. Capture[rows[n]].from \in Int /\ Capture[rows[n]].to \in Int
      BY <3>1, UnderstandingAssumption
    <3>3. Cover(v, rows[n]) \in Swept
      BY <3>2, WindowFacts DEF Cover, Swept, Smaller, Larger
    <3>4. <<n, v>> \in (1..k) \X Swept
      OBVIOUS
    <3> QED BY <2>1, <3>3, <3>4
  <2>3. step \in [(1..k) \X Swept -> Swept]
    <3>1. ASSUME NEW p \in (1..k) \X Swept PROVE step[p] \in Swept
      <4>1. PICK n \in 1..k, v \in Swept : p = <<n, v>>
        OBVIOUS
      <4> QED BY <2>2, <4>1
    <3> QED BY <2>1, <3>1
  <2>4. PICK G \in [0..k -> Swept] : G[0] = base /\ \A n \in 1..k : G[n] = step[<<n, G[n - 1]>>]
    <3>1. HasFold(k, Swept, base, step)
      BY <2>3, FoldExists, Zenon
    <3> QED BY <3>1 DEF HasFold
  <2>5. ASSUME NEW n \in 0..k PROVE G[n] = IF n = 0 THEN base ELSE Cover(G[n - 1], rows[n])
    <3>1. CASE n = 0
      BY <2>4, <3>1
    <3>2. CASE n # 0
      <4>1. n \in 1..k /\ n - 1 \in 0..k
        BY <3>2
      <4>2. G[n - 1] \in Swept
        BY <2>4, <4>1
      <4> QED BY <2>2, <2>4, <3>2, <4>1, <4>2
    <3> QED BY <3>1, <3>2
  <2>6. Sweeps(G)
    BY <2>4, <2>5
  <2> QED BY <2>6
<1>5. PICK f : f = CHOOSE g : Sweeps(g)
  OBVIOUS
<1>6. Sweeps(f)
  BY <1>4, <1>5
<1>7. Coverage = Smaller(Span, f[k].covered)
  BY <1>1, <1>2, <1>3, <1>5 DEF Coverage
<1>8. f[0] = base /\ \A n \in 1..k : f[n] = Cover(f[n - 1], rows[n])
  BY <1>6
<1> HIDE DEF Sweeps
<1> DEFINE Sound(s) == /\ s \in Swept /\ From <= s.cursor /\ s.cursor <= Until
                       /\ s.covered <= Cardinality({t \in Seen(attached) : t < s.cursor})
<1> DEFINE Good == {n \in 0..k : Sound(f[n])}
<1>9. 0 \in Good
  <2>1. {t \in Seen(attached) : t < From} = {}
    BY WindowFacts DEF Seen
  <2>2. Sound(base)
    <3>1. base.covered = 0 /\ base.cursor = From
      BY <1>3
    <3>2. Cardinality({t \in Seen(attached) : t < base.cursor}) = 0
      BY <2>1, <3>1, FS_EmptySet
    <3> QED BY <3>1, <3>2, WindowFacts
  <2> HIDE DEF Sound
  <2> QED BY <1>8, <2>2
<1>10. ASSUME NEW n \in 1..k, n - 1 \in Good PROVE n \in Good
  <2>1. rows[n] \in attached
    BY <1>1, <1>2
  <2>2. Sound(f[n - 1])
    BY <1>10
  <2>3. Sound(Cover(f[n - 1], rows[n]))
    BY <2>1, <2>2, CoverFacts
  <2> HIDE DEF Sound
  <2> QED BY <1>8, <2>3
<1>11. Sound(f[k])
  <2> HIDE DEF Sound
  <2>1. k \in 0..k
    OBVIOUS
  <2>2. k \in Good
    <3> HIDE DEF Good
    <3> QED BY <1>9, <1>10, <2>1, SetInduction
  <2> QED BY <2>2
<1>12. Cardinality({t \in Seen(attached) : t < f[k].cursor}) <= Cardinality(Seen(attached))
  <2>1. IsFiniteSet(Seen(attached))
    <3>1. IsFiniteSet(From..(Until - 1))
      BY WindowFacts
    <3>2. Seen(attached) \in SUBSET (From..(Until - 1))
      BY DEF Seen
    <3> QED BY <3>1, <3>2, FS_Subset
  <2>2. {t \in Seen(attached) : t < f[k].cursor} \in SUBSET Seen(attached)
    OBVIOUS
  <2> QED BY <2>1, <2>2, FS_Subset
<1>13. /\ Cardinality({t \in Seen(attached) : t < f[k].cursor}) \in Nat
       /\ Cardinality(Seen(attached)) \in Nat
  <2>1. IsFiniteSet(From..(Until - 1))
    BY WindowFacts
  <2>2. Seen(attached) \in SUBSET (From..(Until - 1))
    BY DEF Seen
  <2>3. {t \in Seen(attached) : t < f[k].cursor} \in SUBSET (From..(Until - 1))
    BY <2>2
  <2> QED BY <2>1, <2>2, <2>3, FS_Subset, FS_CardinalityType
<1> QED BY <1>7, <1>11, <1>12, <1>13, WindowFacts DEF Smaller, Swept

\* What is kept of the claims a pass has seen.
Held == Cardinality(DOMAIN scene.findings) + Cardinality(scene.violation)
HeldInAll == Held + Cardinality(DOMAIN context.factors) + 1

HeldIsFinite ==
  /\ IsFiniteSet(DOMAIN scene.findings) /\ IsFiniteSet(scene.violation)
  /\ IsFiniteSet(DOMAIN context.factors)

\* Every claim seen is kept or counted as dropped, at each of the awaits between.
ClaimsCounted ==
  /\ claimsSeen \in Nat /\ dropped \in Nat
  /\ stage \in {"idle", "frames", "scene"} => claimsSeen = 0 /\ dropped = 0
  /\ stage = "context" => claimsSeen <= Held + dropped
  /\ stage \in {"legal", "guard"} => claimsSeen >= 1 /\ claimsSeen <= HeldInAll + dropped

Attached == attached \subseteq Obs /\ IsFiniteSet(attached)

RatesInv == Attached /\ HeldIsFinite /\ ClaimsCounted /\ RatesAreEarned

\* Of a list of claims, those kept and those dropped are all.
LEMMA KeptFacts ==
  ASSUME NEW claims \in Seq(Claim)
  PROVE  /\ IsFiniteSet(Kept(claims)) /\ Cardinality(Kept(claims)) \in Nat
         /\ DroppedOf(claims) \in Nat /\ Len(claims) = Cardinality(Kept(claims)) + DroppedOf(claims)
<1>1. PICK k \in Nat : k = Len(claims) /\ DOMAIN claims = 1..k
  OBVIOUS
<1>2. IsFiniteSet(1..k) /\ Cardinality(1..k) = k
  <2>1. k - 1 + 1 = k
    OBVIOUS
  <2>2. IsFiniteSet(1..k) /\ Cardinality(1..k) = IF 1 > k THEN 0 ELSE k - 1 + 1
    BY FS_Interval
  <2> QED BY <2>1, <2>2
<1>3. Kept(claims) \in SUBSET (1..k)
  BY <1>1 DEF Kept
<1>4. IsFiniteSet(Kept(claims)) /\ Cardinality(Kept(claims)) <= k
  BY <1>2, <1>3, FS_Subset
<1>5. Cardinality(Kept(claims)) \in Nat
  BY <1>4, FS_CardinalityType
<1> QED BY <1>1, <1>4, <1>5 DEF DroppedOf

\* The same of a set of claims.
LEMMA ResolvingFacts ==
  ASSUME NEW claims, IsFiniteSet(claims)
  PROVE  LET gone == claims \ Resolving(claims)
         IN  /\ IsFiniteSet(Resolving(claims)) /\ Cardinality(Resolving(claims)) \in Nat
             /\ Cardinality(gone) \in Nat
             /\ Cardinality(claims) = Cardinality(Resolving(claims)) + Cardinality(gone)
<1>1. PICK kept : kept = Resolving(claims)
  OBVIOUS
<1>2. PICK gone : gone = claims \ kept
  OBVIOUS
<1>3. kept \in SUBSET claims /\ gone \in SUBSET claims /\ kept \cap gone = {} /\ kept \cup gone = claims
  BY <1>1, <1>2 DEF Resolving
<1>4. IsFiniteSet(kept) /\ IsFiniteSet(gone)
  BY <1>3, FS_Subset
<1>5. Cardinality(kept) \in Nat /\ Cardinality(gone) \in Nat
  BY <1>4, FS_CardinalityType
<1>6. Cardinality(claims) = Cardinality(kept) + Cardinality(gone) - Cardinality({})
  BY <1>3, <1>4, FS_Union
<1> QED BY <1>1, <1>2, <1>4, <1>5, <1>6, FS_EmptySet

\* Before the first answer nothing is held.
LEMMA NothingCounted ==
  ASSUME scene' = NoScene, context' = NoContext, claimsSeen' = 0, dropped' = 0,
         stage' \in {"idle", "frames", "scene"}
  PROVE  HeldIsFinite' /\ ClaimsCounted'
<1>1. DOMAIN NoScene.findings = {} /\ NoScene.violation = {} /\ DOMAIN NoContext.factors = {}
  BY DEF NoScene, NoContext
<1>2. HeldIsFinite'
  BY <1>1, FS_EmptySet DEF HeldIsFinite
<1> QED BY <1>2 DEF ClaimsCounted

\* What the scene keeps and what it drops are the claims of its answer.
LEMMA SceneCounts ==
  ASSUME PassInv, RatesInv, SceneCall
  PROVE  HeldIsFinite' /\ ClaimsCounted'
<1>1. PICK a \in SceneAnswers :
        /\ scene' = [findings |-> [i \in Kept(a.findings) |-> a.findings[i]],
                     actors |-> Resolving(a.actors),
                     violation |-> Resolving(a.violation), agrees |-> a.agrees]
        /\ claimsSeen' = Len(a.findings) + Cardinality(a.violation)
        /\ dropped' = DroppedOf(a.findings) + Cardinality(a.violation \ Resolving(a.violation))
  BY DEF SceneCall
<1>2. stage = "scene" /\ stage' = "context" /\ UNCHANGED context
  BY DEF SceneCall
<1>3. DOMAIN scene'.findings = Kept(a.findings) /\ scene'.violation = Resolving(a.violation)
  BY <1>1
<1>4. a.findings \in Seq(Claim) /\ IsFiniteSet(a.violation)
  BY UnderstandingAssumption
<1>5. /\ IsFiniteSet(Kept(a.findings)) /\ Cardinality(Kept(a.findings)) \in Nat
      /\ DroppedOf(a.findings) \in Nat
      /\ Len(a.findings) = Cardinality(Kept(a.findings)) + DroppedOf(a.findings)
  BY <1>4, KeptFacts
<1>6. /\ IsFiniteSet(Resolving(a.violation)) /\ Cardinality(Resolving(a.violation)) \in Nat
      /\ Cardinality(a.violation \ Resolving(a.violation)) \in Nat
      /\ Cardinality(a.violation) = Cardinality(Resolving(a.violation))
                                    + Cardinality(a.violation \ Resolving(a.violation))
  BY <1>4, ResolvingFacts
<1>7. HeldIsFinite'
  BY <1>2, <1>3, <1>5, <1>6 DEF HeldIsFinite, RatesInv
<1>8. Held' = Cardinality(Kept(a.findings)) + Cardinality(Resolving(a.violation))
  BY <1>3 DEF Held
<1>9. claimsSeen' \in Nat /\ dropped' \in Nat /\ claimsSeen' <= Held' + dropped'
  BY <1>1, <1>5, <1>6, <1>8
<1> QED BY <1>2, <1>7, <1>9 DEF ClaimsCounted

\* The context adds its own to what the scene left.
LEMMA ContextCounts ==
  ASSUME PassInv, RatesInv, ContextCall
  PROVE  HeldIsFinite' /\ ClaimsCounted'
<1>1. PICK a \in ContextAnswers :
        LET next == UNION Resolving({a.next})
        IN  /\ context' = [factors |-> [i \in Kept(a.factors) |-> a.factors[i]],
                           next |-> next, chain |-> a.chain]
            /\ claimsSeen' = claimsSeen + Len(a.factors) + 1
            /\ dropped' = dropped + DroppedOf(a.factors) + (IF next = {} THEN 1 ELSE 0)
  BY DEF ContextCall, Contexted
<1>2. stage = "context" /\ stage' \in {"legal", "guard"} /\ UNCHANGED scene
  BY DEF ContextCall, Contexted
<1>3. DOMAIN context'.factors = Kept(a.factors)
  BY <1>1
<1>4. PICK missing \in {0, 1} : dropped' = dropped + DroppedOf(a.factors) + missing
  BY <1>1
<1>5. /\ IsFiniteSet(Kept(a.factors)) /\ Cardinality(Kept(a.factors)) \in Nat
      /\ DroppedOf(a.factors) \in Nat
      /\ Len(a.factors) = Cardinality(Kept(a.factors)) + DroppedOf(a.factors)
  BY UnderstandingAssumption, KeptFacts
<1>6. HeldIsFinite'
  BY <1>2, <1>3, <1>5 DEF HeldIsFinite, RatesInv
<1>7. Held' = Held /\ Held \in Nat
  <2>1. Held' = Held
    BY <1>2 DEF Held
  <2> QED BY <2>1, FS_CardinalityType DEF Held, HeldIsFinite, RatesInv
<1>8. HeldInAll' = Held + Cardinality(Kept(a.factors)) + 1
  BY <1>3, <1>7 DEF HeldInAll
<1>9. claimsSeen \in Nat /\ dropped \in Nat /\ claimsSeen <= Held + dropped
  BY <1>2 DEF RatesInv, ClaimsCounted
<1>10. /\ claimsSeen' \in Nat /\ dropped' \in Nat
       /\ claimsSeen' >= 1 /\ claimsSeen' <= HeldInAll' + dropped'
  <2>1. claimsSeen' = claimsSeen + Len(a.factors) + 1
    BY <1>1
  <2>2. PICK k \in Nat, d \in Nat : k = Cardinality(Kept(a.factors)) /\ d = DroppedOf(a.factors)
    BY <1>5
  <2>3. claimsSeen' = claimsSeen + (k + d) + 1 /\ dropped' = dropped + d + missing /\ HeldInAll' = Held + k + 1
    BY <1>4, <1>5, <1>8, <2>1, <2>2
  <2> QED BY <1>7, <1>9, <2>3
<1> QED BY <1>2, <1>6, <1>10 DEF ClaimsCounted

\* The legal answer may only add to what was dropped.
LEMMA LegalCounts ==
  ASSUME RatesInv, LegalCall
  PROVE  HeldIsFinite' /\ ClaimsCounted'
<1>1. /\ stage = "legal" /\ stage' = "guard" /\ UNCHANGED <<scene, context, claimsSeen>>
      /\ dropped' = dropped \/ dropped' = dropped + 1
  BY DEF LegalCall, RatesInv, ClaimsCounted
<1>2. HeldIsFinite'
  BY <1>1 DEF HeldIsFinite, RatesInv
<1>3. Held \in Nat /\ Cardinality(DOMAIN context.factors) \in Nat
  BY FS_CardinalityType DEF Held, HeldIsFinite, RatesInv
<1>4. HeldInAll' = HeldInAll /\ HeldInAll \in Nat
  <2>1. HeldInAll' = HeldInAll
    BY <1>1 DEF HeldInAll, Held
  <2> QED BY <1>3, <2>1 DEF HeldInAll
<1>5. /\ claimsSeen \in Nat /\ dropped \in Nat
      /\ claimsSeen >= 1 /\ claimsSeen <= HeldInAll + dropped
  BY <1>1 DEF RatesInv, ClaimsCounted
<1> QED BY <1>1, <1>2, <1>4, <1>5 DEF ClaimsCounted

\* A share that rounds to 0.99 of the claims seen leaves out a ninety-fifth at most.
LEMMA RoundingFacts ==
  ASSUME NEW seen \in Nat, NEW gone \in Nat, seen >= 1,
         (2000 * (seen - gone) + seen) \div (2 * seen) >= 990
  PROVE  2000 * gone <= 21 * seen
<1>1. PICK a \in Int : a = 2000 * (seen - gone) + seen
  OBVIOUS
<1>2. PICK b \in Nat \ {0} : b = 2 * seen
  OBVIOUS
<1>3. a \div b \in Int /\ a = b * (a \div b) + (a % b) /\ a % b \in 0..(b - 1)
  BY <1>1, <1>2
<1>4. PICK q \in Int : q = a \div b
  BY <1>3
<1>5. q >= 990
  BY <1>1, <1>2, <1>4
<1>6. b * q >= b * 990
  BY <1>2, <1>5
<1>7. a >= b * 990
  BY <1>3, <1>4, <1>6
<1> QED BY <1>1, <1>2, <1>7

\* A package is stored with the rates its draft and the observations attached give.
LEMMA RatesOfGuard ==
  ASSUME PassInv, RatesInv, GuardCall
  PROVE  RatesAreEarned'
<1>1. PICK ruling \in {"pass", "redacted", "blocked"} : stored' = Package(ruling)
  BY DEF GuardCall
<1>2. /\ stored'.citations = Citations /\ stored'.scene = scene /\ stored'.factors = context.factors
      /\ stored'.claims = claimsSeen /\ stored'.coverage = Coverage /\ stored'.over = attached
  BY <1>1 DEF Package
<1>3. /\ claimsSeen \in Nat /\ dropped \in Nat
      /\ claimsSeen >= 1 /\ claimsSeen <= HeldInAll + dropped
  BY DEF GuardCall, RatesInv, ClaimsCounted
<1>4. Cardinality(DOMAIN scene.findings) \in Nat /\ Cardinality(scene.violation) \in Nat
      /\ Cardinality(DOMAIN context.factors) \in Nat
  BY FS_CardinalityType DEF HeldIsFinite, RatesInv
<1>5. HeldInAll \in Nat
  BY <1>4 DEF HeldInAll, Held
<1>6. ASSUME Citations = "met" PROVE 2000 * (claimsSeen - HeldInAll) <= 21 * claimsSeen
  <2>1. Validity >= 990
    BY <1>6 DEF Citations
  <2>2. 2000 * dropped <= 21 * claimsSeen
    BY <1>3, <2>1, RoundingFacts DEF Validity
  <2> QED BY <1>3, <1>5, <2>2
<1>7. MetIsKept'
  <2>1. Cardinality(DOMAIN stored'.scene.findings) + Cardinality(stored'.scene.violation)
        + Cardinality(DOMAIN stored'.factors) + 1 = HeldInAll
    BY <1>2 DEF HeldInAll, Held
  <2> QED BY <1>2, <1>6, <2>1 DEF MetIsKept
<1>8. CoverageIsSeen'
  <2>1. Coverage <= Cardinality(Seen(attached))
    BY CoverageFacts DEF RatesInv, Attached
  <2> QED BY <1>2, <2>1 DEF CoverageIsSeen, Seen
<1> QED BY <1>7, <1>8 DEF RatesAreEarned

LEMMA SameRates ==
  ASSUME RatesInv, UNCHANGED stored
  PROVE  RatesAreEarned'
  BY DEF RatesInv, RatesAreEarned, MetIsKept, CoverageIsSeen, Seen

LEMMA RatesInvInit ==
  UnderstandingInit => RatesInv
<1> SUFFICES ASSUME UnderstandingInit PROVE RatesInv
  OBVIOUS
<1>1. Attached
  BY UnderstandingAssumption, FS_Singleton DEF UnderstandingInit, Attached
<1>2. DOMAIN scene.findings = {} /\ scene.violation = {} /\ DOMAIN context.factors = {}
  BY DEF UnderstandingInit, NoDraft, NoScene, NoContext
<1>3. HeldIsFinite
  BY <1>2, FS_EmptySet DEF HeldIsFinite
<1>4. ClaimsCounted
  BY DEF UnderstandingInit, NoDraft, ClaimsCounted
<1>5. RatesAreEarned
  BY DEF UnderstandingInit, RatesAreEarned, MetIsKept, CoverageIsSeen
<1> QED BY <1>1, <1>3, <1>4, <1>5 DEF RatesInv

\* What happens meanwhile keeps the observations attached few.
LEMMA AttachedStays ==
  ASSUME Attached, [UnderstandingNext]_understandingVars
  PROVE  Attached'
<1>1. CASE UNCHANGED attached
  BY <1>1 DEF Attached
<1>2. CASE \E o \in Obs : Attach(o)
  <2>1. PICK o \in Obs : attached' = attached \union {o}
    BY <1>2 DEF Attach
  <2> QED BY <2>1, FS_AddElement DEF Attached
<1>3. CASE \E o \in Obs : Cascade(o)
  <2>1. PICK o \in Obs : attached' = attached \ {o}
    BY <1>3 DEF Cascade
  <2> QED BY <2>1, FS_RemoveElement DEF Attached
<1>4. UNCHANGED attached \/ (\E o \in Obs : Attach(o)) \/ (\E o \in Obs : Cascade(o))
  BY DEF UnderstandingNext, understandingVars, world, Open, Refresh, Begin, ReadFrames, SceneCall,
         ContextCall, Contexted, LegalCall, GuardCall, Fails, LoseFile
<1> QED BY <1>1, <1>2, <1>3, <1>4

LEMMA RatesInvStep ==
  PassInv /\ RatesInv /\ [UnderstandingNext]_understandingVars => RatesInv'
<1> SUFFICES ASSUME PassInv, RatesInv, [UnderstandingNext]_understandingVars PROVE RatesInv'
  OBVIOUS
<1>1. Attached'
  BY AttachedStays DEF RatesInv
<1>2. CASE Open \/ Refresh
  <2>1. /\ stage = "idle" /\ stage' = "frames"
        /\ UNCHANGED <<scene, context, claimsSeen, dropped, stored>>
    BY <1>2 DEF Open, Refresh, Begin
  <2>2. scene = NoScene /\ context = NoContext /\ claimsSeen = 0 /\ dropped = 0
    BY <2>1 DEF PassInv, DraftInv, DraftIsFresh, RatesInv, ClaimsCounted
  <2> QED BY <1>1, <2>1, <2>2, NothingCounted, SameRates DEF RatesInv
<1>3. CASE ReadFrames
  <2>1. stage = "frames" /\ stage' = "scene" /\ UNCHANGED <<draft, stored>>
    BY <1>3 DEF ReadFrames
  <2>2. scene = NoScene /\ context = NoContext /\ claimsSeen = 0 /\ dropped = 0
    BY <2>1 DEF PassInv, DraftInv, DraftIsFresh, RatesInv, ClaimsCounted
  <2> QED BY <1>1, <2>1, <2>2, NothingCounted, SameRates DEF RatesInv, draft
<1>4. CASE SceneCall
  BY <1>1, <1>4, SceneCounts, SameRates DEF RatesInv, SceneCall
<1>5. CASE ContextCall
  <2>1. UNCHANGED stored
    BY <1>5 DEF ContextCall, Contexted
  <2> QED BY <1>1, <1>5, <2>1, ContextCounts, SameRates DEF RatesInv
<1>6. CASE LegalCall
  BY <1>1, <1>6, LegalCounts, SameRates DEF RatesInv, LegalCall
<1>7. CASE GuardCall
  <2>1. /\ scene' = NoScene /\ context' = NoContext /\ claimsSeen' = 0 /\ dropped' = 0
        /\ stage' = "idle"
    BY <1>7 DEF GuardCall
  <2> QED BY <1>1, <1>7, <2>1, NothingCounted, RatesOfGuard DEF RatesInv
<1>8. CASE Fails
  <2>1. /\ scene' = NoScene /\ context' = NoContext /\ claimsSeen' = 0 /\ dropped' = 0
        /\ stage' = "idle" /\ UNCHANGED stored
    BY <1>8 DEF Fails
  <2> QED BY <1>1, <2>1, NothingCounted, SameRates DEF RatesInv
<1>9. CASE UNCHANGED <<stage, draft, stored>>
  <2>1. HeldIsFinite' /\ ClaimsCounted'
    BY <1>9 DEF draft, RatesInv, HeldIsFinite, ClaimsCounted, Held, HeldInAll
  <2> QED BY <1>1, <1>9, <2>1, SameRates DEF RatesInv
<1>10. CASE \E o \in Obs : Attach(o) \/ Cascade(o) \/ LoseFile(o)
  BY <1>9, <1>10 DEF Attach, Cascade, LoseFile
<1>11. CASE UNCHANGED understandingVars
  BY <1>9, <1>11 DEF understandingVars
<1> QED
  BY <1>2, <1>3, <1>4, <1>5, <1>6, <1>7, <1>8, <1>10, <1>11 DEF UnderstandingNext

\* However the answers of a pass are dropped and however the observations overlap, a
\* package promises no more cited claims and no more seen minutes than there were
\* (pipeline.ts 30, 498).
THEOREM RatesStayEarned == ReasoningSpec => []RatesAreEarned
<1>1. ReasoningInit => PassInv /\ RatesInv
  BY PassInvInit, RatesInvInit DEF ReasoningInit
<1>2. PassInv /\ RatesInv /\ [ReasoningNext]_reasoningVars => (PassInv /\ RatesInv)'
  BY PartSteps, PassInvStep, RatesInvStep
<1>3. RatesInv => RatesAreEarned
  BY DEF RatesInv
<1> QED
  BY <1>1, <1>2, <1>3, PTL DEF ReasoningSpec

-----------------------------------------------------------------------------
(* The query console *)

\* A question holds what was read for it and what its answer cites of that.
Question == [question : Questions, rows : SUBSET Nat, cited : SUBSET Nat,
             at : {"phrasing", "answered", "failed", "settled"}]

\* Who may be asked about is typed; what is listed or pinned was stored.
TablesOK ==
  /\ filed \in Seq(Int) /\ typed \in Questions \cup {NoQuestion} /\ asked \in Seq(Question)
  /\ queries \subseteq 1 .. Len(asked) /\ shown \in Seq(queries) /\ pinned \subseteq queries

CitedWasRead ==
  \A k \in 1 .. Len(asked) : /\ asked[k].cited \subseteq asked[k].rows
                             /\ asked[k].at = "answered" => k \in queries

QueryInv == TablesOK /\ CitedWasRead

\* A list of what was stored is one when more is.
LEMMA StillListed ==
  ASSUME NEW S, NEW T, S \subseteq T, NEW s \in Seq(S) PROVE s \in Seq(T)
  OBVIOUS

\* Asking stores an answer at once or waits for one; it cites nothing yet.
LEMMA AsksStep ==
  ASSUME QueryInv, NEW q \in Questions, Asks(q), UNCHANGED <<filed, shown, pinned, typed>>
  PROVE  QueryInv'
<1> USE DEF QueryInv
<1> DEFINE n == Len(asked) + 1
<1>1. PICK rows \in Read(q) : asked' = Append(asked, [question |-> q, rows |-> rows, cited |-> {}, at |-> Stage(q)])
  BY DEF Asks
<1>2. rows \in SUBSET Nat
  <2>1. DOMAIN filed \subseteq Nat
    BY DEF TablesOK
  <2>2. Recent(q) \subseteq DOMAIN filed
    BY DEF Recent, Window
  <2> QED BY <2>1, <2>2 DEF Read
<1>3. Stage(q) \in {"phrasing", "answered"}
  BY DEF Stage
<1>4. PICK e \in Question : /\ e = [question |-> q, rows |-> rows, cited |-> {}, at |-> Stage(q)]
                            /\ e.cited = {} /\ e.rows = rows /\ e.at = Stage(q)
  <2>1. {} \in SUBSET Nat /\ Stage(q) \in {"phrasing", "answered", "failed", "settled"}
    BY <1>3
  <2>2. [question |-> q, rows |-> rows, cited |-> {}, at |-> Stage(q)] \in Question
    BY <1>2, <2>1 DEF Question
  <2> QED BY <2>2
<1>5. asked \in Seq(Question) /\ asked' = Append(asked, e)
  BY <1>1, <1>4 DEF TablesOK
<1>6. /\ asked' \in Seq(Question) /\ Len(asked') = n /\ asked'[n] = e /\ n \in Nat
      /\ \A k \in 1 .. Len(asked) : asked'[k] = asked[k]
      /\ \A k \in 1 .. n : k \in 1 .. Len(asked) \/ k = n
  BY <1>5
<1>7. /\ queries \subseteq queries' /\ queries' \subseteq 1 .. n
      /\ Stage(q) = "answered" => n \in queries'
  <2>1. queries' = IF Stage(q) = "answered" THEN queries \cup {n} ELSE queries
    BY DEF Asks
  <2>2. queries \subseteq 1 .. n /\ n \in 1 .. n
    <3>1. Len(asked) \in Nat /\ queries \subseteq 1 .. Len(asked)
      BY <1>5 DEF TablesOK
    <3> QED BY <3>1
  <2>3. CASE Stage(q) = "answered"
    BY <2>1, <2>2, <2>3
  <2>4. CASE Stage(q) # "answered"
    BY <2>1, <2>2, <2>4
  <2> QED BY <2>3, <2>4
<1> HIDE DEF n
<1>8. TablesOK'
  <2>1. shown \in Seq(queries) /\ pinned \subseteq queries /\ shown' = shown /\ pinned' = pinned
    BY DEF TablesOK
  <2>2. shown' \in Seq(queries')
    BY <1>7, <2>1, StillListed
  <2> QED BY <1>6, <1>7, <2>1, <2>2 DEF TablesOK
<1>9. CitedWasRead'
  <2> SUFFICES ASSUME NEW k \in 1 .. n
               PROVE  asked'[k].cited \subseteq asked'[k].rows /\ (asked'[k].at = "answered" => k \in queries')
    BY <1>6 DEF CitedWasRead
  <2> QED BY <1>4, <1>6, <1>7 DEF CitedWasRead
<1> QED BY <1>8, <1>9

\* A question moves on: its entry alone changes.
LEMMA EntryStep ==
  ASSUME QueryInv, NEW k \in DOMAIN asked, NEW e \in Question, asked' = [asked EXCEPT ![k] = e],
         e.cited \subseteq e.rows, e.at = "answered" => k \in queries',
         queries \subseteq queries', queries' \subseteq queries \cup {k},
         shown' \in Seq(queries'), pinned' \subseteq queries', typed' \in Questions \cup {NoQuestion}, UNCHANGED filed
  PROVE  QueryInv'
<1> USE DEF QueryInv
<1>1. /\ asked' \in Seq(Question) /\ Len(asked') = Len(asked) /\ k \in 1 .. Len(asked) /\ asked'[k] = e
      /\ \A j \in 1 .. Len(asked) : j # k => asked'[j] = asked[j]
  BY DEF TablesOK
<1>2. TablesOK'
  BY <1>1 DEF TablesOK
<1>3. CitedWasRead'
  BY <1>1 DEF CitedWasRead
<1> QED BY <1>2, <1>3

LEMMA QueryStep == QueryInv /\ [QueryNext]_queryVars => QueryInv'
<1> SUFFICES ASSUME QueryInv, [QueryNext]_queryVars PROVE QueryInv'
  OBVIOUS
<1> USE DEF QueryInv
<1>0. TablesOK /\ asked \in Seq(Question) /\ \A k \in DOMAIN asked : asked[k] \in Question /\ k \in 1 .. Len(asked)
  BY DEF TablesOK
<1>1. ASSUME NEW day \in 1 .. LastDay, File(day) PROVE QueryInv'
  BY <1>1 DEF File, TablesOK, CitedWasRead
<1>2. ASSUME UNCHANGED <<filed, asked, queries, shown>>, typed' \in Questions \cup {NoQuestion},
             pinned' \subseteq queries
      PROVE  QueryInv'
  BY <1>2 DEF TablesOK, CitedWasRead
<1>3. ASSUME NEW k \in DOMAIN asked, NEW named, Phrased(k, named) PROVE QueryInv'
  <2>1. PICK e : e = [asked[k] EXCEPT !.at = "answered", !.cited = named \cap asked[k].rows]
    OBVIOUS
  <2>2. e \in Question /\ e.cited \subseteq e.rows
    BY <1>0, <2>1 DEF Question
  <2>3. asked' = [asked EXCEPT ![k] = e]
    BY <1>3, <2>1 DEF Phrased, Known
  <2>4. queries' = queries \cup {k} /\ UNCHANGED <<filed, shown, pinned, typed>>
    BY <1>3 DEF Phrased
  <2>5. shown' \in Seq(queries') /\ pinned' \subseteq queries'
    BY <1>0, <2>4 DEF TablesOK
  <2> QED BY <1>0, <2>2, <2>3, <2>4, <2>5, EntryStep DEF TablesOK
<1>4. ASSUME NEW k \in DOMAIN asked, CallFails(k) \/ Arrives(k) \/ ArrivesNot(k) PROVE QueryInv'
  <2>1. PICK at \in {"failed", "settled"} : asked' = [asked EXCEPT ![k].at = at]
    BY <1>4 DEF CallFails, Arrives, ArrivesNot
  <2>2. PICK e : e = [asked[k] EXCEPT !.at = at]
    OBVIOUS
  <2>3. e \in Question /\ e.cited \subseteq e.rows /\ e.at # "answered"
    BY <1>0, <2>2 DEF Question, CitedWasRead
  <2>4. asked' = [asked EXCEPT ![k] = e]
    BY <2>1, <2>2
  <2>5. UNCHANGED <<queries, filed, pinned>> /\ typed' \in Questions \cup {NoQuestion}
    BY <1>0, <1>4 DEF CallFails, Arrives, ArrivesNot, TablesOK
  <2>6. shown' \in Seq(queries')
    <3>1. shown \in Seq(queries)
      BY <1>0 DEF TablesOK
    <3>2. CASE shown' = shown
      BY <2>5, <3>1, <3>2
    <3>3. CASE Arrives(k)
      <4>1. k \in queries /\ shown' = Append(shown, k)
        BY <1>0, <3>3 DEF Arrives, CitedWasRead
      <4> QED BY <2>5, <3>1, <4>1
    <3> QED BY <1>4, <3>2, <3>3 DEF CallFails, ArrivesNot
  <2> QED BY <1>0, <2>3, <2>4, <2>5, <2>6, EntryStep DEF TablesOK
<1>5. ASSUME NEW q \in Questions, Type(q) \/ Suggested(q) PROVE QueryInv'
  <2>1. CASE Type(q)
    BY <1>0, <1>2, <2>1 DEF Type, TablesOK
  <2>2. CASE Suggested(q)
    BY <2>2, AsksStep DEF Suggested
  <2> QED BY <1>5, <2>1, <2>2
<1>6. CASE Submit
  <2>1. typed \in Questions
    BY <1>6 DEF Submit, TablesOK
  <2> QED BY <1>6, <2>1, AsksStep DEF Submit
<1>7. ASSUME NEW n \in DOMAIN shown, Pin(n) PROVE QueryInv'
  <2>1. shown[n] \in queries
    BY DEF TablesOK
  <2> QED BY <1>0, <1>2, <1>7, <2>1 DEF Pin, TablesOK
<1>8. CASE DayPasses \/ UNCHANGED queryVars
  BY <1>0, <1>2, <1>8 DEF DayPasses, queryVars, TablesOK
<1> QED BY <1>1, <1>3, <1>4, <1>5, <1>6, <1>7, <1>8 DEF QueryNext

\* runQuery and the screen: whatever is filed while the model phrases an answer and however
\* the answers of two questions cross, what is shown or pinned is stored and cites rows that
\* were read for its own question.
THEOREM CitedRowsWereRead == ReasoningSpec => []CitationsWereRead
<1>1. ReasoningInit => QueryInv
  <2> SUFFICES ASSUME ReasoningInit PROVE QueryInv
    OBVIOUS
  <2>1. filed = <<>> /\ asked = <<>> /\ queries = {} /\ shown = <<>> /\ pinned = {} /\ typed = NoQuestion
    BY DEF ReasoningInit, QueryInit
  <2> QED BY <2>1 DEF QueryInv, TablesOK, CitedWasRead
<1>2. QueryInv /\ [ReasoningNext]_reasoningVars => QueryInv'
  BY PartSteps, QueryStep
<1>3. QueryInv => CitationsWereRead
  <2> SUFFICES ASSUME QueryInv, NEW k \in {shown[n] : n \in DOMAIN shown} \cup pinned
               PROVE  k \in queries /\ asked[k].cited \subseteq asked[k].rows
    BY DEF CitationsWereRead
  <2>1. k \in queries
    <3>1. shown \in Seq(queries) /\ pinned \subseteq queries
      BY DEF QueryInv, TablesOK
    <3>2. \A n \in DOMAIN shown : shown[n] \in queries
      BY <3>1
    <3> QED BY <3>1, <3>2
  <2> QED BY <2>1 DEF QueryInv, TablesOK, CitedWasRead
<1> QED BY <1>1, <1>2, <1>3, PTL DEF ReasoningSpec

-----------------------------------------------------------------------------
(* The investigation loop *)

CountsOK == counts \in [calls : Nat, pulls : Nat, removals : Nat]

LEMMA CountsStep == CountsOK /\ [HypothesesNext]_hypothesesVars => CountsOK'
  BY DEF CountsOK, HypothesesNext, hypothesesVars, Ask, AnswerLost, Generate, GenerateCut, Asked, Pull, PullCut,
         RemoveSource, RegisterSource

\* The inserts of a generation, complete or cut short, leave what is settled as it is.
LEMMA SettledKept ==
  ASSUME NEW ids, NEW items, NEW n, NEW k, hyps' = Inserted(ids, items, n, k),
         NEW h \in Present, hyps[h].status # "open"
  PROVE  hyps'[h] = hyps[h]
  BY DEF Inserted, Survivors, Present

\* generateHypotheses deletes and inserts after its await: no hypothesis that an operator's
\* pull settled while the model was answering is lost or altered, in any interleaving of
\* generations and pulls and at whatever statement the process dies.
THEOREM SettledAreKept == ReasoningSpec => SettledSurvive
<1> DEFINE Ends == \E c \in Caller : calls[c] # Absent /\ calls'[c] = Absent /\ counts' = counts
<1> DEFINE Spared == \A h \in Present : hyps[h].status # "open" => hyps'[h] = hyps[h]
<1>1. ReasoningInit => CountsOK
  BY DEF ReasoningInit, HypothesesInit, CountsOK
<1>2. CountsOK /\ [ReasoningNext]_reasoningVars => CountsOK'
  BY PartSteps, CountsStep
<1>3. CountsOK /\ [ReasoningNext]_reasoningVars => [Ends => Spared]_hypothesesVars
  <2> SUFFICES ASSUME CountsOK, HypothesesNext, Ends PROVE Spared
    BY PartSteps
  <2>1. ASSUME NEW c \in Caller, Ask(c) \/ AnswerLost(c) PROVE Spared
    BY <2>1 DEF Ask, AnswerLost
  <2>2. ASSUME NEW c \in Caller, Generate(c) \/ GenerateCut(c) PROVE Spared
    <3>1. \E ids, items, n, k : hyps' = Inserted(ids, items, n, k)
      <4>1. CASE Generate(c)
        BY <4>1 DEF Generate
      <4>2. CASE GenerateCut(c)
        BY <4>2 DEF GenerateCut
      <4> QED BY <2>2, <4>1, <4>2
    <3> QED BY <3>1, SettledKept
  <2>3. ASSUME NEW h, NEW j, Pull(h, j) \/ PullCut(h, j) PROVE FALSE
    <3>1. counts' = [counts EXCEPT !.pulls = @ + 1]
      BY <2>3 DEF Pull, PullCut, Asked
    <3>2. counts' = counts
      OBVIOUS
    <3>3. counts.pulls \in Nat /\ counts'.pulls = counts.pulls + 1
      BY <3>1 DEF CountsOK
    <3> QED BY <3>2, <3>3
  <2>4. ASSUME NEW s, RemoveSource(s) \/ RegisterSource(s) PROVE Spared
    BY <2>4 DEF RemoveSource, RegisterSource
  <2> QED BY <2>1, <2>2, <2>3, <2>4 DEF HypothesesNext
<1> QED BY <1>1, <1>2, <1>3, PTL DEF ReasoningSpec, SettledSurvive

\* A stored hypothesis, and what its label may stand beside.
HypothesisRow ==
  [prior : 0..100, posterior : 0..100, status : {"open", "supported", "refuted"},
   requests : Seq([source : Source, state : {"queued", "returned", "unavailable"}])]

Earned(row) == /\ row.status = "supported" => row.posterior >= 15
               /\ row.status = "refuted" => row.posterior <= 70

\* Hypotheses that name no retrieval.
Untestable == {h \in Present : hyps[h].requests = <<>>}

HypothesesInv ==
  /\ DOMAIN hyps = Hyp /\ IsFiniteSet(Present) /\ torn \in Nat
  /\ \A h \in Present : hyps[h] \in HypothesisRow /\ Earned(hyps[h])
  /\ Cardinality(Untestable) <= torn

\* Sharing a shift among n siblings in n-ths of a hundredth and rounding once loses no label.
LEMMA RoundedFacts ==
  ASSUME NEW n \in Nat \ {0}, NEW x \in Int, n <= x, x <= 99 * n
  PROVE  /\ Rounded(x, n) \in 0..100
         /\ x >= 15 * n => Rounded(x, n) >= 15
         /\ x <= 70 * n => Rounded(x, n) <= 70
<1> DEFINE q == Rounded(x, n)
<1>1. q \in Int /\ q * (2 * n) <= 2 * x + n /\ 2 * x + n < (q + 1) * (2 * n)
  BY DEF Rounded
<1> HIDE DEF q
<1>2. ASSUME q < 0 PROVE FALSE
  <2>1. (q + 1) * (2 * n) <= 0
    BY <1>1, <1>2
  <2> QED BY <1>1, <2>1
<1>3. ASSUME q > 100 PROVE FALSE
  <2>1. q * (2 * n) >= 101 * (2 * n)
    BY <1>1, <1>3
  <2> QED BY <1>1, <2>1
<1>4. ASSUME x >= 15 * n, q < 15 PROVE FALSE
  <2>1. (q + 1) * (2 * n) <= 15 * (2 * n)
    BY <1>1, <1>4
  <2> QED BY <1>1, <1>4, <2>1
<1>5. ASSUME x <= 70 * n, q > 70 PROVE FALSE
  <2>1. q * (2 * n) >= 71 * (2 * n)
    BY <1>1, <1>5
  <2> QED BY <1>1, <1>5, <2>1
<1>6. q \in 0..100 /\ (x >= 15 * n => q >= 15) /\ (x <= 70 * n => q <= 70)
  BY <1>1, <1>2, <1>3, <1>4, <1>5
<1> QED BY <1>6 DEF q

LEMMA ClampFacts ==
  ASSUME NEW x \in Int, NEW low \in Int, NEW high \in Int, low <= high
  PROVE  Clamp(x, low, high) \in Int /\ low <= Clamp(x, low, high) /\ Clamp(x, low, high) <= high
  BY DEF Clamp

LEMMA ClampInto == ASSUME NEW x \in Int PROVE Clamp(x, 0, 100) \in 0..100
  BY DEF Clamp

\* Whatever label a number is given, one it may keep included, is earned by it.
LEMMA LabelFacts ==
  ASSUME NEW n \in Nat \ {0}, NEW x \in Int, n <= x, x <= 99 * n,
         NEW kept \in {"open", "supported", "refuted"}, NEW label \in Label(x, n, kept)
  PROVE  /\ label \in {"open", "supported", "refuted"} /\ Rounded(x, n) \in 0..100
         /\ label = "supported" => Rounded(x, n) >= 15
         /\ label = "refuted" => Rounded(x, n) <= 70
<1>1. 15 * n \in Int /\ 70 * n \in Int /\ 15 * n <= 70 * n
  OBVIOUS
<1>2. label = "supported" => x >= 15 * n
  BY <1>1 DEF Label
<1>3. label = "refuted" => x <= 70 * n
  BY <1>1 DEF Label
<1>4. label \in {"open", "supported", "refuted"}
  BY <1>1 DEF Label
<1> QED BY <1>2, <1>3, <1>4, RoundedFacts

LEMMA MemberOfList ==
  ASSUME NEW X, NEW s \in Seq(X), NEW j \in DOMAIN s PROVE s[j] \in X
  OBVIOUS

LEMMA PulledRow ==
  ASSUME HypothesesInv, NEW h \in Present, NEW j \in DOMAIN hyps[h].requests, NEW hit \in BOOLEAN
  PROVE  LET row == PullAnswered(h, j, hit)
         IN  row \in HypothesisRow /\ Earned(row) /\ row.requests # <<>>
<1>1. PICK old \in HypothesisRow : hyps[h] = old /\ Earned(old)
  BY DEF HypothesesInv
<1>2. PICK state \in {"queued", "returned", "unavailable"} : state = IF hit THEN "returned" ELSE "unavailable"
  OBVIOUS
<1>3. PICK requests \in Seq([source : Source, state : {"queued", "returned", "unavailable"}]) :
        requests = old.requests /\ j \in DOMAIN requests
  BY <1>1 DEF HypothesisRow
<1>4. PICK answered : answered = [requests EXCEPT ![j].state = state]
  OBVIOUS
<1>5. answered \in Seq([source : Source, state : {"queued", "returned", "unavailable"}]) /\ answered # <<>>
  <2>1. PICK request \in [source : Source, state : {"queued", "returned", "unavailable"}] :
          request = [requests[j] EXCEPT !.state = state]
    <3>1. PICK one \in [source : Source, state : {"queued", "returned", "unavailable"}] : one = requests[j]
      BY <1>3, MemberOfList
    <3>2. [one EXCEPT !.state = state] \in [source : Source, state : {"queued", "returned", "unavailable"}]
      BY <3>1
    <3> QED BY <3>1, <3>2
  <2>2. answered = [requests EXCEPT ![j] = request]
    BY <1>4, <2>1
  <2> QED BY <1>3, <2>1, <2>2
<1>6. PullAnswered(h, j, hit) = [old EXCEPT !.requests = answered]
  BY <1>1, <1>2, <1>3, <1>4 DEF PullAnswered
<1> QED BY <1>1, <1>5, <1>6 DEF HypothesisRow, Earned

LEMMA MovedRow ==
  ASSUME HypothesesInv, NEW h \in Present, NEW j \in DOMAIN hyps[h].requests, NEW hit \in BOOLEAN,
         NEW labels \in Labels(h, hit), NEW s \in Present
  PROVE  LET row == Moved(h, j, hit, labels)[s]
         IN  /\ row \in HypothesisRow /\ Earned(row)
             /\ row.requests = <<>> => hyps[s].requests = <<>>
<1>1. PICK old \in HypothesisRow : hyps[s] = old /\ Earned(old)
  BY DEF HypothesesInv
<1>2. PICK n \in Nat \ {0} : n = Shares(h)
  <2>1. IsFiniteSet(Siblings(h))
    BY FS_Subset DEF HypothesesInv, Siblings
  <2>2. Siblings(h) # {} => Cardinality(Siblings(h)) \in Nat \ {0}
    BY <2>1, FS_CardinalityType, FS_EmptySet
  <2> QED BY <2>2 DEF Shares
<1>3. PICK delta \in Int : delta = Delta(hit)
  BY DEF Delta
<1>4. CASE s = h
  <2>1. PICK own \in Int : own = Own(h, hit) /\ 1 <= own /\ own <= 99
    <3>1. old.posterior \in Int
      <4>1. old.posterior \in 0..100
        BY <1>1 DEF HypothesisRow
      <4> QED BY <4>1
    <3>2. PICK y \in Int : y = old.posterior + delta
      BY <3>1
    <3>3. Own(h, hit) = Clamp(y, 1, 99)
      BY <1>1, <1>3, <1>4, <3>2 DEF Own
    <3> QED BY <3>2, <3>3 DEF Clamp
  <2>2. PICK label : label = labels[h] /\ label \in Label(own, 1, "open")
    BY <2>1, <1>4 DEF Labels
  <2>3. label \in {"open", "supported", "refuted"} /\ (label = "supported" => own >= 70)
        /\ (label = "refuted" => own <= 15)
    BY <2>1, <2>2 DEF Label
  <2>4. PICK row : row = PullAnswered(h, j, hit) /\ row \in HypothesisRow /\ row.requests # <<>>
    BY PulledRow
  <2>5. Moved(h, j, hit, labels)[s] = [row EXCEPT !.posterior = own, !.status = label]
    BY <1>4, <2>1, <2>2, <2>4 DEF Moved
  <2>6. [row EXCEPT !.posterior = own, !.status = label] \in HypothesisRow
    <3>1. own \in 0..100
      BY <2>1
    <3> QED BY <3>1, <2>3, <2>4 DEF HypothesisRow
  <2>7. Earned([row EXCEPT !.posterior = own, !.status = label])
        /\ [row EXCEPT !.posterior = own, !.status = label].requests = row.requests
    BY <2>1, <2>3, <2>4 DEF HypothesisRow, Earned
  <2> QED BY <2>4, <2>5, <2>6, <2>7
<1>5. CASE s # h
  <2>1. PICK x \in Int : x = Shift(old, delta, n) /\ n <= x /\ x <= 99 * n
    <3>1. PICK p \in Int : p = old.posterior
      BY <1>1 DEF HypothesisRow
    <3>2. n \in Int /\ 99 * n \in Int /\ n <= 99 * n /\ p * n - delta \in Int
      BY <1>3
    <3> QED BY <3>1, <3>2, ClampFacts DEF Shift
  <2>2. PICK label : label = labels[s] /\ label \in Label(x, n, old.status)
    BY <1>1, <1>2, <1>3, <1>5, <2>1 DEF Labels
  <2>3. PICK posterior \in 0..100 : posterior = Rounded(x, n)
        /\ label \in {"open", "supported", "refuted"}
        /\ (label = "supported" => posterior >= 15) /\ (label = "refuted" => posterior <= 70)
    <3>1. old.status \in {"open", "supported", "refuted"}
      BY <1>1 DEF HypothesisRow
    <3> QED BY <2>1, <2>2, <3>1, LabelFacts
  <2>4. Moved(h, j, hit, labels)[s] = [old EXCEPT !.status = label, !.posterior = posterior]
    BY <1>1, <1>2, <1>3, <1>5, <2>1, <2>2, <2>3 DEF Moved
  <2> QED BY <1>1, <2>3, <2>4 DEF HypothesisRow, Earned
<1> QED BY <1>4, <1>5

\* A pull, complete or cut short, changes rows one by one and empties none.
LEMMA RowsStep ==
  ASSUME HypothesesInv, DOMAIN hyps' = Hyp, torn' = torn,
         \A s \in Hyp : \/ hyps'[s] = hyps[s]
                        \/ /\ s \in Present /\ hyps'[s] \in HypothesisRow /\ Earned(hyps'[s])
                           /\ hyps'[s].requests = <<>> => hyps[s].requests = <<>>
  PROVE  HypothesesInv'
<1>1. Present' \subseteq Present
  BY DEF Present
<1>2. IsFiniteSet(Present) /\ IsFiniteSet(Present')
  BY <1>1, FS_Subset DEF HypothesesInv
<1>3. \A s \in Present' : hyps'[s] \in HypothesisRow /\ Earned(hyps'[s])
  BY <1>1 DEF HypothesesInv, Present
<1>4. Untestable' \subseteq Untestable
  BY <1>1 DEF Untestable, Present
<1>5. IsFiniteSet(Untestable) /\ IsFiniteSet(Untestable')
  BY <1>2, FS_Subset DEF Untestable
<1>6. Cardinality(Untestable') <= torn'
  <2>1. Cardinality(Untestable') <= Cardinality(Untestable) /\ Cardinality(Untestable) \in Nat
        /\ Cardinality(Untestable') \in Nat
    BY <1>4, <1>5, FS_Subset, FS_CardinalityType
  <2> QED BY <2>1 DEF HypothesesInv
<1> QED BY <1>2, <1>3, <1>6 DEF HypothesesInv

LEMMA InsertedRow ==
  ASSUME NEW item \in Asking, NEW m \in 0..Len(item.asks)
  PROVE  /\ NewRow(item, m) \in HypothesisRow /\ Earned(NewRow(item, m))
         /\ NewRow(item, m).requests = <<>> => m = 0
<1>1. item.prior \in Int /\ item.asks \in Seq(Source)
  BY DEF Asking
<1>2. PICK prior \in 0..100 : prior = Clamp(item.prior, 0, 100)
  BY <1>1, ClampInto
<1>3. PICK requests : requests = [j \in 1..m |-> [source |-> item.asks[j], state |-> "queued"]]
  OBVIOUS
<1>4. requests \in Seq([source : Source, state : {"queued", "returned", "unavailable"}]) /\ Len(requests) = m
  <2>1. m \in Nat
    BY <1>1
  <2>2. \A j \in 1..m : [source |-> item.asks[j], state |-> "queued"]
                          \in [source : Source, state : {"queued", "returned", "unavailable"}]
    BY <1>1
  <2> QED BY <1>3, <2>1, <2>2
<1>5. NewRow(item, m) = [prior |-> prior, posterior |-> prior, status |-> "open", requests |-> requests]
  BY <1>2, <1>3 DEF NewRow
<1>6. requests = <<>> => m = 0
  BY <1>4
<1> QED BY <1>4, <1>5, <1>6 DEF HypothesisRow, Earned

\* The inserts are of hypotheses that ask; the one they stop in is the only one that may lack.
LEMMA InsertedStep ==
  ASSUME HypothesesInv, NEW items \in Seq(Asking), NEW n \in 0..Len(items), NEW ids \in FreshIds(n),
         NEW k \in Nat, n # 0 => k <= Len(items[n].asks), hyps' = Inserted(ids, items, n, k),
         \/ torn' = torn + 1
         \/ torn' = torn /\ (n # 0 => k # 0)
  PROVE  HypothesesInv'
<1> DEFINE New == {ids[i] : i \in 1..n}
<1> DEFINE m(i) == IF i = n THEN k ELSE Len(items[i].asks)
<1>1. n \in Nat /\ torn \in Nat
  BY DEF HypothesesInv
<1>2. \A i \in 1..n : items[i] \in Asking /\ Len(items[i].asks) \in Nat \ {0}
  <2>1. \A i \in 1..n : items[i] \in Asking
    OBVIOUS
  <2>2. \A item \in Asking : Len(item.asks) \in Nat \ {0}
    <3> SUFFICES ASSUME NEW item \in Asking PROVE Len(item.asks) \in Nat \ {0}
      OBVIOUS
    <3>1. item.asks \in Seq(Source) /\ item.asks # <<>>
      BY DEF Asking
    <3> QED BY <3>1
  <2> QED BY <2>1, <2>2
<1>3. \A i \in 1..n : m(i) \in 0..Len(items[i].asks) /\ (m(i) = 0 => i = n /\ k = 0)
  BY <1>2
<1>4. \A i \in 1..n : /\ NewRow(items[i], m(i)) \in HypothesisRow /\ Earned(NewRow(items[i], m(i)))
                      /\ NewRow(items[i], m(i)).requests = <<>> => i = n /\ k = 0
  <2> HIDE DEF m
  <2> QED BY <1>2, <1>3, InsertedRow
<1>5. \A h \in Hyp : \/ h \in Survivors(hyps) /\ hyps'[h] = hyps[h]
                     \/ \E i \in 1..n : ids[i] = h /\ hyps'[h] = NewRow(items[i], m(i))
                     \/ hyps'[h] = Absent
  <2> SUFFICES ASSUME NEW h \in Hyp, h \notin Survivors(hyps), NEW i \in 1..n, ids[i] = h
               PROVE  \E j \in 1..n : ids[j] = h /\ hyps'[h] = NewRow(items[j], m(j))
    BY DEF Inserted
  <2>1. PICK j \in 1..n : j = CHOOSE y \in 1..n : ids[y] = h
    OBVIOUS
  <2>2. ids[j] = h
    BY <2>1
  <2>3. hyps'[h] = NewRow(items[j], m(j))
    BY <2>1 DEF Inserted
  <2> QED BY <2>2, <2>3
<1> HIDE DEF m
<1>6. Survivors(hyps) \subseteq Present
  BY DEF Survivors, Present
<1>7. IsFiniteSet(Present')
  <2>1. IsFiniteSet(New)
    <3>1. ids \in Seq(New) /\ DOMAIN ids = 1..n
      BY <1>1 DEF FreshIds
    <3>2. Len(ids) = n
      BY <1>1, <3>1
    <3> QED BY <3>1, <3>2 DEF IsFiniteSet
  <2>2. IsFiniteSet(Survivors(hyps) \cup New)
    BY <1>6, <2>1, FS_Subset, FS_Union DEF HypothesesInv
  <2>3. Present' \subseteq Survivors(hyps) \cup New
    BY <1>5 DEF Present
  <2> QED BY <2>2, <2>3, FS_Subset
<1>8. \A h \in Present' : hyps'[h] \in HypothesisRow /\ Earned(hyps'[h])
  BY <1>4, <1>5, <1>6 DEF Present, HypothesesInv
<1>9. Cardinality(Untestable') <= torn'
  <2>1. IsFiniteSet(Untestable) /\ Cardinality(Untestable) \in Nat /\ Cardinality(Untestable) <= torn
    BY FS_Subset, FS_CardinalityType DEF HypothesesInv, Untestable
  <2>2. \A h \in Untestable' : h \in Untestable \/ (n # 0 /\ k = 0 /\ h = ids[n])
    BY <1>1, <1>4, <1>5, <1>6 DEF Untestable, Present
  <2>3. CASE n # 0 /\ k = 0
    <3>1. Untestable' \subseteq Untestable \cup {ids[n]}
      BY <2>2
    <3>2. IsFiniteSet(Untestable \cup {ids[n]}) /\ Cardinality(Untestable \cup {ids[n]}) <= Cardinality(Untestable) + 1
      <4>1. IsFiniteSet(Untestable \cup {ids[n]})
            /\ Cardinality(Untestable \cup {ids[n]})
                 = IF ids[n] \in Untestable THEN Cardinality(Untestable) ELSE Cardinality(Untestable) + 1
        BY <2>1, FS_AddElement
      <4> QED BY <2>1, <4>1
    <3>3. Cardinality(Untestable') <= Cardinality(Untestable \cup {ids[n]}) /\ Cardinality(Untestable') \in Nat
          /\ Cardinality(Untestable \cup {ids[n]}) \in Nat
      BY <3>1, <3>2, FS_Subset, FS_CardinalityType
    <3> QED BY <1>1, <2>1, <2>3, <3>2, <3>3
  <2>4. CASE ~ (n # 0 /\ k = 0)
    <3>1. Untestable' \subseteq Untestable
      BY <2>2, <2>4
    <3>2. Cardinality(Untestable') <= Cardinality(Untestable) /\ Cardinality(Untestable') \in Nat
      BY <3>1, <2>1, FS_Subset, FS_CardinalityType
    <3> QED BY <1>1, <2>1, <3>2
  <2> QED BY <2>3, <2>4
<1>10. DOMAIN hyps' = Hyp /\ torn' \in Nat
  BY <1>1 DEF Inserted
<1> QED BY <1>7, <1>8, <1>9, <1>10 DEF HypothesesInv

\* The filters of generateHypotheses keep hypotheses that ask, whatever the model answered.
LEMMA TestableAsks ==
  ASSUME NEW answer \in Answers, NEW known
  PROVE  Testable(answer, known) \in Seq(Asking)
<1> DEFINE Item == [prior : Int, asks : Seq(Source)]
<1> DEFINE narrowed == [i \in DOMAIN answer |-> [answer[i] EXCEPT !.asks = Filter(@, known)]]
<1>1. answer \in Seq(Item)
  BY AnswersAssumption
<1>2. narrowed \in Seq(Item)
  <2>1. ASSUME NEW i \in DOMAIN answer PROVE narrowed[i] \in Item
    <3>1. PICK item \in Item : item = answer[i]
      BY <1>1, MemberOfList
    <3>2. PICK asks \in Seq(Source) : asks = Filter(item.asks, known)
      BY <3>1, FilterFacts
    <3>3. narrowed[i] = [item EXCEPT !.asks = asks]
      BY <3>1, <3>2
    <3> QED BY <3>1, <3>2, <3>3
  <2>2. DOMAIN answer = 1..Len(answer) /\ Len(answer) \in Nat /\ DOMAIN narrowed = DOMAIN answer
    BY <1>1
  <2>3. narrowed = [i \in 1..Len(answer) |-> narrowed[i]]
    BY <2>2
  <2> HIDE DEF narrowed, Item
  <2> QED BY <2>1, <2>2, <2>3
<1> HIDE DEF narrowed, Item
<1>3. PICK kept \in Seq(Item) : kept = Filter(narrowed, Asking) /\ ToSet(kept) = ToSet(narrowed) \cap Asking
  BY <1>2, FilterFacts
<1>4. kept \in Seq(Asking)
  <2>1. \A i \in DOMAIN kept : kept[i] \in Asking
    BY <1>3 DEF ToSet
  <2> QED BY <1>3, <2>1
<1> QED BY <1>3, <1>4 DEF Testable, narrowed

LEMMA GenerationStep ==
  ASSUME HypothesesInv, NEW c \in Caller, Generate(c) \/ GenerateCut(c)
  PROVE  HypothesesInv'
<1>1. CASE Generate(c)
  <2>1. PICK answer \in Answers, items \in Seq(Asking) :
          /\ items = Testable(answer, calls[c])
          /\ \E ids \in FreshIds(Len(items)) :
               hyps' = Inserted(ids, items, Len(items), IF items = <<>> THEN 0 ELSE Len(Last(items).asks))
    BY <1>1, TestableAsks DEF Generate
  <2>2. PICK k \in Nat : /\ k = (IF items = <<>> THEN 0 ELSE Len(Last(items).asks))
                         /\ Len(items) # 0 => k = Len(items[Len(items)].asks) /\ k # 0
    <3>1. CASE items = <<>>
      BY <3>1
    <3>2. CASE items # <<>>
      <4>1. PICK item \in Asking : item = items[Len(items)] /\ item = Last(items)
        BY <2>1, <3>2 DEF Last
      <4>2. item.asks \in Seq(Source) /\ item.asks # <<>>
        BY DEF Asking
      <4>3. Len(item.asks) \in Nat \ {0}
        BY <4>2
      <4> QED BY <3>2, <4>1, <4>3
    <3> QED BY <3>1, <3>2
  <2>3. PICK ids \in FreshIds(Len(items)) : hyps' = Inserted(ids, items, Len(items), k)
    BY <2>1, <2>2
  <2>4. Len(items) \in 0..Len(items) /\ torn' = torn /\ (Len(items) # 0 => k <= Len(items[Len(items)].asks))
    BY <1>1, <2>1, <2>2 DEF Generate
  <2> QED BY <2>2, <2>3, <2>4, InsertedStep
<1>2. CASE GenerateCut(c)
  <2>1. PICK answer \in Answers, items \in Seq(Asking) :
          /\ items = Testable(answer, calls[c])
          /\ \E n \in 0..Len(items) : \E k \in IF n = 0 THEN {0} ELSE 0..Len(items[n].asks) :
             \E ids \in FreshIds(n) : hyps' = Inserted(ids, items, n, k)
    BY <1>2, TestableAsks DEF GenerateCut
  <2>2. PICK n \in 0..Len(items), k \in Nat :
          /\ n # 0 => k <= Len(items[n].asks)
          /\ \E ids \in FreshIds(n) : hyps' = Inserted(ids, items, n, k)
    <3>1. ASSUME NEW n \in 0..Len(items), NEW k \in IF n = 0 THEN {0} ELSE 0..Len(items[n].asks)
          PROVE  k \in Nat /\ (n # 0 => k <= Len(items[n].asks))
      <4>1. CASE n = 0
        BY <4>1
      <4>2. CASE n # 0
        <5>1. n \in 1..Len(items)
          BY <4>2
        <5>2. PICK item \in Asking : item = items[n]
          BY <2>1, <5>1
        <5>3. item.asks \in Seq(Source)
          BY <5>2 DEF Asking
        <5>4. Len(items[n].asks) \in Nat
          BY <5>2, <5>3
        <5> QED BY <4>2, <5>4
      <4> QED BY <4>1, <4>2
    <3> QED BY <2>1, <3>1
  <2>3. torn' = torn + 1
    BY <1>2 DEF GenerateCut
  <2> QED BY <2>2, <2>3, InsertedStep
<1> QED BY <1>1, <1>2

LEMMA PullStep ==
  ASSUME HypothesesInv, NEW h \in Present, NEW j \in DOMAIN hyps[h].requests, Pull(h, j) \/ PullCut(h, j)
  PROVE  HypothesesInv'
<1>1. PICK hit, labels :
        /\ hit \in BOOLEAN /\ labels \in Labels(h, hit) /\ DOMAIN hyps' = Hyp
        /\ \A s \in Hyp : \/ hyps'[s] = hyps[s]
                          \/ s \in Present /\ hyps'[s] = Moved(h, j, hit, labels)[s]
                          \/ s = h /\ hyps'[s] = PullAnswered(h, j, hit)
  <2>1. CASE Pull(h, j)
    <3>1. PICK hit, labels :
            /\ hit \in BOOLEAN /\ labels \in Labels(h, hit)
            /\ hyps' = [s \in Hyp |-> IF s \in Present THEN Moved(h, j, hit, labels)[s] ELSE hyps[s]]
      BY <2>1 DEF Pull
    <3> QED BY <3>1
  <2>2. CASE PullCut(h, j)
    <3>1. PICK hit \in BOOLEAN : \E labels \in Labels(h, hit) : \E done \in Written(h) :
            hyps' = [s \in Hyp |-> IF s \in done THEN Moved(h, j, hit, labels)[s]
                                   ELSE IF s = h THEN PullAnswered(h, j, hit) ELSE hyps[s]]
      BY <2>2 DEF PullCut
    <3>2. PICK labels \in Labels(h, hit) : \E done \in Written(h) :
            hyps' = [s \in Hyp |-> IF s \in done THEN Moved(h, j, hit, labels)[s]
                                   ELSE IF s = h THEN PullAnswered(h, j, hit) ELSE hyps[s]]
      BY <3>1
    <3>3. PICK done \in Written(h) :
            hyps' = [s \in Hyp |-> IF s \in done THEN Moved(h, j, hit, labels)[s]
                                   ELSE IF s = h THEN PullAnswered(h, j, hit) ELSE hyps[s]]
      BY <3>2
    <3>4. done \subseteq Present
      BY DEF Written, Siblings
    <3> QED BY <3>1, <3>2, <3>3, <3>4
  <2> QED BY <2>1, <2>2
<1>2. \A s \in Present : LET row == Moved(h, j, hit, labels)[s]
                         IN  /\ row \in HypothesisRow /\ Earned(row)
                             /\ row.requests = <<>> => hyps[s].requests = <<>>
  BY <1>1, MovedRow
<1>3. LET row == PullAnswered(h, j, hit) IN row \in HypothesisRow /\ Earned(row) /\ row.requests # <<>>
  BY <1>1, PulledRow
<1>4. torn' = torn
  BY DEF Pull, PullCut
<1> QED BY <1>1, <1>2, <1>3, <1>4, RowsStep

LEMMA HypothesesStep == HypothesesInv /\ [HypothesesNext]_hypothesesVars => HypothesesInv'
<1> SUFFICES ASSUME HypothesesInv, [HypothesesNext]_hypothesesVars PROVE HypothesesInv'
  OBVIOUS
<1>1. ASSUME UNCHANGED <<hyps, torn>> PROVE HypothesesInv'
  BY <1>1 DEF HypothesesInv, Present, Untestable
<1>2. ASSUME NEW c \in Caller, Ask(c) \/ AnswerLost(c) PROVE HypothesesInv'
  BY <1>1, <1>2 DEF Ask, AnswerLost
<1>3. ASSUME NEW s \in Source, RemoveSource(s) \/ RegisterSource(s) PROVE HypothesesInv'
  BY <1>1, <1>3 DEF RemoveSource, RegisterSource
<1>4. CASE UNCHANGED hypothesesVars
  BY <1>1, <1>4 DEF hypothesesVars
<1> QED BY <1>2, <1>3, <1>4, GenerationStep, PullStep DEF HypothesesNext

\* A hypothesis without a retrieval is kept only where a death cut its inserts short
\* (hypotheses.ts:18-20), and no label stands beside a number past the threshold of the other,
\* for any number of siblings and any rounding of the share each is moved by.
THEOREM LabelsStandBesideTheirNumbers == ReasoningSpec => []LabelsAreEarned
<1>1. ReasoningInit => HypothesesInv
  <2> SUFFICES ASSUME ReasoningInit PROVE HypothesesInv
    OBVIOUS
  <2>1. hyps = [h \in Hyp |-> Absent] /\ torn = 0
    BY DEF ReasoningInit, HypothesesInit
  <2>2. Present = {} /\ Untestable = {} /\ DOMAIN hyps = Hyp
    BY <2>1 DEF Present, Untestable
  <2> QED BY <2>1, <2>2, FS_EmptySet DEF HypothesesInv
<1>2. HypothesesInv /\ [ReasoningNext]_reasoningVars => HypothesesInv'
  BY PartSteps, HypothesesStep
<1>3. HypothesesInv => LabelsAreEarned
  BY DEF HypothesesInv, LabelsAreEarned, Earned, Untestable
<1> QED BY <1>1, <1>2, <1>3, PTL DEF ReasoningSpec

-----------------------------------------------------------------------------
(* One call through the gateway *)

Request == [model : ToSet(Chain), outcome : Outcome]

\* Of the n-th model: its capacity signals, its failures, and the attempts they have used up.
Signals(n) == Count(Chain[n], {"capacity"})
Lapses(n) == Count(Chain[n], Outcome \ {"capacity", "usable"})
Over(n) == IF Signals(n) > CapacityRetries THEN Signals(n) - CapacityRetries ELSE 0
Used(n) == Lapses(n) + Over(n)

CallOK ==
  /\ index \in 1..Len(Chain) /\ attempt \in Nat /\ waits \in Nat /\ sent \in Seq(Request)

\* The counters of the call are what the requests sent so far amount to.
GatewayInv ==
  /\ CallOK
  /\ waits = IF Signals(index) < CapacityRetries THEN Signals(index) ELSE CapacityRetries
  /\ IF phase = "threw" THEN Used(index) = Attempts(Chain[index])
     ELSE Used(index) = attempt /\ attempt < Attempts(Chain[index])
  /\ \A n \in 1..(index - 1) : Used(n) = Attempts(Chain[n])
  /\ \A n \in (index + 1)..Len(Chain) : Signals(n) = 0 /\ Lapses(n) = 0

\* A request answered is one more of its outcome, for the model it was sent to alone.
LEMMA LogStep ==
  ASSUME GatewayInv, NEW o \in Outcome, NEW rows, Log(o, rows)
  PROVE  /\ sent' \in Seq(Request) /\ phase = "awaiting"
         /\ \A n \in 1..Len(Chain) :
              /\ Signals(n) \in Nat /\ Lapses(n) \in Nat
              /\ Signals(n)' = Signals(n) + (IF n = index /\ o = "capacity" THEN 1 ELSE 0)
              /\ Lapses(n)' = Lapses(n) + (IF n = index /\ o \notin {"capacity", "usable"} THEN 1 ELSE 0)
<1>1. /\ sent \in Seq(Request) /\ index \in 1..Len(Chain) /\ Chain[index] \in ToSet(Chain)
      /\ sent' = Append(sent, [model |-> Chain[index], outcome |-> o]) /\ phase = "awaiting"
  <2>1. index \in DOMAIN Chain
    BY ChainAssumption DEF GatewayInv, CallOK
  <2> QED BY <2>1 DEF GatewayInv, CallOK, Log, Model, ToSet
<1>2. ASSUME NEW n \in 1..Len(Chain) PROVE Chain[n] = Chain[index] <=> n = index
  <2>1. n \in DOMAIN Chain /\ index \in DOMAIN Chain
    BY <1>1, ChainAssumption
  <2> QED BY <2>1, ChainAssumption DEF IsInjective
<1>3. ASSUME NEW n \in 1..Len(Chain), NEW outcomes
      PROVE  /\ sent' \in Seq(Request) /\ Count(Chain[n], outcomes) \in Nat
             /\ Count(Chain[n], outcomes)'
                  = Count(Chain[n], outcomes) + (IF n = index /\ o \in outcomes THEN 1 ELSE 0)
  <2>1. PICK s, t : s \in Seq(Request) /\ s = sent /\ t = sent'
    BY <1>1
  <2>2. PICK x \in Request : x = [model |-> Chain[index], outcome |-> o] /\ t = Append(s, x)
    BY <1>1, <2>1 DEF Request
  <2>3. PICK T : T = [model : {Chain[n]}, outcome : outcomes]
    OBVIOUS
  <2>4. x \in T <=> (n = index /\ o \in outcomes)
    BY <1>2, <2>2, <2>3
  <2>5. Count(Chain[n], outcomes) = Len(Filter(s, T)) /\ Count(Chain[n], outcomes)' = Len(Filter(t, T))
    BY <2>1, <2>3 DEF Count
  <2>6. /\ t \in Seq(Request) /\ Len(Filter(s, T)) \in Nat
        /\ Len(Filter(t, T)) = Len(Filter(s, T)) + (IF x \in T THEN 1 ELSE 0)
    BY <2>1, <2>2, FilterCounts
  <2> QED BY <2>1, <2>4, <2>5, <2>6
<1>4. sent' \in Seq(Request)
  BY <1>1, <1>3
<1>5. o \in Outcome \ {"capacity", "usable"} <=> o \notin {"capacity", "usable"}
  OBVIOUS
<1>6. ASSUME NEW n \in 1..Len(Chain)
      PROVE  /\ Signals(n) \in Nat /\ Lapses(n) \in Nat
             /\ Signals(n)' = Signals(n) + (IF n = index /\ o = "capacity" THEN 1 ELSE 0)
             /\ Lapses(n)' = Lapses(n) + (IF n = index /\ o \notin {"capacity", "usable"} THEN 1 ELSE 0)
  BY <1>3, <1>5 DEF Signals, Lapses
<1> QED BY <1>1, <1>4, <1>6

\* What has been used up of a model moves with its own requests alone.
LEMMA OthersUnused ==
  ASSUME NEW n, Signals(n)' = Signals(n), Lapses(n)' = Lapses(n) PROVE Used(n)' = Used(n)
  BY DEF Used, Over

LEMMA AttemptsType == \A model : Attempts(model) \in {1, 2}
  BY DEF Attempts

\* The next attempt, the next model or the throw, after one more of what uses an attempt up.
LEMMA NextAttemptStep ==
  ASSUME GatewayInv, NextAttempt, phase = "awaiting", sent' \in Seq(Request),
         NEW i \in 1..Len(Chain), i = index, Used(i)' = attempt + 1,
         waits = IF Signals(i)' < CapacityRetries THEN Signals(i)' ELSE CapacityRetries,
         \A n \in 1..Len(Chain) : n # i => Signals(n)' = Signals(n) /\ Lapses(n)' = Lapses(n)
  PROVE  GatewayInv'
<1>1. /\ attempt \in Nat /\ waits \in Nat /\ attempt < Attempts(Chain[i]) /\ Attempts(Chain[i]) \in {1, 2}
      /\ Len(Chain) \in Nat /\ i \in Nat
      /\ \A n \in 1..(i - 1) : Used(n) = Attempts(Chain[n])
      /\ \A n \in (i + 1)..Len(Chain) : Signals(n) = 0 /\ Lapses(n) = 0
  BY AttemptsType, ChainAssumption DEF GatewayInv, CallOK
<1>2. \A n \in 1..(i - 1) : Used(n)' = Attempts(Chain[n])
  <2>1. \A n \in 1..(i - 1) : n \in 1..Len(Chain) /\ n # i
    BY <1>1
  <2> QED BY <1>1, <2>1, OthersUnused
<1>3. \A n \in (i + 1)..Len(Chain) : Signals(n)' = 0 /\ Lapses(n)' = 0
  <2>1. \A n \in (i + 1)..Len(Chain) : n \in 1..Len(Chain) /\ n # i
    BY <1>1
  <2> QED BY <1>1, <2>1
<1>4. CASE attempt + 1 < Attempts(Chain[i])
  <2>1. phase' = "ready" /\ attempt' = attempt + 1 /\ index' = i /\ waits' = waits
    BY <1>4 DEF NextAttempt, Model
  <2> QED BY <1>1, <1>2, <1>3, <1>4, <2>1 DEF GatewayInv, CallOK
<1>5. CASE ~ (attempt + 1 < Attempts(Chain[i])) /\ i < Len(Chain)
  <2>1. phase' = "ready" /\ attempt' = 0 /\ waits' = 0 /\ index' = i + 1
    BY <1>5 DEF NextAttempt, Model
  <2>2. i + 1 \in (i + 1)..Len(Chain) /\ i + 1 \in 1..Len(Chain)
    BY <1>1, <1>5
  <2>3. PICK k : k = i + 1 /\ k \in 1..Len(Chain) /\ Signals(k)' = 0 /\ Used(k)' = 0
    BY <1>3, <2>2, ChainAssumption DEF Used, Over
  <2>4. Used(i)' = Attempts(Chain[i])
    BY <1>1, <1>5
  <2>5. \A n \in 1..(k - 1) : Used(n)' = Attempts(Chain[n])
    <3>1. \A n \in 1..(k - 1) : n \in 1..(i - 1) \/ n = i
      BY <1>1, <2>3
    <3> QED BY <1>2, <2>4, <3>1
  <2>6. \A n \in (k + 1)..Len(Chain) : Signals(n)' = 0 /\ Lapses(n)' = 0
    <3>1. \A n \in (k + 1)..Len(Chain) : n \in (i + 1)..Len(Chain)
      BY <1>1, <2>3
    <3> QED BY <1>3, <3>1
  <2>7. Attempts(Chain[k]) \in {1, 2}
    BY AttemptsType
  <2>8. waits' = IF Signals(k)' < CapacityRetries THEN Signals(k)' ELSE CapacityRetries
    BY <2>1, <2>3, ChainAssumption
  <2> QED BY <2>1, <2>3, <2>5, <2>6, <2>7, <2>8 DEF GatewayInv, CallOK
<1>6. CASE ~ (attempt + 1 < Attempts(Chain[i])) /\ ~ (i < Len(Chain))
  <2>1. phase' = "threw" /\ index' = i /\ attempt' = attempt /\ waits' = waits
    BY <1>6 DEF NextAttempt, Model
  <2>2. Used(i)' = Attempts(Chain[i])
    BY <1>1, <1>6
  <2> QED BY <1>1, <1>2, <1>3, <2>1, <2>2 DEF GatewayInv, CallOK
<1> QED BY <1>4, <1>5, <1>6

\* A step that sends nothing to a model and leaves the counters leaves the account.
LEMMA SameAccount ==
  ASSUME GatewayInv, phase # "threw", phase' # "threw", UNCHANGED <<index, attempt, waits, sent>>
  PROVE  GatewayInv'
  BY DEF GatewayInv, CallOK, Used, Over, Signals, Lapses, Count

LEMMA AnsweredStep == ASSUME GatewayInv, Answered PROVE GatewayInv'
<1>1. PICK i \in 1..Len(Chain) : i = index
  BY DEF GatewayInv, CallOK
<1>2. PICK c \in Nat : c = CapacityRetries
  BY ChainAssumption
<1>3. attempt \in Nat /\ waits \in Nat /\ waits = IF Signals(i) < c THEN Signals(i) ELSE c
  BY <1>1, <1>2 DEF GatewayInv, CallOK
<1>4. ASSUME NEW o \in Outcome \ {"capacity", "usable"}, NEW rows, Log(o, rows), NextAttempt
      PROVE  GatewayInv'
  <2>1. /\ sent' \in Seq(Request) /\ phase = "awaiting"
        /\ \A n \in 1..Len(Chain) :
             /\ Signals(n) \in Nat /\ Lapses(n) \in Nat
             /\ Signals(n)' = Signals(n) + (IF n = index /\ o = "capacity" THEN 1 ELSE 0)
             /\ Lapses(n)' = Lapses(n) + (IF n = index /\ o \notin {"capacity", "usable"} THEN 1 ELSE 0)
    BY <1>4, LogStep
  <2>2. /\ Signals(i) \in Nat /\ Signals(i)' = Signals(i)
        /\ Lapses(i) \in Nat /\ Lapses(i)' = Lapses(i) + 1
    BY <1>1, <2>1
  <2>3. \A n \in 1..Len(Chain) : n # i => Signals(n)' = Signals(n) /\ Lapses(n)' = Lapses(n)
    BY <1>1, <2>1
  <2>4. Used(i) = attempt
    BY <1>1, <2>1 DEF GatewayInv
  <2>5. Used(i)' = attempt + 1
    BY <1>2, <2>2, <2>4 DEF Used, Over
  <2> QED BY <1>1, <1>2, <1>3, <1>4, <2>1, <2>2, <2>3, <2>5, NextAttemptStep
<1>5. CASE Capacity
  <2>1. /\ sent' \in Seq(Request) /\ phase = "awaiting"
        /\ \A n \in 1..Len(Chain) :
             /\ Signals(n) \in Nat /\ Lapses(n) \in Nat
             /\ Signals(n)' = Signals(n) + (IF n = index /\ "capacity" = "capacity" THEN 1 ELSE 0)
             /\ Lapses(n)' = Lapses(n) + (IF n = index /\ "capacity" \notin {"capacity", "usable"} THEN 1 ELSE 0)
    BY <1>5, LogStep DEF Capacity, Outcome
  <2>2. /\ Signals(i) \in Nat /\ Signals(i)' = Signals(i) + 1
        /\ Lapses(i) \in Nat /\ Lapses(i)' = Lapses(i)
    BY <1>1, <2>1
  <2>3. \A n \in 1..Len(Chain) : n # i => Signals(n)' = Signals(n) /\ Lapses(n)' = Lapses(n)
    BY <1>1, <2>1
  <2>4. Used(i) = attempt /\ attempt < Attempts(Chain[i])
    BY <1>1, <2>1 DEF GatewayInv
  <2>5. CASE waits < CapacityRetries
    <3>1. phase' = "backoff" /\ waits' = waits + 1 /\ index' = i /\ attempt' = attempt
      BY <1>1, <1>5, <2>5 DEF Capacity
    <3>2. Used(i)' = attempt /\ waits' = IF Signals(i)' < c THEN Signals(i)' ELSE c
      BY <1>2, <1>3, <2>2, <2>4, <2>5, <3>1 DEF Used, Over
    <3>3. \A n \in 1..(i - 1) : Used(n)' = Attempts(Chain[n])
      <4>1. \A n \in 1..(i - 1) : n \in 1..Len(Chain) /\ n # i
        BY ChainAssumption
      <4>2. \A n \in 1..(i - 1) : Used(n) = Attempts(Chain[n])
        BY <1>1 DEF GatewayInv
      <4> QED BY <2>3, <4>1, <4>2, OthersUnused
    <3>4. \A n \in (i + 1)..Len(Chain) : Signals(n)' = 0 /\ Lapses(n)' = 0
      <4>1. \A n \in (i + 1)..Len(Chain) : n \in 1..Len(Chain) /\ n # i
        BY ChainAssumption
      <4>2. \A n \in (i + 1)..Len(Chain) : Signals(n) = 0 /\ Lapses(n) = 0
        BY <1>1 DEF GatewayInv
      <4> QED BY <2>3, <4>1, <4>2
    <3> QED BY <1>2, <1>3, <2>1, <2>4, <3>1, <3>2, <3>3, <3>4 DEF GatewayInv, CallOK
  <2>6. CASE ~ (waits < CapacityRetries)
    <3>1. Used(i)' = attempt + 1 /\ waits = IF Signals(i)' < c THEN Signals(i)' ELSE c
      <4>1. Signals(i) >= c /\ waits = c
        BY <1>2, <1>3, <2>2, <2>6
      <4>2. Over(i) = Signals(i) - c /\ Over(i)' = Signals(i) + 1 - c
        BY <1>2, <2>2, <4>1 DEF Over
      <4> QED BY <1>2, <2>2, <2>4, <4>1, <4>2 DEF Used
    <3>2. NextAttempt
      BY <1>5, <2>6 DEF Capacity
    <3> QED BY <1>1, <1>2, <2>1, <2>3, <3>1, <3>2, NextAttemptStep
  <2> QED BY <2>5, <2>6
<1>6. CASE Usable
  <2>1. /\ sent' \in Seq(Request) /\ phase = "awaiting"
        /\ \A n \in 1..Len(Chain) :
             /\ Signals(n) \in Nat /\ Lapses(n) \in Nat
             /\ Signals(n)' = Signals(n) + (IF n = index /\ "usable" = "capacity" THEN 1 ELSE 0)
             /\ Lapses(n)' = Lapses(n) + (IF n = index /\ "usable" \notin {"capacity", "usable"} THEN 1 ELSE 0)
    BY <1>6, LogStep DEF Usable, Outcome
  <2>2. \A n \in 1..Len(Chain) : Signals(n)' = Signals(n) /\ Lapses(n)' = Lapses(n) /\ Used(n)' = Used(n)
    BY <2>1, OthersUnused
  <2>3. phase' = "returned" /\ index' = i /\ attempt' = attempt /\ waits' = waits
    BY <1>1, <1>6 DEF Usable
  <2>4. \A n \in 1..Len(Chain) : (n \in 1..(i - 1) => Used(n) = Attempts(Chain[n]))
                                /\ (n \in (i + 1)..Len(Chain) => Signals(n) = 0 /\ Lapses(n) = 0)
    BY <1>1 DEF GatewayInv
  <2>5. (\A n \in 1..(i - 1) : n \in 1..Len(Chain)) /\ (\A n \in (i + 1)..Len(Chain) : n \in 1..Len(Chain))
    BY ChainAssumption
  <2>6. Used(i) = attempt /\ attempt < Attempts(Chain[i])
    BY <1>1, <2>1 DEF GatewayInv
  <2> QED BY <1>2, <1>3, <2>1, <2>2, <2>3, <2>4, <2>5, <2>6 DEF GatewayInv, CallOK
<1>7. CASE Refused
  BY <1>4, <1>7 DEF Refused, Outcome
<1>8. CASE Unreadable
  BY <1>4, <1>8 DEF Unreadable, Outcome
<1>9. CASE Truncated
  BY <1>4, <1>9 DEF Truncated, Outcome
<1>10. CASE Unusable
  BY <1>4, <1>10 DEF Unusable, Outcome
<1> QED BY <1>5, <1>6, <1>7, <1>8, <1>9, <1>10 DEF Answered

\* A call that begins has used nothing up.
LEMMA FreshCall == Init => GatewayInv
<1> SUFFICES ASSUME Init PROVE GatewayInv
  OBVIOUS
<1>1. sent = <<>> /\ phase = "ready" /\ index = 1 /\ attempt = 0 /\ waits = 0
  BY DEF Init
<1>2. sent \in Seq(Request) /\ Len(sent) = 0
  BY <1>1
<1>3. \A model, outcomes : Count(model, outcomes) = 0
  <2> SUFFICES ASSUME NEW model, NEW outcomes PROVE Count(model, outcomes) = 0
    OBVIOUS
  <2>1. PICK T : T = [model : {model}, outcome : outcomes]
    OBVIOUS
  <2>2. Filter(sent, T) \in Seq(Request) /\ Len(Filter(sent, T)) <= Len(sent)
    BY <1>2, FilterFacts
  <2>3. Len(Filter(sent, T)) = 0
    BY <1>2, <2>2
  <2> QED BY <2>1, <2>3 DEF Count
<1>4. \A n : Signals(n) = 0 /\ Lapses(n) = 0 /\ Used(n) = 0
  BY <1>3, ChainAssumption DEF Signals, Lapses, Used, Over
<1>5. index \in 1..Len(Chain)
  BY <1>1, ChainAssumption
<1> QED BY <1>1, <1>2, <1>4, <1>5, AttemptsType, ChainAssumption DEF GatewayInv, CallOK

LEMMA GatewayStep == GatewayInv /\ [Next]_vars => GatewayInv'
<1>1. ASSUME GatewayInv, UNCHANGED vars PROVE GatewayInv'
  BY <1>1 DEF vars, GatewayInv, CallOK, Used, Over, Signals, Lapses, Count
<1>2. ASSUME GatewayInv, Send \/ BackoffOver PROVE GatewayInv'
  BY <1>2, SameAccount DEF Send, BackoffOver
<1> QED BY <1>1, <1>2, AnsweredStep DEF Next

LEMMA AccountsAddUp == GatewayInv => FallbackIsEarned
<1> SUFFICES ASSUME GatewayInv, NEW n \in 1..(IF phase = "threw" THEN index ELSE index - 1)
             PROVE  Spent(Chain[n]) = Attempts(Chain[n])
  BY DEF FallbackIsEarned
<1>1. Used(n) = Spent(Chain[n])
  BY DEF Used, Over, Spent, Excess, Signals, Lapses
<1>2. index \in Int
  BY ChainAssumption DEF GatewayInv, CallOK
<1>3. n \in 1..(index - 1) \/ (phase = "threw" /\ n = index)
  BY <1>2
<1> QED BY <1>1, <1>3 DEF GatewayInv

-----------------------------------------------------------------------------
(* The examination of a recording *)

PartsOK ==
  /\ batch \in Nat \ {0} /\ DOMAIN parts \subseteq 1..(batch - 1)
  /\ \A b \in DOMAIN parts : parts[b] \in Nat
  /\ verdict = "sampling" => DOMAIN parts = {}

ExamInv == GatewayInv /\ PartsOK /\ ProposalSurvives

\* The strongest of finitely many proposals is one of them, and no weaker than any.
LEMMA StrongestFacts ==
  ASSUME PartsOK, NEW S, S \subseteq DOMAIN parts, S # {}
  PROVE  Max({0} \cup Strongest(S)) \in S /\ \A c \in S : parts[Max({0} \cup Strongest(S))] >= parts[c]
<1>1. PICK k \in Nat : S \subseteq 1..k /\ \A b \in S : parts[b] \in Nat
  <2>1. batch - 1 \in Nat /\ S \subseteq 1..(batch - 1)
    BY DEF PartsOK
  <2> QED BY <2>1 DEF PartsOK
<1>2. PICK b \in S : \A c \in S : parts[c] <= parts[b]
  BY <1>1, GreatestValue
<1>3. PICK m \in {c \in S : parts[c] = parts[b]} : \A c \in {c \in S : parts[c] = parts[b]} : m <= c
  <2>1. {c \in S : parts[c] = parts[b]} \subseteq Nat /\ {c \in S : parts[c] = parts[b]} # {}
    BY <1>1
  <2> QED BY <2>1, LeastNatural
<1>4. m \in Strongest(S)
  <2> SUFFICES ASSUME NEW c \in S PROVE parts[c] < parts[m] \/ (parts[c] = parts[m] /\ m <= c)
    BY <1>3 DEF Strongest
  <2> QED BY <1>1, <1>2, <1>3
<1>5. Strongest(S) \subseteq S
  BY DEF Strongest
<1> DEFINE T == {0} \cup Strongest(S)
<1>6. T \subseteq Nat /\ T # {} /\ \A n \in T : n <= k
  BY <1>1, <1>5
<1>7. PICK t : t = Max(T) /\ t \in T /\ \A n \in T : n <= t
  <2> HIDE DEF T
  <2> QED BY <1>6, MaxFacts
<1>8. t \in Strongest(S)
  <2>1. m \in Nat /\ m >= 1 /\ m <= t
    BY <1>1, <1>3, <1>4, <1>7
  <2> QED BY <1>6, <1>7, <2>1
<1>9. t \in S /\ \A c \in S : parts[t] >= parts[c]
  BY <1>1, <1>5, <1>8 DEF Strongest
<1> QED BY <1>7, <1>9

LEMMA ExamStep == ExamInv /\ [ExamNext]_examVars => ExamInv'
<1> SUFFICES ASSUME ExamInv, [ExamNext]_examVars PROVE ExamInv'
  OBVIOUS
<1>1. ASSUME Fresh PROVE GatewayInv'
  <2>1. Init'
    BY <1>1 DEF Fresh, Init
  <2>2. Init' => GatewayInv'
    BY FreshCall, PTL
  <2> QED BY <2>1, <2>2
<1>2. ASSUME UNCHANGED vars PROVE GatewayInv'
  BY <1>2, GatewayStep DEF ExamInv
<1>3. ASSUME NEW duration \in Duration, NEW n \in 0..Sampled(duration), Sample(n) PROVE ExamInv'
  BY <1>2, <1>3 DEF Sample, ExamInv, PartsOK, ProposalSurvives
<1>4. CASE Call
  <2>1. GatewayInv'
    BY <1>4, GatewayStep DEF Call, ExamInv
  <2> QED BY <1>4, <2>1 DEF Call, exam, ExamInv, PartsOK, ProposalSurvives
<1>5. ASSUME NEW confidence \in Confidence, Part(confidence) PROVE ExamInv'
  <2>1. GatewayInv' /\ verdict' = "running"
    BY <1>1, <1>5 DEF Part, Working
  <2>2. parts' = [b \in DOMAIN parts \cup {batch} |-> IF b = batch THEN confidence ELSE parts[b]]
        /\ batch' = batch + 1 /\ confidence \in Nat /\ batch \in Nat \ {0}
    BY <1>5, ExaminationAssumption DEF Part, ExamInv, PartsOK
  <2>3. PartsOK'
    BY <2>1, <2>2 DEF ExamInv, PartsOK
  <2> QED BY <2>1, <2>3 DEF ExamInv, ProposalSurvives
<1>6. CASE Failed
  <2>1. GatewayInv' /\ verdict' = "running" /\ parts' = parts /\ batch' \in {batch, batch + 1}
    BY <1>1, <1>6 DEF Failed, Working
  <2>2. PartsOK'
    BY <2>1 DEF ExamInv, PartsOK
  <2> QED BY <2>1, <2>2 DEF ExamInv, ProposalSurvives
<1>7. CASE Merge
  <2>1. GatewayInv' /\ parts' = parts /\ batch' = batch /\ verdict' \in {"merged", "unavailable"}
    BY <1>2, <1>7 DEF Merge
  <2>2. PartsOK'
    BY <2>1 DEF ExamInv, PartsOK
  <2>3. ProposalSurvives'
    <3> SUFFICES ASSUME NEW b \in DOMAIN parts, parts[b] > 0
                 PROVE  finding' \in DOMAIN parts /\ parts[finding'] >= parts[b]
      BY <2>1 DEF ProposalSurvives
    <3>1. PICK S : S = {c \in DOMAIN parts : parts[c] > 0}
      OBVIOUS
    <3>2. parts # <<>>
      OBVIOUS
    <3>3. finding' = Max({0} \cup Strongest(S))
      BY <1>7, <3>1, <3>2 DEF Merge
    <3>4. b \in S /\ S \subseteq DOMAIN parts /\ S # {}
      BY <3>1
    <3> QED BY <3>3, <3>4, StrongestFacts DEF ExamInv
  <2> QED BY <2>1, <2>2, <2>3 DEF ExamInv
<1>8. CASE UNCHANGED examVars
  BY <1>2, <1>8 DEF examVars, exam, ExamInv, PartsOK, ProposalSurvives
<1> QED BY <1>3, <1>4, <1>5, <1>6, <1>7, <1>8 DEF ExamNext

\* Between any two requests of detect, the accounts of the chain add up and what the merge
\* will choose from is what the batches proposed.
THEOREM ExamHolds == ReasoningSpec => []ExamInv
<1>1. ReasoningInit => ExamInv
  <2> SUFFICES ASSUME ReasoningInit PROVE ExamInv
    OBVIOUS
  <2>1. Init /\ verdict = "sampling" /\ parts = <<>> /\ batch = 1
    BY DEF ReasoningInit, ExamInit
  <2> QED BY <2>1, FreshCall DEF ExamInv, PartsOK, ProposalSurvives
<1>2. ExamInv /\ [ReasoningNext]_reasoningVars => ExamInv'
  BY PartSteps, ExamStep
<1> QED BY <1>1, <1>2, PTL DEF ReasoningSpec

\* chatOnce falls through to the next model only when real failures, and capacity signals past
\* the waits, have used up every attempt the model is entitled to, for any chain, any number of
\* waits and any answers, in every call of an examination.
THEOREM FallbackEarned == ReasoningSpec => []FallbackIsEarned
<1>1. ExamInv => FallbackIsEarned
  BY AccountsAddUp DEF ExamInv
<1> QED BY <1>1, ExamHolds, PTL

\* detect: whatever batches fail, whatever else is answered, a situation that any batch
\* proposed is in the finding, with the highest confidence it was proposed with.
THEOREM ProposalsSurvive == ReasoningSpec => []ProposalSurvives
<1>1. ExamInv => ProposalSurvives
  BY DEF ExamInv
<1> QED BY <1>1, ExamHolds, PTL
=============================================================================
