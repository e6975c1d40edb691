---------------------------- MODULE Authenticity ----------------------------
(***************************************************************************)
(* What a bundle says of one evidence object (lib/store/forensics.ts): the *)
(* console recomputes its digest and its custody chain, then asks the      *)
(* forensic tier, which reads the same bytes later and by itself           *)
(* (fis api/routers_authenticity.py, services/authenticity.py).            *)
(***************************************************************************)
EXTENDS Integers, FiniteSets

CONSTANT Materials   \* what is true of the object and of its deployment record

ASSUME AuthenticityAssumption ==
  Materials \subseteq [signature : {"verified", "unverified", "bad_signature"}, sized : BOOLEAN,
                       decodes : BOOLEAN, frames : Nat, regular : BOOLEAN, cut : BOOLEAN,
                       overlay : BOOLEAN, legible : Nat, gaps : BOOLEAN, rescanned : BOOLEAN,
                       created : {"none", "garbled", "near", "far"}, claimed : BOOLEAN]

VARIABLES
  material,  \* the object
  bytes,     \* on disk: intact, damaged or gone
  chain,     \* the custody entries recompute
  bundle,    \* how far the bundle has come with this object
  heard      \* the tier's answer, or what stands for one
authVars == <<material, bytes, chain, bundle, heard>>

NoReport == [rows |-> {}, verdict |-> "none"]
Silent == [rows |-> {}, verdict |-> "silent"]
Row(test, result, mandatory) == [test |-> test, result |-> result, mandatory |-> mandatory]
Failed(rows) == \E row \in rows : row.result = "fail"

-----------------------------------------------------------------------------
(* The battery: what each test makes of the object *)

ContainerContinuity ==
  Row("container continuity",
      IF material.frames < 3 THEN "inconclusive" ELSE IF material.regular THEN "pass" ELSE "fail", TRUE)

ContentContinuity ==
  Row("content continuity",
      IF material.frames < 12 THEN "inconclusive" ELSE IF material.cut THEN "fail" ELSE "pass", TRUE)

\* mandatory only once it could be read
BurnedClock ==
  IF ~ material.overlay \/ material.legible < 4 THEN Row("burned clock", "inconclusive", FALSE)
  ELSE Row("burned clock", IF material.gaps THEN "fail" ELSE "pass", TRUE)

\* "a flag for a person, never a declaration"
ScreenReplay ==
  Row("screen replay",
      IF material.frames < 48 THEN "inconclusive" ELSE IF material.rescanned THEN "fail" ELSE "pass", FALSE)

MetadataConsistency ==
  Row("metadata consistency",
      IF material.created = "none" \/ ~ material.claimed THEN "inconclusive"
      ELSE IF material.created = "near" THEN "pass" ELSE "fail", TRUE)

\* a pass is marked optional, a finding that there was too little to read is not
Recompression ==
  IF material.frames < 10 THEN Row("recompression", "inconclusive", TRUE) ELSE Row("recompression", "pass", FALSE)

Battery == {ContainerContinuity, ContentContinuity, BurnedClock, ScreenReplay, MetadataConsistency, Recompression}

VerdictOf(rows) ==
  IF Failed({row \in rows : row.mandatory}) THEN "inconsistent"
  ELSE IF Failed(rows) THEN "flagged"
  ELSE IF material.signature = "verified" THEN "verified" ELSE "consistent"

\* the tier reads the bytes itself; an object that does not decode is a finding
TierAnswer ==
  LET hash(result) == Row("content hash", result, TRUE)
      rows == {hash("pass")} \cup Battery
  IN  IF bytes = "damaged" THEN [rows |-> {hash("fail")}, verdict |-> "inconsistent"]
      ELSE IF ~ material.sized
           THEN [rows |-> {hash("pass"), Row("picture battery", "inconclusive", FALSE)}, verdict |-> "consistent"]
      ELSE IF ~ material.decodes THEN [rows |-> {Row("decode", "fail", TRUE)}, verdict |-> "inconsistent"]
      ELSE [rows |-> rows, verdict |-> VerdictOf(rows)]

-----------------------------------------------------------------------------
(* The world, at any time *)

Spoil ==
  /\ bytes = "intact" /\ bytes' \in {"damaged", "gone"}
  /\ UNCHANGED <<material, chain, bundle, heard>>

BreakChain ==
  /\ chain /\ chain' = FALSE
  /\ UNCHANGED <<material, bytes, bundle, heard>>

-----------------------------------------------------------------------------
(* The bundle *)

\* Mutant of ContentHash: the pass it used to report without recomputing anything.
ContentUnread == Row("content hash", "pass", TRUE)

ContentHash ==
  Row("content hash", CASE bytes = "intact" -> "pass" [] bytes = "gone" -> "inconclusive" [] OTHER -> "fail", TRUE)

Signature ==
  Row("capture signature",
      CASE material.signature = "verified" -> "pass" [] material.signature = "bad_signature" -> "fail"
        [] OTHER -> "inconclusive", TRUE)

\* the local tests; spoilt is what was wrong before it began
CheckLocally ==
  /\ bundle.at = "idle"
  /\ bundle' = [at |-> "asking", rows |-> {ContentHash, Row("custody chain", IF chain THEN "pass" ELSE "fail", TRUE), Signature},
                spoilt |-> bytes = "damaged" \/ ~ chain, report |-> NoReport]
  /\ UNCHANGED <<material, bytes, chain, heard>>

\* not attached, not in time, or an object the tier does not find: null
TierSilent ==
  /\ bundle.at = "asking" /\ heard = NoReport
  /\ heard' = Silent
  /\ UNCHANGED <<material, bytes, chain, bundle>>

TierReads ==
  /\ bundle.at = "asking" /\ heard = NoReport /\ bytes # "gone"
  /\ heard' = TierAnswer
  /\ UNCHANGED <<material, bytes, chain, bundle>>

\* the tier's own digest row is dropped
Combined ==
  IF heard = Silent THEN bundle.rows \cup {Row("picture battery", "inconclusive", FALSE)}
  ELSE bundle.rows \cup {row \in heard.rows : row.test # "content hash"}

\* any failure, mandatory or not
ConsoleVerdict(rows) ==
  IF Failed(rows) THEN "inconsistent" ELSE IF material.signature = "verified" THEN "verified" ELSE "consistent"

Report ==
  /\ bundle.at = "asking" /\ heard # NoReport
  /\ bundle' = [bundle EXCEPT !.at = "done", !.report = [rows |-> Combined, verdict |-> ConsoleVerdict(Combined)]]
  /\ UNCHANGED <<material, bytes, chain, heard>>

AuthInit ==
  /\ material \in Materials /\ bytes = "intact" /\ chain = TRUE /\ heard = NoReport
  /\ bundle = [at |-> "idle", rows |-> {}, spoilt |-> FALSE, report |-> NoReport]

AuthNext == Spoil \/ BreakChain \/ CheckLocally \/ TierSilent \/ TierReads \/ Report

-----------------------------------------------------------------------------
\* What was wrong with the stored bytes or the chain before a bundle was asked for makes
\* the object inconsistent in it, whether or not the tier answers, and when.
DamageShows == bundle.at = "done" /\ bundle.spoilt => bundle.report.verdict = "inconsistent"

=============================================================================
