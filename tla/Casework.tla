------------------------------ MODULE Casework ------------------------------
(***************************************************************************)
(* What people keep and hand over: the source registry and calibration     *)
(* (lib/store/sources.ts, app/api/v1/sources), evidence search and         *)
(* standing searches (lib/store/evidence.ts), case files, legal hold,      *)
(* person-search authorisation and disclosure bundles                      *)
(* (lib/store/cases.ts, app/api/v1/cases), and the screens that show them  *)
(* (components/cases, components/evidence, components/sources).            *)
(*                                                                         *)
(* A store call is synchronous; a route awaits its request body between    *)
(* its first checks and its writes, and a screen left on the answer it     *)
(* last fetched.  One camera stands for the registry.                      *)
(***************************************************************************)
EXTENDS Integers, FiniteSets, Sequences, SequencesExt, FiniteSetsExt

CONSTANTS
  Worker,       \* people at a console
  RoleOf,       \* the role of their users row
  Evidence,     \* hashes of stored items, all from the camera, all showing a person
  Nil,
  MaxCases,     \* bound: case files
  MaxRuns,      \* bound: calibration runs ever queued
  Budgets       \* bound: how many operations of each part a behaviour has

ASSUME CaseworkAssumption ==
  /\ Evidence \subseteq Nat
  /\ RoleOf \in [Worker -> {"admin", "investigator", "operator", "department"}]
  /\ Nil \notin {"uncalibrated", "calibrated"}
  /\ MaxCases \in Nat /\ MaxRuns \in Nat
  /\ Budgets \subseteq [{"registry", "search", "cases", "toggles"} -> Nat]

VARIABLES
  camera,    \* its sources row: Nil when not registered, else whether it is calibrated
  runs,      \* calibration_runs of the camera, by run id
  report,    \* a calibration report whose body the route awaits
  vault,     \* evidence rows and bytes, each with an observation of the camera
  cases,     \* the case files
  screen,    \* the case detail a worker's console last fetched
  patch,     \* a worker's update of a case on its way to the server
  found,     \* the case under which a worker's console got its person results, or Nil
  standing,  \* the saved search: whether it re-runs, its counter
  left       \* operations left of each part

registry == <<camera, runs, report>>
search == <<found, standing>>
caseworkVars == <<camera, runs, report, vault, cases, screen, patch, found, standing, left>>

Case == 1..MaxCases
Run == 1..MaxRuns
Recipient == {"court", "public"}
Act(part) == left[part] > 0 /\ left' = [left EXCEPT ![part] = @ - 1]

-----------------------------------------------------------------------------
(* Who may do what *)

CapabilitiesByRole ==
  [admin |-> {"case.create", "case.legal_hold", "case.disclose", "admin.configure",
              "evidence.search", "evidence.person_search"},
   investigator |-> {"case.create", "case.legal_hold", "case.disclose",
                     "evidence.search", "evidence.person_search"},
   operator |-> {"case.create", "evidence.search"},
   department |-> {}]

\* the caller is a row of users; an unknown id falls back to the first row
Capabilities(w) == CapabilitiesByRole[RoleOf[w]]

Requires(w, capability) == capability \in Capabilities(w)

-----------------------------------------------------------------------------
(* The source registry *)

\* POST /sources: an id already there keeps its calibration, wherever it is now
RegisterSource(w) ==
  /\ Requires(w, "admin.configure") /\ Act("registry")
  /\ camera' = IF camera = Nil THEN "uncalibrated" ELSE camera
  /\ UNCHANGED <<runs, report, vault, cases, screen, patch, search>>

\* Mutant of DeleteSource: the calibration runs are not removed with their source.
DeleteSourceKeepingRuns(w) ==
  /\ Requires(w, "admin.configure") /\ camera # Nil /\ Act("registry")
  /\ camera' = Nil
  /\ UNCHANGED <<runs, report, vault, cases, screen, patch, search>>

\* the foreign keys take observations, events, health and runs along; evidence,
\* cases and bundles have none
DeleteSource(w) ==
  /\ Requires(w, "admin.configure") /\ camera # Nil /\ Act("registry")
  /\ camera' = Nil
  /\ runs' = [r \in Run |-> "none"]
  /\ UNCHANGED <<report, vault, cases, screen, patch, search>>

\* POST calibration: a drift check is queued for the device
QueueDriftCheck(w, r) ==
  /\ Requires(w, "admin.configure") /\ camera # Nil /\ Act("registry")
  /\ runs[r] = "none" /\ \A q \in Run : q < r => runs[q] # "none"
  /\ runs' = [runs EXCEPT ![r] = "queued"]
  /\ UNCHANGED <<camera, report, vault, cases, screen, patch, search>>

\* PUT calibration: the source is looked up before the body is awaited
ReportArrives(r) ==
  /\ camera # Nil /\ report = Nil /\ Act("registry")
  /\ r # Nil => runs[r] # "none"
  /\ report' = [run |-> r]
  /\ UNCHANGED <<camera, runs, vault, cases, screen, patch, search>>

\* a matrix, residual or overlay the route does not accept changes nothing; nor does
\* a report for a source deleted meanwhile, whose event row has no parent
ReportRefused ==
  /\ report # Nil
  /\ report' = Nil
  /\ UNCHANGED <<camera, runs, vault, cases, screen, patch, search, left>>

Completed(r) == IF r # Nil /\ runs[r] # "none" THEN [runs EXCEPT ![r] = "complete"] ELSE runs

\* homography and residual are written before the run, without a transaction: the
\* process may die between them
ReportApplied ==
  /\ report # Nil /\ camera # Nil
  /\ camera' = "calibrated"
  /\ runs' \in {runs, Completed(report.run)}
  /\ report' = Nil
  /\ UNCHANGED <<vault, cases, screen, patch, search, left>>

-----------------------------------------------------------------------------
(* Evidence arriving, standing searches *)

\* the counter goes up when what arrives matches and the search is set to re-run
Matched == IF standing # Nil /\ standing.rerun THEN [standing EXCEPT !.hits = @ + 1] ELSE standing

\* an observation of the camera (module Ingest): the bytes, the row, the searches
Observe(e) ==
  /\ camera # Nil /\ e \notin vault /\ Act("search")
  /\ vault' = vault \cup {e}
  /\ standing' = Matched
  /\ UNCHANGED <<registry, cases, screen, patch, found>>

SaveSearch(w) ==
  /\ standing = Nil /\ Act("search")
  /\ standing' = [rerun |-> TRUE, hits |-> 0]
  /\ UNCHANGED <<registry, vault, cases, screen, patch, found>>

\* the switch and the delete button of the list; no capability is asked for
ToggleRerun ==
  /\ standing # Nil /\ Act("search")
  /\ standing' = [standing EXCEPT !.rerun = ~@]
  /\ UNCHANGED <<registry, vault, cases, screen, patch, found>>

DeleteSearch ==
  /\ standing # Nil /\ Act("search")
  /\ standing' = Nil
  /\ UNCHANGED <<registry, vault, cases, screen, patch, found>>

-----------------------------------------------------------------------------
(* Evidence search *)

\* the flag the server reads off the case the search names
Flagged(c) == c # Nil /\ cases[c] # Nil /\ cases[c].flag

\* a question with a person term runs only under a flagged case
PersonSearch(w, c) == Flagged(c) /\ Requires(w, "evidence.person_search")

Answer(w, c) == IF PersonSearch(w, c) THEN c ELSE Nil

\* the form of the screen: the active case goes along, and matters to a question with
\* a person term; a refusal, or the answer to another question, shows no such results
Submit(w, c) ==
  /\ Requires(w, "evidence.search") /\ Act("search")
  /\ c # Nil => cases[c] # Nil
  /\ found' = [found EXCEPT ![w] = Answer(w, c)]
  /\ UNCHANGED <<registry, vault, cases, screen, patch, standing>>

\* a standing search is run by submitting its question; its row is not written
RunStanding(w) ==
  /\ standing # Nil /\ Requires(w, "evidence.search") /\ Act("search")
  /\ found' = [found EXCEPT ![w] = Nil]
  /\ UNCHANGED <<registry, vault, cases, screen, patch, standing>>

-----------------------------------------------------------------------------
(* Case files *)

Cases == {c \in Case : cases[c] # Nil}

NewCase == [hold |-> FALSE, flag |-> FALSE, certificate |-> FALSE,
            evidence |-> <<>>, bundles |-> {}]

\* ids count up from the number of rows, and no case is ever deleted
CreateCase(w) ==
  /\ Requires(w, "case.create") /\ Cases # Case /\ Act("cases")
  /\ cases' = [cases EXCEPT ![Cardinality(Cases) + 1] = NewCase]
  /\ UNCHANGED <<registry, vault, screen, patch, search>>

\* what the detail screen shows of a case, and left on
CaseView(c) == [case |-> c, hold |-> cases[c].hold, flag |-> cases[c].flag,
                certificate |-> cases[c].certificate]

\* the screen fetches when it opens, and again after a change made on it
Open(w, c) ==
  /\ cases[c] # Nil
  /\ screen' = [screen EXCEPT ![w] = CaseView(c)]
  /\ UNCHANGED <<registry, vault, cases, patch, search, left>>

Toggled(w, column) ==
  [case |-> screen[w].case, sets |-> column, to |-> ~screen[w][column]]

\* the two toggles send the opposite of what the screen shows
Press(w, column) ==
  /\ screen[w] # Nil /\ patch[w] = Nil /\ Act("toggles")
  /\ patch' = [patch EXCEPT ![w] = Toggled(w, column)]
  /\ UNCHANGED <<registry, vault, cases, screen, search>>

\* a hold is an investigator's, authorising person search an administrator's
MayPatch(w) ==
  /\ patch[w].sets = "hold" => Requires(w, "case.legal_hold")
  /\ patch[w].sets = "flag" => Requires(w, "admin.configure")

Patched(p) == [cases[p.case] EXCEPT ![p.sets] = p.to]

PatchCase(w) ==
  /\ patch[w] # Nil
  /\ cases' = IF MayPatch(w) THEN [cases EXCEPT ![patch[w].case] = Patched(patch[w])] ELSE cases
  /\ patch' = [patch EXCEPT ![w] = Nil]
  /\ UNCHANGED <<registry, vault, screen, search, left>>

\* INSERT OR IGNORE per item: what the case has keeps its place
AttachEvidence(c, shas) ==
  [cases[c] EXCEPT !.evidence = @ \o SelectSeq(shas, LAMBDA e : ~ \E n \in DOMAIN cases[c].evidence : cases[c].evidence[n] = e)]

\* "send to case": items selected among results, however old these are, in the order
\* they were selected; the store asks for the case only
SendToCase(w, c, shas) ==
  /\ Requires(w, "case.create") /\ cases[c] # Nil /\ Act("cases")
  /\ ToSet(shas) \subseteq vault
  /\ cases' = [cases EXCEPT ![c] = AttachEvidence(c, shas)]
  /\ UNCHANGED <<registry, vault, screen, patch, search>>

\* Mutant of Manifest: the items are hashed in the order of attachment.
ManifestUnsorted(evidence, to) == <<evidence, to>>

\* a digest of the sorted item hashes and the rules of the recipient class
Manifest(evidence, to) == <<SortSeq(evidence, LAMBDA a, b : a < b), to>>

Bundle(c, to) ==
  [to |-> to, evidence |-> cases[c].evidence, manifest |-> Manifest(cases[c].evidence, to),
   certified |-> to = "court" /\ cases[c].certificate]

\* the builder of the screen is enabled when the case it shows has evidence
BuilderOffered(w, c) == screen[w] # Nil /\ screen[w].case = c /\ cases[c].evidence # <<>>

\* the form of the screen is offered while it shows no certificate
CertificateOffered(w, c) == screen[w] # Nil /\ screen[w].case = c /\ ~screen[w].certificate

\* the bundle takes what the case holds when the request is served
CreateBundle(w, c, to) ==
  /\ BuilderOffered(w, c) /\ Requires(w, "case.disclose") /\ Act("cases")
  /\ cases' = [cases EXCEPT ![c].bundles = @ \cup {Bundle(c, to)}]
  /\ UNCHANGED <<registry, vault, screen, patch, search>>

SetCertificate(w, c) ==
  /\ CertificateOffered(w, c) /\ Requires(w, "case.disclose") /\ Act("cases")
  /\ cases' = [cases EXCEPT ![c].certificate = TRUE]
  /\ UNCHANGED <<registry, vault, screen, patch, search>>

-----------------------------------------------------------------------------
CaseworkInit ==
  /\ camera = Nil /\ runs = [r \in Run |-> "none"] /\ report = Nil
  /\ vault = {}
  /\ cases = [c \in Case |-> Nil]
  /\ screen = [w \in Worker |-> Nil]
  /\ patch = [w \in Worker |-> Nil]
  /\ found = [w \in Worker |-> Nil]
  /\ standing = Nil /\ left \in Budgets

\* some order of some of the items
Selections == UNION {SetToAllKPermutations(S) : S \in SUBSET Evidence \ {{}}}

Registry ==
  \/ \E w \in Worker :
       \/ RegisterSource(w) \/ DeleteSource(w)
       \/ \E r \in Run : QueueDriftCheck(w, r)
  \/ \E r \in Run \cup {Nil} : ReportArrives(r)
  \/ ReportRefused
  \/ ReportApplied

Searching ==
  \/ \E e \in Evidence : Observe(e)
  \/ ToggleRerun \/ DeleteSearch
  \/ \E w \in Worker :
       \/ SaveSearch(w) \/ RunStanding(w)
       \/ \E c \in Case \cup {Nil} : Submit(w, c)

CaseFiles ==
  \E w \in Worker :
    \/ CreateCase(w) \/ PatchCase(w)
    \/ \E column \in {"hold", "flag"} : Press(w, column)
    \/ \E c \in Case :
         \/ Open(w, c) \/ SetCertificate(w, c)
         \/ \E shas \in Selections : SendToCase(w, c, shas)
         \/ \E to \in Recipient : CreateBundle(w, c, to)

CaseworkNext == Registry \/ Searching \/ CaseFiles

-----------------------------------------------------------------------------
(* Properties *)

\* createBundle: "two bundles with the same content and the same policy produce the
\* same manifest, and any change to either is visible in it", whichever case they
\* come from and in whatever order its items were attached.
ManifestIsContent ==
  \A c, d \in Cases : \A a \in cases[c].bundles, b \in cases[d].bundles :
    a.manifest = b.manifest <=> ToSet(a.evidence) = ToSet(b.evidence) /\ a.to = b.to

\* A drift check shown as complete belongs to a calibrated source: through a report
\* that comes late, a source removed and registered again under its id, a death
\* between the writes.
CompletedRunMeansCalibrated ==
  \A r \in Run : runs[r] = "complete" => camera = "calibrated"

=============================================================================
