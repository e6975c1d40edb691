# CivicSense: specifications, model checks and proofs

CivicSense is a console for civic incidents: devices post observations, the
server fuses them into incidents, raises banners for life-safety triggers before
anything is understood, asks language models for an understanding, keeps the
evidence in a content-addressed vault, and streams changes to the operators'
screens; people rule, file, search, review and hand over from those screens, and a
forensic tier answers what the pixels and the clocks support. This directory
specifies the parts whose correctness depends on an order of events: what
interleaves, what is lost, what a death of the process leaves behind.

Run a check with `tlc -workers 2 -config X.cfg M` and a proof with `tlapm M.tla`.

## How the program executes

The server is one Node.js process over one SQLite database. `better-sqlite3` is
synchronous, so the code between two `await`s is one atomic step of the system,
and requests interleave only at an `await`: reading media (`storeEvidence`'s
probe), verifying a file for an export, a model call. Each statement commits by
itself unless it is inside `tx()`, so the process can die between two statements
of one handler. The modules follow these two rules literally: an action is what
runs between two awaits, and an action named `...Cut` is the same code stopped
after one of its statements.

The forensic tier (`fis/`) is a separate Python service with its own PostgreSQL
database, reached over HTTP. Its transactions run at READ COMMITTED, so every
query of a trigger is a step of its own, also where one function makes two; a call to it answers in time or counts
as not attached, and may still have an effect when its answer comes too late.

The browser is one thread: a handler, an effect or a timer runs to its end, and
what interleaves are these and the answers of requests. `useQuery` keeps an
answer until it is invalidated; what a screen holds may be older than the store.

## Inventory

| Component | State | Operations | Hard behaviour |
|---|---|---|---|
| Incident store (`lib/store/incidents.ts`, `observations.ts`) | `incidents`, `observations`, `incident_actions` | fuse a report, rescore, ack, dispatch, escalate, resolve, dismiss, store a package, remove a source | reports in any order, closed incidents, operators and passes at once, death between insert and rescore, a ruling given again, evidence that goes with its source |
| Understanding (`lib/reasoning/pipeline.ts`) | what a pass has read, kept and counted; `package_json` | run a pass, stage by stage | reads before four awaits, writes after them; a stage decides what a later one may say |
| Ingest (`app/api/v1/ingest/observation`) | a request per post | alert, store, fuse, bind | the alert is raised before the await and bound after it |
| Pre-alerts (`lib/store/prealerts.ts`) | `pre_alerts` | raise, corroborate, bind, supersede | banners of one event, banners over old news |
| Vault (`lib/ingest/media.ts`, `lib/vault`, `lib/export/serve.ts`) | files, `evidence`, chunk trees, signatures, keys, `custody` | store, view, export, enrol, revoke | racing uploads of one object, death mid-ingest, damage on disk |
| Stream (`lib/events/bus.ts`, `lib/stream/StreamClient.ts`) | subscribers; connection, timers, banners, cached lists | publish, connect, drop, reopen, hydrate, dispatch, flush, fetch the list | lost frames, late answers, failed requests, zombie timers |
| Model gateway (`lib/groq/client.ts`) | chain position, attempts, waits; `model_calls` | one call | retries, fallback, ledger of failures |
| Examination (`lib/ingest/detect.ts`, `frames.ts`) | frames, batches, what each found | sample, examine a batch, merge | a batch lost among others that propose |
| Investigation (`lib/store/hypotheses.ts`) | `hypotheses`, `hypothesis_requests` | generate, pull | a generation awaits while requests are pulled; sticky labels, clamped shares |
| Query console (`lib/reasoning/query.ts`, `QueryScreen`) | `queries`, the history on the screen | ask, phrase, cite, pin | rows read before the model call, citations filtered after it |
| Uploads (`lib/store/uploads.ts`, `api/v1/uploads`, `UploadScreen`) | `uploads`, `upload_detections`; the queue | add, send, record, detect, rule, remove the source | lost answers, repeats, ruling and triggering without a transaction, rows that go with their source |
| Cases, sources, search (`lib/store/cases.ts`, `sources.ts`, `evidence.ts`) | case files, hold, flags, bundles; registry, runs; standing searches | create, patch, attach, bundle; register, remove, calibrate; search, match | screens of different age, reports about removed sources |
| Playback (`lib/playback`, `lib/timeline`, `ForensicsScreen`) | master clock, slaves, stage, deck | play, seek, rate, step, jump, tick, trim | ends of range, suppression windows, stalls, quarantine, refetches |
| Control room (`OpsScreen`, `CommandPalette`, `lib/stores`) | address, selection, toasts, queue of actions | select, act, drop, replay | selection kept twice, actions queued while a replay runs |
| Map (`MapCanvas`, `lib/map/controller.ts`) | pending and deferred data, camera, style | give, load, move, flush | data before the style, during a move, between two flushes |
| Review and export (`IncidentPackageScreen`, `lib/export`) | cached packages, runs, copies | read, run, look, copy | a run overtaken by a read, three renderings of one package |
| Migrations (`lib/db/migrate.ts`), audit, zones, analytics, prediction | rows | apply, append, upsert, compute | little: see "Not modelled" |
| FIS class gate (`fis/db/migrations/0001_core.sql`) | recipes, derivatives, bundles, acknowledgements, items | derive, bundle, acknowledge, disclose | a trigger reads in several queries beside other writers |
| FIS timebase (`services/timebase.py`) | readings, segments | observe, fit, store, resolve | two fits at once, clocks that step near the end |
| FIS acquisition (`services/acquisition.py`, `nal.py`) | an export and its master | write, interrupt, acquire | joined and cut in mid-stream |
| FIS authenticity (`services/authenticity.py`, `lib/store/forensics.ts`) | an object, its report | check, ask the tier, combine | the tier is silent, slow or sees other bytes |
| Tracks and entities (`lib/store/tracks.ts`, `services/kinematics.py`) | `tracks`, `entities`, `sightings` | report, bind, measure, follow | answers laid over rows by index while rows arrive |

How they interact: the ingest route calls pre-alerts, vault, observations and
incident store in that order in one request; the pipeline reads and writes the
incident store, calls the gateway, and clears pre-alerts; ingest, pre-alerts and
the operator routes publish on the bus, which the stream client turns into
banners and cached rows; the examination of a recording is a sequence of gateway
calls, and a ruling on what it found records a trigger in the incident store;
exports read the vault and append to custody; the forensics bundle reads tracks,
evidence and clock models and asks the tier; the browser's screens share the
query cache, the selection, the toasts and nothing else. Every component is
listed in `PROJECT.json`, the ones that are not modelled with the reason.

What makes each one correct, in a sentence:

- fusion: reports of one event form one incident; what is closed gains nothing;
- scoring: the row says what the evidence attached today says, or is owed a rescore;
- packages: a citation resolves in the incident it is made in and was read by the
  pass; no statute without agreement; a rate that hides no dropped claim;
- banners: one per event, supported by a report, gone when it is old news;
- vault: an object the table knows is on disk, captured once, its chain verifies,
  and no manifest vouches for damaged bytes;
- stream: one connection, banners that stay, every creation heard of reaches the list or
  the list reads as an error;
- gateway and examination: a weaker model only after real failures, a proposal is
  never lost, an examination ends;
- investigation: what is kept can be tested, what is settled is not swept away;
- query: what an answer cites was read for it;
- uploads: only a person's ruling opens an incident, and it is final; what is shown as
  done is kept while its source is;
- cases and sources: the manifest of a bundle is one of its content, a completed check
  belongs to a calibrated source;
- playback: no tile that lies at rest, no endless fight;
- control room: what was queued is sent once and is sent;
- map: the last data given are the data shown;
- review: what is announced as complete is shown, a copy is no older
  than what was shown;
- class gate: nothing too weak is disclosed unacknowledged;
- timebase, acquisition, authenticity, tracks: a clock model that is one, a master
  that decodes, damage that shows, speeds at their own places.

## Modules

| Module | Models | Instances |
|---|---|---|
| `Incidents` | fusion, rulings, severity bands, operator actions, understanding passes, removal of sources, crashes; and its mapping to the register | `MCIncidents` |
| `IncidentRegister` | the abstract register the incident store promises | |
| `IncidentsProofs` | theorems about `Incidents`, the refinement and `Ingest` | |
| `Understanding` | the stages of one understanding pass and the package it stores | `MCReasoning` |
| `Ingest` (extends `Incidents`) | the ingest route and pre-alerts composed with the incident store | `MCIngest` |
| `EvidenceVault` | `storeEvidence`, trees, verdicts, keys, custody, exports; and its mapping to the ledger | `MCEvidenceVault` |
| `CustodyLedger` | the abstract ledger of journals and bundles the vault promises | |
| `EvidenceVaultProofs` | theorems about rows, chains, manifests and the refinement | |
| `StreamSync` | bus, stream route, stream client, hydration, list cache | `MCStreamSync` |
| `StreamProofs` | theorems about the connection and the banners | |
| `Gateway` | one model call and its ledger | through `Examination` |
| `Examination` (extends `Gateway`) | sampling, batches as gateway calls, the merge | `MCReasoning` |
| `Hypotheses` | generation and pulling of hypotheses, removal of sources | `MCReasoning` |
| `Query` | the query console and its route | `MCReasoning` |
| `Reasoning` | `Examination`, `Hypotheses`, `Query` and `Understanding` side by side | `MCReasoning` |
| `ReasoningProofs` | theorems about the four of them | |
| `Uploads` | intake queue, upload route, rulings, the incident they open, the removal of the source | `MCRecords` |
| `Casework` | case files, sources and calibration, search and standing searches | `MCRecords` |
| `Records` | the two above side by side | `MCRecords` |
| `RecordsProofs` | theorems about uploads, rulings, cases and checks | |
| `Playback` | master clock, tiles, stage and timeline deck | through `Console` |
| `Console` (extends `Playback`) | control room, palette, toasts, queue of actions | `MCWorkspace` |
| `MapView` | map screen and controller | `MCWorkspace` |
| `Review` | package page, drawer, lightbox and the three copies | `MCWorkspace` |
| `Workspace` | the browser's parts side by side | `MCWorkspace` |
| `WorkspaceProofs` | theorems about tiles, fights, the queue, the map, screens and copies | |
| `ClassGate` | the gate of the tier's store, and its mapping to the abstract gate | `MCFis` |
| `DisclosureGate` | the abstract gate: every write one judged step | |
| `Timebase`, `Acquisition`, `Authenticity`, `Tracks` | the tier's services and what the console does with them | `MCFis` |
| `Fis` | the tier's parts side by side | `MCFis` |
| `FisProofs` | theorems about the gate, clocks, authenticity, masters, dossiers and speeds | |
| `Lists` | `filter` by membership in a set, as a recursive function; `ORDER BY` an order given as a set of pairs | with its users |
| `ListFacts` | what filtering, mapping, appending, ordering and folding keep; least and greatest of a set of naturals | |

`Reasoning`, `Records`, `Workspace` and `Fis` put parts that do not meet into
one specification with a variable (`work`, `desk`, `part`, `service`) that never
changes and names the part a behaviour is about: the parts do not multiply. Where
components do interact they are composed: `Ingest` takes the steps of `Incidents`
inside a request, `Examination` those of `Gateway` inside a batch, `Console` mounts
and unmounts `Playback`. In the MC modules of `Incidents`, `Ingest`,
`EvidenceVault` and `StreamSync` a variable `scenario` does the same for several
instances of one specification.

### Incidents

An `Observation` is a row of that name and a `Report` a call of `recordTrigger` for one. The
ingest route makes the call for the row it has just inserted, once. `adjudicate` makes it
for the observation of an upload and updates the detection afterwards, in no transaction
with it: such a report is a `Ruling`, two rulings may share an observation, and one that
a death cut off before the detection was updated (`RulingCut`, `RecordTriggerCut`) is
given again, in which case the observation moves to the incident that is nearest by then,
or founds one, or stays where it is while the second ruling rejects (`RuleOut`). `settled`
are the observations for which no call comes any more. An incident is identified with the
report that founded it, whose domain, cell and time its row copies and never changes; a
call founds one incident at most, and one that founds another for the same observation is
another `Report`.

`RecordTrigger` is `recordTrigger` whole: candidate search, then join and rescore, or
insert and rescore; the incident an observation is taken from is not rescored.
`Candidates` uses the window of the arriving report alone, as the code does. Severity is
abstracted to a band per founder, head count and amplifier level (`Band`), and the counted
people are the sum over the attached observations. The corroboration column is in thirds,
from -1, which a rescore without any observation left writes, to 3. `RemoveSource` is the
statement of `deleteSource`, whose cascade takes observations out of their incidents and
rescores none of these. `StartRun` is what `runPipeline` reads before its awaits and
`FinishRun` everything after them; a crash forgets every run. Of the package it keeps what
was read, what is cited and the amplifiers; the guard verdict and the package's own
severity are read by no later step of the store. Three variables are history: `everClosed`,
the incidents an operator has closed at some time; `held`, the observations each incident
ever had; and `unscored`, those whose evidence or package changed since their last rescore,
by a death, a removal, or a ruling given again.

`IncidentRegister` says what this amounts to: a register where an observation founds an
incident exactly when no open one admits it, and is filed in one place at a time, for good
unless a ruling may be given again (`Found`, `File`, `Reject`); where observations are
withdrawn for good and no incident with them (`Withdraw`); where a dismissal is for good
and a published understanding cites what the incident has had. It has no passes, scores
or crashes. The mapping, at the end of `Incidents`, gives it the attached observations,
`held`, the open or closed state and the citations of each row.

### Understanding

Where `Incidents` has a pass as a read and a write, `Understanding` has what is in
between, for one incident and one pass at a time (passes share no variable of the
program but the row). A claim is the set of ids it cites. `Begin` reads the ids,
`ReadFrames` the files of at most `MaxFrames` images, and `SceneCall`,
`ContextCall`, `LegalCall` and `GuardCall` are each the code from one answer to the
next call: what it validates, counts and clears. The models answer any element of
constant sets, what their schemas allow; an action line is empty, matched by the
pattern of punitive words, or neither. `Package` computes the
rates from the counters of the pass and from the rows at that moment. `Fails` is a
file that is gone, a call that failed for good or a death: all of them store
nothing. Reports join, sources and their observations go, files are lost. Severity,
amplifiers and what storing does to the row are in `Incidents`; the authenticity
counts of a package repeat verdicts of `EvidenceVault` and are left out.

### Ingest

Extends `Incidents`: each of its actions is taken as it stands with the
pre-alert tables unchanged, or composed with what the route does around it.
`Post` raises or corroborates and suspends in `storeEvidence`; `Fuse` resumes
with observation, fusion and binding; `StoreFails` is the throw; `FuseCut` the
death. `FinishRun` supersedes the alerts bound to its incident. Rulings on uploads, which
raise no alert, and the removal of a source go on beside the route; since either may take an
observation out of an incident, an alert is judged by what its incident was given
(`held`). The clock is
explicit because the 120 s window compares with the wall clock.

### EvidenceVault

An object stands for its SHA-256. The custody table is one list in id order, of all
objects interleaved, and a custody hash is known by the row that computed it: an entry
carries the id of the row whose hash it read as the tip (`Tip`), and a chain recomputes
(`ChainOk`) when each row of an object names the one before it. A request is in `probing` between the
write of the file and the inserts; two requests of one object can both be
there. `RecordCut` stops after any insert. `Damage` is the disk.

`CustodyLedger` says what all this promises together: a journal of its own for each
object, written at its end alone; objects that come in once and stay; a bundle that
vouches, in the step that enters it in the journal, for nothing that was spoilt when the
bundle was opened, refuses nothing that is as it was, and enters each object once. It
has no requests, no table shared by the objects, no files and no awaits.
The mapping, at the end of `EvidenceVault`, hides the rest: the journal of an object is found by following its
chain through the table (`Tip`), an object is spoilt when the file its row names is not
whole, and what an export has read but not yet entered is seen by nobody. A death closes
every open bundle (`Lapse`) and may admit an object without beginning its journal
(`AdmitCut`), as the code does.

### StreamSync

One console and the server. The connection is closed, opening, live or waiting
for its timer; frames sit in `wire` in order; a connection opened anew gets
nothing from before (no `Last-Event-ID` is sent, so the ring of `bus.ts` is never
read and is not in the state). Hydration and list requests are two steps,
composed at the server and handled at the client, with anything in between.

The list on the screen is mounted while somebody subscribes. A created incident marks it and
the flush timer asks for it anew, in place of a request in flight, except the first one,
which has no data to replace. A request may be lost at any time: it is sent again
`Retries` times (two, `providers.tsx:20`) and then rests at an error until the next
invalidation or mount. An updated incident patches no list: `patchIncident`
(`StreamClient.ts:217-229`) looks for data kept as pages, and the lists are kept as one
answer (`resources.ts:33-36`, `:148`), so `Handle` leaves `cached` alone.

### Gateway, Examination, Hypotheses, Query

`Gateway` has the two loops of `call()`: models of the chain, attempts of a model,
with a back-off on 429 and 498 that counts against neither. Each `Outcome` is a
branch of the body: refused, unreadable, truncated, unusable, usable, or
capacity. `Examination` samples by the code's arithmetic, makes each batch a
gateway call from a fresh start, tries a batch three times, and merges.

`Hypotheses` is one incident's competing hypotheses, in hundredths. `Ask` reads
the sources and awaits; `Generate` filters the answer against what was read,
deletes the open rows and inserts; `Pull` moves the hypothesis and shares the
opposite among its siblings, with the code's clamp, rounding and labels. Exactly
0.15 is compared as a double that lies above or on the threshold depending on how
it was reached, so `Label` allows both there.

`Query` keeps of an answer what it cites. `Asks` is the handler up to the model
call (a query that throws returned no rows), `Phrased` and `CallFails` what
follows it; the screen's history and input are state because a late answer meets
what was typed meanwhile.

### Uploads and Casework

`Uploads` has both ends: the queue of `UploadScreen` (a pass over a snapshot of its
length, one file at a time, a line per file) and the route, whose awaits may each
end in a throw, a lost connection or a death; `Record` is the synchronous stretch
of inserts and `RecordCut` its prefixes. `Confirm` is `adjudicate` whole,
`ConfirmCut` and `RejectCut` what a death leaves. `RemoveSource` deletes the source the
recordings stand under: uploads, detections and observations go with it by the foreign
keys, incidents stay, and the next recording registers the source again. `Casework` writes
the same table, a row of its own; nothing of one desk hangs on the row of the other. `Casework` has the screens as
what was last fetched: `Press` reads such a screen and `PatchCase` applies the
value it asked for. A manifest is built as in `buildManifest`, by sorting what was attached. Capabilities are those of the role table in `lib/api/schemas/session.ts`.

### Playback, Console, MapView, Review

`Playback` measures in half frames. The clock is outside React: `Emit` is what its
listeners do at once (every tile's `tick`, the deck's following), and whatever
happens between two emissions is heard by nobody. `Correct` has the three bands of
`videoSlave.ts`, suppression after a seek and quarantine after too many. A refetch
rebuilds clock and tiles (`Rendered`). `Console` keeps the selection twice, in the
address and in the store, and the queue of acknowledgements with each running
replay. `MapView` keeps, per layer, the version given, held back before the style
(`pending`), held back by a move (`deferred`) and on the map. `Review` numbers
packages in the order in which runs store them and keeps the query cache of drawer
and page; the parts a package has, and those each screen and copy shows, are sets
of names. A copy remembers the package the page showed when it was asked for and whether
it warned of unverified statutes; what it states is rendered from the package the route
reads later, after which others may still be stored.

### The forensic tier

`ClassGate` splits each statement at its trigger's queries (`Derive` for the weakest class
of the steps, `ReadExternal` for whether one left the container, `CommitDerivative`;
`AddItem`, `ReadMinimum`, `ReadAck`, `CommitItem`); foreign keys are checked when the row is
written. A recipe may be deleted and written again under its id, by `ci/gate.sql`, between
any two of these; `unseen` are the derivatives whose second query found no steps. `DisclosureGate` is the same rules without triggers
or stored floors: a derivative has a recipe, and an item is disclosed in one step if at
that moment every step of the recipe meets the minimum or the acknowledgement is there;
the mapping hides the statements under way. Of a derivative whose recipe was withdrawn once
it promises the classes only. `Timebase` has observations as rows, of which several may have
one source time, returned in either order (`TieOrders`); it keeps the least squares exact, as
integer numerators over a common denominator. `Acquisition` works on units with a
kind and a size. `Authenticity` has the object, what the console found, what the
tier answered and their combination; an inconclusive recompression finding is mandatory. `Tracks` has positions on one line, speeds as
integer intervals, the tier's answer laid over the rows by index, and one entity
followed across incidents.

## Runs

Passing runs:

| Run | Shows | Bounds |
|---|---|---|
| `incidents` | one incident per event (`NoTwinIncidents`), the row follows the evidence (`ScoreIsCurrent`), only evidence lowers a band (`OnlyEvidenceLowersPriority`), the register: closed incidents gain nothing, what a device sent stays where it was filed, citations resolve (`ImplementsRegister`) | fusion: 4 reports of 3 devices, 2 windows, 3 actions; removals: the same with 1 action and every source removable; passes: 2 reports, 2 passes at once, 2 actions; rulings: 1 device beside a clip ruled on twice, at two moments, every source removable, and 1 pass or 1 action |
| `ingest` | one banner per event (`OneBannerPerEvent`); banners supported, and open only over news (`AlertsAreTrue`) | alerts: 4 reports, 1 pass, failures and deaths; operators: 2 reports of one device, 1 pass, 2 actions; rulings: the 2 reports, a clip ruled on and every source removable, 1 pass |
| `vault` | bytes, tree, one capture and an earned verdict behind every row (`RowIsWhole`), chains (`ChainsVerify`), the ledger all of it implements, honest manifests among it (`ImplementsLedger`) | race: 3 uploads of one object, 2 keys; export: 2 objects, 3 uploads, 1 export, 1 view |
| `stream` | one connection (`OneConnection`), steady banners (`BannerStays`), comes back, and lists what it heard of or shows an error (`ComesBack`) | banners: 2 alerts, 2 mounts, 1 drop; crowd: 3 alerts on a screen of 2; reconnect: 1 incident, 2 mounts, 2 drops, list requests lost at any time |
| `reasoning` | the fallback is earned (`FallbackIsEarned`), proposals survive (`ProposalSurvives`), examinations end (`ExaminationEnds`), labels are earned (`LabelsAreEarned`), settled hypotheses survive (`SettledSurvive`), citations were read (`CitationsWereRead`); a stored package cites what its pass read and has statutes only with counsel and agreement (`PackageIsSound`), a rate that is met dropped no claim, up to the rounding of more than 95, and coverage counts no minute twice (`RatesAreEarned`) | a still and a recording of 20 s, 3 waits per model; 2 hypotheses, 2 calls, 7 units of pulls and calls, 1 removal; 2 questions, 2 incidents, 2 days; 2 observations, 3 scene, 2 context and 2 legal answers, 1 situation with statutes and 1 without, any number of passes |
| `records` | uploads are what they say (`UploadsAreTrue`), rulings final (`RulingIsFinal`), the queue ends (`QueueEnds`), a stored manifest is that of what was disclosed (`ManifestIsContent`), completed checks for calibrated sources (`CompletedRunMeansCalibrated`) | 2 recordings, 2 sends, 3 incidents, 1 death, the source removed at any time; 2 people, 2 cases, 2 items, 1 run, budgets per kind of act |
| `workspace` | tiles at rest (`PausedTileIsHonest`), fights end (`FightEnds`); actions sent once and sent (`QueuedIsSentOnce`, `QueueReplays`); the map (`MapShowsTheLast`); what is announced as complete is shown (`CompleteIsCurrent`) and copied (`CopyIsNoOlder`) | 2 bundles, 7 sessions, each strong in one kind of step; 3 changes of data; 2 incidents, 2 packages, 5 requests or 2 requests and a copy |
| `fis` | the gate (`DisclosedMeetsMinimum`), which is atomic (`ImplementsGate`), clocks: segments side by side and doubt that grows (`ClockIsSound`), jitter that is no step (`JitterIsOneSegment`), damage (`DamageShows`), masters (`MasterStartsAtAKeyframe`), tracks (`PositionsAreTheirOwn`, `FollowedUnderFlag`) | 2 writers, 2 recipes (of three classes; external), both written again at any time, 1 derivative, 2 bundles; 4 clocks, 6 readings of which 2 at one time, 2 fits; 5 units; 192 objects; 2 observations, 5 reported tracks |

Why the bounds are enough. Two observations of which one may join or go during a
pass, and one id that is none, give every way a citation can resolve or not; the
scene answers have a claim that is kept, one that is dropped, one that cites
nothing, and none at all; the two captures overlap and one passes the end of the window. Fusion needs two windows that disagree, two cells and
a domain that differs: three reports give every order in which a third falls
between two, the fourth is an event of its own. Two passes are the smallest
number that can overtake each other. A clip ruled on at a moment before and one after its
device's report can join it, found on its own, or be joined, and then move. A camera that reports twice and a
phone, inside the alert window and after it, give corroboration, repetition and
expiry; the fourth has another trigger and fuses into the same incident, so
one incident carries two banners. Three alerts fill a screen of two. Two mounts
are React's double effect. Two drops exceed the `OfflineAfter = 1` of the instance
and so reach the offline state (the code has 6; the number only shifts where it
happens). Three uploads are two that race and one that arrives late. A recording of
20 s gives more than one batch, so one can fail beside one that proposes. Two calls
and three pulls, or one and five, carry a hypothesis over a threshold and drag its
competitor back. Two sends of a file are the one whose answer is lost and its
repetition; one death may fall anywhere between two statements. Two people are
what it takes to act on a stale screen. The playback instance keeps the order of
the three bands and of the intervals, not their sizes; a clip of nine half frames
has a covered stretch, a gap, and both ends. Two fits overlap, six readings hold
a step with a tail too short to fit and one step between two readings of the same time. Five units hold a picture before its
parameter sets, a keyframe, and a cut end. Two observations can share a track id.

The session records of `MCWorkspace` and the budgets of `MCRecords` bound the
number of acts of each kind in a behaviour; every action occurs in at least one of
them. Symmetry is used over passes in `incidents`, which no property
names, and over writers and bundles in `fis`, which are interchangeable there; never with a
liveness property. Deadlock checking is on in
`incidents`, `ingest` and `vault`, where something can always happen; it is off
where a bounded instance may use up what it may do: mounts, drops, pulls, budgets,
sessions, readings, or where an examination or a queue is over when it ends.

### Where the documentation and the code part

Four disagreements are runs that TLC ends with a counterexample to a sentence of
the repository; `PROJECT.json` quotes the sentence and the line.

| Run | The sentence | What the code does |
|---|---|---|
| `stream_drop` | a short drop leaves no stale state behind (`bus.ts:13`) | a new `EventSource` sends no Last-Event-ID, so nothing is replayed (`StreamClient.ts:125`) |
| `validity_below_zero` | citation validity is in 0 to 1 (`schemas/incident.ts:173`) | cleared statutes are counted as dropped and never as seen (`pipeline.ts:402`); the console cannot parse the package |
| `fis_clock_tail` | a tail too short to fit is kept with the segment before it (`timebase.py:206`) | it replaces that segment (`timebase.py:209`) |
| `fis_external` | bytes that left the container can never be evidentiary (`0001_core.sql:154`) | the two queries of `derivative_class_floor` (`:141`, `:151`) read what is committed at each; with the recipe deleted between them and written again under its id before the key is checked, `bool_or` over no rows is null and the floor stays E |

The others were met while modelling and are in no run.

Incidents, ingest, vault:

- incidents form in a window of the worse of two sync qualities
  (`observations.ts:13`); `observations.ts:122` takes the arriving source's alone;
- corroboration is in 0 to 1 (`schemas/incident.ts:42`); a rescore after every observation
  went with its source (`sources.ts:253`, `incidents.ts:273`) writes -0.33, and the console
  refuses the answer (`client.ts:114`);
- severity is from the counts the sources reported (`README.md:223`); a founding
  report is scored on `affected`, 1 by default (`route.ts:163` of the ingest route);
- the package and the incident row agree (`pipeline.ts:301`); the two bands are
  computed from different inputs;
- a policy audit precedes any dispatch (`pipeline.ts:411`); `routeIncident` reads no
  verdict (`incidents.ts:313`), nor whether the incident is closed;
- the audit sees neither action line nor causal graph (`pipeline.ts:412`), and its
  redactions are stored beside the package and applied to nothing;
- one bad frame must not take down the assessment (`pipeline.ts:147`); one whose file
  cannot be read does (`pipeline.ts:153`), and one that is damaged is sent;
- a claim that does not resolve is dropped (`README.md:227`); a forecast that does not is
  kept without its citations (`pipeline.ts:291`), actors and statutes that go are not counted;
- a penalty for an unconfirmed violation is impossible (`pipeline.ts:396`); the pattern
  (`pipeline.ts:404`) has stems between word boundaries and misses prosecute, fined,
  enforcement and seized;
- coverage is in 0 to 1 (`schemas/incident.ts:169`); a report that fusion admits after the
  window of three minutes (quality D: five) adds a negative length (`pipeline.ts:519`);
- claims must cite observation ids (`pipeline.ts:30`); a violation assessment with an empty
  list passes `every` (`pipeline.ts:241`), and the item "every claim carries evidence" is met;
- the causal graph adds nothing to what was stated (`pipeline.ts:318`); a node takes the
  evidence of the factor at its own index, or else the first observation (`pipeline.ts:330`);
- damaged bytes count as inconsistent (`pipeline.ts:540`); only the verdict of ingest and
  the custody rows are read (`pipeline.ts:557`);
- a pass that read less and ends later replaces the package of one that read more;
- a banner goes when a package replaces it (`prealerts.ts:141`); a banner rebound to
  the incident of a later report is cleared by that incident's package;
- a second device is corroboration (`prealerts.ts:76`); a device counted already is
  counted again for each post (`prealerts.ts:95`);
- a capture claim that is present is checked (`media.ts:97`), and the chunk tree is
  computed at ingest (`media.ts:152`); neither is so on the deduplicated path, which
  returns at `media.ts:117`;
- a signature nothing verified no longer decides the verdict shown
  (`0001_vault.sql:7`); the search shows any signed observation as verified
  (`store/evidence.ts:170`).

Stream, models, queries:

- everything the console needs arrives on the stream (`stream/route.ts:12`); a pass
  rewrites the row and publishes nothing, an alert raised between the hydration
  answer and the attach is in neither, and a hydration handled after a clearing
  brings the banner back;
- an update is patched into every list page (`StreamClient.ts:214`); the patch needs data
  kept as pages (`StreamClient.ts:220`), which no list has (`resources.ts:33-36`, `:148`), so
  lists show the old row until something is created;
- every attempt is written to the ledger (`client.ts:168`); one whose fetch throws is
  not (`client.ts:302`), and one whose reply fails to parse is written as a success
  (`client.ts:276`);
- a hypothesis is labelled only when its number is far from even
  (`hypotheses.ts:274`) and probability is conserved (`hypotheses.ts:284`); a label
  stays when siblings drag the number back, and what the clamp cuts off is taken
  from nobody;
- a request to a source that does not exist is dropped (`hypotheses.ts:203`); the
  sources are those of before the model call (`hypotheses.ts:196`);
- the trace above an answer is a true account of what was read (`query.ts:13`); rows
  are cut to 12,000 characters per tool, so its counts may exceed what the model saw;
- the question field is cleared on success even if something was typed meanwhile, and
  suggestions are not disabled while an answer is pending.

Uploads, cases, sources:

- a second ruling is ignored and answered with "recorded. no incident was opened."
  (`uploads/adjudicate/route.ts:48`);
- after a death between the trigger (`uploads.ts:234`) and the detection's row
  (`uploads.ts:246`) the detection is open; confirming it again may move its observation
  to a second incident, and the first is not rescored; rejecting it leaves the observation
  where it is;
- after a death between the upload's insert and its detection's, the upload can never
  be ruled on; the outer loop of three attempts never repeats anything;
- a case under legal hold refuses nothing: no statement reads the column
  (`CaseDetailScreen.tsx:169` says what it should do);
- removing a source cascades to its observations, which incidents, packages and
  hypotheses go on citing (`sources.ts:253`); registering it again keeps the homography;
- a bundle discloses what the case holds when it is served, not when it was made;
- standing searches that name persons count matches without a flag; changing or deleting
  one, and moving a case to another state, needs no capability; results of a person
  search stay on the screen when the flag is withdrawn;
- the count of a standing search is never reset (`SavedSearches.tsx:46`); evidence chips
  edit what is displayed, not what is asked (`EvidenceScreen.tsx:31`).

Browser:

- with the clock paused, a step of a frame does not move a tile of 25 or more frames
  a second (`videoSlave.ts:167`); a correction that falls into the 250 ms after a seek while
  paused is not made later; `seekToMaster`, `setBounds` and `setSource` have no caller;
- the clock is "rebuilt only when the window changes" (`ForensicsScreen.tsx:92`); any
  change of the bundle rebuilds it; a zoom or pan while paused leaves the playhead at
  its old pixel (`transform.ts:5`); removing the last tile refills the stage; a mark
  of desynchronisation outlives the tile it is about; only the first HLS segment loads;
- the binary search of `coverageAt` assumes disjoint segments, which nothing ensures;
- dispatch is disabled while offline (`AppShell.tsx:73`); the palette dispatches, and
  acts on the selection store, not on the address (`CommandPalette.tsx:24`);
- "replayed" is reported also when replays failed; the queue is lost on reload; an
  error toast may be pushed out unseen (`ui.ts:13`); keys of the feed ignore modifiers;
- `setIncidents` before the style has loaded never applies the cluster policy
  (`controller.ts:405`); selection and visibility given then are lost; every list
  refetch flies the camera back to the selected incident (`MapCanvas.tsx:93`); the
  zone layers that `setZonesVisible` names are never installed;
- the drawer keeps a dismissal form and the index of its lightbox when another incident
  is selected (`OpsScreen.tsx:262` gives no key); `x` only selects although the footer
  says it dismisses; a second click on creating a case creates a second one; a failed
  package read is sent twice more and each runs the pass;
- the export states which objects failed on its own face (`IncidentPackageScreen.tsx:158`);
  the summary and the disclosure copy are rendered without the export record
  (`export/[kind]/route.ts:88`);
- the offline bundle is "the complete record" and says nothing of the disagreement
  between scene pass and trigger; every removal is listed (`disclosure.ts:13`), but not
  those of timeline, conflicts and causal graph.

Forensic tier:

- one failed test is a failed object (`forensics.ts:323`); the tier's row for the content
  hash is dropped (`forensics.ts:304`), so an object damaged between the console's
  hash and the tier's is reported verified, and `mandatory` is dropped as well, so a
  suspicion of screen replay makes an object inconsistent;
- corrupt units stay in the master; a lone truncated unit that is the last of its kind
  is never dropped (`acquisition.py:205`); parameter sets move to the front, the
  geometry is the first one's (`nal.py:10`, `acquisition.py:191`);
- a fit the console gave up on (8 s) still stores; a stale one may replace a newer; of two
  overlapping stores the second fails on the key; an offset whose drift cannot be
  measured is the intercept of the line that was fitted anyway;
- an item whose bundle is not committed yet reads no minimum; the class of a step is not
  tied to its operator's; an update of a step is not judged again; `sealed_at` is never
  read;
- a pair that never closes gets no metric (`tracks.ts:294`); the sum of the two speeds is
  taken for the closing speed (`tracks.ts:311`), also of tracks that move apart;
- a refusal of the tier is no invitation to fall back (`tracks.ts:210`); when it refuses
  every track the differenced figures are listed (`tracks.ts:238`);
- the answer is laid over tracks by id while the key is id and observation; two
  observations that use one id get each other's places; samples closer than 40 ms give
  an interval that does not hold its value (`tracks.ts:130`);
- a track or sighting stored before its observation is bound keeps no incident for ever
  (`forensics.ts:207` says otherwise); one whose observation moves keeps the old one;
- a dossier's speeds are from before the tier's answer, its conflicts from after it;
- an entity keeps the kind of its first report (`tracks.ts:417`), so one seen as an object
  first and as a person later is followed without a flag.

## Fairness

Every fairness condition is weak and on a step of the program, never on a person
or a fault.

- `StreamSync`: an opened connection is answered, a timer that is set fires, a frame
  that has arrived is handled, a flush timer fires, a list request that stands open is
  answered and its answer handled: browser timers and TCP, with errors that end
  (`MaxDrops`). Nothing says that a list request is answered rather than lost. Subscribing,
  raising and changing are not fair; `ComesBack` is conditional on a subscriber, speaks of a
  list that was fetched once, and allows it to rest at an error.
- `Reasoning`: the examination goes on. A call sends, a request ends since `fetch`
  carries a timeout of 120 s, a back-off is a timer.
- `Records`: the loop of `runQueue` goes on, and every request settles, as an answer
  or as an error; nothing says that the server answers.
- `Workspace`: a stream that dropped is restored (drops are bounded by the session),
  the effect on the connection's state runs, and a replay's action settles, with
  either outcome.

The other specifications state safety only.

## What is proved

Each theorem is of the specification the runs check, for every value of the constants
its named assumptions allow. An invariant `...Inv` of a proof was first checked by TLC on
the instance of the runs; it is what a property needs to become inductive.

`ListFacts`. The properties about lists need that filtering keeps order and members,
which is induction over a list. The library's induction theorems take an operator as a
parameter and cannot be used here, so these facts go by the least counterexample: a set
of naturals that is not empty has a least element (`LeastNatural`, from the
well-foundedness of `<`), and at the least length that fails the recursion gives the
contradiction. `SetInduction` is induction over a set instead of an operator, so a lemma
names the set of lengths of which its claim holds; `FoldExists` says that a recursion over
lengths with a base and a step given as functions has a fold (`HasFold`), which is what
makes the recursive functions of `Timebase` and `Understanding` usable in a proof;
`OrderedFacts` that the members of a finite set, placed by how many stand before them,
are each listed once and in order. `Filter` is a recursive function for the same reason; `SelectSeq` is
opaque to the provers.

`IncidentsProofs`:

- `TypeCorrect`: `TypeOK`, by a lemma per helper (`CountedType`, `RescoredType`,
  `BuiltType`, `StoredType`) and a step per action;
- `FusionFacts`: `HeldIsAttached` and `ClosedIsRemembered`. An observation is where its
  incident has it, leaves only with its source or by a ruling given again, and one a device
  sent is new to every incident when its trigger is recorded; an incident that fusion skips
  was closed. They are what makes the rest inductive: `NoTwinIncidents` says nothing about
  why a candidate was missing;
- `OneIncidentPerEvent` (`NoTwinIncidents`): a new incident is founded only when no
  candidate exists, and by `ClosedIsRemembered` an incident that was never closed
  in the window and disk of the new report would have been one;
- `CitationsStayInside` (of `CitationsResolve`): needs `PassesReadHeld`, what a pass holds
  across its awaits its incident has had when it writes; the theorem states both. By
  `HeldIsAttached` it is then still attached, unless its source was removed or its ruling was given
  again, and these exceptions are stated in the property;
- `ScoreFollowsEvidence` (`ScoreIsCurrent`): per action, either the row is rescored on
  the new basis, or neither row nor basis moved, or the incident is owed a rescore
  (`unscored`): the one an observation is taken from by a second ruling, those a removed
  source leaves behind, and the one a death interrupted. Escalation only raises;
- `AttachmentIsFinal` (of `ClosedGainNothing`, which the register implies): `recordTrigger` itself
  has no guard against an observation that is attached already; that one a device sent stays where it
  is rests on the route making the call once, for a row it has just inserted (`settled`), and
  a ruling moves its observation only before it is taken down;
- `BandFallsWithEvidence` (`OnlyEvidenceLowersPriority`): goes over the rows a step
  writes: a trigger or a package rescores, an operator's action writes status and
  deadlines or raises the band, and nothing else touches it;
- `StoreImplementsRegister` (`ImplementsRegister`): the initial state is an empty
  register, and under `TypeOK`, `HeldIsAttached` and `PassesReadHeld` every step is a
  step of the register or leaves its view as it was. One lemma gives what the three
  kinds of trigger have in common (`Triggering`); they map by `CreateFounds` and `JoinFiles`
  (a candidate is exactly an admitting incident, `CandidatesAdmit`), a rejected ruling to
  `Reject`, a removed source to `Withdraw`, an operator's action by `OperatingMoves`, a
  finished pass by `StoringPublishes`, starts, crashes and scores to a stutter (`SameView`);
- `RouteImplementsStore`: every step of the route (`Ingest`), rulings and removals beside it
  included, is a step of `Incidents` or leaves its variables alone, so all of the above holds of the route and is used below;
- `OneBanner` (`OneBannerPerEvent`) and `AlertsStayTrue` (`AlertsAreTrue`), by `RouteInv`:
  a request waits with an alert that exists, what is still to be fused no incident has
  ever had, and rulings are no requests (`RequestsOK`), alerts keep their columns (`AlertsOK`). Across the await neither is
  known from the property alone: binding needs the alert the request raised before it,
  and raising needs that a report not yet sent owns no alert. Superseding uses the
  store's facts about passes (what a package saw its incident has had), so an alert stays true
  when the source of its reports is removed.

`EvidenceVaultProofs`, by `VaultInv`:

- `VaultTypeCorrect` (`TypeOK`);
- `RowsAreWhole` (`RowIsWhole`): between the write of a file and the inserts an upload
  owns nothing yet, so `FilesOK` says of every request that is probing an object without
  a row that its file is whole, and of a row that its file is whole exactly until it is
  damaged; `RecordsOK` that an object has no custody before it has a row, and that a
  verified verdict has an upload with an enrolled key behind it;
- `ChainsRecompute` (`ChainsVerify`): appending for one object leaves the rows of every
  other where they were, and the new row names the last one of its own (`Rows`, `Tip`);
- `ManifestsAreHonest` (of `ManifestHonest`, which the ledger implies): `ExportsOK` says that what an export has read
  between two awaits stays within what was damaged when it began;
- `VaultImplementsLedger` (`ImplementsLedger`): every step of `EvidenceVault` is a step of
  the ledger or a stutter, by `LedgerInv`, which is `VaultInv` with `LoopOK`: an export has
  not entered what is still before it, and what it read as bad is damaged. The first makes
  an entry a new one, the second makes a refusal one of something spoilt. The row of an
  entry was written by reading a hash out of the shared table, so that the journal of one
  object grows by exactly that entry and no other journal moves (`JournalGrows`) rests on
  `ChainsVerify`; uploads map by `UploadImplements`, exports by `ExportImplements`, where
  a read between two awaits is a stutter, and the rest by `OthersImplement`.

`StreamProofs`, by `StreamInv`:

- `StreamTypeCorrect`, `ConnectionHeldOnce` (`OneConnection`): the counter of references,
  the phase of the connection and the timer move together;
- `BannersStay` (`BannerStays`), an action property: it needs that no list names an alert
  twice and that the screen holds no more than it may (`ListsOK`), since only then does
  putting one in front of a full list push out the last alone.

`ReasoningProofs`:

- `PassHolds`, `StoredIsSound` (`PackageIsSound`): `PassInv` says what a pass holds at each
  await, not only what it stores: it has nothing from an answer that has not come
  (`DraftIsFresh`; otherwise reading the ids anew would leave old claims behind), what it
  has cites what it read (`DraftCites`), and statutes and line respect the scene
  (`DraftIsEarned`). One lemma per stage; the causal graph cites by position
  (`CarriedWasRead`);
- `RatesStayEarned` (`RatesAreEarned`): `RatesInv` counts, at each await, the claims seen
  and dropped so far against those the draft holds (`ClaimsCounted`), a lemma per stage; a
  package that says "met" was rounded up from at least 98.95 of a hundred (`RoundingFacts`).
  Coverage is a recursion over the rows in the order of their start: the induction carries
  that what is covered up to the cursor is at most what the rows so far have seen of the
  window before it (`CoverageFacts`, on `CoverFacts` for one row), for captures that nest,
  touch, overlap, or pass the window's ends;
- `CitedRowsWereRead` (`CitationsWereRead`): `QueryInv` carries the relation for every
  question asked, not only for those shown, and that one that was answered is stored;
- `SettledAreKept` (`SettledSurvive`), an action property over the counters of `CountsOK`:
  a generation writes among open and absent rows only, whatever it read earlier;
- `LabelsStandBesideTheirNumbers` (`LabelsAreEarned`): `HypothesesInv` bounds the posterior
  of each row by its label and counts untestable rows by the generations that died. A share
  is rounded on n-ths of a hundredth, so `RoundedFacts` is arithmetic for any number of
  siblings;
- `FallbackEarned` (`FallbackIsEarned`): `GatewayInv` says that the counters `attempt` and
  `waits` are exactly what the requests sent amount to, for the model at hand, that models
  before it are used up and those after it unasked. Carried through every batch by
  `ExamHolds`;
- `ProposalsSurvive` (`ProposalSurvives`): `PartsOK` says the batches that spoke are behind
  the one examined; the merge takes the strongest, which exists because the parts are
  finitely many (`StrongestFacts`).

`RecordsProofs`:

- `ChecksAreEarned` (`CompletedRunMeansCalibrated`): inductive as it stands, and proved so
  over late reports, removal, registration anew and deaths;
- `UploadsStayTrue` (`UploadsAreTrue`): `QueueInv`, the one request a console listens to is
  about the file its loop is at, so the answer marks the right line; `RowsInv`, a post that
  was not recorded has left nothing, an open detection names no incident, and only what
  proposes is attached to one. Without the first an answer could mark a file done that the
  server never kept. `Kept` says of every step that a row that was made stays in the table or is
  among those that went with the source, which is how a line shown as done may lose its row;
- `RulingsAreFinal` (`RulingIsFinal`), an action property from `RowsInv`: a ruling goes with its
  source or stays as it is.

`FisProofs`:

- `GateTypeCorrect`, `GateHolds` (`DisclosedMeetsMinimum`): `GateInv` says of a statement
  in flight that what it has judged is still true or that its keys are gone, so that it
  cannot commit: a row a trigger read does not change while it stays (`RowsStay`), what a
  derivative is worth is that of its recipe (`FloorsStep`), an acknowledgement outlives
  nothing it names (`AcksStep`). Recipes come again under their ids, so between the two
  queries of `derivative_class_floor` only the first is sure to have seen the steps: the
  classes hold for every derivative, the tools for those whose second query found a step
  (the others are `unseen`, and only a recipe that was deleted once can leave one);
- `ClockStaysSound` (`ClockIsSound`): `ClockInv`, what a request has loaded is a run of
  distinct observations in some order that respects their source times (`Strict`; the query
  leaves open which of two at one time comes first), and what is stored a list of such runs,
  each after the one before. Segments therefore share no observation and meet in an end point
  at most, as those do between whose observations of one time the clock was stepped. Splitting
  gives such a list (`SegmentedIsArranged`, an induction over the readings). That doubt grows
  past the last reading (`DoubtGrows`) needs the determinant of the least squares of times that
  do not all agree to be positive (`SpreadFacts`, by induction over the readings), and that the
  last stored segment is the one `resolve` takes (`LastSegment`);
- `GateIsAtomic` (`ImplementsGate`): under `GateInv` every commit is a step of
  `DisclosureGate` and every read of a trigger a stutter. What a statement has judged by
  reads of different moments is, by `StatementsOK`, what all of them would give at the
  commit, and a floor as strong as the minimum is that of a recipe whose every step meets
  it (`FloorMeets`); a commit whose keys are gone changes nothing (`ReadsUnseen`). The
  abstract gate owns the exception: of a recipe that was withdrawn once it may make a
  derivative nobody looked at the tools of;
- `DamageIsShown` (`DamageShows`): `AuthInv`, the row that found the damage is among the
  console's own from the start, and combining drops no failing row of them;
- `MastersOpen` (`MasterStartsAtAKeyframe`): what is kept of the units starts with the
  parameter sets and then the first keyframe, for streams of any length (`OfFacts`);
- `FollowedOnlyUnderFlag` (`FollowedUnderFlag`): `DossierInv`, an entity keeps the kind of its
  first report, and one nobody has reported has no path. The second is needed because a
  report may come between the tier's answer and the dossier;
- `PositionsStayTheirOwn` (`PositionsAreTheirOwn`): `MeasuredInv`, the answer is to the
  figures kept when the question was put, index by index, however the table changes before
  it comes; the answer is then laid over by id, which is why the property is about
  incidents whose tracks have ids of their own.

`WorkspaceProofs`:

- `QueuedIsAlwaysSentOnce` (`QueuedIsSentOnce`): `QueueInv` says that an action waits in
  one place of one list, the queue or what a replay has left, and that it waits exactly
  while it has not been sent. Replays overlap when a stream drops and comes back, so the
  lists are compared with one another, and no two of them may be the same list;
- `MapAlwaysShowsTheLast` (`MapShowsTheLast`): the property speaks of a map that is ready;
  `MapInv` says of one that is not where the last data of each layer wait (`LastIsKept`),
  and that what a move holds back has both a timer and the end of the move to write it
  (`WillFlush`). Without the second, a timer that fires during the move could leave data
  nobody writes;
- `CompleteStaysCurrent` (`CompleteIsCurrent`): `ReadInv` says of a read under way that the
  open screen asked for it, after the last run the screen was told of (`UnderWay`), and
  that no screen hears of a run before it is stored (`StoredInv`). The property alone does
  not say how old an answer that is still to come may be;
- `CopiesAreNoOlder` (`CopyIsNoOlder`): what is cached of an incident was stored for it
  (`CachedInv`), what is stored only grows (`StoredGrows`), so the package the route reads for
  a copy is the one on the page or a later one, and `CopyInv` carries this through the awaits
  of several copies under way. If it is the same one, the warning on the page is in the
  copy, whichever of the three renderings it has (`OnlyOfUnverified`, `CopiesWarn`);
- `FightAlwaysEnds` (`FightEnds`): `Tame` bounds the list of remembered seeks itself, one
  lower while the element is not in quarantine; each path of a tick, a step, a jump, a
  mount and a passing moment is shown to leave the list alone or to count in it (`Alike`,
  `RecordSeekFacts`). A list of at most `SeekLimit` seeks has no more in the window;
- `PausedTileStaysHonest` (`PausedTileIsHonest`): over every command of the transport, the
  stage and the deck, that what a command renders last is the instant at which it leaves
  the clock (`HeardIsHonest`), and that nothing renders afterwards while the clock rests
  (`RestIsHonest`). What the coverage of an instant is plays no part and is not expanded.

The assumptions are of constants only, each named in the module that declares them:

- only rulings may share an observation (`RulingAssumption`): the ingest route makes one call
  for each row it inserts;
- reports: `Disk` and `Box` are symmetric (and `Disk` reflexive: neighbourhoods on a grid),
  windows are naturals, `affected` and the counts are capped at `Full`, `Band` is total;
- the ids that stand for absent rows, files, keys or questions (`None`, `Nil`, `Unbound`,
  `NoQuestion`, the kind "none" of an entity never reported) are none of the values they
  stand beside: they are null in the code. ids are numbered in the order that breaks a tie
  between captures, and no routing is not a line;
- a recipe has at least one step; the chain of models is a list without repetitions that is
  not empty, the primary model of a role and its fallback; the models' answers are lists of hypotheses with an
  integral prior (hundredths) and a list of sources, as their schema has it; a posted track
  has a sample; an object's properties are what its tests can find;
- readings are taken at natural times, several at one time allowed, with integral errors, and a fit judges a break from
  two readings on (the code: from six);
- an element is sought at least once before it is left alone, and no package on a screen
  is not one (`NoDossier` is the absence of an address).

Only model-checked:

- `JitterIsOneSegment`: that no error within the jitter is taken for a step bounds a ratio
  of sums over the readings, nonlinear in all of them, and depends on how many there are;
- `ManifestIsContent`: that sorting makes equal lists of equal sets is a fact about
  `SortSeq`, an induction over lists;
- liveness (`ComesBack`, `ExaminationEnds`, `QueueEnds`, `QueueReplays`): fairness and
  ENABLED are beyond the provers.

No module uses RECURSIVE.

## Plan

What is left, in order:

1. Abstract specifications: a banner board implemented by `Ingest`; a mailbox (sent at
   most once per queueing, in some order) implemented by `Console`'s queue.
2. `Uploads` over `Incidents` itself rather than over its own incidents, and
   `Tracks` with what is rebound.
3. The job graph of the tier, when code claims from it.

## Not modelled, and why

The schema migrations are one loop at start before anything else runs. The
audit log is the custody chain's algorithm over one table. Zones, playbooks,
cameras' health and most settings are single-statement upserts. Prediction,
cascade and analytics are statistics of stored rows with no state of their own.
The severity formula is floating-point arithmetic without a threshold a step
depends on, its result is a band here. What a test, a track filter or an operator
measures on pixels is numerical; the models keep its outcome, and of kinematics
speed and closing time alone. Reading a burned clock off frames is left out.
Drawing, layout, charts, hover and wording are left out of every screen. Hash
collisions are excluded, as is a signature that verifies under a key that did not
make it: hashes and signatures are ideal. The ids drawn from eight hexadecimal
digits are taken to be distinct. `openPreAlerts`' limits of thirty minutes and
eight rows bound a read only. `updated_at`, SLA deadlines beyond their presence,
cost and latency columns are not in any state. The job graph of the FIS schema has
tables and no code yet; its migrations are run by hand and without a lock. Sessions
are a header, and the scripts under `ci/` and for data extraction are run by hand.
