---------------------------- MODULE EvidenceVault ----------------------------
(***************************************************************************)
(* The content-addressed evidence vault: storeEvidence with its chunk tree *)
(* and capture-signature verdict (lib/ingest/media.ts), the custody chain  *)
(* (lib/db/index.ts), key enrolment (sources/[id]/device-key/route.ts),    *)
(* and the exports that verify what they cite (lib/export/serve.ts).       *)
(*                                                                         *)
(* Every statement commits on its own, so the process may die after any of *)
(* them (RecordCut).  Requests interleave where they await: storeEvidence  *)
(* at the ffprobe probe, an export at the read of each file.               *)
(*                                                                         *)
(* An object stands for its sha256.  A custody hash is modelled by what it *)
(* commits to, the entries before it from the object on, so two hashes are *)
(* equal exactly when the histories are (no collisions).                   *)
(***************************************************************************)
EXTENDS Integers, FiniteSets, Sequences, FiniteSetsExt

CONSTANTS
  Object,    \* distinct byte strings, each known by its digest
  Upload,    \* records [object, source, key, ext]; key = None when unsigned
  Key,       \* device keys
  Owner,     \* Owner[k]: source k is enrolled for
  Export,    \* exports in flight at once
  None,
  MaxLooks   \* bound: console views of stored objects

Verdict == {"unverified", "no_key", "bad_signature", "verified"}

ASSUME UploadAssumption ==
  /\ \A u \in Upload : u.object \in Object /\ u.ext # None
  /\ None \notin Object /\ None \notin Key /\ None \notin Verdict
ASSUME BoundAssumption == MaxLooks \in Nat

Ext == {u.ext : u \in Upload}

VARIABLES
  files,    \* what the path of each object and extension holds
  evidence, \* the evidence table: the extension in stored_path, per object
  tree,     \* evidence_merkle and evidence_chunks of each object
  verdict,  \* device_signatures of each object
  custody,  \* the custody table in id order
  keys,     \* status of each device key
  requests, \* phase of the request that carries each upload
  exports,  \* the exports in flight or finished
  looks,    \* number of console views
  torn,     \* history: objects whose ingest was cut off by a crash
  damaged   \* history: objects whose file was lost or altered on disk

vars == <<files, evidence, tree, verdict, custody, keys, requests, exports, looks, torn, damaged>>

Phase == {"unsent", "probing", "stored", "deduplicated", "failed"}
CustodyAction == {"ingest", "capture", "access", "export", "export, verification failed"}
CustodyRow == [object : Object, action : CustodyAction,
               prev : Seq(Object \cup CustodyAction), hash : Seq(Object \cup CustodyAction)]
Result == [object : Object, contentOk : BOOLEAN, chainOk : BOOLEAN]
Manifest == [phase : {"idle", "next", "read", "done", "lost"}, todo : SUBSET Object,
             object : Object \cup {None}, contentOk : BOOLEAN, results : SUBSET Result,
             before : SUBSET Object]
NoExport == [phase |-> "idle", todo |-> {}, object |-> None, contentOk |-> FALSE,
             results |-> {}, before |-> {}]

-----------------------------------------------------------------------------
(* The custody chain *)

\* custodyChain: the ids of the object's entries
Rows(o) == {n \in DOMAIN custody : custody[n].object = o}

\* hash_after of the newest of these entries of o, the object itself before any
HashAfter(rows, o) == IF rows = {} THEN <<o>> ELSE custody[Max(rows)].hash

\* Mutant of Tip: the newest entry of the table, whatever object it is about.
TipOfTable(o) == HashAfter(DOMAIN custody, o)

Tip(o) == HashAfter(Rows(o), o)

Entry(o, action) ==
  [object |-> o, action |-> action, prev |-> Tip(o), hash |-> Append(Tip(o), action)]

Appended(o, action) == Append(custody, Entry(o, action))

\* verifyCustodyChain: recompute each entry from the one before it
ChainOk(o) ==
  \A n \in Rows(o) :
    /\ custody[n].prev = HashAfter(Rows(o) \cap 1..(n - 1), o)
    /\ custody[n].hash = Append(custody[n].prev, custody[n].action)

-----------------------------------------------------------------------------
(* storeEvidence *)

Path(u) == <<u.object, u.ext>>

Stored(o) == evidence[o] # None

\* Mutant of Receive: the write is started and not waited for.
ReceiveAsync(u) ==
  /\ requests[u] = "unsent"
  /\ IF Stored(u.object)
     THEN /\ custody' = Appended(u.object, "ingest")
          /\ requests' = [requests EXCEPT ![u] = "deduplicated"]
          /\ UNCHANGED files
     ELSE /\ files' = [files EXCEPT ![Path(u)] = "partial"]
          /\ requests' = [requests EXCEPT ![u] = "probing"]
          /\ UNCHANGED custody
  /\ UNCHANGED <<evidence, tree, verdict, keys, exports, looks, torn, damaged>>

Receive(u) ==
  /\ requests[u] = "unsent"
  /\ IF Stored(u.object)
     THEN /\ custody' = Appended(u.object, "ingest")
          /\ requests' = [requests EXCEPT ![u] = "deduplicated"]
          /\ UNCHANGED files
     ELSE /\ files' = [files EXCEPT ![Path(u)] = "whole"]
          /\ requests' = [requests EXCEPT ![u] = "probing"]
          /\ UNCHANGED custody
  /\ UNCHANGED <<evidence, tree, verdict, keys, exports, looks, torn, damaged>>

\* verifyClaim: the verdict on the signature the upload carries
Checked(u) ==
  LET enrolled == {k \in Key : Owner[k] = u.source /\ keys[k] = "enrolled"}
  IN  IF u.key = None THEN "unverified"
      ELSE IF enrolled = {} THEN "no_key"
      ELSE IF u.key \in enrolled THEN "verified" ELSE "bad_signature"

\* the statements after the probe, up to the n-th of five
Insert(u, n) ==
  LET o == u.object
  IN  /\ requests[u] = "probing"
      /\ ~Stored(o)
      /\ evidence' = [evidence EXCEPT ![o] = u.ext]
      /\ tree' = [tree EXCEPT ![o] = IF n = 1 THEN "none" ELSE IF n = 2 THEN "root" ELSE "whole"]
      /\ verdict' = [verdict EXCEPT ![o] = IF n < 4 THEN None ELSE Checked(u)]
      /\ custody' = IF n < 5 THEN custody ELSE Appended(o, "capture")

Record(u) ==
  /\ Insert(u, 5)
  /\ requests' = [requests EXCEPT ![u] = "stored"]
  /\ UNCHANGED <<files, keys, exports, looks, torn, damaged>>

\* the same bytes were recorded while this request probed: the insert throws
RecordFails(u) ==
  /\ requests[u] = "probing"
  /\ Stored(u.object)
  /\ requests' = [requests EXCEPT ![u] = "failed"]
  /\ UNCHANGED <<files, evidence, tree, verdict, custody, keys, exports, looks, torn, damaged>>

-----------------------------------------------------------------------------
(* Process death *)

Dropped == [u \in Upload |-> IF requests[u] = "probing" THEN "failed" ELSE requests[u]]

\* what is left of the exports in flight is their custody entries
Abandoned == [x \in Export |-> IF exports[x].phase \in {"next", "read"}
                              THEN [exports[x] EXCEPT !.phase = "lost"] ELSE exports[x]]

Dies(o) ==
  /\ exports' = Abandoned
  /\ torn' = torn \cup o
  /\ UNCHANGED <<keys, looks, damaged>>

\* while writeFileSync is writing
ReceiveCut(u) ==
  /\ requests[u] = "unsent"
  /\ ~Stored(u.object)
  /\ files' = [files EXCEPT ![Path(u)] = "partial"]
  /\ requests' = [Dropped EXCEPT ![u] = "failed"]
  /\ Dies({})
  /\ UNCHANGED <<evidence, tree, verdict, custody>>

\* between the statements after the probe
RecordCut(u) ==
  /\ \E n \in 1..4 : Insert(u, n)
  /\ requests' = Dropped
  /\ Dies({u.object})
  /\ UNCHANGED files

\* while every request is suspended in an await
Crash ==
  /\ requests' = Dropped
  /\ Dies({})
  /\ UNCHANGED <<files, evidence, tree, verdict, custody>>

-----------------------------------------------------------------------------
(* Device keys *)

Enroll(k) ==
  /\ keys[k] = "absent"
  /\ keys' = [keys EXCEPT ![k] = "enrolled"]
  /\ UNCHANGED <<files, evidence, tree, verdict, custody, requests, exports, looks, torn, damaged>>

Revoke(k) ==
  /\ keys[k] = "enrolled"
  /\ keys' = [keys EXCEPT ![k] = "revoked"]
  /\ UNCHANGED <<files, evidence, tree, verdict, custody, requests, exports, looks, torn, damaged>>

-----------------------------------------------------------------------------
(* Reading *)

\* GET evidence/[sha]/content
Look(o) ==
  /\ looks < MaxLooks
  /\ Stored(o)
  /\ looks' = looks + 1
  /\ custody' = Appended(o, "access")
  /\ UNCHANGED <<files, evidence, tree, verdict, keys, requests, exports, torn, damaged>>

\* recordEvidenceExport begins over the objects a bundle cites
Begin(x, cited) ==
  /\ exports[x].phase = "idle"
  /\ exports' = [exports EXCEPT ![x] =
                   [NoExport EXCEPT !.phase = "next", !.todo = cited, !.before = damaged]]
  /\ UNCHANGED <<files, evidence, tree, verdict, custody, keys, requests, looks, torn, damaged>>

\* the loop takes the next object; one without a row is left out
Skip(x, o) ==
  /\ exports[x].phase = "next" /\ o \in exports[x].todo /\ ~Stored(o)
  /\ exports' = [exports EXCEPT ![x].todo = @ \ {o}]
  /\ UNCHANGED <<files, evidence, tree, verdict, custody, keys, requests, looks, torn, damaged>>

\* Mutant of Content: the row is there, the bytes are not read.
ContentByRow(o) == Stored(o)

\* verifyEvidence: the digest of the bytes on disk
Content(o) == files[<<o, evidence[o]>>] = "whole"

Read(x, o) ==
  /\ exports[x].phase = "next" /\ o \in exports[x].todo /\ Stored(o)
  /\ exports' = [exports EXCEPT ![x].phase = "read", ![x].object = o, ![x].contentOk = Content(o)]
  /\ UNCHANGED <<files, evidence, tree, verdict, custody, keys, requests, looks, torn, damaged>>

\* after the read: the chain is recomputed and the export entered in it
Cite(x) ==
  LET o  == exports[x].object
      ok == exports[x].contentOk /\ ChainOk(o)
  IN  /\ exports[x].phase = "read"
      /\ custody' = Appended(o, IF ok THEN "export" ELSE "export, verification failed")
      /\ exports' = [exports EXCEPT
           ![x].phase = "next",
           ![x].todo = @ \ {o},
           ![x].results = @ \cup {[object |-> o, contentOk |-> exports[x].contentOk,
                                   chainOk |-> ChainOk(o)]}]
      /\ UNCHANGED <<files, evidence, tree, verdict, keys, requests, looks, torn, damaged>>

\* the manifest is digested and returned
Finish(x) ==
  /\ exports[x].phase = "next" /\ exports[x].todo = {}
  /\ exports' = [exports EXCEPT ![x].phase = "done"]
  /\ UNCHANGED <<files, evidence, tree, verdict, custody, keys, requests, looks, torn, damaged>>

\* a stored file is lost or altered outside the program
Damage(o) ==
  /\ Stored(o) /\ o \notin damaged
  /\ files' = [files EXCEPT ![<<o, evidence[o]>>] = "altered"]
  /\ damaged' = damaged \cup {o}
  /\ UNCHANGED <<evidence, tree, verdict, custody, keys, requests, exports, looks, torn>>

-----------------------------------------------------------------------------
Init ==
  /\ files = [p \in Object \X Ext |-> "absent"]
  /\ evidence = [o \in Object |-> None]
  /\ tree = [o \in Object |-> "none"]
  /\ verdict = [o \in Object |-> None]
  /\ custody = <<>>
  /\ keys = [k \in Key |-> "absent"]
  /\ requests = [u \in Upload |-> "unsent"]
  /\ exports = [x \in Export |-> NoExport]
  /\ looks = 0
  /\ torn = {}
  /\ damaged = {}

Next ==
  \/ \E u \in Upload : Receive(u) \/ Record(u) \/ RecordFails(u) \/ ReceiveCut(u) \/ RecordCut(u)
  \/ \E k \in Key : Enroll(k) \/ Revoke(k)
  \/ \E o \in Object : Look(o) \/ Damage(o)
  \/ \E x \in Export : \/ \E cited \in SUBSET Object : Begin(x, cited)
                       \/ \E o \in Object : Skip(x, o) \/ Read(x, o)
                       \/ Cite(x) \/ Finish(x)
  \/ Crash

Spec == Init /\ [][Next]_vars

-----------------------------------------------------------------------------
(* Properties *)

\* Tables, files and requests hold what their columns and phases allow.
TypeOK ==
  /\ files \in [Object \X Ext -> {"absent", "partial", "whole", "altered"}]
  /\ evidence \in [Object -> Ext \cup {None}]
  /\ tree \in [Object -> {"none", "root", "whole"}]
  /\ verdict \in [Object -> Verdict \cup {None}]
  /\ custody \in Seq(CustodyRow)
  /\ keys \in [Key -> {"absent", "enrolled", "revoked"}]
  /\ requests \in [Upload -> Phase]
  /\ exports \in [Export -> Manifest]
  /\ looks \in 0..MaxLooks
  /\ torn \subseteq Object /\ damaged \subseteq Object

\* storeEvidence: an object the table knows has its bytes at the path the row names,
\* and unless its ingest was cut off its whole tree, one capture entry that opens its
\* chain and one verdict, "verified" only where an upload carried an enrolled key of its
\* own source: after racing uploads, failed ones, crashes mid-write and revocations.
RowIsWhole ==
  \A o \in Object : Stored(o) =>
    /\ o \notin damaged => files[<<o, evidence[o]>>] = "whole"
    /\ o \notin torn =>
         /\ tree[o] = "whole" /\ verdict[o] # None
         /\ \E n \in Rows(o) : /\ \A m \in Rows(o) : n <= m
                               /\ {m \in Rows(o) : custody[m].action = "capture"} = {n}
    /\ verdict[o] = "verified" =>
         \E u \in Upload : u.object = o /\ u.key # None /\ Owner[u.key] = u.source
                           /\ keys[u.key] # "absent"

\* appendCustody: uploads, views and exports of several objects append in any
\* order, and every object's chain still recomputes from the object forward.
ChainsVerify == \A o \in Object : ChainOk(o)

\* recordEvidenceExport: a finished manifest vouches for no object that was damaged
\* before the export began, and each object it lists has its export entry.
ManifestHonest ==
  \A x \in Export : \A r \in exports[x].results :
    /\ r.contentOk => r.object \notin exports[x].before
    /\ \E n \in Rows(r.object) :
         custody[n].action = (IF r.contentOk /\ r.chainOk THEN "export"
                                      ELSE "export, verification failed")

-----------------------------------------------------------------------------
(* The vault and the ledger: the journals of all objects are one table, each entry  *)
(* found through the newest row of its object, and what an export vouches for it    *)
(* read some steps before it says so.                                               *)

Held == {o \in Object : Stored(o)}
Spoilt == {o \in Held : files[<<o, evidence[o]>>] # "whole"}
Journals == [o \in Object |-> Tip(o)]

Stands(phase) ==
  IF phase = "idle" THEN "idle" ELSE IF phase \in {"next", "read"} THEN "open" ELSE "closed"
Vouches(r) == r.contentOk /\ r.chainOk
BundleOf(m) ==
  [at |-> Stands(m.phase), before |-> m.before,
   vouched |-> {r.object : r \in {s \in m.results : Vouches(s)}},
   refused |-> {r.object : r \in {s \in m.results : ~Vouches(s)}}]
Bundles == [x \in Export |-> BundleOf(exports[x])]

Ledger == INSTANCE CustodyLedger
  WITH held <- Held, spoilt <- Spoilt, journal <- Journals, bundles <- Bundles

\* storeEvidence, appendCustody and recordEvidenceExport together: whatever uploads race,
\* whichever statement a death falls between, and whatever is damaged between the read of a
\* file and its entry, an observer of the ledger sees journals that grow at their end alone,
\* objects that stay, and bundles that vouch for and refuse what they should, each once.
ImplementsLedger == Ledger!LedgerSpec
=============================================================================
