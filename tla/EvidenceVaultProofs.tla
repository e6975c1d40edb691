------------------------- MODULE EvidenceVaultProofs -------------------------
(***************************************************************************)
(* Theorems about EvidenceVault, for any objects, uploads, keys, exports   *)
(* and bound on the views: a row has its bytes and its whole record, every *)
(* custody chain recomputes, a manifest vouches for nothing that was       *)
(* damaged before it was begun, and the vault implements the ledger.       *)
(***************************************************************************)
EXTENDS EvidenceVault, ListFacts

\* Two uploads of an object that is not yet a row have both written it whole, so either
\* may record it; from then on its file is whole exactly as long as nobody damaged it.
FilesOK ==
  /\ \A u \in Upload : requests[u] = "probing" /\ ~ Stored(u.object) => files[Path(u)] = "whole"
  /\ \A o \in Object : Stored(o) => (files[<<o, evidence[o]>>] = "whole" <=> o \notin damaged)
  /\ \A o \in damaged : Stored(o)

\* the one capture entry opens the chain of o
OpensWithCapture(o) ==
  \E n \in Rows(o) : /\ \A m \in Rows(o) : n <= m
                     /\ {m \in Rows(o) : custody[m].action = "capture"} = {n}

VerdictEarned(o) ==
  verdict[o] = "verified" =>
    \E u \in Upload : u.object = o /\ u.key \in Key /\ Owner[u.key] = u.source
                      /\ keys[u.key] # "absent"

\* An object has no custody before it has a row.
RecordsOK ==
  \A o \in Object :
    /\ ~ Stored(o) => Rows(o) = {} /\ verdict[o] = None
    /\ Stored(o) /\ o \notin torn => tree[o] = "whole" /\ verdict[o] # None /\ OpensWithCapture(o)
    /\ VerdictEarned(o)

\* What an export read stays within what was damaged when it began.
ExportsOK ==
  \A x \in Export :
    /\ exports[x].before \subseteq damaged
    /\ exports[x].phase = "read" => /\ exports[x].object \in Object
                                    /\ Stored(exports[x].object)
                                    /\ exports[x].contentOk => exports[x].object \notin exports[x].before

VaultInv == TypeOK /\ FilesOK /\ RecordsOK /\ ChainsVerify /\ ExportsOK /\ ManifestHonest

-----------------------------------------------------------------------------
(* Lemmas about custody *)

\* The hash after some entries is one of theirs, or the object before any.
LEMMA HashFacts ==
  ASSUME TypeOK, NEW o \in Object, NEW S, S \subseteq DOMAIN custody
  PROVE  /\ HashAfter(S, o) \in Seq(Object \cup CustodyAction)
         /\ S # {} => Max(S) \in S
<1>1. CASE S = {}
  BY <1>1 DEF HashAfter
<1>2. CASE S # {}
  <2>1. Len(custody) \in Nat /\ DOMAIN custody = 1..Len(custody)
    BY DEF TypeOK
  <2>2. Max(S) \in S
    BY <1>2, <2>1, MaxFacts
  <2>3. custody[Max(S)] \in CustodyRow
    BY <2>1, <2>2 DEF TypeOK
  <2> QED BY <1>2, <2>2, <2>3 DEF HashAfter, CustodyRow
<1> QED BY <1>1, <1>2

\* What appendCustody does to the table: one new row with the highest id.
LEMMA AppendFacts ==
  ASSUME TypeOK, NEW o \in Object, NEW action \in CustodyAction, custody' = Appended(o, action)
  PROVE  LET k == Len(custody) + 1
         IN  /\ custody' \in Seq(CustodyRow)
             /\ DOMAIN custody = 1..Len(custody) /\ DOMAIN custody' = 1..k /\ k \in Nat
             /\ custody'[k] = Entry(o, action)
             /\ \A n \in 1..Len(custody) : custody'[n] = custody[n]
             /\ Rows(o)' = Rows(o) \cup {k}
             /\ \A p \in Object : p # o => Rows(p)' = Rows(p)
<1> DEFINE k == Len(custody) + 1
<1>1. Rows(o) \subseteq DOMAIN custody
  BY DEF Rows
<1>2. Entry(o, action) \in CustodyRow
  BY <1>1, HashFacts DEF Entry, Tip, CustodyRow
<1>3. /\ custody' \in Seq(CustodyRow)
      /\ DOMAIN custody = 1..Len(custody) /\ DOMAIN custody' = 1..k /\ k \in Nat
      /\ custody'[k] = Entry(o, action)
      /\ \A n \in 1..Len(custody) : custody'[n] = custody[n]
  BY <1>2 DEF Appended, TypeOK
<1>4. custody'[k].object = o
  BY <1>3 DEF Entry
<1>5. Rows(o)' = Rows(o) \cup {k}
  BY <1>3, <1>4 DEF Rows
<1>6. \A p \in Object : p # o => Rows(p)' = Rows(p)
  BY <1>3, <1>4 DEF Rows
<1> QED BY <1>3, <1>5, <1>6

\* Every chain still recomputes when an entry is appended to any of them.
LEMMA ChainsStep ==
  ASSUME TypeOK, ChainsVerify, NEW o \in Object, NEW action \in CustodyAction, custody' = Appended(o, action)
  PROVE  ChainsVerify'
<1> DEFINE k == Len(custody) + 1
<1>1. /\ DOMAIN custody = 1..Len(custody) /\ k \in Nat
      /\ custody'[k] = Entry(o, action)
      /\ \A n \in 1..Len(custody) : custody'[n] = custody[n]
      /\ Rows(o)' = Rows(o) \cup {k}
      /\ \A p \in Object : p # o => Rows(p)' = Rows(p)
  BY AppendFacts
<1>2. \A p \in Object : Rows(p) \subseteq 1..Len(custody) /\ Rows(p) \subseteq DOMAIN custody
  BY <1>1 DEF Rows
<1>3. ASSUME NEW p \in Object, NEW S, S \subseteq Rows(p)
      PROVE  (IF S = {} THEN <<p>> ELSE custody'[Max(S)].hash) = HashAfter(S, p)
  <2>1. S # {} => Max(S) \in S
    BY <1>2, <1>3, HashFacts
  <2> QED BY <2>1, <1>1, <1>2, <1>3 DEF HashAfter
<1> SUFFICES ASSUME NEW p \in Object, NEW n \in Rows(p)'
             PROVE  /\ custody'[n].prev = HashAfter(Rows(p) \cap 1..(n - 1), p)'
                    /\ custody'[n].hash = Append(custody'[n].prev, custody'[n].action)
  BY DEF ChainsVerify, ChainOk
<1>4. CASE n \in Rows(p)
  <2>1. n \in 1..Len(custody) /\ custody'[n] = custody[n]
    BY <1>1, <1>2, <1>4
  <2>2. Rows(p)' \cap 1..(n - 1) = Rows(p) \cap 1..(n - 1)
    BY <1>1, <2>1
  <2>3. HashAfter(Rows(p) \cap 1..(n - 1), p)' = HashAfter(Rows(p) \cap 1..(n - 1), p)
    BY <2>2, <1>3 DEF HashAfter
  <2> QED BY <1>4, <2>1, <2>3 DEF ChainsVerify, ChainOk
<1>5. CASE n \notin Rows(p)
  <2>1. p = o /\ n = k
    BY <1>1, <1>5
  <2>2. Rows(p)' \cap 1..(n - 1) = Rows(p)
    BY <1>1, <1>2, <2>1
  <2>3. HashAfter(Rows(p) \cap 1..(n - 1), p)' = Tip(o)
    BY <2>1, <2>2, <1>3 DEF HashAfter, Tip
  <2> QED BY <2>1, <2>3, <1>1 DEF Entry
<1> QED BY <1>4, <1>5

-----------------------------------------------------------------------------
(* The tables keep their columns *)

LEMMA CheckedType == ASSUME NEW u \in Upload PROVE Checked(u) \in Verdict
  BY DEF Checked, Verdict

LEMMA VaultInitial == Init => VaultInv
<1> SUFFICES ASSUME Init PROVE VaultInv
  OBVIOUS
<1> USE UploadAssumption, BoundAssumption DEF Init
<1>1. NoExport \in Manifest
  BY DEF NoExport, Manifest, Result
<1>2. TypeOK
  BY <1>1 DEF TypeOK, Phase
<1>3. \A o \in Object : ~ Stored(o) /\ Rows(o) = {} /\ verdict[o] = None
  BY DEF Stored, Rows
<1>4. FilesOK
  BY <1>3 DEF FilesOK
<1>5. RecordsOK
  BY <1>3 DEF RecordsOK, VerdictEarned, Verdict
<1>6. ChainsVerify
  BY <1>3 DEF ChainsVerify, ChainOk
<1>7. ExportsOK /\ ManifestHonest
  BY DEF ExportsOK, ManifestHonest, NoExport
<1> QED BY <1>2, <1>4, <1>5, <1>6, <1>7 DEF VaultInv

\* A statement of storeEvidence leaves rows of the declared types.
LEMMA InsertType ==
  ASSUME TypeOK, NEW u \in Upload, NEW n \in 1..5, Insert(u, n)
  PROVE  /\ evidence' \in [Object -> Ext \cup {None}]
         /\ tree' \in [Object -> {"none", "root", "whole"}]
         /\ verdict' \in [Object -> Verdict \cup {None}]
         /\ custody' \in Seq(CustodyRow)
<1>1. u.object \in Object /\ u.ext \in Ext /\ Checked(u) \in Verdict
  BY UploadAssumption, CheckedType DEF Ext
<1>2. custody' \in Seq(CustodyRow)
  <2>1. CASE n < 5
    BY <2>1 DEF Insert, TypeOK
  <2>2. CASE n = 5
    <3>1. custody' = Appended(u.object, "capture")
      BY <2>2 DEF Insert
    <3> QED BY <3>1, <1>1, AppendFacts DEF CustodyAction
  <2> QED BY <2>1, <2>2
<1> QED BY <1>1, <1>2 DEF Insert, TypeOK

LEMMA DiesType ==
  ASSUME TypeOK, NEW o \in SUBSET Object, Dies(o)
  PROVE  /\ exports' \in [Export -> Manifest] /\ torn' \subseteq Object
         /\ Dropped \in [Upload -> Phase]
         /\ \A u \in Upload : [Dropped EXCEPT ![u] = "failed"] \in [Upload -> Phase]
<1>1. \A x \in Export : [exports[x] EXCEPT !.phase = "lost"] \in Manifest
  BY DEF TypeOK, Manifest
<1> QED BY <1>1 DEF TypeOK, Dies, Abandoned, Dropped, Phase

LEMMA ManifestType ==
  ASSUME TypeOK, NEW x \in Export, NEW m \in Manifest, exports' = [exports EXCEPT ![x] = m]
  PROVE  exports' \in [Export -> Manifest]
  BY DEF TypeOK

\* Whatever requests, exports and crashes do, the tables keep their columns.
LEMMA TypeStep == TypeOK /\ ExportsOK /\ [Next]_vars => TypeOK'
<1> SUFFICES ASSUME TypeOK, ExportsOK, [Next]_vars PROVE TypeOK'
  OBVIOUS
<1> USE BoundAssumption
<1>1. ASSUME NEW u \in Upload, Receive(u) PROVE TypeOK'
  <2>1. u.object \in Object /\ Path(u) \in Object \X Ext
    BY UploadAssumption DEF Path, Ext
  <2>2. CASE Stored(u.object)
    <3>1. custody' \in Seq(CustodyRow)
      BY <1>1, <2>1, <2>2, AppendFacts DEF Receive, CustodyAction
    <3> QED BY <1>1, <2>2, <3>1 DEF Receive, TypeOK, Phase
  <2>3. CASE ~ Stored(u.object)
    BY <1>1, <2>1, <2>3 DEF Receive, TypeOK, Phase
  <2> QED BY <2>2, <2>3
<1>2. ASSUME NEW u \in Upload, Record(u) PROVE TypeOK'
  <2>1. Insert(u, 5)
    BY <1>2 DEF Record
  <2> QED BY <1>2, <2>1, InsertType DEF Record, TypeOK, Phase
<1>3. ASSUME NEW u \in Upload, RecordFails(u) PROVE TypeOK'
  BY <1>3 DEF RecordFails, TypeOK, Phase
<1>4. ASSUME NEW u \in Upload, ReceiveCut(u) PROVE TypeOK'
  <2>1. Path(u) \in Object \X Ext
    BY UploadAssumption DEF Path, Ext
  <2>2. Dies({})
    BY <1>4 DEF ReceiveCut
  <2>3. /\ exports' \in [Export -> Manifest] /\ torn' \subseteq Object
        /\ [Dropped EXCEPT ![u] = "failed"] \in [Upload -> Phase]
    BY <2>2, DiesType
  <2> QED BY <1>4, <2>1, <2>3 DEF ReceiveCut, Dies, TypeOK
<1>5. ASSUME NEW u \in Upload, RecordCut(u) PROVE TypeOK'
  <2>1. PICK n \in 1..4 : Insert(u, n)
    BY <1>5 DEF RecordCut
  <2>2. Dies({u.object}) /\ u.object \in Object
    BY <1>5, UploadAssumption DEF RecordCut
  <2>3. /\ exports' \in [Export -> Manifest] /\ torn' \subseteq Object
        /\ Dropped \in [Upload -> Phase]
    BY <2>2, DiesType
  <2> QED BY <1>5, <2>1, <2>3, InsertType DEF RecordCut, Dies, TypeOK
<1>6. ASSUME NEW k \in Key, Enroll(k) \/ Revoke(k) PROVE TypeOK'
  BY <1>6 DEF Enroll, Revoke, TypeOK
<1>7. ASSUME NEW o \in Object, Look(o) PROVE TypeOK'
  <2>1. custody' \in Seq(CustodyRow)
    BY <1>7, AppendFacts DEF Look, CustodyAction
  <2> QED BY <1>7, <2>1 DEF Look, TypeOK
<1>8. ASSUME NEW o \in Object, Damage(o) PROVE TypeOK'
  BY <1>8 DEF Damage, TypeOK
<1>9. ASSUME NEW x \in Export, NEW cited \in SUBSET Object, Begin(x, cited) PROVE TypeOK'
  <2>1. [NoExport EXCEPT !.phase = "next", !.todo = cited, !.before = damaged] \in Manifest
    BY DEF NoExport, Manifest, Result, TypeOK
  <2> QED BY <1>9, <2>1 DEF Begin, TypeOK
<1>10. ASSUME NEW x \in Export, NEW o \in Object, Skip(x, o) PROVE TypeOK'
  <2>1. exports' = [exports EXCEPT ![x] = [exports[x] EXCEPT !.todo = exports[x].todo \ {o}]]
    BY <1>10 DEF Skip
  <2>2. exports[x] \in Manifest /\ exports[x].todo \ {o} \in SUBSET Object
    BY DEF TypeOK, Manifest
  <2>3. [exports[x] EXCEPT !.todo = exports[x].todo \ {o}] \in Manifest
    BY <2>2 DEF Manifest
  <2> QED BY <1>10, <2>1, <2>3, ManifestType DEF Skip, TypeOK
<1>11. ASSUME NEW x \in Export, NEW o \in Object, Read(x, o) PROVE TypeOK'
  <2>1. Content(o) \in BOOLEAN
    BY DEF Content
  <2>2. exports' = [exports EXCEPT ![x] = [exports[x] EXCEPT !.phase = "read", !.object = o,
                                                           !.contentOk = Content(o)]]
    BY <1>11 DEF Read
  <2>3. [exports[x] EXCEPT !.phase = "read", !.object = o, !.contentOk = Content(o)] \in Manifest
    <3>1. exports[x] \in Manifest
      BY DEF TypeOK
    <3> HIDE DEF Content
    <3> QED BY <2>1, <3>1 DEF Manifest
  <2> QED BY <1>11, <2>2, <2>3, ManifestType DEF Read, TypeOK
<1>12. ASSUME NEW x \in Export, Cite(x) PROVE TypeOK'
  <2> DEFINE o == exports[x].object
  <2> DEFINE r == [object |-> o, contentOk |-> exports[x].contentOk, chainOk |-> ChainOk(o)]
  <2> DEFINE m == [exports[x] EXCEPT !.phase = "next", !.todo = exports[x].todo \ {o},
                                     !.results = exports[x].results \cup {r}]
  <2>1. o \in Object /\ exports[x] \in Manifest /\ ChainOk(o) \in BOOLEAN
    BY <1>12 DEF Cite, TypeOK, ExportsOK, ChainOk
  <2>2. r \in Result /\ exports[x].results \subseteq Result /\ exports[x].todo \subseteq Object
    BY <2>1 DEF Result, Manifest
  <2>3. m \in Manifest
    <3> HIDE DEF r, o
    <3> QED BY <2>1, <2>2 DEF Manifest
  <2>4. exports' = [exports EXCEPT ![x] = m]
    BY <1>12 DEF Cite
  <2>5. \E action \in CustodyAction : custody' = Appended(o, action)
    BY <1>12 DEF Cite, CustodyAction
  <2>6. custody' \in Seq(CustodyRow)
    BY <2>1, <2>5, AppendFacts
  <2>7. exports' \in [Export -> Manifest]
    BY <2>3, <2>4, ManifestType
  <2> QED BY <1>12, <2>6, <2>7 DEF Cite, TypeOK
<1>13. ASSUME NEW x \in Export, Finish(x) PROVE TypeOK'
  <2>1. exports' = [exports EXCEPT ![x] = [exports[x] EXCEPT !.phase = "done"]]
    BY <1>13 DEF Finish
  <2>2. [exports[x] EXCEPT !.phase = "done"] \in Manifest
    BY DEF TypeOK, Manifest
  <2> QED BY <1>13, <2>1, <2>2, ManifestType DEF Finish, TypeOK
<1>14. CASE Crash
  <2>1. Dies({})
    BY <1>14 DEF Crash
  <2>2. exports' \in [Export -> Manifest] /\ torn' \subseteq Object /\ Dropped \in [Upload -> Phase]
    BY <2>1, DiesType
  <2> QED BY <1>14, <2>2 DEF Crash, Dies, TypeOK
<1>15. CASE UNCHANGED vars
  BY <1>15 DEF vars, TypeOK
<1> QED
  BY <1>1, <1>2, <1>3, <1>4, <1>5, <1>6, <1>7, <1>8, <1>9, <1>10, <1>11, <1>12, <1>13, <1>14, <1>15 DEF Next

-----------------------------------------------------------------------------
(* What a step can do to an object *)

LEMMA InsertFacts ==
  ASSUME TypeOK, NEW u \in Upload, NEW n \in 1..5, Insert(u, n)
  PROVE  /\ u.object \in Object /\ ~ Stored(u.object)
         /\ evidence'[u.object] = u.ext /\ Stored(u.object)'
         /\ \A o \in Object : o # u.object => evidence'[o] = evidence[o]
         /\ \A o \in Object : Stored(o) => evidence'[o] = evidence[o] /\ Stored(o)'
         /\ \A o \in Object : ~ Stored(o) /\ Stored(o)' => o = u.object
<1>1. u.object \in Object /\ u.ext # None /\ ~ Stored(u.object)
      /\ evidence' = [evidence EXCEPT ![u.object] = u.ext]
  BY UploadAssumption DEF Insert
<1>2. evidence'[u.object] = u.ext /\ \A o \in Object : o # u.object => evidence'[o] = evidence[o]
  BY <1>1 DEF TypeOK
<1> QED BY <1>1, <1>2 DEF Stored

\* The only way an object becomes a row is a statement of the request that carries it.
LEMMA StoredStep ==
  ASSUME VaultInv, [Next]_vars, NEW o \in Object
  PROVE  /\ Stored(o) => evidence'[o] = evidence[o] /\ Stored(o)'
         /\ damaged \subseteq damaged' /\ torn \subseteq torn'
         /\ ~ Stored(o) /\ Stored(o)' =>
              \E u \in Upload, n \in 1..5 :
                /\ Insert(u, n) /\ u.object = o
                /\ n < 5 => o \in torn'
                /\ UNCHANGED <<files, keys, damaged>>
<1> USE UploadAssumption DEF VaultInv
<1>1. ASSUME NEW u \in Upload, Record(u)
      PROVE  Insert(u, 5) /\ UNCHANGED <<files, keys, damaged, torn>>
  BY <1>1 DEF Record
<1>2. ASSUME NEW u \in Upload, RecordCut(u)
      PROVE  \E n \in 1..4 : Insert(u, n) /\ torn' = torn \cup {u.object} /\ UNCHANGED <<files, keys, damaged>>
  BY <1>2 DEF RecordCut, Dies
<1>3. CASE \E u \in Upload : Record(u)
  <2>1. PICK u \in Upload : Insert(u, 5) /\ UNCHANGED <<files, keys, damaged, torn>>
    BY <1>1, <1>3
  <2> QED BY <2>1, InsertFacts
<1>4. CASE \E u \in Upload : RecordCut(u)
  <2>1. PICK u \in Upload, n \in 1..4 : Insert(u, n) /\ torn' = torn \cup {u.object}
                                       /\ UNCHANGED <<files, keys, damaged>>
    BY <1>2, <1>4
  <2> QED BY <2>1, InsertFacts
<1>5. CASE ~ \E u \in Upload : Record(u) \/ RecordCut(u)
  <2>1. evidence' = evidence /\ damaged \subseteq damaged' /\ torn \subseteq torn'
    BY <1>5 DEF Next, vars, Receive, RecordFails, ReceiveCut, Dies, Crash, Enroll, Revoke, Look,
                Begin, Skip, Read, Cite, Finish, Damage
  <2> QED BY <2>1 DEF Stored
<1> QED BY <1>3, <1>4, <1>5

\* Which entry a step appends, and about which object.
LEMMA CustodyStep ==
  ASSUME VaultInv, [Next]_vars
  PROVE  \/ UNCHANGED custody
         \/ \E o \in Object, action \in CustodyAction :
              /\ custody' = Appended(o, action)
              /\ Stored(o)'
              /\ IF Stored(o) THEN action # "capture"
                 ELSE action = "capture" /\ \E u \in Upload : Insert(u, 5) /\ u.object = o
<1> USE UploadAssumption DEF VaultInv
<1>1. ASSUME NEW u \in Upload, Record(u) PROVE custody' = Appended(u.object, "capture") /\ Insert(u, 5)
  BY <1>1 DEF Record, Insert
<1>2. CASE \E u \in Upload : Record(u)
  <2>1. PICK u \in Upload : custody' = Appended(u.object, "capture") /\ Insert(u, 5)
    BY <1>1, <1>2
  <2>2. u.object \in Object /\ ~ Stored(u.object) /\ Stored(u.object)'
    BY <2>1, InsertFacts
  <2> QED BY <2>1, <2>2 DEF CustodyAction
<1>3. CASE \E u \in Upload : Receive(u)
  <2>1. evidence' = evidence
    BY <1>3 DEF Receive
  <2>2. UNCHANGED custody \/ \E u \in Upload : Stored(u.object) /\ custody' = Appended(u.object, "ingest")
    BY <1>3 DEF Receive
  <2> QED BY <2>1, <2>2 DEF Stored, CustodyAction
<1>4. CASE \E o \in Object : Look(o)
  BY <1>4 DEF Look, Stored, CustodyAction
<1>5. CASE \E x \in Export : Cite(x)
  <2>1. PICK x \in Export : Cite(x)
    BY <1>5
  <2>2. exports[x].object \in Object /\ Stored(exports[x].object) /\ evidence' = evidence
    BY <2>1 DEF Cite, ExportsOK
  <2>3. \E action \in {"export", "export, verification failed"} : custody' = Appended(exports[x].object, action)
    BY <2>1 DEF Cite
  <2> QED BY <2>2, <2>3 DEF Stored, CustodyAction
<1>6. ASSUME NEW u \in Upload, RecordCut(u) PROVE UNCHANGED custody
  BY <1>6 DEF RecordCut, Insert
<1>7. CASE UNCHANGED vars \/ ~ \/ \E u \in Upload : Record(u) \/ Receive(u) \/ RecordCut(u)
                               \/ \E o \in Object : Look(o)
                               \/ \E x \in Export : Cite(x)
  BY <1>7 DEF Next, vars, RecordFails, ReceiveCut, Crash, Enroll, Revoke, Begin, Skip, Read, Finish, Damage
<1> QED BY <1>2, <1>3, <1>4, <1>5, <1>6, <1>7

\* Rows are only added, and keep what they say.
LEMMA RowsStay ==
  ASSUME VaultInv, [Next]_vars, NEW o \in Object
  PROVE  /\ Rows(o) \subseteq Rows(o)'
         /\ \A n \in Rows(o) : custody'[n] = custody[n]
<1>1. CASE UNCHANGED custody
  BY <1>1 DEF Rows
<1>2. ASSUME NEW p \in Object, NEW action \in CustodyAction, custody' = Appended(p, action)
      PROVE  Rows(o) \subseteq Rows(o)' /\ \A n \in Rows(o) : custody'[n] = custody[n]
  BY <1>2, AppendFacts DEF VaultInv, Rows
<1> QED BY <1>1, <1>2, CustodyStep

-----------------------------------------------------------------------------
(* The parts of the invariant *)

\* Chains recompute after any step.
LEMMA ChainsKept == VaultInv /\ [Next]_vars => ChainsVerify'
<1> SUFFICES ASSUME VaultInv, [Next]_vars PROVE ChainsVerify'
  OBVIOUS
<1>1. CASE UNCHANGED custody
  <2>1. \A o \in Object : Rows(o)' = Rows(o)
    BY <1>1 DEF Rows
  <2>2. \A o \in Object, n \in Nat :
          HashAfter(Rows(o) \cap 1..(n - 1), o)' = HashAfter(Rows(o) \cap 1..(n - 1), o)
    BY <1>1, <2>1 DEF HashAfter
  <2>3. \A o \in Object : Rows(o) \subseteq Nat
    BY DEF Rows, VaultInv, TypeOK
  <2> SUFFICES ASSUME NEW o \in Object, NEW n \in Rows(o)
               PROVE  /\ custody'[n].prev = HashAfter(Rows(o) \cap 1..(n - 1), o)'
                      /\ custody'[n].hash = Append(custody'[n].prev, custody'[n].action)
    BY <2>1 DEF ChainsVerify, ChainOk
  <2>4. /\ custody[n].prev = HashAfter(Rows(o) \cap 1..(n - 1), o)
        /\ custody[n].hash = Append(custody[n].prev, custody[n].action)
    BY DEF VaultInv, ChainsVerify, ChainOk
  <2> QED BY <1>1, <2>2, <2>3, <2>4
<1>2. CASE \E o \in Object, action \in CustodyAction : custody' = Appended(o, action)
  BY <1>2, ChainsStep DEF VaultInv
<1> QED BY <1>1, <1>2, CustodyStep

\* A request that probes was not hit by a crash, and has just written its file or had before.
LEMMA ProbingStep ==
  ASSUME TypeOK, [Next]_vars, NEW u \in Upload, requests'[u] = "probing"
  PROVE  /\ Receive(u) \/ requests[u] = "probing"
         /\ ~ Crash /\ \A v \in Upload : ~ ReceiveCut(v) /\ ~ RecordCut(v)
<1>1. Dropped \in [Upload -> Phase] /\ Dropped[u] # "probing"
  BY DEF Dropped, TypeOK, Phase
<1>2. \A v \in Upload : [Dropped EXCEPT ![v] = "failed"][u] # "probing"
  BY <1>1
<1>3. ~ Crash /\ \A v \in Upload : ~ ReceiveCut(v) /\ ~ RecordCut(v)
  BY <1>1, <1>2 DEF Crash, ReceiveCut, RecordCut
<1>4. ASSUME NEW v \in Upload, Receive(v) \/ Record(v) \/ RecordFails(v)
      PROVE  Receive(u) \/ requests[u] = "probing"
  BY <1>4 DEF Receive, Record, RecordFails, TypeOK
<1>5. CASE ~ \E v \in Upload : Receive(v) \/ Record(v) \/ RecordFails(v)
  BY <1>3, <1>5 DEF Next, vars, Enroll, Revoke, Look, Begin, Skip, Read, Cite, Finish, Damage
<1> QED BY <1>3, <1>4, <1>5

\* Racing uploads write the same bytes, so a row finds its file whole; only a file that is
\* not a row's yet can be cut short.
LEMMA FilesStep == VaultInv /\ TypeOK' /\ [Next]_vars => FilesOK'
<1> SUFFICES ASSUME VaultInv, TypeOK', [Next]_vars PROVE FilesOK'
  OBVIOUS
<1> USE UploadAssumption DEF VaultInv
<1>1. ASSUME NEW u \in Upload, requests'[u] = "probing", ~ Stored(u.object)'
      PROVE  files'[Path(u)] = "whole"
  <2>1. u.object \in Object /\ ~ Stored(u.object) /\ Path(u) \in Object \X Ext
    BY <1>1, StoredStep DEF Path, Ext
  <2>2. CASE requests[u] = "probing"
    <3>1. files[Path(u)] = "whole"
      BY <2>1, <2>2 DEF FilesOK
    <3>2. ~ Crash /\ \A v \in Upload : ~ ReceiveCut(v) /\ ~ RecordCut(v)
      BY <1>1, ProbingStep
    <3>3. ASSUME NEW v \in Upload, Receive(v) PROVE files'[Path(u)] = "whole"
      BY <3>1, <3>3, <2>1 DEF Receive, TypeOK
    <3>4. ASSUME NEW o \in Object, Damage(o) PROVE files'[Path(u)] = files[Path(u)]
      <4>1. <<o, evidence[o]>> # Path(u)
        BY <3>4, <2>1 DEF Damage, Path
      <4> QED BY <3>4, <4>1, <2>1 DEF Damage, TypeOK
    <3> QED
      BY <3>1, <3>2, <3>3, <3>4 DEF Next, vars, Record, RecordFails, Enroll, Revoke, Look, Begin, Skip, Read,
         Cite, Finish
  <2>3. CASE requests[u] # "probing"
    <3>1. Receive(u)
      BY <1>1, <2>3, ProbingStep
    <3> QED BY <3>1, <2>1 DEF Receive, TypeOK
  <2> QED BY <2>2, <2>3
<1>2. ASSUME NEW o \in Object, Stored(o)'
      PROVE  files'[<<o, evidence'[o]>>] = "whole" <=> o \notin damaged'
  <2>1. CASE Stored(o)
    <3>1. evidence'[o] = evidence[o] /\ <<o, evidence[o]>> \in Object \X Ext
          /\ (files[<<o, evidence[o]>>] = "whole" <=> o \notin damaged)
      BY <2>1, StoredStep DEF FilesOK, Stored, TypeOK
    <3>2. ASSUME NEW u \in Upload, Receive(u) \/ ReceiveCut(u)
          PROVE  files'[<<o, evidence[o]>>] = files[<<o, evidence[o]>>] /\ damaged' = damaged
      <4>1. CASE Stored(u.object)
        BY <3>2, <4>1 DEF Receive, ReceiveCut
      <4>2. CASE ~ Stored(u.object)
        <5>1. Path(u) # <<o, evidence[o]>>
          BY <2>1, <4>2 DEF Path
        <5> QED BY <3>1, <3>2, <4>2, <5>1 DEF Receive, ReceiveCut, Dies, TypeOK
      <4> QED BY <4>1, <4>2
    <3>3. ASSUME NEW p \in Object, Damage(p)
          PROVE  files'[<<o, evidence[o]>>] = "whole" <=> o \notin damaged'
      <4>1. CASE p = o
        BY <3>1, <3>3, <4>1 DEF Damage, TypeOK
      <4>2. CASE p # o
        <5>1. <<p, evidence[p]>> # <<o, evidence[o]>>
          BY <4>2
        <5> QED BY <3>1, <3>3, <4>2, <5>1 DEF Damage, TypeOK
      <4> QED BY <4>1, <4>2
    <3>4. CASE ~ \/ \E u \in Upload : Receive(u) \/ ReceiveCut(u)
                 \/ \E p \in Object : Damage(p)
      BY <3>1, <3>4 DEF Next, vars, Record, RecordFails, RecordCut, Dies, Crash, Enroll, Revoke, Look,
         Begin, Skip, Read, Cite, Finish
    <3> QED BY <3>1, <3>2, <3>3, <3>4
  <2>2. CASE ~ Stored(o)
    <3>1. PICK u \in Upload, n \in 1..5 : Insert(u, n) /\ u.object = o /\ UNCHANGED <<files, damaged>>
      BY <1>2, <2>2, StoredStep
    <3>2. evidence'[o] = u.ext
      BY <3>1, InsertFacts
    <3>3. files[Path(u)] = "whole"
      BY <3>1 DEF Insert, FilesOK
    <3>4. o \notin damaged
      BY <2>2 DEF FilesOK
    <3> QED BY <3>1, <3>2, <3>3, <3>4 DEF Path
  <2> QED BY <2>1, <2>2
<1>3. ASSUME NEW o \in damaged' PROVE Stored(o)'
  <2>1. CASE o \in damaged
    BY <2>1, StoredStep DEF FilesOK, TypeOK
  <2>2. CASE o \notin damaged
    <3>1. damaged' # damaged
      BY <1>3, <2>2
    <3>2. PICK p \in Object : Damage(p)
      BY <3>1 DEF Next, vars, Receive, Record, RecordFails, RecordCut, ReceiveCut, Dies, Crash, Enroll,
         Revoke, Look, Begin, Skip, Read, Cite, Finish
    <3>3. p = o
      BY <1>3, <2>2, <3>2 DEF Damage
    <3> QED BY <3>2, <3>3, StoredStep DEF Damage
  <2> QED BY <2>1, <2>2
<1> QED BY <1>1, <1>2, <1>3 DEF FilesOK

\* The chain of o opens with its one capture entry, and what is appended later is none.
LEMMA RecordsStep == VaultInv /\ TypeOK' /\ [Next]_vars => RecordsOK'
<1> SUFFICES ASSUME VaultInv, TypeOK', [Next]_vars, NEW o \in Object
             PROVE  /\ ~ Stored(o)' => Rows(o)' = {} /\ verdict'[o] = None
                    /\ Stored(o)' /\ o \notin torn' =>
                         tree'[o] = "whole" /\ verdict'[o] # None /\ OpensWithCapture(o)'
                    /\ VerdictEarned(o)'
  BY DEF RecordsOK
<1> USE UploadAssumption DEF VaultInv
<1>1. ASSUME NEW u \in Upload, NEW n \in 1..5, Insert(u, n), u.object # o
      PROVE  tree'[o] = tree[o] /\ verdict'[o] = verdict[o]
  BY <1>1 DEF Insert, TypeOK
<1>2. CASE ~ Stored(o)'
  <2>1. ~ Stored(o) /\ Rows(o) = {} /\ verdict[o] = None
    BY <1>2, StoredStep DEF RecordsOK
  <2>2. Rows(o)' = {}
    <3>1. CASE UNCHANGED custody
      BY <3>1, <2>1 DEF Rows
    <3>2. ASSUME NEW p \in Object, NEW action \in CustodyAction, custody' = Appended(p, action), Stored(p)'
          PROVE  Rows(o)' = {}
      BY <3>2, <1>2, <2>1, AppendFacts
    <3> QED BY <3>1, <3>2, CustodyStep
  <2>3. verdict'[o] = verdict[o]
    <3>1. ASSUME NEW u \in Upload, NEW n \in 1..5, Insert(u, n) PROVE u.object # o
      BY <3>1, <1>2, InsertFacts
    <3>2. CASE \E u \in Upload : Record(u) \/ RecordCut(u)
      BY <1>1, <3>1, <3>2 DEF Record, RecordCut
    <3>3. CASE ~ \E u \in Upload : Record(u) \/ RecordCut(u)
      BY <3>3 DEF Next, vars, Receive, RecordFails, ReceiveCut, Crash, Enroll, Revoke, Look,
         Begin, Skip, Read, Cite, Finish, Damage
    <3> QED BY <3>2, <3>3
  <2> QED BY <1>2, <2>1, <2>2, <2>3 DEF VerdictEarned, Verdict
<1>3. CASE Stored(o)
  <2>1. tree'[o] = tree[o] /\ verdict'[o] = verdict[o]
    <3>1. ASSUME NEW u \in Upload, NEW n \in 1..5, Insert(u, n) PROVE u.object # o
      BY <3>1, <1>3, InsertFacts
    <3>2. CASE \E u \in Upload : Record(u) \/ RecordCut(u)
      BY <1>1, <3>1, <3>2 DEF Record, RecordCut
    <3>3. CASE ~ \E u \in Upload : Record(u) \/ RecordCut(u)
      BY <3>3 DEF Next, vars, Receive, RecordFails, ReceiveCut, Crash, Enroll, Revoke, Look,
         Begin, Skip, Read, Cite, Finish, Damage
    <3> QED BY <3>2, <3>3
  <2>2. VerdictEarned(o)'
    <3>1. ASSUME NEW u \in Upload, u.key \in Key, keys[u.key] # "absent" PROVE keys'[u.key] # "absent"
      <4>1. CASE \E k \in Key : Enroll(k) \/ Revoke(k)
        BY <3>1, <4>1 DEF Enroll, Revoke, TypeOK
      <4>2. CASE ~ \E k \in Key : Enroll(k) \/ Revoke(k)
        BY <3>1, <4>2 DEF Next, vars, Receive, Record, RecordFails, ReceiveCut, RecordCut, Dies, Crash, Look,
           Begin, Skip, Read, Cite, Finish, Damage
      <4> QED BY <4>1, <4>2
    <3> QED BY <2>1, <3>1 DEF RecordsOK, VerdictEarned
  <2>3. ASSUME OpensWithCapture(o) PROVE OpensWithCapture(o)'
    <3>1. CASE UNCHANGED custody
      BY <2>3, <3>1 DEF OpensWithCapture, Rows
    <3>2. ASSUME NEW p \in Object, NEW action \in CustodyAction, custody' = Appended(p, action),
                 p = o => action # "capture"
          PROVE  OpensWithCapture(o)'
      <4> DEFINE k == Len(custody) + 1
      <4>1. /\ DOMAIN custody = 1..Len(custody) /\ k \in Nat
            /\ custody'[k] = Entry(p, action)
            /\ \A n \in 1..Len(custody) : custody'[n] = custody[n]
            /\ Rows(p)' = Rows(p) \cup {k}
            /\ p # o => Rows(o)' = Rows(o)
        BY <3>2, AppendFacts
      <4>2. Rows(o) \subseteq 1..Len(custody)
        BY <4>1 DEF Rows
      <4>3. PICK n \in Rows(o) : /\ \A m \in Rows(o) : n <= m
                                 /\ {m \in Rows(o) : custody[m].action = "capture"} = {n}
        BY <2>3 DEF OpensWithCapture
      <4>4. \A m \in Rows(o) : custody'[m] = custody[m]
        BY <4>1, <4>2
      <4>5. CASE p # o
        BY <4>1, <4>3, <4>4, <4>5 DEF OpensWithCapture
      <4>6. CASE p = o
        <5>1. custody'[k].action # "capture" /\ k \notin Rows(o) /\ n <= k
          BY <3>2, <4>1, <4>2, <4>6 DEF Entry
        <5>2. {m \in Rows(o)' : custody'[m].action = "capture"} = {m \in Rows(o) : custody[m].action = "capture"}
          BY <4>1, <4>4, <4>6, <5>1
        <5>3. n \in Rows(o)' /\ \A m \in Rows(o)' : n <= m
          BY <4>1, <4>3, <4>6, <5>1
        <5> QED BY <4>3, <5>2, <5>3 DEF OpensWithCapture
      <4> QED BY <4>5, <4>6
    <3> QED BY <1>3, <3>1, <3>2, CustodyStep
  <2>4. torn \subseteq torn'
    BY StoredStep
  <2> QED BY <1>3, <2>1, <2>2, <2>3, <2>4, StoredStep DEF RecordsOK
<1>4. CASE ~ Stored(o) /\ Stored(o)'
  <2>1. PICK u \in Upload, n \in 1..5 : /\ Insert(u, n) /\ u.object = o
                                        /\ n < 5 => o \in torn'
                                        /\ UNCHANGED keys
    BY <1>4, StoredStep
  <2>2. verdict'[o] = (IF n < 4 THEN None ELSE Checked(u)) /\ (n = 5 => tree'[o] = "whole")
    BY <2>1 DEF Insert, TypeOK
  <2>3. VerdictEarned(o)'
    <3>1. CASE verdict'[o] = "verified"
      <4>1. Checked(u) = "verified"
        BY <3>1, <2>2 DEF Verdict
      <4>2. u.key \in Key /\ Owner[u.key] = u.source /\ keys[u.key] = "enrolled"
        BY <4>1 DEF Checked
      <4> QED BY <2>1, <4>2 DEF VerdictEarned
    <3> QED BY <3>1 DEF VerdictEarned
  <2>4. ASSUME n = 5 PROVE OpensWithCapture(o)'
    <3> DEFINE k == Len(custody) + 1
    <3>1. custody' = Appended(o, "capture") /\ Rows(o) = {}
      BY <1>4, <2>1, <2>4 DEF Insert, RecordsOK
    <3>2. Rows(o)' = {k} /\ custody'[k] = Entry(o, "capture") /\ k \in Nat
      BY <3>1, AppendFacts DEF CustodyAction
    <3>3. custody'[k].action = "capture"
      BY <3>2 DEF Entry
    <3> QED BY <3>2, <3>3 DEF OpensWithCapture
  <2>5. n = 5 => verdict'[o] # None
    BY <2>2, CheckedType
  <2> QED BY <1>4, <2>1, <2>2, <2>3, <2>4, <2>5
<1> QED BY <1>2, <1>3, <1>4

\* An export moves only by its own step, or is dropped with the process.
LEMMA ExportCases ==
  ASSUME [Next]_vars,
         ~ \E y \in Export : \/ \E cited \in SUBSET Object : Begin(y, cited)
                             \/ \E o \in Object : Skip(y, o) \/ Read(y, o)
                             \/ Cite(y) \/ Finish(y)
  PROVE  exports' = exports \/ exports' = Abandoned
  BY DEF Next, vars, Receive, Record, RecordFails, RecordCut, ReceiveCut, Dies, Crash, Enroll,
     Revoke, Look, Damage

\* What an export knows about an object it knows from reading its file.
LEMMA ExportsStep == VaultInv /\ TypeOK' /\ [Next]_vars => ExportsOK'
<1> SUFFICES ASSUME VaultInv, TypeOK', [Next]_vars, NEW x \in Export
             PROVE  /\ exports'[x].before \subseteq damaged'
                    /\ exports'[x].phase = "read" =>
                         /\ exports'[x].object \in Object
                         /\ Stored(exports[x].object)'
                         /\ exports'[x].contentOk => exports'[x].object \notin exports'[x].before
  BY DEF ExportsOK
<1> USE DEF VaultInv
<1>1. damaged \subseteq damaged'
  BY StoredStep DEF TypeOK
<1>2. exports \in [Export -> Manifest] /\ exports[x] \in Manifest
  BY DEF TypeOK
<1>3. CASE \E o \in Object : Read(x, o)
  <2>1. PICK o \in Object : Read(x, o)
    BY <1>3
  <2>2. exports' = [exports EXCEPT ![x] = [exports[x] EXCEPT !.phase = "read", !.object = o,
                                                           !.contentOk = Content(o)]]
    BY <2>1 DEF Read
  <2>3. exports'[x].object = o /\ exports'[x].contentOk = Content(o) /\ exports'[x].before = exports[x].before
    BY <1>2, <2>2 DEF Manifest
  <2>4. Content(o) => o \notin damaged
    BY <2>1 DEF Read, Content, FilesOK
  <2>5. Stored(o)'
    BY <2>1, StoredStep DEF Read
  <2>6. Stored(exports[x].object)'
    BY <2>3, <2>5 DEF Stored
  <2> QED BY <1>1, <2>3, <2>4, <2>6 DEF ExportsOK
<1>4. CASE \E cited \in SUBSET Object : Begin(x, cited)
  <2>1. PICK cited \in SUBSET Object : Begin(x, cited)
    BY <1>4
  <2>2. exports'[x] = [NoExport EXCEPT !.phase = "next", !.todo = cited, !.before = damaged]
    BY <1>2, <2>1 DEF Begin
  <2> QED BY <1>1, <2>2 DEF NoExport
<1>5. ASSUME exports'[x].before = exports[x].before, exports'[x].phase # "read"
      PROVE  exports'[x].before \subseteq damaged'
  BY <1>1, <1>5 DEF ExportsOK
<1>6. CASE \/ \E o \in Object : Skip(x, o)
           \/ Cite(x) \/ Finish(x)
  <2>1. ASSUME NEW o \in Object, Skip(x, o)
        PROVE  exports'[x].before = exports[x].before /\ exports'[x].phase # "read"
    BY <1>2, <2>1 DEF Skip, Manifest
  <2>2. ASSUME Cite(x) PROVE exports'[x].before = exports[x].before /\ exports'[x].phase # "read"
    BY <1>2, <2>2 DEF Cite, Manifest
  <2>3. ASSUME Finish(x) PROVE exports'[x].before = exports[x].before /\ exports'[x].phase # "read"
    BY <1>2, <2>3 DEF Finish, Manifest
  <2> QED BY <1>5, <1>6, <2>1, <2>2, <2>3
<1>7. CASE exports' = Abandoned
  <2>1. exports'[x] = IF exports[x].phase \in {"next", "read"}
                      THEN [exports[x] EXCEPT !.phase = "lost"] ELSE exports[x]
    BY <1>7 DEF Abandoned
  <2>2. exports'[x].before = exports[x].before /\ exports'[x].phase # "read"
    BY <1>2, <2>1 DEF Manifest
  <2> QED BY <1>5, <2>2
<1>8. CASE exports'[x] = exports[x]
  <2>1. ASSUME exports[x].phase = "read" PROVE Stored(exports[x].object)'
    <3>1. PICK o \in Object : o = exports[x].object /\ Stored(o)
      BY <2>1 DEF ExportsOK
    <3>2. Stored(o)'
      BY <3>1, StoredStep
    <3> QED BY <1>8, <3>1, <3>2 DEF Stored
  <2> QED BY <1>1, <1>8, <2>1 DEF ExportsOK
<1>9. CASE UNCHANGED exports
  BY <1>8, <1>9
<1>10. ASSUME NEW y \in Export, y # x,
              \/ \E cited \in SUBSET Object : Begin(y, cited)
              \/ \E o \in Object : Skip(y, o) \/ Read(y, o)
              \/ Cite(y) \/ Finish(y)
       PROVE  exports'[x] = exports[x]
  BY <1>2, <1>10 DEF Begin, Skip, Read, Cite, Finish
<1>11. CASE ~ \E y \in Export : \/ \E cited \in SUBSET Object : Begin(y, cited)
                                \/ \E o \in Object : Skip(y, o) \/ Read(y, o)
                                \/ Cite(y) \/ Finish(y)
  <2>1. exports' = exports \/ exports' = Abandoned
    BY <1>11, ExportCases
  <2> QED BY <1>7, <1>9, <2>1
<1> QED BY <1>3, <1>4, <1>6, <1>8, <1>10, <1>11

\* A result is entered with what was read, and its custody entry is there to stay.
LEMMA ManifestStep == VaultInv /\ TypeOK' /\ [Next]_vars => ManifestHonest'
<1> SUFFICES ASSUME VaultInv, TypeOK', [Next]_vars, NEW x \in Export, NEW r \in exports'[x].results
             PROVE  /\ r.contentOk => r.object \notin exports'[x].before
                    /\ \E n \in Rows(r.object)' :
                         custody'[n].action = (IF r.contentOk /\ r.chainOk THEN "export"
                                               ELSE "export, verification failed")
  BY DEF ManifestHonest
<1> USE DEF VaultInv
<1>1. exports \in [Export -> Manifest] /\ exports[x] \in Manifest
  BY DEF TypeOK
<1>2. CASE r \in exports[x].results /\ exports'[x].before = exports[x].before
  <2>1. r.object \in Object
    BY <1>1, <1>2 DEF Manifest, Result
  <2> QED BY <1>2, <2>1, RowsStay DEF ManifestHonest
<1>3. CASE Cite(x) /\ r \notin exports[x].results
  <2> DEFINE k == Len(custody) + 1
  <2>0. PICK o \in Object : o = exports[x].object
    BY <1>3 DEF Cite, ExportsOK
  <2>6. PICK action \in CustodyAction :
          action = IF exports[x].contentOk /\ ChainOk(o) THEN "export" ELSE "export, verification failed"
    BY DEF CustodyAction
  <2>1. exports'[x].before = exports[x].before
        /\ r = [object |-> o, contentOk |-> exports[x].contentOk, chainOk |-> ChainOk(o)]
    BY <1>1, <1>3, <2>0 DEF Cite, Manifest
  <2>2. exports[x].contentOk => o \notin exports[x].before
    BY <1>3, <2>0 DEF Cite, ExportsOK
  <2>3. custody' = Appended(o, action)
    BY <1>3, <2>0, <2>6 DEF Cite
  <2>4. k \in Rows(o)' /\ custody'[k] = Entry(o, action)
    BY <2>3, AppendFacts
  <2>5. custody'[k].action = action
    BY <2>4 DEF Entry
  <2> QED BY <2>1, <2>2, <2>6, <2>4, <2>5
<1>4. CASE \E cited \in SUBSET Object : Begin(x, cited)
  BY <1>1, <1>4 DEF Begin, NoExport
<1>5. CASE \/ \E o \in Object : Skip(x, o) \/ Read(x, o)
           \/ Cite(x) /\ r \in exports[x].results
           \/ Finish(x)
  <2>1. ASSUME NEW o \in Object, Skip(x, o)
        PROVE  r \in exports[x].results /\ exports'[x].before = exports[x].before
    BY <1>1, <2>1 DEF Skip, Manifest
  <2>2. ASSUME NEW o \in Object, Read(x, o)
        PROVE  r \in exports[x].results /\ exports'[x].before = exports[x].before
    BY <1>1, <2>2 DEF Read, Manifest
  <2>3. ASSUME Cite(x), r \in exports[x].results PROVE exports'[x].before = exports[x].before
    BY <1>1, <2>3 DEF Cite, Manifest
  <2>4. ASSUME Finish(x) PROVE r \in exports[x].results /\ exports'[x].before = exports[x].before
    BY <1>1, <2>4 DEF Finish, Manifest
  <2> QED BY <1>2, <1>5, <2>1, <2>2, <2>3, <2>4
<1>6. CASE exports' = Abandoned
  <2>1. exports'[x] = IF exports[x].phase \in {"next", "read"}
                      THEN [exports[x] EXCEPT !.phase = "lost"] ELSE exports[x]
    BY <1>6 DEF Abandoned
  <2>2. r \in exports[x].results /\ exports'[x].before = exports[x].before
    BY <1>1, <2>1 DEF Manifest
  <2> QED BY <1>2, <2>2
<1>7. ASSUME NEW y \in Export, y # x,
             \/ \E cited \in SUBSET Object : Begin(y, cited)
             \/ \E o \in Object : Skip(y, o) \/ Read(y, o)
             \/ Cite(y) \/ Finish(y)
      PROVE  exports'[x] = exports[x]
  BY <1>1, <1>7 DEF Begin, Skip, Read, Cite, Finish
<1>8. CASE ~ \E y \in Export : \/ \E cited \in SUBSET Object : Begin(y, cited)
                               \/ \E o \in Object : Skip(y, o) \/ Read(y, o)
                               \/ Cite(y) \/ Finish(y)
  <2>1. exports' = exports \/ exports' = Abandoned
    BY <1>8, ExportCases
  <2> QED BY <1>2, <1>6, <2>1
<1> QED BY <1>2, <1>3, <1>4, <1>5, <1>7, <1>8

-----------------------------------------------------------------------------
LEMMA VaultStep == VaultInv /\ [Next]_vars => VaultInv'
  BY TypeStep, FilesStep, RecordsStep, ChainsKept, ExportsStep, ManifestStep DEF VaultInv

\* The tables, files, requests and exports keep their columns, phases and fields
\* (0001_vault.sql, lib/export/serve.ts).
THEOREM VaultTypeCorrect == Spec => []TypeOK
  <1>1. VaultInv => TypeOK
    BY DEF VaultInv
  <1> QED BY <1>1, VaultInitial, VaultStep, PTL DEF Spec

\* storeEvidence: whatever uploads race, fail or are cut off by a crash, a row has its bytes
\* until somebody damages the file, and its tree, verdict and capture entry unless it was torn.
THEOREM RowsAreWhole == Spec => []RowIsWhole
  <1>1. VaultInv => RowIsWhole
    <2> SUFFICES ASSUME VaultInv, NEW o \in Object, Stored(o)
                 PROVE  /\ o \notin damaged => files[<<o, evidence[o]>>] = "whole"
                        /\ o \notin torn => tree[o] = "whole" /\ verdict[o] # None /\ OpensWithCapture(o)
                        /\ verdict[o] = "verified" =>
                             \E u \in Upload : u.object = o /\ u.key # None /\ Owner[u.key] = u.source
                                               /\ keys[u.key] # "absent"
      BY DEF RowIsWhole, OpensWithCapture
    <2> QED BY UploadAssumption DEF VaultInv, FilesOK, RecordsOK, VerdictEarned
  <1> QED BY <1>1, VaultInitial, VaultStep, PTL DEF Spec

\* appendCustody, verifyCustodyChain: entries of all objects interleave in one table, and
\* every chain recomputes from its object.
THEOREM ChainsRecompute == Spec => []ChainsVerify
  <1>1. VaultInv => ChainsVerify
    BY DEF VaultInv
  <1> QED BY <1>1, VaultInitial, VaultStep, PTL DEF Spec

\* recordEvidenceExport: no manifest vouches for bytes damaged before it was begun, and
\* every object it lists has the custody entry of that export.
THEOREM ManifestsAreHonest == Spec => []ManifestHonest
  <1>1. VaultInv => ManifestHonest
    BY DEF VaultInv
  <1> QED BY <1>1, VaultInitial, VaultStep, PTL DEF Spec
-----------------------------------------------------------------------------
(* The vault implements the ledger *)

\* What a manifest has entered it does not come to again, and what it read as bad was damaged.
LoopOK ==
  \A x \in Export :
    /\ exports[x].phase = "read" => /\ exports[x].object \in exports[x].todo
                                    /\ ~ exports[x].contentOk => exports[x].object \in damaged
    /\ \A r \in exports[x].results : r.object \notin exports[x].todo

LedgerInv == VaultInv /\ LoopOK

\* The end of a chain moves by the entry appended to it, and that of no other.
LEMMA JournalGrows ==
  ASSUME TypeOK, NEW o \in Object, NEW action \in CustodyAction, custody' = Appended(o, action)
  PROVE  Journals' = [Journals EXCEPT ![o] = Append(@, action)]
<1> DEFINE k == Len(custody) + 1
<1>1. /\ DOMAIN custody = 1..Len(custody) /\ k \in Nat /\ Len(custody) \in Nat
      /\ custody'[k] = Entry(o, action)
      /\ \A n \in 1..Len(custody) : custody'[n] = custody[n]
      /\ Rows(o)' = Rows(o) \cup {k}
      /\ \A p \in Object : p # o => Rows(p)' = Rows(p)
  BY AppendFacts DEF TypeOK
<1>2. Tip(o)' = Append(Tip(o), action)
  <2>1. \A n \in Rows(o)' : n \in Nat /\ n <= k
    BY <1>1 DEF Rows
  <2>2. k \in Rows(o)'
    BY <1>1
  <2>3. Max(Rows(o)') \in Rows(o)' /\ \A n \in Rows(o)' : n <= Max(Rows(o)')
    <3>1. Rows(o)' \subseteq Nat /\ Rows(o)' # {}
      BY <2>1, <2>2
    <3> QED BY <1>1, <2>1, <3>1, MaxFacts
  <2>4. Max(Rows(o)') = k
    <3>1. PICK m \in Nat : m = Max(Rows(o)')
      BY <2>1, <2>3
    <3>2. m <= k /\ k <= m
      BY <2>1, <2>2, <2>3, <3>1
    <3> QED BY <1>1, <3>1, <3>2
  <2>5. Tip(o)' = custody'[k].hash
    BY <2>2, <2>4 DEF Tip, HashAfter
  <2> QED BY <1>1, <2>5 DEF Entry
<1>3. ASSUME NEW p \in Object, p # o PROVE Tip(p)' = Tip(p)
  <2>1. Rows(p)' = Rows(p) /\ Rows(p) \subseteq DOMAIN custody
    BY <1>1, <1>3 DEF Rows
  <2>2. CASE Rows(p) = {}
    BY <2>1, <2>2 DEF Tip, HashAfter
  <2>3. CASE Rows(p) # {}
    <3>1. Max(Rows(p)) \in 1..Len(custody)
      BY <1>1, <2>1, <2>3, HashFacts
    <3> QED BY <1>1, <2>1, <2>3, <3>1 DEF Tip, HashAfter
  <2> QED BY <2>2, <2>3
<1> QED BY <1>2, <1>3 DEF Journals

LEMMA JournalsStand ==
  ASSUME UNCHANGED custody
  PROVE  Journals' = Journals
  BY DEF Journals, Tip, HashAfter, Rows

LEMMA SpoiltIsDamaged ==
  ASSUME FilesOK, damaged \subseteq Object
  PROVE  Spoilt = damaged
<1>1. \A o \in Object : Stored(o) => (files[<<o, evidence[o]>>] = "whole" <=> o \notin damaged)
  BY DEF FilesOK
<1>2. \A o \in damaged : Stored(o) /\ o \in Object
  BY DEF FilesOK
<1> QED BY <1>1, <1>2 DEF Spoilt, Held

\* Under the invariant, before and after a step.
LEMMA SpoiltView ==
  ASSUME VaultInv, VaultInv'
  PROVE  Spoilt = damaged /\ Spoilt' = damaged'
<1>1. Spoilt = damaged
  BY SpoiltIsDamaged DEF VaultInv, TypeOK
<1>2. damaged' \subseteq Object
  BY DEF VaultInv, TypeOK
<1>3. \A o \in Object : Stored(o)' => (files'[<<o, evidence'[o]>>] = "whole" <=> o \notin damaged')
  BY DEF VaultInv, FilesOK
<1>4. \A o \in damaged' : Stored(o)' /\ o \in Object
  BY <1>2 DEF VaultInv, FilesOK
<1>5. Spoilt' = damaged'
  BY <1>3, <1>4 DEF Spoilt, Held
<1> QED BY <1>1, <1>5

LEMMA HeldStands ==
  ASSUME UNCHANGED evidence
  PROVE  Held' = Held
  BY DEF Held, Stored

LEMMA BundlesStand ==
  ASSUME UNCHANGED exports
  PROVE  Bundles' = Bundles
  BY DEF Bundles

\* One export moves, and its bundle with it.
LEMMA OneBundle ==
  ASSUME TypeOK, NEW x \in Export, NEW m, exports' = [exports EXCEPT ![x] = m]
  PROVE  Bundles' = [Bundles EXCEPT ![x] = BundleOf(m)] /\ Bundles[x] = BundleOf(exports[x])
<1>1. \A y \in Export : exports'[y] = IF y = x THEN m ELSE exports[y]
  BY DEF TypeOK
<1>2. \A y \in Export : Bundles'[y] = BundleOf(exports'[y]) /\ Bundles[y] = BundleOf(exports[y])
  BY DEF Bundles
<1>3. Bundles' = [y \in Export |-> BundleOf(exports'[y])]
  BY DEF Bundles
<1> QED BY <1>1, <1>2, <1>3 DEF Bundles

\* The process dies: whatever was open is closed.
LEMMA AllClose ==
  ASSUME TypeOK, exports' = Abandoned
  PROVE  Bundles' = Ledger!Closed
<1>1. \A y \in Export : exports[y] \in Manifest
  BY DEF TypeOK
<1>2. ASSUME NEW y \in Export
      PROVE  BundleOf(exports'[y]) = IF Bundles[y].at = "open" THEN [Bundles[y] EXCEPT !.at = "closed"] ELSE Bundles[y]
  <2>1. exports'[y] = IF exports[y].phase \in {"next", "read"}
                      THEN [exports[y] EXCEPT !.phase = "lost"] ELSE exports[y]
    BY DEF Abandoned
  <2>2. Bundles[y] = BundleOf(exports[y])
    BY DEF Bundles
  <2>3. Bundles[y].at = "open" <=> exports[y].phase \in {"next", "read"}
    BY <2>2 DEF BundleOf, Stands
  <2>4. CASE exports[y].phase \in {"next", "read"}
    <3>1. /\ exports'[y].phase = "lost" /\ exports'[y].before = exports[y].before
          /\ exports'[y].results = exports[y].results
      BY <1>1, <2>1, <2>4 DEF Manifest
    <3>2. BundleOf(exports'[y]) = [Bundles[y] EXCEPT !.at = "closed"]
      BY <2>2, <3>1 DEF BundleOf, Stands
    <3> QED BY <2>3, <2>4, <3>2
  <2>5. CASE exports[y].phase \notin {"next", "read"}
    BY <2>1, <2>2, <2>3, <2>5
  <2> QED BY <2>4, <2>5
<1>3. Bundles' = [y \in Export |-> BundleOf(exports'[y])]
  BY DEF Bundles
<1> QED BY <1>2, <1>3 DEF Ledger!Closed

\* An object enters the manifest: it is vouched for if bytes and chain were in order.
LEMMA BundleGains ==
  ASSUME NEW m \in Manifest, NEW r \in Result, NEW next,
         next.phase \in {"next", "read"}, m.phase \in {"next", "read"},
         next.before = m.before, next.results = m.results \cup {r}
  PROVE  BundleOf(next) = IF Vouches(r) THEN [BundleOf(m) EXCEPT !.vouched = @ \cup {r.object}]
                          ELSE [BundleOf(m) EXCEPT !.refused = @ \cup {r.object}]
<1> DEFINE Good(S) == {s.object : s \in {t \in S : Vouches(t)}}
<1> DEFINE Bad(S) == {s.object : s \in {t \in S : ~ Vouches(t)}}
<1>1. Vouches(r) => Good(m.results \cup {r}) = Good(m.results) \cup {r.object} /\ Bad(m.results \cup {r}) = Bad(m.results)
  OBVIOUS
<1>2. ~ Vouches(r) => Bad(m.results \cup {r}) = Bad(m.results) \cup {r.object} /\ Good(m.results \cup {r}) = Good(m.results)
  OBVIOUS
<1>3. BundleOf(m) = [at |-> "open", before |-> m.before, vouched |-> Good(m.results), refused |-> Bad(m.results)]
  BY DEF BundleOf, Stands
<1>4. BundleOf(next) = [at |-> "open", before |-> m.before, vouched |-> Good(m.results \cup {r}),
                        refused |-> Bad(m.results \cup {r})]
  BY DEF BundleOf, Stands
<1> HIDE DEF Good, Bad
<1>5. CASE Vouches(r)
  BY <1>1, <1>3, <1>4, <1>5
<1>6. CASE ~ Vouches(r)
  BY <1>2, <1>3, <1>4, <1>6
<1> QED BY <1>5, <1>6
\* Only the loop of an export changes what it has entered and has yet to come to.
LEMMA LoopStep == VaultInv /\ LoopOK /\ [Next]_vars => LoopOK'
<1> SUFFICES ASSUME VaultInv, LoopOK, [Next]_vars, NEW x \in Export
             PROVE  /\ exports'[x].phase = "read" =>
                         /\ exports'[x].object \in exports'[x].todo
                         /\ ~ exports'[x].contentOk => exports'[x].object \in damaged'
                    /\ \A r \in exports'[x].results : r.object \notin exports'[x].todo
  BY DEF LoopOK
<1> DEFINE Moves(y) == \/ \E cited \in SUBSET Object : Begin(y, cited)
                       \/ \E o \in Object : Skip(y, o) \/ Read(y, o)
                       \/ Cite(y) \/ Finish(y)
<1>1. exports \in [Export -> Manifest] /\ exports[x] \in Manifest
  BY DEF VaultInv, TypeOK
<1>2. damaged \subseteq damaged'
  BY StoredStep DEF VaultInv, TypeOK
<1>3. CASE exports'[x] = exports[x]
  BY <1>2, <1>3 DEF LoopOK
<1>4. CASE \E cited \in SUBSET Object : Begin(x, cited)
  <2>1. PICK cited \in SUBSET Object : Begin(x, cited)
    BY <1>4
  <2>2. exports'[x] = [NoExport EXCEPT !.phase = "next", !.todo = cited, !.before = damaged]
    BY <1>1, <2>1 DEF Begin
  <2>3. exports'[x].phase = "next" /\ exports'[x].results = {}
    BY <2>2 DEF NoExport
  <2> QED BY <2>3
<1>5. ASSUME NEW o \in Object, Skip(x, o)
      PROVE  /\ exports'[x].phase = "next" /\ exports'[x].results = exports[x].results
             /\ exports'[x].todo \subseteq exports[x].todo
  BY <1>1, <1>5 DEF Skip, Manifest
<1>6. ASSUME NEW o \in Object, Read(x, o)
      PROVE  /\ exports'[x].object = o /\ o \in exports[x].todo /\ exports'[x].contentOk = Content(o)
             /\ exports'[x].results = exports[x].results /\ exports'[x].todo = exports[x].todo
             /\ Stored(o)
  <2>1. exports' = [exports EXCEPT ![x] = [exports[x] EXCEPT !.phase = "read", !.object = o,
                                                           !.contentOk = Content(o)]]
    BY <1>6 DEF Read
  <2> QED BY <1>1, <1>6, <2>1 DEF Read, Manifest
<1>7. CASE \E o \in Object : Read(x, o)
  <2>1. PICK o \in Object : Read(x, o)
    BY <1>7
  <2>2. ~ Content(o) => o \in damaged
    BY <1>6, <2>1 DEF VaultInv, FilesOK, Content
  <2> QED BY <1>2, <1>6, <2>1, <2>2 DEF LoopOK
<1>8. CASE Cite(x)
  <2>1. PICK o, r : /\ o = exports[x].object
                    /\ r = [object |-> o, contentOk |-> exports[x].contentOk, chainOk |-> ChainOk(o)]
    OBVIOUS
  <2>2. /\ exports'[x].phase = "next" /\ exports'[x].todo = exports[x].todo \ {o}
        /\ exports'[x].results = exports[x].results \cup {r}
    BY <1>1, <1>8, <2>1 DEF Cite, Manifest
  <2>3. r.object = o
    BY <2>1
  <2> QED BY <2>2, <2>3 DEF LoopOK
<1>9. CASE Finish(x)
  <2>1. /\ exports'[x].phase = "done" /\ exports'[x].results = exports[x].results
        /\ exports'[x].todo = exports[x].todo
    BY <1>1, <1>9 DEF Finish, Manifest
  <2> QED BY <2>1 DEF LoopOK
<1>10. CASE exports' = Abandoned
  <2>1. exports'[x] = IF exports[x].phase \in {"next", "read"}
                      THEN [exports[x] EXCEPT !.phase = "lost"] ELSE exports[x]
    BY <1>10 DEF Abandoned
  <2>2. /\ exports'[x].phase # "read" /\ exports'[x].results = exports[x].results
        /\ exports'[x].todo = exports[x].todo
    BY <1>1, <2>1 DEF Manifest
  <2> QED BY <2>2 DEF LoopOK
<1>11. ASSUME NEW y \in Export, y # x, Moves(y) PROVE exports'[x] = exports[x]
  BY <1>1, <1>11 DEF Begin, Skip, Read, Cite, Finish
<1>12. CASE ~ \E y \in Export : Moves(y)
  <2>1. exports' = exports \/ exports' = Abandoned
    BY <1>12, ExportCases
  <2> QED BY <1>3, <1>10, <2>1
<1>13. CASE \E o \in Object : Skip(x, o)
  BY <1>5, <1>13 DEF LoopOK
<1> QED BY <1>3, <1>4, <1>7, <1>8, <1>9, <1>11, <1>12, <1>13

\* Steps that leave rows, chain and files as they are, and no bundle other than it was.
LEMMA Unseen ==
  ASSUME VaultInv, VaultInv', UNCHANGED <<evidence, custody, damaged>>, Bundles' = Bundles
  PROVE  UNCHANGED Ledger!ledger
  BY SpoiltView, HeldStands, JournalsStand DEF Ledger!ledger

\* The requests of an upload are admissions, notes, lapses or nothing.
LEMMA UploadImplements ==
  ASSUME VaultInv, VaultInv', NEW u \in Upload,
         Receive(u) \/ Record(u) \/ RecordFails(u) \/ ReceiveCut(u) \/ RecordCut(u)
  PROVE  [Ledger!LedgerNext]_(Ledger!ledger)
<1>1. u.object \in Object /\ TypeOK
  BY UploadAssumption DEF VaultInv
<1>2. CASE Receive(u)
  <2>1. UNCHANGED <<evidence, exports, damaged>>
    BY <1>2 DEF Receive
  <2>2. CASE Stored(u.object)
    <3>1. custody' = Appended(u.object, "ingest") /\ "ingest" \in CustodyAction
      BY <1>2, <2>2 DEF Receive, CustodyAction
    <3>2. Ledger!Noted(u.object, "ingest")
      BY <1>1, <3>1, JournalGrows DEF Ledger!Noted
    <3>3. u.object \in Held /\ Held' = Held /\ Spoilt' = Spoilt /\ Bundles' = Bundles
      BY <1>1, <2>1, <2>2, SpoiltView, HeldStands, BundlesStand DEF Held
    <3>4. Ledger!Note(u.object)
      BY <3>2, <3>3 DEF Ledger!Note
    <3> QED BY <1>1, <3>4 DEF Ledger!LedgerNext
  <2>3. CASE ~ Stored(u.object)
    <3>1. UNCHANGED custody
      BY <1>2, <2>3 DEF Receive
    <3> QED BY <2>1, <3>1, Unseen, BundlesStand
  <2> QED BY <2>2, <2>3
<1>3. ASSUME NEW n \in 1..5, Insert(u, n), damaged' = damaged
      PROVE  /\ u.object \notin Held /\ Held' = Held \cup {u.object}
             /\ Spoilt' = Spoilt
  <2>1. ~ Stored(u.object) /\ evidence' = [evidence EXCEPT ![u.object] = u.ext] /\ u.ext # None
    BY <1>3, UploadAssumption DEF Insert
  <2>2. \A o \in Object : Stored(o)' <=> Stored(o) \/ o = u.object
    BY <1>1, <2>1 DEF Stored, TypeOK
  <2> QED BY <1>1, <1>3, <2>1, <2>2, SpoiltView DEF Held
<1>4. CASE Record(u)
  <2>1. Insert(u, 5) /\ UNCHANGED <<exports, damaged>>
    BY <1>4 DEF Record
  <2>2. custody' = Appended(u.object, "capture") /\ "capture" \in CustodyAction
    BY <2>1 DEF Insert, CustodyAction
  <2>3. Ledger!Noted(u.object, "capture")
    BY <1>1, <2>2, JournalGrows DEF Ledger!Noted
  <2>4. Ledger!Admit(u.object)
    BY <1>3, <2>1, <2>3, BundlesStand DEF Ledger!Admit
  <2> QED BY <1>1, <2>4 DEF Ledger!LedgerNext
<1>5. CASE RecordFails(u)
  BY <1>5, Unseen, BundlesStand DEF RecordFails
<1>6. CASE ReceiveCut(u)
  <2>1. UNCHANGED <<evidence, custody, damaged>> /\ exports' = Abandoned
    BY <1>6 DEF ReceiveCut, Dies
  <2>2. Ledger!Lapse
    BY <1>1, <2>1, SpoiltView, HeldStands, JournalsStand, AllClose DEF Ledger!Lapse
  <2> QED BY <2>2 DEF Ledger!LedgerNext
<1>7. CASE RecordCut(u)
  <2>1. PICK n \in 1..4 : Insert(u, n)
    BY <1>7 DEF RecordCut
  <2>2. damaged' = damaged /\ exports' = Abandoned /\ UNCHANGED custody
    BY <1>7 DEF RecordCut, Dies, Insert
  <2>3. n \in 1..5
    OBVIOUS
  <2>4. Ledger!AdmitCut(u.object)
    BY <1>1, <1>3, <2>1, <2>2, <2>3, JournalsStand, AllClose DEF Ledger!AdmitCut
  <2> QED BY <1>1, <2>4 DEF Ledger!LedgerNext
<1> QED BY <1>2, <1>4, <1>5, <1>6, <1>7

\* An export opens a bundle, reads unseen, and enters what it read.
LEMMA ExportImplements ==
  ASSUME LedgerInv, VaultInv', NEW x \in Export,
         \/ \E cited \in SUBSET Object : Begin(x, cited)
         \/ \E o \in Object : Skip(x, o) \/ Read(x, o)
         \/ Cite(x) \/ Finish(x)
  PROVE  [Ledger!LedgerNext]_(Ledger!ledger)
<1>1. VaultInv /\ LoopOK /\ TypeOK /\ exports \in [Export -> Manifest] /\ exports[x] \in Manifest
  BY DEF LedgerInv, VaultInv, TypeOK
<1>2. UNCHANGED <<evidence, damaged>>
  BY DEF Begin, Skip, Read, Cite, Finish
<1>3. Held' = Held /\ Spoilt' = Spoilt /\ Spoilt = damaged
  BY <1>1, <1>2, SpoiltView, HeldStands
<1>4. Bundles[x] = BundleOf(exports[x])
  BY DEF Bundles
<1>5. ASSUME NEW cited \in SUBSET Object, Begin(x, cited) PROVE Ledger!Open(x)
  <2>1. PICK m : m = [NoExport EXCEPT !.phase = "next", !.todo = cited, !.before = damaged]
    OBVIOUS
  <2>2. exports' = [exports EXCEPT ![x] = m] /\ exports[x].phase = "idle" /\ UNCHANGED custody
    BY <1>5, <2>1 DEF Begin
  <2>3. m.phase = "next" /\ m.before = damaged /\ m.results = {}
    BY <2>1 DEF NoExport
  <2>4. BundleOf(m) = [Ledger!Fresh EXCEPT !.at = "open", !.before = Spoilt]
    <3>1. /\ {r.object : r \in {s \in m.results : Vouches(s)}} = {}
          /\ {r.object : r \in {s \in m.results : ~Vouches(s)}} = {}
      BY <2>3
    <3>2. BundleOf(m) = [at |-> "open", before |-> Spoilt, vouched |-> {}, refused |-> {}]
      BY <1>3, <2>3, <3>1 DEF BundleOf, Stands
    <3>3. PICK fresh : fresh = [at |-> "idle", before |-> {}, vouched |-> {}, refused |-> {}]
      OBVIOUS
    <3>4. Ledger!Fresh = fresh
      BY <3>3 DEF Ledger!Fresh
    <3>5. [fresh EXCEPT !.at = "open", !.before = Spoilt]
            = [at |-> "open", before |-> Spoilt, vouched |-> {}, refused |-> {}]
      <4>1. PICK opened : opened = [fresh EXCEPT !.at = "open"]
        OBVIOUS
      <4>2. opened = [at |-> "open", before |-> {}, vouched |-> {}, refused |-> {}]
        BY <3>3, <4>1
      <4>3. [opened EXCEPT !.before = Spoilt]
              = [at |-> "open", before |-> Spoilt, vouched |-> {}, refused |-> {}]
        BY <4>2
      <4> QED BY <4>1, <4>3
    <3> QED BY <3>2, <3>4, <3>5
  <2>5. Bundles[x].at = "idle"
    BY <1>4, <2>2 DEF BundleOf, Stands
  <2>6. Bundles' = [Bundles EXCEPT ![x] = BundleOf(m)]
    BY <1>1, <2>2, OneBundle
  <2> QED BY <1>3, <2>2, <2>4, <2>5, <2>6, JournalsStand DEF Ledger!Open
<1>6. ASSUME NEW m, exports' = [exports EXCEPT ![x] = m], BundleOf(m) = BundleOf(exports[x]), UNCHANGED custody
      PROVE  UNCHANGED Ledger!ledger
  <2>1. Bundles' = [Bundles EXCEPT ![x] = Bundles[x]]
    BY <1>1, <1>4, <1>6, OneBundle
  <2>2. Bundles' = Bundles
    BY <2>1 DEF Bundles
  <2> QED BY <1>1, <1>2, <1>6, <2>2, Unseen
<1>7. ASSUME NEW o \in Object, Skip(x, o) PROVE UNCHANGED Ledger!ledger
  <2>1. PICK m : m = [exports[x] EXCEPT !.todo = @ \ {o}]
    OBVIOUS
  <2>2. exports' = [exports EXCEPT ![x] = m] /\ UNCHANGED custody
    BY <1>7, <2>1 DEF Skip
  <2>3. m.phase = exports[x].phase /\ m.before = exports[x].before /\ m.results = exports[x].results
    BY <1>1, <2>1 DEF Manifest
  <2>4. BundleOf(m) = BundleOf(exports[x])
    BY <2>3 DEF BundleOf
  <2> QED BY <1>6, <2>2, <2>4
<1>8. ASSUME NEW o \in Object, Read(x, o) PROVE UNCHANGED Ledger!ledger
  <2>1. PICK m : m = [exports[x] EXCEPT !.phase = "read", !.object = o, !.contentOk = Content(o)]
    OBVIOUS
  <2>2. exports' = [exports EXCEPT ![x] = m] /\ UNCHANGED custody /\ exports[x].phase = "next"
    BY <1>8, <2>1 DEF Read
  <2>3. m.phase = "read" /\ m.before = exports[x].before /\ m.results = exports[x].results
    BY <1>1, <2>1 DEF Manifest
  <2>4. BundleOf(m) = BundleOf(exports[x])
    BY <2>2, <2>3 DEF BundleOf, Stands
  <2> QED BY <1>6, <2>2, <2>4
<1>9. ASSUME Finish(x) PROVE Ledger!Close(x)
  <2>1. PICK m : m = [exports[x] EXCEPT !.phase = "done"]
    OBVIOUS
  <2>2. exports' = [exports EXCEPT ![x] = m] /\ UNCHANGED custody /\ exports[x].phase = "next"
    BY <1>9, <2>1 DEF Finish
  <2>3. m.phase = "done" /\ m.before = exports[x].before /\ m.results = exports[x].results
    BY <1>1, <2>1 DEF Manifest
  <2>4. Bundles[x].at = "open" /\ BundleOf(m) = [Bundles[x] EXCEPT !.at = "closed"]
    <3>1. PICK v, w : /\ v = {r.object : r \in {s \in m.results : Vouches(s)}}
                      /\ w = {r.object : r \in {s \in m.results : ~Vouches(s)}}
      OBVIOUS
    <3>2. BundleOf(m) = [at |-> "closed", before |-> m.before, vouched |-> v, refused |-> w]
      BY <2>3, <3>1 DEF BundleOf, Stands
    <3>3. Bundles[x] = [at |-> "open", before |-> m.before, vouched |-> v, refused |-> w]
      BY <1>4, <2>2, <2>3, <3>1 DEF BundleOf, Stands
    <3> QED BY <3>2, <3>3
  <2>5. Bundles' = [Bundles EXCEPT ![x] = BundleOf(m)]
    BY <1>1, <2>2, OneBundle
  <2>6. Bundles' = [Bundles EXCEPT ![x].at = "closed"]
    BY <2>4, <2>5
  <2> QED BY <1>3, <2>2, <2>4, <2>6, JournalsStand DEF Ledger!Close
<1>10. ASSUME Cite(x) PROVE \E o \in Object : Ledger!Vouch(x, o) \/ Ledger!Refuse(x, o)
  <2>1. PICK o \in Object : o = exports[x].object /\ Stored(o) /\ exports[x].phase = "read"
                            /\ (exports[x].contentOk => o \notin exports[x].before)
    BY <1>1, <1>10 DEF Cite, VaultInv, ExportsOK
  <2>2. ChainOk(o)
    BY <1>1 DEF VaultInv, ChainsVerify
  <2>3. PICK r \in Result : r = [object |-> o, contentOk |-> exports[x].contentOk, chainOk |-> ChainOk(o)]
    <3>1. [object |-> o, contentOk |-> exports[x].contentOk, chainOk |-> ChainOk(o)] \in Result
      BY <1>1, <2>2 DEF Result, Manifest
    <3> QED BY <3>1
  <2>4. r.object = o /\ (Vouches(r) <=> exports[x].contentOk)
    BY <2>2, <2>3 DEF Vouches
  <2>5. PICK m : m = [exports[x] EXCEPT !.phase = "next", !.todo = @ \ {o}, !.results = @ \cup {r}]
    OBVIOUS
  <2>6. exports' = [exports EXCEPT ![x] = m]
    BY <1>10, <2>1, <2>3, <2>5 DEF Cite
  <2>7. m.phase = "next" /\ m.before = exports[x].before /\ m.results = exports[x].results \cup {r}
    BY <1>1, <2>5 DEF Manifest
  <2>8. BundleOf(m) = IF Vouches(r) THEN [BundleOf(exports[x]) EXCEPT !.vouched = @ \cup {o}]
                      ELSE [BundleOf(exports[x]) EXCEPT !.refused = @ \cup {o}]
    BY <1>1, <2>1, <2>4, <2>7, BundleGains
  <2>9. Bundles' = [Bundles EXCEPT ![x] = BundleOf(m)]
    BY <1>1, <2>6, OneBundle
  <2>10. Bundles[x].at = "open" /\ Bundles[x].before = exports[x].before
    BY <1>4, <2>1 DEF BundleOf, Stands
  <2>11. o \notin Ledger!Entered(x)
    <3>1. \A s \in exports[x].results : s.object # o
      BY <1>1, <2>1 DEF LoopOK
    <3> QED BY <1>4, <3>1 DEF Ledger!Entered, BundleOf
  <2>12. o \in Held
    BY <2>1 DEF Held
  <2>13. CASE exports[x].contentOk
    <3>1. custody' = Appended(o, "export") /\ "export" \in CustodyAction
      BY <1>10, <2>1, <2>2, <2>13 DEF Cite, CustodyAction
    <3>2. Ledger!Noted(o, "export")
      BY <1>1, <3>1, JournalGrows DEF Ledger!Noted
    <3>3. Bundles' = [Bundles EXCEPT ![x].vouched = @ \cup {o}]
      BY <1>4, <2>4, <2>8, <2>9, <2>13
    <3>4. Ledger!Vouch(x, o)
      BY <1>3, <2>1, <2>10, <2>11, <2>12, <2>13, <3>2, <3>3 DEF Ledger!Vouch
    <3> QED BY <3>4
  <2>14. CASE ~ exports[x].contentOk
    <3>1. custody' = Appended(o, "export, verification failed") /\ "export, verification failed" \in CustodyAction
      BY <1>10, <2>1, <2>14 DEF Cite, CustodyAction
    <3>2. Ledger!Noted(o, "export, verification failed")
      BY <1>1, <3>1, JournalGrows DEF Ledger!Noted
    <3>3. Bundles' = [Bundles EXCEPT ![x].refused = @ \cup {o}]
      BY <1>4, <2>4, <2>8, <2>9, <2>14
    <3>4. o \in Spoilt
      BY <1>1, <1>3, <2>1, <2>14 DEF LoopOK
    <3>5. Ledger!Refuse(x, o)
      BY <1>3, <2>10, <2>11, <3>2, <3>3, <3>4 DEF Ledger!Refuse
    <3> QED BY <3>5
  <2> QED BY <2>13, <2>14
<1> QED BY <1>5, <1>7, <1>8, <1>9, <1>10 DEF Ledger!LedgerNext

\* A view is a note, damage spoils, a death is a lapse, and keys are no business of the ledger.
LEMMA OthersImplement ==
  ASSUME VaultInv, VaultInv',
         \/ \E k \in Key : Enroll(k) \/ Revoke(k)
         \/ \E o \in Object : Look(o) \/ Damage(o)
         \/ Crash \/ UNCHANGED vars
  PROVE  [Ledger!LedgerNext]_(Ledger!ledger)
<1>1. TypeOK
  BY DEF VaultInv
<1>2. CASE (\E k \in Key : Enroll(k) \/ Revoke(k)) \/ UNCHANGED vars
  <2>1. UNCHANGED <<evidence, custody, damaged, exports>>
    BY <1>2 DEF Enroll, Revoke, vars
  <2> QED BY <2>1, Unseen, BundlesStand
<1>3. ASSUME NEW o \in Object, Look(o) PROVE Ledger!Note(o)
  <2>1. /\ Stored(o) /\ custody' = Appended(o, "access") /\ "access" \in CustodyAction
        /\ UNCHANGED <<evidence, damaged, exports>>
    BY <1>3 DEF Look, CustodyAction
  <2>2. Ledger!Noted(o, "access")
    BY <1>1, <2>1, JournalGrows DEF Ledger!Noted
  <2>3. o \in Held /\ Held' = Held /\ Spoilt' = Spoilt /\ Bundles' = Bundles
    BY <2>1, SpoiltView, HeldStands, BundlesStand DEF Held
  <2> QED BY <2>2, <2>3 DEF Ledger!Note
<1>4. ASSUME NEW o \in Object, Damage(o) PROVE Ledger!Spoil(o)
  <2>1. /\ Stored(o) /\ o \notin damaged /\ damaged' = damaged \cup {o}
        /\ UNCHANGED <<evidence, custody, exports>>
    BY <1>4 DEF Damage
  <2>2. o \in Held
    BY <2>1 DEF Held
  <2> QED BY <2>1, <2>2, SpoiltView, HeldStands, JournalsStand, BundlesStand DEF Ledger!Spoil
<1>5. ASSUME Crash PROVE Ledger!Lapse
  <2>1. UNCHANGED <<evidence, custody, damaged>> /\ exports' = Abandoned
    BY <1>5 DEF Crash, Dies
  <2> QED BY <1>1, <2>1, SpoiltView, HeldStands, JournalsStand, AllClose DEF Ledger!Lapse
<1> QED BY <1>2, <1>3, <1>4, <1>5 DEF Ledger!LedgerNext

\* storeEvidence, appendCustody, recordEvidenceExport: the vault behind one table, with its
\* awaits, races, deaths and damage, is a ledger of independent journals and of bundles that
\* vouch once, and only for what was in order when they were begun.
THEOREM VaultImplementsLedger == Spec => ImplementsLedger
<1>1. Init => Ledger!LedgerInit
  <2> SUFFICES ASSUME Init PROVE Ledger!LedgerInit
    OBVIOUS
  <2>1. \A o \in Object : ~ Stored(o) /\ Rows(o) = {}
    BY DEF Init, Stored, Rows
  <2>2. Held = {} /\ Spoilt = {}
    BY <2>1 DEF Held, Spoilt
  <2>3. Journals = [o \in Object |-> <<o>>]
    BY <2>1 DEF Journals, Tip, HashAfter
  <2>4. BundleOf(NoExport) = Ledger!Fresh
    BY DEF BundleOf, Stands, NoExport, Ledger!Fresh
  <2>5. Bundles = [x \in Export |-> Ledger!Fresh]
    BY <2>4 DEF Bundles, Init
  <2> QED BY <2>2, <2>3, <2>5 DEF Ledger!LedgerInit
<1>2. Init => LedgerInv
  <2>1. Init => LoopOK
    BY DEF Init, LoopOK, NoExport
  <2> QED BY <2>1, VaultInitial DEF LedgerInv
<1>3. LedgerInv /\ [Next]_vars => LedgerInv'
  BY VaultStep, LoopStep DEF LedgerInv
<1>4. LedgerInv /\ LedgerInv' /\ [Next]_vars => [Ledger!LedgerNext]_(Ledger!ledger)
  BY UploadImplements, ExportImplements, OthersImplement DEF LedgerInv, Next
<1> QED
  BY <1>1, <1>2, <1>3, <1>4, PTL DEF Spec, ImplementsLedger, Ledger!LedgerSpec
=============================================================================
