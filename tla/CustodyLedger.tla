---------------------------- MODULE CustodyLedger ----------------------------
(***************************************************************************)
(* What the evidence vault promises, without files, tables, statements or  *)
(* requests: each object has a journal of its own that is only written at  *)
(* its end, is there for good once admitted, and is vouched for by a       *)
(* bundle, in the step that enters it, only if it was unspoilt when the    *)
(* bundle was opened.  Every operation is one step.                        *)
(***************************************************************************)
EXTENDS Sequences

CONSTANTS Object, Export

VARIABLES
  held,    \* the objects admitted
  spoilt,  \* those of them whose bytes are no longer theirs
  journal, \* of each object: itself and what was done with it, in order
  bundles  \* of each export: whether it is open, what was spoilt when it was
           \* opened, and the objects it vouches for and refuses

ledger == <<held, spoilt, journal, bundles>>

Fresh == [at |-> "idle", before |-> {}, vouched |-> {}, refused |-> {}]

Noted(o, action) == journal' = [journal EXCEPT ![o] = Append(@, action)]

Closed == [x \in Export |-> IF bundles[x].at = "open" THEN [bundles[x] EXCEPT !.at = "closed"]
                            ELSE bundles[x]]

\* an object comes in once, and its journal says so
Admit(o) ==
  /\ o \notin held /\ held' = held \cup {o} /\ Noted(o, "capture")
  /\ UNCHANGED <<spoilt, bundles>>

\* the process died over it: the object is there, its journal is not begun
AdmitCut(o) ==
  /\ o \notin held /\ held' = held \cup {o}
  /\ bundles' = Closed
  /\ UNCHANGED <<spoilt, journal>>

Lapse == bundles' = Closed /\ UNCHANGED <<held, spoilt, journal>>

\* it is handed in again, or looked at
Note(o) ==
  /\ o \in held /\ \E action \in {"ingest", "access"} : Noted(o, action)
  /\ UNCHANGED <<held, spoilt, bundles>>

Spoil(o) ==
  /\ o \in held \ spoilt /\ spoilt' = spoilt \cup {o}
  /\ UNCHANGED <<held, journal, bundles>>

Open(x) ==
  /\ bundles[x].at = "idle"
  /\ bundles' = [bundles EXCEPT ![x] = [Fresh EXCEPT !.at = "open", !.before = spoilt]]
  /\ UNCHANGED <<held, spoilt, journal>>

Entered(x) == bundles[x].vouched \cup bundles[x].refused

Vouch(x, o) ==
  /\ bundles[x].at = "open" /\ o \in held \ (bundles[x].before \cup Entered(x))
  /\ Noted(o, "export")
  /\ bundles' = [bundles EXCEPT ![x].vouched = @ \cup {o}]
  /\ UNCHANGED <<held, spoilt>>

\* nothing is refused that is as it was
Refuse(x, o) ==
  /\ bundles[x].at = "open" /\ o \in spoilt \ Entered(x)
  /\ Noted(o, "export, verification failed")
  /\ bundles' = [bundles EXCEPT ![x].refused = @ \cup {o}]
  /\ UNCHANGED <<held, spoilt>>

Close(x) ==
  /\ bundles[x].at = "open" /\ bundles' = [bundles EXCEPT ![x].at = "closed"]
  /\ UNCHANGED <<held, spoilt, journal>>

LedgerInit ==
  /\ held = {} /\ spoilt = {}
  /\ journal = [o \in Object |-> <<o>>]
  /\ bundles = [x \in Export |-> Fresh]

LedgerNext ==
  \/ \E o \in Object : \/ Admit(o) \/ AdmitCut(o) \/ Note(o) \/ Spoil(o)
                       \/ \E x \in Export : Vouch(x, o) \/ Refuse(x, o)
  \/ \E x \in Export : Open(x) \/ Close(x)
  \/ Lapse

LedgerSpec == LedgerInit /\ [][LedgerNext]_ledger
=============================================================================
