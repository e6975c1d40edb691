----------------------------- MODULE StreamSync -----------------------------
(***************************************************************************)
(* One console and the server's live stream: the event bus                 *)
(* (lib/events/bus.ts, app/api/v1/stream/route.ts), the client that holds  *)
(* the connection (lib/stream/StreamClient.ts), the pre-alert hydration    *)
(* request and the incident list the stream patches and invalidates.       *)
(*                                                                         *)
(* Every open() constructs a new EventSource, which carries no             *)
(* Last-Event-ID, so attach() never replays from the ring and the ring is  *)
(* not part of the state.  The counts frame each connection is seeded with *)
(* touches neither banners nor the list and is left out, as are the event  *)
(* types that only reach raw listeners.  The list is mounted while a       *)
(* component subscribes, which is how the screens use it.                  *)
(***************************************************************************)
EXTENDS Integers, FiniteSets, Sequences, SequencesExt, Lists

CONSTANTS
  Alert,        \* pre-alerts
  Incident,
  Limit,        \* banners a console holds (4)
  OfflineAfter, \* failed attempts after which the state reads offline (6)
  MaxMounts,    \* bound: times a component subscribes
  MaxVersion,   \* bound: writes to one incident row
  MaxWire,      \* bound: frames in flight on the connection
  MaxDrops,     \* bound: transport errors
  Retries       \* times a failed list request is sent again (2)

ASSUME BoundAssumption ==
  {Retries, Limit, OfflineAfter, MaxMounts, MaxVersion, MaxWire, MaxDrops} \subseteq Nat

VARIABLES
  raised,    \* alerts raised so far
  open,      \* pre_alerts not superseded, newest first
  version,   \* writes to each incident row, 0 before it exists
  missed,    \* history: incidents created while a console with a list waited to reconnect
  wire,      \* frames sent to the attached client and not yet handled
  conn,      \* the EventSource: closed, opening, live, or waiting for the timer
  timer,     \* reconnectTimer is set
  refCount,
  attempt,   \* failed attempts since the last onopen
  state,     \* ConnectionState shown to the operator
  mounts, drops,
  hydrations,\* the pre-alert request of each first subscription
  banners,   \* preAlerts, newest first
  dirty,     \* the incident lists are marked and the flush timer set
  list,      \* the list request: none under way, in flight, failed, or due at the next mount
  loaded,    \* a list was fetched
  cached,    \* version of each incident in the cached list, 0 when absent
  heard      \* history: incidents whose incident.created was handled beside a fetched list

server == <<raised, open, version, missed>>
link == <<conn, timer, attempt, state, drops>>
lists == <<dirty, list, loaded, cached, heard>>
vars == <<server, wire, link, refCount, mounts, hydrations, banners, lists>>

Frame == [type : {"raised", "cleared"}, subject : Alert, version : {0}]
           \cup [type : {"created", "updated"}, subject : Incident, version : 1..MaxVersion]
NoRequest == [phase |-> "none", items |-> <<>>]
NoList == [phase |-> "none", versions |-> [i \in Incident |-> 0], retries |-> 0]
ListAsked == [NoList EXCEPT !.phase = "asked"]
ListDue == [NoList EXCEPT !.phase = "due"]
ListInFlight == list.phase \in {"asked", "answered"}

Shown == ToSet(banners)
Without(s, a) == Filter(s, Alert \ {a})
FirstOf(s) == SubSeq(s, 1, IF Len(s) < Limit THEN Len(s) ELSE Limit)

-----------------------------------------------------------------------------
(* The server: a write and the frame published with it *)

Publish(type, subject, v) ==
  IF conn = "live"
  THEN /\ Len(wire) < MaxWire
       /\ wire' = Append(wire, [type |-> type, subject |-> subject, version |-> v])
  ELSE UNCHANGED wire

\* raisePreAlert, for a new event or for a report that joins an open alert
Raise(a) ==
  /\ a \in raised => a \in ToSet(open)
  /\ raised' = raised \cup {a}
  /\ open' = IF a \in raised THEN open ELSE <<a>> \o open
  /\ Publish("raised", a, 0)
  /\ UNCHANGED <<version, missed, link, refCount, mounts, hydrations, banners, lists>>

\* supersedePreAlert
Supersede(a) ==
  /\ a \in ToSet(open)
  /\ open' = Without(open, a)
  /\ Publish("cleared", a, 0)
  /\ UNCHANGED <<raised, version, missed, link, refCount, mounts, hydrations, banners, lists>>

\* the ingest route and the action route publish the row they wrote
Change(i) ==
  /\ version[i] < MaxVersion
  /\ version' = [version EXCEPT ![i] = @ + 1]
  /\ missed' = IF conn = "waiting" /\ version[i] = 0 /\ list.phase = "none" THEN missed \cup {i} ELSE missed
  /\ Publish(IF version[i] = 0 THEN "created" ELSE "updated", i, version[i] + 1)
  /\ UNCHANGED <<raised, open, link, refCount, mounts, hydrations, banners, lists>>

\* runPipeline stores a package and rescores; nothing is published
ChangeSilently(i) ==
  /\ version[i] \in 1..(MaxVersion - 1)
  /\ version' = [version EXCEPT ![i] = @ + 1]
  /\ UNCHANGED <<raised, open, missed, wire, link, refCount, mounts, hydrations, banners, lists>>

-----------------------------------------------------------------------------
(* The connection *)

\* connect(): the first subscriber opens the connection, hydrates and mounts the list
Connect ==
  /\ mounts < MaxMounts
  /\ mounts' = mounts + 1
  /\ refCount' = refCount + 1
  /\ IF refCount = 0
     THEN /\ conn' = "opening"
          /\ state' = IF attempt = 0 THEN "connecting" ELSE "reconnecting"
          /\ hydrations' = [hydrations EXCEPT ![mounts + 1].phase = "asked"]
          \* a list less than ten seconds old is not asked for again
          /\ list' \in {ListAsked} \cup (IF list.phase = "none" THEN {list} ELSE {})
     ELSE UNCHANGED <<conn, state, hydrations, list>>
  /\ UNCHANGED <<server, wire, timer, attempt, drops, banners, dirty, loaded, cached, heard>>

\* what unmounts aborts its request
ListLeft == IF ListInFlight THEN ListDue ELSE list

\* Mutant of Disconnect: the reconnect timer is left running.
DisconnectKeepsTimer ==
  /\ refCount > 0
  /\ refCount' = refCount - 1
  /\ IF refCount = 1
     THEN conn' = "closed" /\ state' = "offline" /\ wire' = <<>> /\ list' = ListLeft
     ELSE UNCHANGED <<conn, state, wire, list>>
  /\ UNCHANGED <<server, timer, attempt, drops, mounts, hydrations, banners, dirty, loaded, cached, heard>>

\* the function connect() returns, run once per subscription; the last one out closes
Disconnect ==
  /\ refCount > 0
  /\ refCount' = refCount - 1
  /\ IF refCount = 1
     THEN conn' = "closed" /\ timer' = FALSE /\ state' = "offline" /\ wire' = <<>> /\ list' = ListLeft
     ELSE UNCHANGED <<conn, timer, state, wire, list>>
  /\ UNCHANGED <<server, attempt, drops, mounts, hydrations, banners, dirty, loaded, cached, heard>>

\* the server attaches the client and onopen fires
Attach ==
  /\ conn = "opening"
  /\ conn' = "live" /\ state' = "live" /\ attempt' = 0
  /\ UNCHANGED <<server, wire, timer, drops, refCount, mounts, hydrations, banners, lists>>

\* Mutant of Drop: offline is given up on.
DropGivesUp ==
  /\ conn \in {"opening", "live"}
  /\ drops < MaxDrops
  /\ drops' = drops + 1
  /\ attempt' = attempt + 1
  /\ conn' = "waiting" /\ timer' = (attempt' <= OfflineAfter) /\ wire' = <<>>
  /\ state' = IF attempt' > OfflineAfter THEN "offline" ELSE "reconnecting"
  /\ UNCHANGED <<server, refCount, mounts, hydrations, banners, lists>>

\* onerror: close, back off, try again; what was on the wire is lost
Drop ==
  /\ conn \in {"opening", "live"}
  /\ drops < MaxDrops
  /\ drops' = drops + 1
  /\ attempt' = attempt + 1
  /\ conn' = "waiting" /\ timer' = TRUE /\ wire' = <<>>
  /\ state' = IF attempt' > OfflineAfter THEN "offline" ELSE "reconnecting"
  /\ UNCHANGED <<server, refCount, mounts, hydrations, banners, lists>>

\* the timer fires open(): no hydration and no refetch come with it
Reopen ==
  /\ timer
  /\ timer' = FALSE /\ conn' = "opening"
  /\ state' = IF attempt = 0 THEN "connecting" ELSE "reconnecting"
  /\ UNCHANGED <<server, wire, attempt, drops, refCount, mounts, hydrations, banners, lists>>

-----------------------------------------------------------------------------
(* hydratePreAlerts *)

\* the server answers with what is open now
Answer(n) ==
  /\ hydrations[n].phase = "asked"
  /\ hydrations' = [hydrations EXCEPT ![n] = [phase |-> "answered", items |-> open]]
  /\ UNCHANGED <<server, wire, link, refCount, mounts, banners, lists>>

\* Mutant of Merged: the answer replaces the list.
MergedByReplacing(items) == FirstOf(items)

Merged(items) == FirstOf(banners \o Filter(items, Alert \ Shown))

Hydrate(n) ==
  /\ hydrations[n].phase = "answered"
  /\ banners' = IF hydrations[n].items = <<>> THEN banners ELSE Merged(hydrations[n].items)
  /\ hydrations' = [hydrations EXCEPT ![n] = [NoRequest EXCEPT !.phase = "done"]]
  /\ UNCHANGED <<server, wire, link, refCount, mounts, lists>>

\* the request fails: the banner is an enhancement and nothing is retried
HydrateFails(n) ==
  /\ hydrations[n].phase \in {"asked", "answered"}
  /\ hydrations' = [hydrations EXCEPT ![n] = [NoRequest EXCEPT !.phase = "failed"]]
  /\ UNCHANGED <<server, wire, link, refCount, mounts, banners, lists>>

-----------------------------------------------------------------------------
(* dispatch *)

Handle(f) ==
  /\ banners' = CASE f.type = "raised"  -> FirstOf(<<f.subject>> \o Without(banners, f.subject))
                  [] f.type = "cleared" -> Without(banners, f.subject)
                  [] OTHER              -> banners
  /\ dirty' = (dirty \/ f.type = "created")
  /\ heard' = IF f.type = "created" /\ loaded THEN heard \cup {f.subject} ELSE heard
  \* patchIncident writes the incident's own entry, which no screen reads, and lists
  \* kept as pages; the lists are kept as one answer, so an update leaves them alone
  /\ UNCHANGED cached

Deliver ==
  /\ conn = "live" /\ wire # <<>>
  /\ Handle(Head(wire))
  /\ wire' = Tail(wire)
  /\ UNCHANGED <<server, link, refCount, mounts, hydrations, list, loaded>>

\* the 250 ms timer: a mounted list is asked for again, in place of the request in
\* flight; the first request is not replaced, and a list nobody shows is only marked
Flush ==
  /\ dirty
  /\ dirty' = FALSE
  /\ list' = CASE refCount = 0              -> ListDue
               [] ListInFlight /\ ~loaded   -> list
               [] OTHER                     -> ListAsked
  /\ UNCHANGED <<server, wire, link, refCount, mounts, hydrations, banners, loaded, cached, heard>>

\* GET incidents
ServeList ==
  /\ list.phase = "asked"
  /\ list' = [list EXCEPT !.phase = "answered", !.versions = version]
  /\ UNCHANGED <<server, wire, link, refCount, mounts, hydrations, banners, dirty, loaded, cached, heard>>

\* the answer replaces the cached list
ListArrives ==
  /\ list.phase = "answered"
  /\ cached' = list.versions
  /\ list' = NoList
  /\ loaded' = TRUE
  /\ UNCHANGED <<server, wire, link, refCount, mounts, hydrations, banners, dirty, heard>>

\* the request or its answer is lost: it is sent again, twice, and then left at an error
ListLost ==
  /\ ListInFlight
  /\ list' = IF list.retries < Retries
             THEN [ListAsked EXCEPT !.retries = list.retries + 1]
             ELSE [NoList EXCEPT !.phase = "failed"]
  /\ UNCHANGED <<server, wire, link, refCount, mounts, hydrations, banners, dirty, loaded, cached, heard>>

-----------------------------------------------------------------------------
Init ==
  /\ raised = {} /\ open = <<>>
  /\ version = [i \in Incident |-> 0]
  /\ missed = {}
  /\ wire = <<>>
  /\ conn = "closed" /\ timer = FALSE /\ refCount = 0 /\ attempt = 0 /\ state = "offline"
  /\ mounts = 0 /\ drops = 0
  /\ hydrations = [n \in 1..MaxMounts |-> NoRequest]
  /\ banners = <<>>
  /\ dirty = FALSE /\ list = ListDue /\ loaded = FALSE
  /\ cached = [i \in Incident |-> 0]
  /\ heard = {}

Next ==
  \/ \E a \in Alert : Raise(a) \/ Supersede(a)
  \/ \E i \in Incident : Change(i) \/ ChangeSilently(i)
  \/ Connect \/ Disconnect \/ Attach \/ Drop \/ Reopen
  \/ \E n \in 1..MaxMounts : Answer(n) \/ Hydrate(n) \/ HydrateFails(n)
  \/ Deliver \/ Flush \/ ServeList \/ ListArrives \/ ListLost

Spec == Init /\ [][Next]_vars

\* Timers fire, an opened connection is answered, the browser handles what
\* arrives.  Transport errors end (MaxDrops); subscriptions are up to React, and
\* nothing says that a list request is answered rather than lost.
Fairness ==
  /\ WF_vars(Attach) /\ WF_vars(Reopen) /\ WF_vars(Deliver)
  /\ WF_vars(Flush) /\ WF_vars(ServeList) /\ WF_vars(ListArrives)

FairSpec == Spec /\ Fairness

-----------------------------------------------------------------------------
(* Properties *)

ListRequest == [phase : {"none", "asked", "answered", "failed", "due"},
                versions : [Incident -> 0..MaxVersion], retries : 0..Retries]

\* The server's rows, the link and what the console holds are of their types.
TypeOK ==
  /\ raised \subseteq Alert /\ open \in Seq(Alert)
  /\ version \in [Incident -> 0..MaxVersion] /\ cached \in [Incident -> 0..MaxVersion]
  /\ missed \subseteq Incident /\ heard \subseteq Incident
  /\ wire \in Seq(Frame)
  /\ conn \in {"closed", "opening", "live", "waiting"} /\ timer \in BOOLEAN
  /\ state \in {"offline", "connecting", "reconnecting", "live"}
  /\ refCount \in Nat /\ attempt \in Nat /\ mounts \in Nat /\ drops \in Nat
  /\ hydrations \in [1..MaxMounts -> [phase : {"none", "asked", "answered", "done", "failed"},
                                      items : Seq(Alert)]]
  /\ banners \in Seq(Alert) /\ dirty \in BOOLEAN /\ loaded \in BOOLEAN
  /\ list \in ListRequest

\* connect and its cleanup under React's double effect, with errors in between: an
\* unsubscribed console holds no connection and no timer that would open one, and a
\* subscribed one is either connected or sure to try, never both.
OneConnection ==
  /\ refCount = 0 => conn = "closed" /\ ~timer
  /\ refCount > 0 => conn # "closed" /\ (timer <=> conn = "waiting")

\* A banner leaves the screen only when its clearing is handled or newer alerts
\* fill the screen: not at a reconnect, and not by a hydration that answers late.
BannerStays ==
  [][\A a \in Shown : a \notin ToSet(banners') =>
       \/ wire # <<>> /\ Head(wire) = [type |-> "cleared", subject |-> a, version |-> 0]
       \/ Len(banners') = Limit /\ banners'[1] # banners[1]]_vars

\* A subscribed console comes back, also after its state has read offline; and an
\* incident whose creation reached a console that shows a list ends up in that list, or
\* the list reads as an error, however the flush falls among list requests in flight,
\* their failures and retries, and components that leave and come back.
ComesBack ==
  /\ refCount > 0 ~> (conn = "live" \/ refCount = 0)
  /\ \A i \in Incident :
       i \in heard /\ refCount > 0 ~> cached[i] # 0 \/ list.phase = "failed" \/ refCount = 0

-----------------------------------------------------------------------------
(* What the documentation says and the code does not do *)

Quiet == conn = "live" /\ wire = <<>> /\ ~dirty /\ list.phase = "none"

\* bus.ts:13: replay, "so a short network drop does not lose an acknowledgement and
\* leave the console showing stale state".  Nothing is replayed or fetched again.
DropLosesNothing ==
  \A i \in missed : Quiet => cached[i] # 0
=============================================================================
