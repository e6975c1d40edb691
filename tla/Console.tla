------------------------------- MODULE Console -------------------------------
(* One operator's browser: the control room screen with its feed, drawer and  *)
(* keys, the command palette, the toasts and the queue of acknowledgements    *)
(* taken while the stream is down (OpsScreen, IncidentFeed, IncidentDrawer,   *)
(* CommandPalette, AppShell, src/lib/stores), and the forensics workspace of  *)
(* Playback, which lives only while its screen is mounted.                     *)
(*                                                                            *)
(* What is selected is kept twice: in the address (the parameter i of /ops)    *)
(* and in the selection store, which the palette reads.  Requests are awaited: *)
(* their answers come later, whatever screen is then open.                     *)
EXTENDS Playback

CONSTANTS Incidents, None, ToastLimit

VARIABLES at,          \* [screen, id]: the route, and the incident it shows
          selected,    \* the selection store's incidentId
          feed,        \* the incidents the list query returned under the filters
          connection,  \* the stream's connection state
          queued,      \* queued actions, in order
          drains,      \* running replays: the actions each has still to run
          attempts,    \* per queued action how often it has been sent
          requests,    \* requests sent and not yet answered
          toasts       \* what the toast host shows, oldest first
opsVars == <<at, selected, feed, connection, queued, drains, attempts, requests, toasts>>
vars == <<stageVars, session, opsVars>>

(********************************* the toasts *********************************)
\* Three at most; errors are sticky, the others leave by themselves.
Toast(list, tone, of) ==
    LET all == Append(list, [tone |-> tone, of |-> of, sticky |-> tone = "error"])
    IN  SubSeq(all, Most(1, Len(all) - ToastLimit + 1), Len(all))
Without(list, i) == SubSeq(list, 1, i - 1) \o SubSeq(list, i + 1, Len(list))
Expire ==
    /\ \E i \in 1 .. Len(toasts) : ~toasts[i].sticky /\ toasts' = Without(toasts, i)
    /\ UNCHANGED <<stageVars, session, at, selected, feed, connection, queued, drains, attempts, requests>>
DismissToast(i) ==
    /\ toasts' = Without(toasts, i)
    /\ UNCHANGED <<stageVars, session, at, selected, feed, connection, queued, drains, attempts, requests>>

(******************************* selecting and acting *************************)
\* A row, a map marker, a pre-alert, j and k, or the drawer closing.
SelectIncident(id) ==
    /\ May("select") /\ Spend("select") /\ at.screen = "ops" /\ at.id # id
    /\ at' = [at EXCEPT !.id = id] /\ selected' = id
    /\ UNCHANGED <<stageVars, feed, connection, queued, drains, attempts, requests, toasts>>

Minted == Len(attempts) + 1
\* act: offline only an acknowledgement is taken, and it waits in the queue.
Act(id, action) ==
    IF connection # "offline"
    THEN requests' = requests \cup {[id |-> id, action |-> action]} /\ UNCHANGED <<queued, attempts, toasts>>
    ELSE IF action = "ack"
    THEN /\ queued' = Append(queued, [n |-> Minted, id |-> id])
         /\ attempts' = Append(attempts, 0)
         /\ toasts' = Toast(toasts, "info", "queued")
         /\ UNCHANGED requests
    ELSE toasts' = Toast(toasts, "error", action) /\ UNCHANGED <<queued, attempts, requests>>

\* The keys act on the address's incident, listed or not; a row's and the drawer's
\* buttons on the incident they belong to.
Targets(action) ==
    {id \in Incidents : \/ id = at.id /\ (action \in {"ack", "dispatch"} \/ id \in feed)
                        \/ id \in feed /\ action = "ack"}
Press(action) ==
    /\ May("act") /\ Spend("act") /\ at.screen = "ops"
    /\ \E id \in Targets(action) : Act(id, action)
    /\ UNCHANGED <<stageVars, at, selected, feed, connection, drains>>

\* The palette acts on what the store holds, on whatever screen it is opened.
Command(action) ==
    /\ May("act") /\ Spend("act") /\ selected # None
    /\ requests' = requests \cup {[id |-> selected, action |-> action]}
    /\ UNCHANGED <<stageVars, at, selected, feed, connection, queued, drains, attempts, toasts>>

Answered(r, ok) ==
    /\ requests' = requests \ {r}
    /\ toasts' = Toast(toasts, IF ok THEN "ok" ELSE "error", r.action)
    /\ UNCHANGED <<stageVars, session, at, selected, feed, connection, queued, drains, attempts>>

\* The list query is fetched again, under the filters of the address.
Listed(f) ==
    /\ May("list") /\ Spend("list") /\ at.screen = "ops" /\ f # feed
    /\ feed' = f
    /\ UNCHANGED <<stageVars, at, selected, connection, queued, drains, attempts, requests, toasts>>

(********************************* going places *******************************)
\* Leaving the forensics workspace destroys its clock and resets its store.
Left == IF at.screen = "forensics" THEN Unmount ELSE UNCHANGED stageVars
GoTo(screen, id) ==
    /\ May("go") /\ Spend("go") /\ [screen |-> screen, id |-> id] # at
    /\ at' = [screen |-> screen, id |-> id]
    /\ IF screen = "forensics" THEN Mount ELSE Left
    /\ UNCHANGED <<selected, feed, connection, queued, drains, attempts, requests, toasts>>
\* The rail and the palette go to a screen, f and the drawer's buttons to the
\* incident of the address, the palette to the one of the store or to one typed in.
Go == \/ GoTo("ops", None)
      \/ at.screen = "ops" /\ at.id # None /\ GoTo("forensics", at.id)
      \/ \E id \in Incidents : GoTo("package", id)
      \/ selected # None /\ GoTo("forensics", selected)

(******************************* the offline queue ****************************)
Drop ==
    /\ May("drop") /\ Spend("drop") /\ connection = "live"
    /\ connection' = "reconnecting"
    /\ UNCHANGED <<stageVars, at, selected, feed, queued, drains, attempts, requests, toasts>>
GiveUp ==
    /\ connection = "reconnecting"
    /\ connection' = "offline"
    /\ UNCHANGED <<stageVars, session, at, selected, feed, queued, drains, attempts, requests, toasts>>
\* Mutant of Restore: a connection that was given up is not tried again.
RestoreFromReconnecting ==
    /\ connection = "reconnecting"
    /\ connection' = "live"
    /\ UNCHANGED <<stageVars, session, at, selected, feed, queued, drains, attempts, requests, toasts>>
Restore ==
    /\ connection # "live"
    /\ connection' = "live"
    /\ UNCHANGED <<stageVars, session, at, selected, feed, queued, drains, attempts, requests, toasts>>

\* Mutant of StartDrain: the queue is still there while its replay runs.
StartDrainKeeping ==
    /\ connection = "live" /\ queued # <<>>
    /\ drains' = drains \cup {queued} /\ queued' = queued
    /\ UNCHANGED <<stageVars, session, at, selected, feed, connection, attempts, requests, toasts>>
\* OfflineQueue's effect starts a replay of all that is queued, and empties the queue.
StartDrain ==
    /\ connection = "live" /\ queued # <<>>
    /\ drains' = drains \cup {queued} /\ queued' = <<>>
    /\ UNCHANGED <<stageVars, session, at, selected, feed, connection, attempts, requests, toasts>>
\* drainQueue awaits one action after the other; a failure is said and passed over,
\* and the end of it is announced as a replay of them all.
Drain(items, ok) ==
    LET told == IF ok THEN toasts ELSE Toast(toasts, "error", "queued")
        done == Len(items) = 1
    IN  /\ attempts' = [attempts EXCEPT ![Head(items).n] = @ + 1]
        /\ drains' = (drains \ {items}) \cup (IF done THEN {} ELSE {Tail(items)})
        /\ toasts' = IF done THEN Toast(told, "ok", "replayed") ELSE told
        /\ UNCHANGED <<stageVars, session, at, selected, feed, connection, queued, requests>>
DrainOne == \E items \in drains, ok \in BOOLEAN : Drain(items, ok)

Init ==
    /\ StageInit
    /\ at \in (IF session.act > 0 THEN {[screen |-> "ops", id |-> id] : id \in Incidents \cup {None}}
               ELSE {[screen |-> "forensics", id |-> CHOOSE id \in Incidents : TRUE]})
    /\ selected = None /\ feed = Incidents /\ connection = "live"
    /\ queued = <<>> /\ drains = {} /\ attempts = <<>> /\ requests = {} /\ toasts = <<>>

Controls == \/ \E id \in feed \cup {None} : SelectIncident(id)
            \/ \E action \in {"ack", "dispatch", "dismiss"} : Press(action)
            \/ \E action \in {"ack", "dispatch"} : Command(action)
            \/ \E f \in SUBSET Incidents : Listed(f)
            \/ \E i \in 1 .. Len(toasts) : DismissToast(i)
            \/ Go \/ Drop
Follows == \/ Expire \/ GiveUp \/ Restore \/ StartDrain \/ DrainOne
           \/ \E r \in requests, ok \in BOOLEAN : Answered(r, ok)
Next == Controls \/ Follows \/ (at.screen = "forensics" /\ Watch /\ UNCHANGED opsVars)

Spec == Init /\ [][Next]_vars /\ WF_vars(Restore) /\ WF_vars(StartDrain) /\ WF_vars(DrainOne)

(********************************** properties ********************************)
\* What was queued is sent once: it waits in the queue or in one replay until it is,
\* whatever is queued while a replay runs and however often the stream drops (ui.ts:77).
QueuedIsSentOnce ==
    \A n \in 1 .. Len(attempts) :
        LET waiting == Cardinality({i \in 1 .. Len(queued) : queued[i].n = n})
                       + Cardinality({d \in drains : \E i \in 1 .. Len(d) : d[i].n = n})
        IN  attempts[n] + waiting = 1

\* Once the stream is back, what was queued is replayed: no acknowledgement is kept
\* for good, not one taken while another replay was running (AppShell.tsx:60).
QueueReplays == (queued # <<>>) ~> (queued = <<>> /\ drains = {})
=============================================================================
