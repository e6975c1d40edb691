-------------------------- MODULE WorkspaceProofs --------------------------
(***************************************************************************)
(* Theorems about what one operator has open in a browser, for any bundles *)
(* and sessions, any number of changes, incidents and packages: tiles at   *)
(* rest and fights of the playback, the queue of acknowledgements, the     *)
(* data on the map, and what a package shows and its copies state.         *)
(***************************************************************************)
EXTENDS Workspace, ListFacts, FiniteSetTheorems

\* What each part of the browser does is a step of its own module or nothing.
LEMMA BrowserSteps ==
  ASSUME [WorkspaceNext]_workspaceVars
  PROVE  [Next]_vars /\ [MapNext]_mapVars /\ [ReviewNext]_reviewVars
  BY DEF WorkspaceNext, workspaceVars
-----------------------------------------------------------------------------
(* The queue of acknowledgements *)

\* The lists a queued action may be in: the queue, and what each replay has still to send.
Waiting == drains \cup {queued}
Holds(list, n) == \E i \in 1..Len(list) : list[i].n = n

Item(n) == [n : 1..n, id : Incidents]

\* Two places in the lists hold two different actions.
Apart(one, two) ==
  \A i \in 1..Len(one), j \in 1..Len(two) : one[i].n = two[j].n => one = two /\ i = j

\* An action waits in one place of one list until it is sent, and in none after that.
QueueInv ==
  /\ attempts \in Seq({0, 1}) /\ <<>> \notin drains /\ queued \notin drains
  /\ \A list \in Waiting : list \in Seq(Item(Len(attempts)))
  /\ \A one, two \in Waiting : Apart(one, two)
  /\ \A n \in 1..Len(attempts) : attempts[n] = 0 <=> \E list \in Waiting : Holds(list, n)

\* An acknowledgement taken while the stream is down is the last of the queue.
LEMMA Queueing ==
  ASSUME QueueInv, NEW id \in Incidents, queued' = Append(queued, [n |-> Minted, id |-> id]),
         attempts' = Append(attempts, 0), UNCHANGED drains
  PROVE  QueueInv'
<1>1. PICK k \in Nat : k = Len(attempts)
  BY DEF QueueInv
<1>2. /\ attempts \in Seq({0, 1}) /\ attempts' \in Seq({0, 1}) /\ Len(attempts') = k + 1
      /\ attempts'[k + 1] = 0 /\ \A n \in 1..k : attempts'[n] = attempts[n]
  BY <1>1 DEF QueueInv
<1>3. PICK item : item = [n |-> k + 1, id |-> id]
  OBVIOUS
<1>4. item.n = k + 1 /\ item \in Item(k + 1) /\ queued' = Append(queued, item)
  <2>1. k + 1 \in 1..(k + 1)
    OBVIOUS
  <2> QED BY <1>1, <1>3, <2>1 DEF Item, Minted
<1>5. ASSUME NEW list \in Waiting
      PROVE  list \in Seq(Item(k + 1)) /\ \A i \in 1..Len(list) : list[i].n \in 1..k
  <2>1. list \in Seq(Item(k))
    BY <1>1 DEF QueueInv
  <2>2. Item(k) \subseteq Item(k + 1) /\ \A x \in Item(k) : x.n \in 1..k
    BY DEF Item
  <2> QED BY <2>1, <2>2
<1>6. /\ queued \in Waiting /\ queued' \in Seq(Item(k + 1)) /\ Len(queued') = Len(queued) + 1
      /\ Len(queued) \in Nat
      /\ \A i \in 1..(Len(queued) + 1) : queued'[i] = IF i = Len(queued) + 1 THEN item ELSE queued[i]
  <2>1. queued \in Waiting
    BY DEF Waiting
  <2>2. PICK X : X = Item(k + 1)
    OBVIOUS
  <2>3. queued \in Seq(X) /\ item \in X /\ queued' = Append(queued, item)
    BY <1>4, <1>5, <2>1, <2>2
  <2>4. /\ queued' \in Seq(X) /\ Len(queued') = Len(queued) + 1 /\ Len(queued) \in Nat
        /\ \A i \in 1..(Len(queued) + 1) : queued'[i] = IF i = Len(queued) + 1 THEN item ELSE queued[i]
    BY <2>3
  <2> QED BY <2>1, <2>2, <2>4
<1>7. queued' \notin drains' /\ <<>> \notin drains'
  <2>1. queued'[Len(queued) + 1].n = k + 1 /\ Len(queued) + 1 \in 1..Len(queued')
    BY <1>4, <1>6
  <2>2. \A d \in drains : \A i \in 1..Len(d) : d[i].n # k + 1
    BY <1>5 DEF Waiting
  <2> QED BY <2>1, <2>2 DEF QueueInv
<1>8. ASSUME NEW one \in drains, NEW j \in 1..Len(queued'), NEW i \in 1..Len(one)
      PROVE  one[i].n # queued'[j].n
  <2>1. one \in Waiting /\ one # queued
    BY DEF Waiting, QueueInv
  <2>2. CASE j = Len(queued) + 1
    BY <1>4, <1>5, <1>6, <2>1, <2>2
  <2>3. CASE j # Len(queued) + 1
    <3>1. j \in 1..Len(queued) /\ queued'[j] = queued[j]
      BY <1>6, <2>3
    <3> QED BY <1>6, <2>1, <3>1 DEF QueueInv, Apart
  <2> QED BY <2>2, <2>3
<1>9. Apart(queued', queued')
  <2> SUFFICES ASSUME NEW i \in 1..Len(queued'), NEW j \in 1..Len(queued'), queued'[i].n = queued'[j].n PROVE i = j
    BY DEF Apart
  <2>1. \A m \in 1..Len(queued) : queued[m].n # k + 1
    BY <1>5, <1>6
  <2>2. \A m \in 1..Len(queued') : m # Len(queued) + 1 => m \in 1..Len(queued) /\ queued'[m] = queued[m]
    BY <1>6
  <2>3. \A m, l \in 1..Len(queued) : queued[m].n = queued[l].n => m = l
    BY <1>6 DEF QueueInv, Apart
  <2> QED BY <1>4, <1>6, <2>1, <2>2, <2>3
<1>10. ASSUME NEW one \in Waiting', NEW two \in Waiting' PROVE Apart(one, two)
  <2>1. CASE one \in drains /\ two \in drains
    BY <2>1 DEF QueueInv, Waiting
  <2>2. CASE one = queued' /\ two \in drains
    BY <1>8, <2>2 DEF Apart
  <2>3. CASE one \in drains /\ two = queued'
    BY <1>8, <2>3 DEF Apart
  <2>4. CASE one = queued' /\ two = queued'
    BY <1>9, <2>4
  <2> QED BY <2>1, <2>2, <2>3, <2>4 DEF Waiting
<1>11. ASSUME NEW n \in 1..(k + 1) PROVE attempts'[n] = 0 <=> \E list \in Waiting' : Holds(list, n)
  <2>1. CASE n = k + 1
    <3>1. Holds(queued', n)
      BY <1>4, <1>6, <2>1 DEF Holds
    <3> QED BY <1>2, <2>1, <3>1 DEF Waiting
  <2>2. CASE n \in 1..k
    <3>1. Holds(queued', n) <=> Holds(queued, n)
      <4>1. ASSUME NEW i \in 1..Len(queued') PROVE queued'[i].n = n => i \in 1..Len(queued) /\ queued'[i] = queued[i]
        BY <1>4, <1>6, <2>2
      <4>2. \A i \in 1..Len(queued) : i \in 1..Len(queued') /\ queued'[i] = queued[i]
        BY <1>6
      <4> QED BY <4>1, <4>2 DEF Holds
    <3>2. attempts[n] = 0 <=> \E list \in Waiting : Holds(list, n)
      BY <1>1, <2>2 DEF QueueInv
    <3> QED BY <1>2, <2>2, <3>1, <3>2 DEF Waiting
  <2>3. n = k + 1 \/ n \in 1..k
    OBVIOUS
  <2> QED BY <2>1, <2>2, <2>3
<1>12. \A list \in Waiting' : list \in Seq(Item(k + 1))
  BY <1>5, <1>6 DEF Waiting
<1> QED BY <1>2, <1>7, <1>10, <1>11, <1>12 DEF QueueInv
\* A replay takes the queue as it is.
LEMMA Replaying ==
  ASSUME QueueInv, queued # <<>>, drains' = drains \cup {queued}, queued' = <<>>, UNCHANGED attempts
  PROVE  QueueInv'
<1>1. Waiting' = Waiting \cup {<<>>} /\ queued \in Waiting
  BY DEF Waiting
<1>2. <<>> \in Seq(Item(Len(attempts))) /\ Len(<<>>) = 0 /\ \A n : ~ Holds(<<>>, n)
  BY DEF Holds
<1>3. \A one \in Waiting : Apart(one, <<>>) /\ Apart(<<>>, one) /\ Apart(<<>>, <<>>)
  BY <1>2 DEF Apart
<1> QED BY <1>1, <1>2, <1>3 DEF QueueInv

LEMMA TailFacts ==
  ASSUME NEW X, NEW s \in Seq(X), s # <<>>
  PROVE  /\ Tail(s) \in Seq(X) /\ Len(s) \in Nat /\ Len(s) >= 1 /\ Len(Tail(s)) = Len(s) - 1
         /\ Head(s) = s[1] /\ \A i \in 1..(Len(s) - 1) : Tail(s)[i] = s[i + 1]
  OBVIOUS

LEMMA SomeLeft == ASSUME NEW X, NEW s \in Seq(X), Len(s) >= 1 PROVE s # <<>>
  OBVIOUS

\* A replay sends the first action it holds.
LEMMA Sending ==
  ASSUME QueueInv, NEW items \in drains, attempts' = [attempts EXCEPT ![Head(items).n] = @ + 1],
         drains' = (drains \ {items}) \cup (IF Len(items) = 1 THEN {} ELSE {Tail(items)}), UNCHANGED queued
  PROVE  QueueInv'
<1>1. PICK k \in Nat : k = Len(attempts)
  BY DEF QueueInv
<1>2. items \in Seq(Item(k)) /\ items # <<>> /\ items \in Waiting /\ items # queued
  BY <1>1 DEF QueueInv, Waiting
<1>3. /\ Tail(items) \in Seq(Item(k)) /\ Len(items) \in Nat /\ Len(items) >= 1 /\ Len(Tail(items)) = Len(items) - 1
      /\ Head(items) = items[1] /\ \A i \in 1..(Len(items) - 1) : Tail(items)[i] = items[i + 1]
  BY <1>2, TailFacts
<1>4. PICK sent \in 1..k : sent = items[1].n
  <2>1. items[1] \in Item(k)
    BY <1>2, <1>3
  <2> QED BY <2>1 DEF Item
<1>5. attempts[sent] = 0
  <2>1. Holds(items, sent)
    BY <1>3, <1>4 DEF Holds
  <2> QED BY <1>1, <1>2, <2>1 DEF QueueInv
<1>6. /\ attempts' \in Seq({0, 1}) /\ Len(attempts') = k
      /\ \A n \in 1..k : attempts'[n] = IF n = sent THEN 1 ELSE attempts[n]
  <2>1. PICK once \in {0, 1} : once = 1
    OBVIOUS
  <2>2. attempts[sent] + 1 = once /\ Head(items).n = sent
    BY <1>3, <1>4, <1>5, <2>1
  <2>3. attempts \in Seq({0, 1}) /\ attempts' = [attempts EXCEPT ![sent] = once]
    BY <2>2 DEF QueueInv
  <2>4. /\ attempts' \in Seq({0, 1}) /\ Len(attempts') = k
        /\ \A n \in 1..k : attempts'[n] = IF n = sent THEN once ELSE attempts[n]
    BY <1>1, <1>4, <2>3
  <2> QED BY <2>1, <2>4
<1>7. ASSUME NEW list \in Waiting' PROVE list \in Waiting \ {items} \/ (list = Tail(items) /\ Len(items) # 1)
  BY <1>2 DEF Waiting
<1>8. \A i \in 1..Len(Tail(items)) : i + 1 \in 1..Len(items) /\ i + 1 # 1 /\ Tail(items)[i] = items[i + 1]
  BY <1>3
<1>9. ASSUME NEW list \in Waiting \ {items}, NEW j \in 1..Len(list), NEW i \in 1..Len(items)
      PROVE  list[j].n # items[i].n
  BY <1>2 DEF QueueInv, Apart
<1>10. ASSUME NEW i \in 1..Len(items), NEW j \in 1..Len(items), items[i].n = items[j].n PROVE i = j
  BY <1>2, <1>10 DEF QueueInv, Apart
<1>11. <<>> \notin drains' /\ queued' \notin drains'
  <2>1. Len(items) # 1 => queued # Tail(items)
    <3> SUFFICES ASSUME Len(items) # 1, queued = Tail(items) PROVE FALSE
      OBVIOUS
    <3>1. 1 \in 1..Len(Tail(items))
      BY <1>3
    <3>2. queued \in Waiting \ {items}
      BY <1>2 DEF Waiting
    <3> QED BY <1>8, <1>9, <3>1, <3>2
  <2>2. Len(items) # 1 => Tail(items) # <<>>
    <3>1. Len(items) # 1 => Len(Tail(items)) >= 1
      BY <1>3
    <3> QED BY <1>3, <3>1, SomeLeft
  <2> QED BY <2>1, <2>2 DEF QueueInv
<1>12. ASSUME NEW one \in Waiting', NEW two \in Waiting' PROVE Apart(one, two)
  <2>1. CASE one \in Waiting \ {items} /\ two \in Waiting \ {items}
    BY <2>1 DEF QueueInv
  <2>2. CASE one \in Waiting \ {items} /\ two = Tail(items)
    BY <1>8, <1>9, <2>2 DEF Apart
  <2>3. CASE one = Tail(items) /\ two \in Waiting \ {items}
    BY <1>8, <1>9, <2>3 DEF Apart
  <2>4. CASE one = Tail(items) /\ two = Tail(items)
    <3>1. ASSUME NEW i \in 1..Len(one), NEW j \in 1..Len(two), one[i].n = two[j].n PROVE i = j
      <4>1. i + 1 = j + 1
        BY <1>8, <1>10, <2>4, <3>1
      <4> QED BY <4>1
    <3> QED BY <2>4, <3>1 DEF Apart
  <2> QED BY <1>7, <2>1, <2>2, <2>3, <2>4
<1>13. ASSUME NEW n \in 1..k PROVE attempts'[n] = 0 <=> \E list \in Waiting' : Holds(list, n)
  <2>1. attempts[n] = 0 <=> \E list \in Waiting : Holds(list, n)
    BY <1>1 DEF QueueInv
  <2>2. Holds(Tail(items), n) => Holds(items, n)
    BY <1>8 DEF Holds
  <2>3. CASE n = sent
    <3>1. ~ Holds(Tail(items), n)
      BY <1>3, <1>4, <1>8, <1>10, <2>3 DEF Holds
    <3>2. ASSUME NEW list \in Waiting \ {items} PROVE ~ Holds(list, n)
      BY <1>3, <1>4, <1>9, <2>3 DEF Holds
    <3>3. \A list \in Waiting' : ~ Holds(list, n)
      BY <1>7, <3>1, <3>2
    <3>4. attempts'[n] = 1
      BY <1>6, <2>3
    <3> QED BY <3>3, <3>4
  <2>4. CASE n # sent
    <3>1. attempts'[n] = attempts[n]
      BY <1>6, <2>4
    <3>2. ASSUME NEW list \in Waiting', Holds(list, n) PROVE \E other \in Waiting : Holds(other, n)
      BY <1>2, <1>7, <2>2, <3>2
    <3>3. ASSUME Holds(items, n) PROVE Len(items) # 1 /\ Holds(Tail(items), n)
      <4>1. PICK i \in 1..Len(items) : items[i].n = n
        BY <3>3 DEF Holds
      <4>2. i # 1
        BY <1>4, <2>4, <4>1
      <4>3. i - 1 \in 1..Len(Tail(items)) /\ Tail(items)[i - 1] = items[(i - 1) + 1] /\ (i - 1) + 1 = i
        BY <1>3, <4>2
      <4> QED BY <4>1, <4>2, <4>3 DEF Holds
    <3>4. ASSUME NEW list \in Waiting, Holds(list, n) PROVE \E other \in Waiting' : Holds(other, n)
      <4>1. CASE list = items
        <5>1. Tail(items) \in Waiting'
          BY <3>3, <3>4, <4>1 DEF Waiting
        <5> QED BY <3>3, <3>4, <4>1, <5>1
      <4>2. CASE list # items
        BY <3>4, <4>2 DEF Waiting
      <4> QED BY <4>1, <4>2
    <3> QED BY <2>1, <3>1, <3>2, <3>4
  <2> QED BY <2>3, <2>4
<1>14. \A list \in Waiting' : list \in Seq(Item(k))
  BY <1>1, <1>3, <1>7 DEF QueueInv
<1> QED BY <1>6, <1>11, <1>12, <1>13, <1>14 DEF QueueInv


LEMMA QueueStep == QueueInv /\ [Next]_vars => QueueInv'
<1> SUFFICES ASSUME QueueInv, [Next]_vars PROVE QueueInv'
  OBVIOUS
<1>1. CASE UNCHANGED <<queued, drains, attempts>>
  BY <1>1 DEF QueueInv, Waiting, Holds
<1>2. ASSUME NEW action \in {"ack", "dispatch", "dismiss"}, Press(action) PROVE QueueInv'
  <2>1. PICK id \in Incidents : Act(id, action) /\ UNCHANGED drains
    BY <1>2 DEF Press, Targets
  <2>2. CASE UNCHANGED <<queued, attempts>>
    BY <1>1, <2>1, <2>2
  <2>3. CASE queued' = Append(queued, [n |-> Minted, id |-> id]) /\ attempts' = Append(attempts, 0)
    BY <2>1, <2>3, Queueing
  <2> QED BY <2>1, <2>2, <2>3 DEF Act
<1>3. CASE StartDrain
  BY <1>3, Replaying DEF StartDrain
<1>4. CASE DrainOne
  <2>1. PICK items \in drains, ok \in BOOLEAN : Drain(items, ok)
    BY <1>4 DEF DrainOne
  <2> QED BY <2>1, Sending DEF Drain
<1>5. CASE \/ \E id \in feed \cup {None} : SelectIncident(id)
           \/ \E action \in {"ack", "dispatch"} : Command(action)
           \/ \E f \in SUBSET Incidents : Listed(f)
           \/ \E i \in 1 .. Len(toasts) : DismissToast(i)
           \/ Go \/ Drop
  BY <1>1, <1>5 DEF SelectIncident, Command, Listed, DismissToast, Go, GoTo, Drop
<1>6. CASE Expire \/ GiveUp \/ Restore \/ \E r \in requests, ok \in BOOLEAN : Answered(r, ok)
  BY <1>1, <1>6 DEF Expire, GiveUp, Restore, Answered
<1>7. CASE UNCHANGED opsVars \/ UNCHANGED vars
  BY <1>1, <1>7 DEF opsVars, vars
<1> QED BY <1>2, <1>3, <1>4, <1>5, <1>6, <1>7 DEF Next, Controls, Follows

\* What is queued while the stream is down is sent once, whatever is queued while a replay
\* runs and however often the stream drops: it waits in one place, and in none once it has
\* been sent (drainQueue and useUiStore in ui.ts, OfflineQueue in AppShell).
THEOREM QueuedIsAlwaysSentOnce == WorkspaceSpec => []QueuedIsSentOnce
<1>1. WorkspaceInit => QueueInv
  <2> SUFFICES ASSUME WorkspaceInit PROVE QueueInv
    OBVIOUS
  <2>1. queued = <<>> /\ drains = {} /\ attempts = <<>>
    BY DEF WorkspaceInit, Init
  <2>2. Waiting = {<<>>} /\ Len(<<>>) = 0
    BY <2>1 DEF Waiting
  <2>3. <<>> \in Seq({0, 1}) /\ <<>> \in Seq(Item(0)) /\ Apart(<<>>, <<>>)
    BY <2>2 DEF Apart
  <2> QED BY <2>1, <2>2, <2>3 DEF QueueInv
<1>2. QueueInv /\ [WorkspaceNext]_workspaceVars => QueueInv'
  BY BrowserSteps, QueueStep
<1>3. QueueInv => QueuedIsSentOnce
  <2> SUFFICES ASSUME QueueInv, NEW n \in 1..Len(attempts)
               PROVE  attempts[n] + (Cardinality({i \in 1 .. Len(queued) : queued[i].n = n})
                        + Cardinality({d \in drains : \E i \in 1 .. Len(d) : d[i].n = n})) = 1
    BY DEF QueuedIsSentOnce
  <2> DEFINE places == {i \in 1 .. Len(queued) : queued[i].n = n}
             replays == {d \in drains : \E i \in 1 .. Len(d) : d[i].n = n}
  <2>1. /\ attempts[n] \in {0, 1} /\ (attempts[n] = 0 <=> \E list \in Waiting : Holds(list, n))
        /\ queued \in Waiting /\ queued \notin drains /\ \A d \in drains : d \in Waiting
    BY DEF QueueInv, Waiting
  <2>2. \A one, two \in Waiting : Apart(one, two)
    BY DEF QueueInv
  <2>3. CASE attempts[n] = 1
    <3>1. places = {} /\ replays = {}
      BY <2>1, <2>3 DEF Holds
    <3>2. Cardinality(places) = 0 /\ Cardinality(replays) = 0
      BY <3>1, FS_EmptySet
    <3> QED BY <2>3, <3>2
  <2>4. CASE Holds(queued, n)
    <3>1. PICK i \in 1..Len(queued) : queued[i].n = n
      BY <2>4 DEF Holds
    <3>2. places = {i}
      BY <2>1, <2>2, <3>1 DEF Apart
    <3>3. replays = {}
      BY <2>1, <2>2, <3>1 DEF Apart
    <3>4. attempts[n] = 0
      BY <2>1, <2>4
    <3>5. Cardinality(places) = 1 /\ Cardinality(replays) = 0
      BY <3>2, <3>3, FS_EmptySet, FS_Singleton
    <3> QED BY <3>4, <3>5
  <2>5. CASE \E d \in drains : Holds(d, n)
    <3>1. PICK d \in drains : Holds(d, n)
      BY <2>5
    <3>2. PICK i \in 1..Len(d) : d[i].n = n
      BY <3>1 DEF Holds
    <3>3. places = {}
      BY <2>1, <2>2, <3>2 DEF Apart
    <3>4. replays = {d}
      BY <2>1, <2>2, <3>2 DEF Apart
    <3>5. attempts[n] = 0
      BY <2>1, <3>1
    <3>6. Cardinality(places) = 0 /\ Cardinality(replays) = 1
      BY <3>3, <3>4, FS_EmptySet, FS_Singleton
    <3> QED BY <3>5, <3>6
  <2> QED BY <2>1, <2>3, <2>4, <2>5 DEF Waiting
<1> QED BY <1>1, <1>2, <1>3, PTL DEF WorkspaceSpec

-----------------------------------------------------------------------------
(* The data on the map *)

\* the layers that take data: a hidden risk surface does not
Wanted == {"incidents", "fov", "patrol"} \cup (IF props.risk THEN {"risk"} ELSE {})

\* What is where the next write puts it: on the map, or with what waits for the style.
Reaches(ph, on, waiting, l, v) ==
  IF ph = "ready" THEN on[l] = v ELSE l \in DOMAIN waiting /\ waiting[l] = v

\* The last data of a layer are held back by a move, or they have reached their place.
LastIsKept(l) ==
  IF l \in DOMAIN deferred THEN deferred[l] = props.data[l]
  ELSE Reaches(phase, onMap, pending, l, props.data[l])

MapShape ==
  /\ DOMAIN props = {"data", "many", "risk", "fov", "selected"} /\ DOMAIN props.data = Layer
  /\ DOMAIN camera = {"moving", "near"} /\ DOMAIN armed = {"timer", "moveend"}
  /\ props.risk \in BOOLEAN /\ props.selected \in BOOLEAN /\ camera.moving \in BOOLEAN
  /\ armed.timer \in BOOLEAN /\ armed.moveend \in BOOLEAN
  /\ phase \in {"none", "loading", "ready"} /\ DOMAIN onMap = Layer
  /\ DOMAIN deferred \subseteq Layer \ {"patrol"} /\ DOMAIN pending \subseteq Layer

\* What is held back by a move has a timer and the end of the move to flush it.
WillFlush ==
  /\ DOMAIN deferred # {} => camera.moving /\ armed.timer
  /\ armed.timer => armed.moveend

MapInv ==
  /\ MapShape /\ WillFlush
  /\ phase # "none" => \A l \in Wanted : LastIsKept(l)

\* A write reaches the layers it is for, and leaves the others.
LEMMA Writes ==
  ASSUME MapShape, NEW data, DOMAIN data \subseteq Layer, SetSourceData(data), phase' = phase
  PROVE  /\ DOMAIN onMap' = Layer /\ DOMAIN pending' \subseteq Layer
         /\ \A l \in Layer : \A v : (IF l \in DOMAIN data THEN data[l] = v ELSE Reaches(phase, onMap, pending, l, v))
                                => Reaches(phase', onMap', pending', l, v)
<1>1. CASE phase = "ready"
  BY <1>1 DEF SetSourceData, MapShape, Reaches
<1>2. CASE phase # "ready"
  BY <1>2 DEF SetSourceData, MapShape, Reaches
<1> QED BY <1>1, <1>2

\* What is queued is held back while the camera moves and written when it rests.
LEMMA Queues ==
  ASSUME MapShape, WillFlush, phase' = phase, NEW l \in Layer \ {"patrol"}, NEW v, QueueSourceData(l, v)
  PROVE  /\ DOMAIN onMap' = Layer /\ DOMAIN pending' \subseteq Layer
         /\ DOMAIN deferred' \subseteq Layer \ {"patrol"}
         /\ DOMAIN armed' = {"timer", "moveend"} /\ armed.timer' \in BOOLEAN /\ armed.moveend' \in BOOLEAN
         /\ DOMAIN deferred' # {} => camera.moving /\ armed'.timer
         /\ armed'.timer => armed'.moveend
         /\ \A k \in Layer : \A w :
              (IF k = l THEN w = v
               ELSE IF k \in DOMAIN deferred THEN deferred[k] = w ELSE Reaches(phase, onMap, pending, k, w))
              => IF k \in DOMAIN deferred' THEN deferred'[k] = w ELSE Reaches(phase', onMap', pending', k, w)
<1>1. CASE camera.moving
  <2>1. /\ deferred' = Held(deferred, l, v) /\ pending' = pending /\ onMap' = onMap
        /\ armed' = IF armed.timer THEN armed ELSE [timer |-> TRUE, moveend |-> TRUE]
    BY <1>1 DEF QueueSourceData
  <2>2. /\ DOMAIN deferred' = DOMAIN deferred \cup {l}
        /\ \A k \in DOMAIN deferred' : deferred'[k] = IF k = l THEN v ELSE deferred[k]
    BY <2>1 DEF Held
  <2>3. DOMAIN armed' = {"timer", "moveend"} /\ armed'.timer = TRUE /\ armed'.moveend = TRUE
    BY <2>1 DEF MapShape, WillFlush
  <2> QED BY <1>1, <2>1, <2>2, <2>3 DEF MapShape
<1>2. CASE ~ camera.moving
  <2>1. SetSourceData(Held(Empty, l, v)) /\ deferred' = deferred /\ armed' = armed
    BY <1>2 DEF QueueSourceData
  <2>2. DOMAIN deferred = {}
    BY <1>2 DEF WillFlush
  <2>3. DOMAIN Held(Empty, l, v) = {l} /\ Held(Empty, l, v)[l] = v
    BY DEF Held, Empty
  <2>4. PICK data : data = Held(Empty, l, v)
    OBVIOUS
  <2>5. /\ DOMAIN onMap' = Layer /\ DOMAIN pending' \subseteq Layer
        /\ \A k \in Layer : \A w : (IF k = l THEN v = w ELSE Reaches(phase, onMap, pending, k, w))
                               => Reaches(phase', onMap', pending', k, w)
    BY <2>1, <2>3, <2>4, Writes
  <2> QED BY <2>1, <2>2, <2>5 DEF MapShape, WillFlush
<1> QED BY <1>1, <1>2 DEF MapShape


LEMMA MapStep == MapInv /\ [MapNext]_mapVars => MapInv'
<1> SUFFICES ASSUME MapInv, [MapNext]_mapVars PROVE MapInv'
  OBVIOUS
<1> USE DEF Layer
<1>1. CASE UNCHANGED mapVars
  BY <1>1 DEF mapVars, MapInv, MapShape, WillFlush, Wanted, LastIsKept
<1>2. ASSUME NEW l \in Layer \ {"patrol"}, phase # "none", UNCHANGED phase,
             DOMAIN props' = DOMAIN props, DOMAIN props.data' = Layer, props.risk' \in BOOLEAN, props.selected' \in BOOLEAN,
             \A k \in Wanted' : k # l => k \in Wanted /\ props.data[k]' = props.data[k],
             QueueSourceData(l, props'.data[l]),
             DOMAIN camera' = DOMAIN camera, camera.moving' \in BOOLEAN, camera.moving => camera.moving'
      PROVE  MapInv'
  <2>1. PICK v : v = props'.data[l]
    OBVIOUS
  <2>2. /\ DOMAIN onMap' = Layer /\ DOMAIN pending' \subseteq Layer
        /\ DOMAIN deferred' \subseteq Layer \ {"patrol"}
        /\ DOMAIN armed' = {"timer", "moveend"} /\ armed.timer' \in BOOLEAN /\ armed.moveend' \in BOOLEAN
        /\ DOMAIN deferred' # {} => camera.moving /\ armed'.timer
        /\ armed'.timer => armed'.moveend
        /\ \A k \in Layer : \A w :
             (IF k = l THEN w = v
              ELSE IF k \in DOMAIN deferred THEN deferred[k] = w ELSE Reaches(phase, onMap, pending, k, w))
             => IF k \in DOMAIN deferred' THEN deferred'[k] = w ELSE Reaches(phase', onMap', pending', k, w)
    BY <1>2, <2>1, Queues DEF MapInv
  <2>3. ASSUME NEW k \in Wanted' PROVE LastIsKept(k)'
    <3>1. k \in Layer
      BY DEF Wanted
    <3>2. k # l => LastIsKept(k) /\ props'.data[k] = props.data[k]
      BY <1>2 DEF MapInv
    <3> QED BY <2>1, <2>2, <3>1, <3>2 DEF LastIsKept
  <2> QED BY <1>2, <2>2, <2>3 DEF MapInv, MapShape, WillFlush
<1>3. CASE SetIncidents
  <2>1. PICK many \in BOOLEAN : props' = [props EXCEPT !.data["incidents"] = @ + 1, !.many = many]
    BY <1>3 DEF SetIncidents
  <2>2. /\ DOMAIN props' = DOMAIN props /\ DOMAIN props'.data = Layer /\ props'.risk = props.risk /\ props'.selected \in BOOLEAN
        /\ \A k \in Layer : k # "incidents" => props'.data[k] = props.data[k]
    BY <2>1 DEF MapInv, MapShape
  <2>3. DOMAIN camera' = DOMAIN camera /\ camera'.moving \in BOOLEAN /\ (camera.moving => camera'.moving)
    BY <1>3 DEF SetIncidents, Flown, MapInv, MapShape
  <2> QED BY <1>2, <1>3, <2>2, <2>3 DEF SetIncidents, Wanted, MapInv, MapShape
<1>4. CASE SetSources
  <2>1. /\ DOMAIN props' = DOMAIN props /\ DOMAIN props'.data = Layer /\ props'.risk = props.risk /\ props'.selected \in BOOLEAN
        /\ \A k \in Layer : k # "fov" => props'.data[k] = props.data[k]
    BY <1>4 DEF SetSources, Give, Changed, MapInv, MapShape
  <2> QED BY <1>2, <1>4, <2>1 DEF SetSources, Give, Wanted, MapInv, MapShape
<1>5. CASE SetPatrols
  <2>1. /\ DOMAIN props' = DOMAIN props /\ DOMAIN props'.data = Layer /\ props'.risk = props.risk /\ props'.selected \in BOOLEAN
        /\ \A k \in Layer : k # "patrol" => props'.data[k] = props.data[k]
    BY <1>5 DEF SetPatrols, Give, Changed, MapInv, MapShape
  <2>2. PICK data : data = Held(Empty, "patrol", props'.data["patrol"])
    OBVIOUS
  <2>3. DOMAIN data = {"patrol"} /\ data["patrol"] = props'.data["patrol"]
    BY <2>2 DEF Held, Empty
  <2>4. UNCHANGED <<phase, camera, deferred, armed>> /\ SetSourceData(data) /\ phase # "none"
    BY <1>5, <2>2 DEF SetPatrols, Give
  <2>5. /\ DOMAIN onMap' = Layer /\ DOMAIN pending' \subseteq Layer
        /\ \A k \in Layer : \A v : (IF k \in DOMAIN data THEN data[k] = v ELSE Reaches(phase, onMap, pending, k, v))
                               => Reaches(phase', onMap', pending', k, v)
    BY <2>3, <2>4, Writes DEF MapInv
  <2>6. ASSUME NEW k \in Wanted' PROVE LastIsKept(k)'
    <3>1. k \in Layer /\ LastIsKept(k) /\ "patrol" \notin DOMAIN deferred
      BY <2>1, <2>4 DEF Wanted, MapInv, MapShape
    <3> QED BY <2>1, <2>3, <2>4, <2>5, <3>1 DEF LastIsKept
  <2> QED BY <2>1, <2>4, <2>5, <2>6 DEF MapInv, MapShape, WillFlush
<1>6. CASE RiskChanges
  <2>1. PICK on \in BOOLEAN : SetRisk(on) /\ props'.risk = on
    BY <1>6 DEF RiskChanges, Give, Changed, MapInv, MapShape
  <2>2. /\ DOMAIN props' = DOMAIN props /\ DOMAIN props'.data = Layer /\ phase # "none"
        /\ props'.selected \in BOOLEAN
        /\ \A k \in Layer : k # "risk" => props'.data[k] = props.data[k]
    BY <1>6 DEF RiskChanges, Give, Changed, MapInv, MapShape
  <2>3. UNCHANGED <<phase, camera>>
    BY <2>1 DEF SetRisk
  <2>4. CASE on
    <3>1. QueueSourceData("risk", props'.data["risk"])
      BY <2>1, <2>4 DEF SetRisk
    <3> QED BY <1>2, <2>1, <2>2, <2>3, <3>1 DEF Wanted, MapInv, MapShape
  <2>5. CASE ~ on
    <3>1. UNCHANGED <<pending, deferred, armed, onMap>>
      BY <2>1, <2>5 DEF SetRisk
    <3>2. \A k \in Wanted' : k \in Wanted /\ props'.data[k] = props.data[k]
      BY <2>1, <2>2, <2>5 DEF Wanted
    <3> QED BY <2>1, <2>2, <2>3, <3>1, <3>2 DEF MapInv, MapShape, WillFlush, LastIsKept
  <2> QED BY <2>4, <2>5
<1>7. CASE SetFovVisible \/ \E id \in BOOLEAN : SelectOnMap(id)
  <2>1. /\ DOMAIN props' = DOMAIN props /\ props'.data = props.data /\ props'.risk = props.risk /\ props'.selected \in BOOLEAN
        /\ UNCHANGED <<phase, pending, deferred, armed, onMap>>
    BY <1>7 DEF SetFovVisible, SelectOnMap, MapInv, MapShape
  <2>2. DOMAIN camera' = DOMAIN camera /\ camera'.moving \in BOOLEAN /\ (camera.moving => camera'.moving)
    BY <1>7 DEF SetFovVisible, SelectOnMap, Flown, MapInv, MapShape
  <2>3. \A k \in Wanted' : k \in Wanted /\ (LastIsKept(k) => LastIsKept(k)')
    BY <2>1 DEF Wanted, LastIsKept
  <2> QED BY <2>1, <2>2, <2>3 DEF MapInv, MapShape, WillFlush
<1>8. CASE MountMap
  <2>1. ASSUME NEW k \in Wanted' PROVE LastIsKept(k)'
    <3>1. k \in DOMAIN pending' /\ pending'[k] = props'.data[k] /\ k \notin DOMAIN deferred'
      BY <1>8 DEF MountMap, Wanted, Empty
    <3> QED BY <1>8, <3>1 DEF LastIsKept, Reaches, MountMap
  <2>2. camera'.moving \in BOOLEAN
    BY <1>8 DEF MountMap, MapInv, MapShape
  <2> QED BY <1>8, <2>1, <2>2 DEF MountMap, Empty, MapInv, MapShape, WillFlush
<1>9. CASE StyleLoad
  <2>1. ASSUME NEW k \in Wanted' PROVE LastIsKept(k)'
    <3>1. k \in Layer /\ LastIsKept(k)
      BY <1>9 DEF Wanted, StyleLoad, MapInv
    <3> QED BY <1>9, <3>1 DEF LastIsKept, Reaches, StyleLoad
  <2> QED BY <1>9, <2>1 DEF StyleLoad, Empty, MapInv, MapShape, WillFlush
<1>10. CASE Destroy
  BY <1>10 DEF Destroy, Empty, MapInv, MapShape, WillFlush
<1>11. CASE MoveStart
  <2>1. \A k \in Wanted' : k \in Wanted /\ (LastIsKept(k) => LastIsKept(k)')
    BY <1>11 DEF Wanted, LastIsKept, MoveStart
  <2> QED BY <1>11, <2>1 DEF MoveStart, MapInv, MapShape, WillFlush
<1>12. ASSUME NEW moveend \in BOOLEAN, FlushDeferred(moveend), UNCHANGED <<props, phase>>, phase # "none",
              DOMAIN camera' = DOMAIN camera, camera.moving' \in BOOLEAN
       PROVE  MapInv'
  <2>1. DOMAIN deferred \subseteq Layer /\ SetSourceData(deferred) /\ DOMAIN deferred' = {}
    BY <1>12 DEF FlushDeferred, Empty, MapInv, MapShape
  <2>2. /\ DOMAIN onMap' = Layer /\ DOMAIN pending' \subseteq Layer
        /\ \A k \in Layer : \A v : (IF k \in DOMAIN deferred THEN deferred[k] = v
                                ELSE Reaches(phase, onMap, pending, k, v))
                               => Reaches(phase', onMap', pending', k, v)
    BY <1>12, <2>1, Writes DEF MapInv
  <2>3. ASSUME NEW k \in Wanted' PROVE LastIsKept(k)'
    <3>1. k \in Layer /\ LastIsKept(k)
      BY <1>12 DEF Wanted, MapInv
    <3> QED BY <1>12, <2>1, <2>2, <3>1 DEF LastIsKept
  <2> QED BY <1>12, <2>1, <2>2, <2>3 DEF FlushDeferred, MapInv, MapShape, WillFlush
<1>13. CASE FlushTimer
  <2>1. CASE phase = "none"
    <3>1. DOMAIN onMap' = Layer /\ DOMAIN pending' \subseteq Layer
      BY <1>13, Writes DEF FlushTimer, FlushDeferred, MapInv, MapShape
    <3> QED BY <1>13, <2>1, <3>1 DEF FlushTimer, FlushDeferred, Empty, MapInv, MapShape, WillFlush
  <2>2. CASE phase # "none"
    BY <1>12, <1>13, <2>2 DEF FlushTimer, MapInv, MapShape
  <2> QED BY <2>1, <2>2
<1>14. ASSUME NEW near \in BOOLEAN, NEW zoomed \in BOOLEAN, MoveEnd(near, zoomed) PROVE MapInv'
  <2>1. camera' = [moving |-> FALSE, near |-> near] /\ phase # "none" /\ UNCHANGED <<props, phase>>
    BY <1>14 DEF MoveEnd
  <2>2. CASE armed.moveend
    <3>1. FlushDeferred(FALSE)
      BY <1>14, <2>2 DEF MoveEnd
    <3>2. DOMAIN camera' = DOMAIN camera /\ camera'.moving \in BOOLEAN
      BY <2>1 DEF MapInv, MapShape
    <3> QED BY <1>12, <2>1, <3>1, <3>2
  <2>3. CASE ~ armed.moveend
    <3>1. UNCHANGED <<pending, deferred, armed, onMap>> /\ DOMAIN deferred = {} /\ ~ armed.timer
      BY <1>14, <2>3 DEF MoveEnd, MapInv, WillFlush
    <3>2. \A k \in Wanted' : k \in Wanted /\ (LastIsKept(k) => LastIsKept(k)')
      BY <2>1, <3>1 DEF Wanted, LastIsKept
    <3> QED BY <2>1, <3>1, <3>2 DEF MapInv, MapShape, WillFlush
  <2> QED BY <2>2, <2>3
<1> QED BY <1>1, <1>3, <1>4, <1>5, <1>6, <1>7, <1>8, <1>9, <1>10, <1>11, <1>13, <1>14 DEF MapNext, Effects

\* The last data the screen has given a layer are on the map: the patrols' at any time, the
\* others' when the camera rests, or a timer is armed that will write them
\* (MapController.queueSourceData, flushDeferred).
THEOREM MapAlwaysShowsTheLast == WorkspaceSpec => []MapShowsTheLast
<1>1. WorkspaceInit => MapInv
  BY DEF WorkspaceInit, MapInit, MapInv, MapShape, WillFlush, Empty, Layer
<1>2. MapInv /\ [WorkspaceNext]_workspaceVars => MapInv'
  BY BrowserSteps, MapStep
<1>3. MapInv => MapShowsTheLast
  <2> SUFFICES ASSUME MapInv, phase = "ready"
               PROVE  /\ onMap["patrol"] = props.data["patrol"]
                      /\ \A l \in Wanted \ {"patrol"} :
                           IF ~camera.moving THEN onMap[l] = props.data[l]
                           ELSE onMap[l] = props.data[l] \/ (armed.timer /\ deferred[l] = props.data[l])
    BY DEF MapShowsTheLast, Wanted
  <2>1. "patrol" \notin DOMAIN deferred /\ "patrol" \in Wanted
    BY DEF MapInv, MapShape, Wanted
  <2>2. \A l \in Wanted : LastIsKept(l)
    BY DEF MapInv
  <2>3. \A l \in Wanted : l \in DOMAIN deferred => camera.moving /\ armed.timer
    BY DEF MapInv, WillFlush
  <2> QED BY <2>1, <2>2, <2>3 DEF LastIsKept, Reaches
<1> QED BY <1>1, <1>2, <1>3, PTL DEF WorkspaceSpec

-----------------------------------------------------------------------------
(* What is read of a package *)

Asking == [kind : {"get", "post"}, of : Dossier, phase : {"sent", "running", "answered", "over"},
           value : Int]

ReadShape ==
  /\ asked \in Seq(Asking) /\ written \in Nat
  /\ stored \in [Dossier -> Nat] /\ heard \in [Dossier -> Nat]
  /\ DOMAIN cache = Dossier /\ \A i \in Dossier : DOMAIN cache[i] = {"data", "stale", "error"}
  /\ DOMAIN view = {"screen", "of", "run"} /\ view.of \in Dossier \cup {NoDossier}
  /\ view.of = NoDossier => view.screen = "ops"
  /\ DOMAIN reading = Dossier

\* A read under way is one that the open screen asked for after the last run it was told of:
\* its answer cannot be older than that run's.
UnderWay(i) ==
  LET read == asked[reading[i].n]
  IN  /\ i = view.of /\ reading[i].n \in 1..Len(asked)
      /\ read.kind = "get" /\ read.of = i
      /\ read.phase = "running" => heard[i] = Notice
      /\ read.phase = "answered" /\ read.value # Failed => read.value >= heard[i]

StoredInv ==
  /\ \A i \in Dossier : heard[i] <= stored[i] /\ stored[i] <= written
  /\ \A n \in 1..Len(asked) : asked[n].phase = "answered" => asked[n].value <= stored[asked[n].of]

ReadInv ==
  /\ ReadShape /\ StoredInv
  /\ \A i \in Dossier : reading[i].n # 0 => UnderWay(i)
  /\ CompleteIsCurrent

\* One request is answered, or an answer is taken.
LEMMA AnswerStep ==
  ASSUME ReadInv, NEW n \in 1..Len(asked), NEW row \in Asking, asked' = [asked EXCEPT ![n] = row],
         row.kind = asked[n].kind, row.of = asked[n].of, UNCHANGED <<cache, reading, heard, view>>,
         written' \in Nat, stored' \in [Dossier -> Nat],
         \A i \in Dossier : stored[i] <= stored'[i] /\ stored'[i] <= written',
         row.phase = "answered" => row.value <= stored'[row.of],
         reading[row.of].n = n /\ row.kind = "get" =>
           /\ row.phase = "running" => heard[row.of] = Notice
           /\ row.phase = "answered" /\ row.value # Failed => row.value >= heard[row.of]
  PROVE  ReadInv'
<1>1. /\ asked' \in Seq(Asking) /\ Len(asked') = Len(asked)
      /\ \A m \in 1..Len(asked) : asked'[m] = IF m = n THEN row ELSE asked[m]
  BY DEF ReadInv, ReadShape
<1>2. ReadShape' /\ CompleteIsCurrent'
  BY <1>1 DEF ReadInv, ReadShape, CompleteIsCurrent
<1>3. StoredInv'
  <2>1. ASSUME NEW i \in Dossier PROVE heard'[i] <= stored'[i]
    BY DEF ReadInv, ReadShape, StoredInv
  <2>2. ASSUME NEW m \in 1..Len(asked), m # n, asked[m].phase = "answered"
        PROVE  asked[m].value <= stored'[asked[m].of]
    <3>1. asked[m] \in Asking
      BY DEF ReadInv, ReadShape
    <3>2. asked[m].value <= stored[asked[m].of] /\ asked[m].value \in Int /\ asked[m].of \in Dossier
      BY <2>2, <3>1 DEF ReadInv, StoredInv, Asking
    <3>3. stored[asked[m].of] <= stored'[asked[m].of]
      BY <3>2
    <3>4. stored[asked[m].of] \in Nat /\ stored'[asked[m].of] \in Nat
      BY <3>2 DEF ReadInv, ReadShape
    <3> QED BY <3>2, <3>3, <3>4
  <2> QED BY <1>1, <2>1, <2>2 DEF StoredInv
<1>4. ASSUME NEW i \in Dossier, reading'[i].n # 0 PROVE UnderWay(i)'
  BY <1>1, <1>4 DEF ReadInv, UnderWay
<1> QED BY <1>2, <1>3, <1>4 DEF ReadInv


\* Answers are taken and requests sent; a read goes on, or is a new one.
LEMMA ReadsGoOn ==
  ASSUME ReadInv, UNCHANGED <<stored, written>>, asked' \in Seq(Asking),
         \A m \in 1..Len(asked') : asked'[m].phase = "answered" => m \in 1..Len(asked) /\ asked'[m] = asked[m],
         heard' \in [Dossier -> Nat], \A i \in Dossier : heard'[i] <= stored[i],
         DOMAIN cache' = Dossier, \A i \in Dossier : DOMAIN cache'[i] = {"data", "stale", "error"},
         CompleteIsCurrent', DOMAIN reading' = Dossier,
         DOMAIN view' = {"screen", "of", "run"}, view'.of \in Dossier \cup {NoDossier},
         view'.of = NoDossier => view'.screen = "ops",
         \A i \in Dossier : reading'[i].n # 0 =>
           /\ i = view'.of /\ reading'[i].n \in 1..Len(asked')
           /\ \/ /\ reading'[i].n = reading[i].n /\ reading[i].n \in 1..Len(asked)
                 /\ heard'[i] = heard[i] /\ asked'[reading[i].n] = asked[reading[i].n]
              \/ asked'[reading'[i].n] = Request("get", i)
  PROVE  ReadInv'
<1>1. ReadShape'
  BY DEF ReadInv, ReadShape
<1>2. StoredInv'
  BY DEF ReadInv, StoredInv
<1>3. ASSUME NEW i \in Dossier, reading'[i].n # 0 PROVE UnderWay(i)'
  <2>1. CASE asked'[reading'[i].n] = Request("get", i)
    BY <1>3, <2>1 DEF UnderWay, Request
  <2>2. CASE /\ reading'[i].n = reading[i].n /\ reading[i].n \in 1..Len(asked)
             /\ heard'[i] = heard[i] /\ asked'[reading[i].n] = asked[reading[i].n]
    <3>1. UnderWay(i)
      BY <1>3, <2>2 DEF ReadInv
    <3> QED BY <1>3, <2>2, <3>1 DEF UnderWay
  <2> QED BY <1>3, <2>1, <2>2
<1> QED BY <1>1, <1>2, <1>3 DEF ReadInv

LEMMA RequestAdded ==
  ASSUME NEW s \in Seq(Asking), NEW kind \in {"get", "post"}, NEW i \in Dossier
  PROVE  /\ Append(s, Request(kind, i)) \in Seq(Asking)
         /\ Len(s) \in Nat /\ Len(Append(s, Request(kind, i))) = Len(s) + 1
         /\ \A m \in 1..(Len(s) + 1) : Append(s, Request(kind, i))[m] = IF m = Len(s) + 1 THEN Request(kind, i) ELSE s[m]
         /\ Request(kind, i).phase = "sent"
<1>1. PICK row : row = Request(kind, i)
  OBVIOUS
<1>2. row \in Asking /\ row.phase = "sent"
  BY <1>1 DEF Request, Asking, Nothing
<1> QED BY <1>1, <1>2

LEMMA RowFacts ==
  ASSUME NEW r \in Asking, NEW ph \in {"sent", "running", "answered", "over"}, NEW v \in Int
  PROVE  [r EXCEPT !.phase = ph] \in Asking /\ [r EXCEPT !.phase = ph, !.value = v] \in Asking
  BY DEF Asking

\* Who is asked about is one of the incidents.
LEMMA AskedOf == ASSUME ReadShape, NEW n \in 1..Len(asked) PROVE
  /\ asked[n] \in Asking /\ asked[n].of \in Dossier /\ DOMAIN asked[n] = {"kind", "of", "phase", "value"}
<1>1. asked[n] \in Asking
  BY DEF ReadShape
<1> QED BY <1>1 DEF Asking

LEMMA TookFacts ==
  ASSUME ReadShape, NEW n \in 1..Len(asked)
  PROVE  /\ Took(n) \in Seq(Asking) /\ Len(Took(n)) = Len(asked)
         /\ Took(n)[n].phase = "over" /\ \A m \in 1..Len(asked) : m # n => Took(n)[m] = asked[m]
<1>0. PICK none \in Int : none = Nothing
  BY DEF Nothing
<1>1. PICK row : row = [asked[n] EXCEPT !.phase = "over", !.value = none]
  OBVIOUS
<1>2. asked[n] \in Asking /\ asked \in Seq(Asking) /\ DOMAIN asked[n] = {"kind", "of", "phase", "value"}
  BY AskedOf DEF ReadShape
<1>3. row \in Asking
  BY <1>1, <1>2, RowFacts
<1>4. row.phase = "over"
  BY <1>1, <1>2
<1>5. Took(n) = [asked EXCEPT ![n] = row]
  BY <1>0, <1>1 DEF Took
<1> QED BY <1>2, <1>3, <1>4, <1>5

\* What is taken, and what is asked after it, adds no answer.
LEMMA TakenThenAsked ==
  ASSUME ReadShape, NEW n \in 1..Len(asked), NEW i \in Dossier, NEW s \in {asked, Took(n)}
  PROVE  /\ s \in Seq(Asking) /\ Len(s) = Len(asked) /\ Len(asked) \in Nat
         /\ Append(s, Request("get", i)) \in Seq(Asking) /\ Len(Append(s, Request("get", i))) = Len(asked) + 1
         /\ Append(s, Request("get", i))[Len(asked) + 1] = Request("get", i)
         /\ \A m \in 1..Len(s) : s[m].phase = "answered" => m \in 1..Len(asked) /\ s[m] = asked[m]
         /\ \A m \in 1..(Len(asked) + 1) : Append(s, Request("get", i))[m].phase = "answered" =>
              m \in 1..Len(asked) /\ Append(s, Request("get", i))[m] = asked[m]
<1>1. /\ s \in Seq(Asking) /\ Len(s) = Len(asked) /\ Len(asked) \in Nat
      /\ \A m \in 1..Len(asked) : s[m].phase = "answered" => s[m] = asked[m]
  BY TookFacts DEF ReadShape
<1>2. PICK row : row = Request("get", i)
  OBVIOUS
<1>3. /\ Append(s, row) \in Seq(Asking) /\ Len(Append(s, row)) = Len(s) + 1 /\ row.phase = "sent"
      /\ \A m \in 1..(Len(s) + 1) : Append(s, row)[m] = IF m = Len(s) + 1 THEN row ELSE s[m]
  BY <1>1, <1>2, RequestAdded
<1>4. ASSUME NEW m \in 1..(Len(asked) + 1), Append(s, row)[m].phase = "answered"
      PROVE  m \in 1..Len(asked) /\ Append(s, row)[m] = asked[m]
  <2>1. m # Len(asked) + 1
    BY <1>1, <1>3, <1>4
  <2>2. m \in 1..Len(asked)
    BY <1>1, <2>1
  <2> QED BY <1>1, <1>3, <1>4, <2>1, <2>2
<1> QED BY <1>1, <1>2, <1>3, <1>4


LEMMA Added ==
  ASSUME ReadShape, NEW i \in Dossier, NEW kind \in {"get", "post"}, asked' = Append(asked, Request(kind, i))
  PROVE  /\ asked' \in Seq(Asking) /\ Len(asked') = Len(asked) + 1 /\ Len(asked) \in Nat
         /\ \A m \in 1..Len(asked) : asked'[m] = asked[m]
         /\ \A m \in 1..Len(asked') : asked'[m].phase = "answered" => m \in 1..Len(asked) /\ asked'[m] = asked[m]
         /\ asked'[Len(asked) + 1] = Request(kind, i)
<1>1. PICK row : row = Request(kind, i)
  OBVIOUS
<1>2. /\ asked' \in Seq(Asking) /\ Len(asked') = Len(asked) + 1 /\ Len(asked) \in Nat /\ row.phase = "sent"
      /\ \A m \in 1..(Len(asked) + 1) : asked'[m] = IF m = Len(asked) + 1 THEN row ELSE asked[m]
  BY <1>1, RequestAdded DEF ReadShape
<1>3. ASSUME NEW m \in 1..(Len(asked) + 1), asked'[m].phase = "answered" PROVE m \in 1..Len(asked)
  <2>1. m # Len(asked) + 1
    BY <1>2, <1>3
  <2> QED BY <1>2, <2>1
<1>4. Len(asked) + 1 \in 1..(Len(asked) + 1) /\ \A m \in 1..Len(asked) : m \in 1..(Len(asked) + 1) /\ m # Len(asked) + 1
  BY <1>2
<1> QED BY <1>1, <1>2, <1>3, <1>4

LEMMA ReadStep == ReadInv /\ [ReviewNext]_reviewVars => ReadInv'
<1> SUFFICES ASSUME ReadInv, [ReviewNext]_reviewVars PROVE ReadInv'
  OBVIOUS
<1> DEFINE same == UNCHANGED <<stored, written, asked, cache, reading, heard>>
<1>0. ReadShape /\ StoredInv /\ NoDossier \notin Dossier
  BY ReviewAssumption DEF ReadInv
<1>1. CASE same /\ view' = view
  BY <1>1 DEF ReadInv, ReadShape, StoredInv, UnderWay, CompleteIsCurrent
<1>2. ASSUME NEW n \in 1..Len(asked), Handle(n) PROVE ReadInv'
  <2>0. PICK value \in Int : value = stored[asked[n].of]
    BY <1>0, AskedOf DEF ReadShape
  <2>1. PICK row : row = IF asked[n].kind = "get" /\ value # Notice
                         THEN [asked[n] EXCEPT !.phase = "answered", !.value = value]
                         ELSE [asked[n] EXCEPT !.phase = "running"]
    OBVIOUS
  <2>2. /\ asked' = [asked EXCEPT ![n] = row]
        /\ UNCHANGED <<cache, reading, heard, view, stored, written>>
    BY <1>2, <2>0, <2>1 DEF Handle, reader
  <2>3. /\ asked[n] \in Asking /\ stored[asked[n].of] \in Nat /\ asked[n].of \in Dossier
        /\ DOMAIN asked[n] = {"kind", "of", "phase", "value"}
    BY <1>0, AskedOf DEF ReadShape
  <2>4. /\ row \in Asking /\ row.kind = asked[n].kind /\ row.of = asked[n].of
        /\ row.phase = "answered" => row.value = stored[row.of]
        /\ row.phase = "running" /\ row.kind = "get" => stored[row.of] = Notice
    <3>1. CASE asked[n].kind = "get" /\ value # Notice
      <4>1. row = [asked[n] EXCEPT !.phase = "answered", !.value = value]
        BY <2>1, <3>1
      <4>2. /\ row.kind = asked[n].kind /\ row.of = asked[n].of
            /\ row.phase = "answered" /\ row.value = value
        BY <2>3, <4>1
      <4>3. row \in Asking
        BY <2>3, <4>1, RowFacts
      <4> QED BY <2>0, <4>2, <4>3
    <3>2. CASE ~ (asked[n].kind = "get" /\ value # Notice)
      <4>1. row = [asked[n] EXCEPT !.phase = "running"]
        BY <2>1, <3>2
      <4>2. row.kind = asked[n].kind /\ row.of = asked[n].of /\ row.phase = "running"
        BY <2>3, <4>1
      <4>3. row \in Asking
        BY <2>3, <4>1, RowFacts
      <4> QED BY <2>0, <3>2, <4>2, <4>3
    <3> QED BY <3>1, <3>2
  <2>6. \A i \in Dossier : heard[i] <= stored[i] /\ stored[i] <= written /\ stored[i] \in Nat /\ heard[i] \in Nat
    BY <1>0 DEF StoredInv, ReadShape
  <2>7. /\ row.phase = "running" /\ row.kind = "get" => heard[row.of] = Notice
        /\ row.phase = "answered" => row.value >= heard[row.of] /\ row.value <= stored[row.of]
    BY <2>3, <2>4, <2>6 DEF Notice
  <2>8. written' \in Nat /\ stored' \in [Dossier -> Nat]
        /\ \A i \in Dossier : stored[i] <= stored'[i] /\ stored'[i] <= written'
    BY <1>0, <2>2, <2>6 DEF ReadShape
  <2>9. row.phase = "answered" => row.value <= stored'[row.of]
    BY <2>2, <2>7
  <2> QED BY <2>2, <2>4, <2>7, <2>8, <2>9, AnswerStep
<1>3. ASSUME NEW n \in 1..Len(asked), Stores(n) PROVE ReadInv'
  <2>0. PICK value \in Int : value = written + 1
    BY <1>0 DEF ReadShape
  <2>1. PICK row : row = [asked[n] EXCEPT !.phase = "answered", !.value = value]
    OBVIOUS
  <2>2. /\ asked' = [asked EXCEPT ![n] = row] /\ UNCHANGED <<cache, reading, heard, view>>
        /\ written' = written + 1 /\ stored' = [stored EXCEPT ![asked[n].of] = written + 1]
    BY <1>3, <2>0, <2>1 DEF Stores, reader
  <2>3. /\ asked[n] \in Asking /\ asked[n].of \in Dossier /\ written \in Nat
        /\ DOMAIN asked[n] = {"kind", "of", "phase", "value"}
    BY <1>0, AskedOf DEF ReadShape
  <2>4. /\ row \in Asking /\ row.kind = asked[n].kind /\ row.of = asked[n].of
        /\ row.phase = "answered" /\ row.value = written + 1
    <3>1. row \in Asking
      BY <2>1, <2>3, RowFacts
    <3>2. row.kind = asked[n].kind /\ row.of = asked[n].of /\ row.phase = "answered" /\ row.value = value
      BY <2>1, <2>3
    <3> QED BY <2>0, <3>1, <3>2
  <2>5. \A i \in Dossier : heard[i] <= stored[i] /\ stored[i] <= written /\ stored[i] \in Nat /\ heard[i] \in Nat
    BY <1>0 DEF StoredInv, ReadShape
  <2>6. /\ written' \in Nat /\ stored' \in [Dossier -> Nat]
        /\ \A i \in Dossier : stored[i] <= stored'[i] /\ stored'[i] <= written'
        /\ stored'[row.of] = written + 1
    BY <1>0, <2>2, <2>3, <2>4, <2>5 DEF ReadShape
  <2>7. row.value <= stored'[row.of] /\ row.value >= heard[row.of]
    BY <2>3, <2>4, <2>5, <2>6
  <2> QED BY <2>2, <2>4, <2>6, <2>7, AnswerStep
<1>4. ASSUME NEW n \in 1..Len(asked), Declines(n) \/ Breaks(n) PROVE ReadInv'
  <2>1. PICK value \in {Notice, Failed} :
          /\ asked' = [asked EXCEPT ![n].phase = "answered", ![n].value = value]
          /\ value = Notice => asked[n].phase = "running" /\ asked[n].kind = "get"
    BY <1>4 DEF Declines, Breaks, Notice, Failed
  <2>2. PICK row : row = [asked[n] EXCEPT !.phase = "answered", !.value = value]
    OBVIOUS
  <2>3. asked' = [asked EXCEPT ![n] = row] /\ UNCHANGED <<cache, reading, heard, view, stored, written>>
    BY <1>4, <2>1, <2>2 DEF Declines, Breaks, reader
  <2>4. /\ asked[n] \in Asking /\ asked[n].of \in Dossier /\ value \in Int /\ (value = Failed \/ value = 0) /\ value <= 0
        /\ DOMAIN asked[n] = {"kind", "of", "phase", "value"}
    BY <1>0, AskedOf DEF Notice, Failed
  <2>5. /\ row \in Asking /\ row.kind = asked[n].kind /\ row.of = asked[n].of
        /\ row.phase = "answered" /\ row.value = value
    <3>1. row \in Asking
      BY <2>2, <2>4, RowFacts
    <3>2. row.kind = asked[n].kind /\ row.of = asked[n].of /\ row.phase = "answered" /\ row.value = value
      BY <2>2, <2>4
    <3> QED BY <3>1, <3>2
  <2>6. /\ \A i \in Dossier : stored[i] <= written /\ stored[i] \in Nat /\ heard[i] \in Nat
        /\ written \in Nat /\ stored \in [Dossier -> Nat]
    BY <1>0 DEF StoredInv, ReadShape
  <2>7. value <= stored[row.of]
    BY <2>4, <2>5, <2>6
  <2>8. reading[row.of].n = n /\ value # Failed => value >= heard[row.of]
    <3> SUFFICES ASSUME reading[row.of].n = n, value # Failed PROVE value >= heard[row.of]
      OBVIOUS
    <3>1. UnderWay(row.of)
      BY <2>4, <2>5 DEF ReadInv
    <3>2. heard[row.of] = Notice /\ value = Notice
      BY <2>1, <3>1 DEF UnderWay
    <3> QED BY <3>2 DEF Notice
  <2>9. \A i \in Dossier : stored[i] <= stored'[i] /\ stored'[i] <= written'
    BY <2>3, <2>6
  <2> QED BY <2>3, <2>5, <2>6, <2>7, <2>8, <2>9, AnswerStep
<1>5. ASSUME NEW n \in 1..Len(asked), HearRun(n) PROVE ReadInv'
  <2>1. /\ asked[n].kind = "post" /\ asked[n].phase = "answered" /\ asked[n].value \in Int /\ asked[n].of \in Dossier
        /\ UNCHANGED <<stored, written, view>>
    <3>1. asked[n] \in Asking
      BY <1>0, AskedOf
    <3> QED BY <1>5, <3>1 DEF HearRun, reader, Asking
  <2>2. ASSUME NEW k \in Dossier, reading[k].n # 0
        PROVE  k = view.of /\ reading[k].n \in 1..Len(asked) /\ reading[k].n # n
    BY <2>1, <2>2 DEF ReadInv, UnderWay
  <2>3. /\ Took(n) \in Seq(Asking) /\ Len(Took(n)) = Len(asked)
        /\ \A m \in 1..Len(Took(n)) : Took(n)[m].phase = "answered" => m \in 1..Len(asked) /\ Took(n)[m] = asked[m]
        /\ \A m \in 1..Len(asked) : m # n => Took(n)[m] = asked[m]
    BY <1>0, <2>1, TookFacts, TakenThenAsked
  <2>4. CASE asked[n].value = Failed
    <3>1. asked' = Took(n) /\ UNCHANGED <<cache, reading, heard>>
      BY <1>5, <2>4 DEF HearRun
    <3>2. CompleteIsCurrent' /\ \A i \in Dossier : heard[i] <= stored[i]
      BY <3>1 DEF ReadInv, StoredInv, CompleteIsCurrent
    <3> QED BY <1>0, <2>1, <2>2, <2>3, <3>1, <3>2, ReadsGoOn DEF ReadShape
  <2>5. CASE asked[n].value # Failed
    <3>1. PICK i \in Dossier : i = asked[n].of
      BY <2>1
    <3>2. /\ Invalidate(n, i) /\ heard' = [heard EXCEPT ![i] = Later(@, asked[n].value)]
      BY <1>5, <2>5, <3>1 DEF HearRun
    <3>3. /\ heard' \in [Dossier -> Nat] /\ \A k \in Dossier : heard'[k] <= stored[k]
          /\ \A k \in Dossier : k # i => heard'[k] = heard[k]
      <4>1. asked[n].value <= stored[i] /\ heard \in [Dossier -> Nat] /\ \A k \in Dossier : heard[k] <= stored[k]
        BY <1>0, <2>1, <3>1 DEF StoredInv, ReadShape
      <4>2. Later(heard[i], asked[n].value) \in Nat /\ Later(heard[i], asked[n].value) <= stored[i]
        BY <2>1, <4>1 DEF Later
      <4> QED BY <3>2, <4>1, <4>2
    <3>4. /\ cache' = [cache EXCEPT ![i].stale = TRUE]
          /\ DOMAIN cache' = Dossier /\ \A k \in Dossier : DOMAIN cache'[k] = {"data", "stale", "error"}
          /\ cache'[i].stale = TRUE /\ \A k \in Dossier : k # i => cache'[k] = cache[k]
      BY <1>0, <3>2 DEF Invalidate, ReadShape
    <3>5. CompleteIsCurrent'
      BY <3>3, <3>4 DEF ReadInv, CompleteIsCurrent
    <3>6. CASE view.of = i
      <4>1. /\ asked' = Append(Took(n), Request("get", i))
            /\ reading' = [reading EXCEPT ![i] = [n |-> Len(asked) + 1, tries |-> 0]]
        BY <3>2, <3>6 DEF Invalidate
      <4>2. /\ asked' \in Seq(Asking) /\ Len(asked') = Len(asked) + 1 /\ Len(asked) \in Nat
            /\ \A m \in 1..Len(asked') : asked'[m].phase = "answered" => m \in 1..Len(asked) /\ asked'[m] = asked[m]
            /\ asked'[Len(asked) + 1] = Request("get", i)
        BY <1>0, <4>1, TakenThenAsked
      <4>3. DOMAIN reading' = Dossier /\ reading'[i].n = Len(asked) + 1
            /\ \A k \in Dossier : k # i => reading'[k].n = 0
        BY <1>0, <2>2, <3>6, <4>1 DEF ReadShape
      <4>4. Len(asked) + 1 \in 1..Len(asked')
        BY <4>2
      <4> QED BY <1>0, <2>1, <3>3, <3>4, <3>5, <3>6, <4>2, <4>3, <4>4, ReadsGoOn DEF ReadShape
    <3>7. CASE view.of # i
      <4>1. asked' = Took(n) /\ reading' = reading
        BY <3>2, <3>7 DEF Invalidate
      <4> QED BY <1>0, <2>1, <2>2, <2>3, <3>3, <3>4, <3>5, <3>7, <4>1, ReadsGoOn DEF ReadShape
    <3> QED BY <3>6, <3>7
  <2> QED BY <2>4, <2>5
<1>6. ASSUME NEW i \in Dossier, HearRead(i) PROVE ReadInv'
  <2>1. PICK n : n = reading[i].n
    OBVIOUS
  <2>2. /\ n # 0 /\ asked[n].phase = "answered" /\ UNCHANGED <<stored, written, heard, view>>
    BY <1>6, <2>1 DEF HearRead, reader
  <2>3. /\ n \in 1..Len(asked) /\ i = view.of /\ (asked[n].value # Failed => asked[n].value >= heard[i])
    BY <2>1, <2>2 DEF ReadInv, UnderWay
  <2>4. ASSUME NEW k \in Dossier, k # i PROVE reading[k].n = 0
    BY <2>3, <2>4 DEF ReadInv, UnderWay
  <2>5. /\ heard' \in [Dossier -> Nat] /\ \A k \in Dossier : heard'[k] <= stored[k]
        /\ DOMAIN view' = {"screen", "of", "run"} /\ view'.of \in Dossier \cup {NoDossier}
        /\ view'.of = NoDossier => view'.screen = "ops"
    BY <1>0, <2>2 DEF ReadShape, StoredInv
  <2>6. CASE asked[n].value = Failed /\ reading[i].tries < Retries
    <3>1. PICK row : row.n = Len(asked) + 1 /\ reading' = [reading EXCEPT ![i] = row]
      BY <1>6, <2>1, <2>6 DEF HearRead
    <3>2. asked' = Append(Took(n), Request("get", i)) /\ cache' = cache
      BY <1>6, <2>1, <2>6 DEF HearRead
    <3>3. /\ asked' \in Seq(Asking) /\ Len(asked') = Len(asked) + 1 /\ Len(asked) \in Nat
          /\ \A m \in 1..Len(asked') : asked'[m].phase = "answered" => m \in 1..Len(asked) /\ asked'[m] = asked[m]
          /\ asked'[Len(asked) + 1] = Request("get", i)
      BY <1>0, <2>3, <3>2, TakenThenAsked
    <3>4. DOMAIN reading' = Dossier /\ reading'[i].n = Len(asked) + 1
          /\ \A k \in Dossier : k # i => reading'[k].n = 0
      BY <1>0, <2>4, <3>1 DEF ReadShape
    <3>5. Len(asked) + 1 \in 1..Len(asked')
      BY <3>3
    <3>6. CompleteIsCurrent'
      BY <2>2, <3>2 DEF ReadInv, CompleteIsCurrent
    <3> QED BY <1>0, <2>2, <2>3, <2>5, <3>2, <3>3, <3>4, <3>5, <3>6, ReadsGoOn DEF ReadShape
  <2>7. CASE ~ (asked[n].value = Failed /\ reading[i].tries < Retries)
    <3>1. asked' = Took(n) /\ reading' = [reading EXCEPT ![i] = NoRead]
      BY <1>6, <2>1, <2>7 DEF HearRead
    <3>2. PICK row : /\ cache' = [cache EXCEPT ![i] = row]
                     /\ row = IF asked[n].value = Failed THEN [cache[i] EXCEPT !.error = TRUE, !.stale = TRUE]
                              ELSE [data |-> asked[n].value, stale |-> FALSE, error |-> FALSE]
      BY <1>6, <2>1, <2>7 DEF HearRead
    <3>3. DOMAIN cache[i] = {"data", "stale", "error"}
      BY <1>0 DEF ReadShape
    <3>4. /\ DOMAIN row = {"data", "stale", "error"}
          /\ IF asked[n].value = Failed THEN row.stale = TRUE ELSE row.data = asked[n].value
      BY <3>2, <3>3
    <3>5. /\ DOMAIN cache' = Dossier /\ \A k \in Dossier : DOMAIN cache'[k] = {"data", "stale", "error"}
          /\ cache'[i] = row /\ \A k \in Dossier : k # i => cache'[k] = cache[k]
      BY <1>0, <3>2, <3>4 DEF ReadShape
    <3>6. CompleteIsCurrent'
      BY <2>2, <2>3, <3>4, <3>5 DEF ReadInv, CompleteIsCurrent
    <3>7. /\ Took(n) \in Seq(Asking)
          /\ \A m \in 1..Len(Took(n)) : Took(n)[m].phase = "answered" => m \in 1..Len(asked) /\ Took(n)[m] = asked[m]
      BY <1>0, <2>3, TakenThenAsked
    <3>8. DOMAIN reading' = Dossier /\ \A k \in Dossier : reading'[k].n = 0
      BY <1>0, <2>4, <3>1 DEF ReadShape, NoRead
    <3> QED BY <2>2, <2>5, <3>1, <3>5, <3>6, <3>7, <3>8, ReadsGoOn
  <2> QED BY <2>6, <2>7
<1>7. ASSUME NEW i \in Dossier, Ages(i) PROVE ReadInv'
  <2>1. UNCHANGED <<stored, written, asked, reading, heard, view>> /\ cache' = [cache EXCEPT ![i].stale = TRUE]
    BY <1>7 DEF Ages, reader
  <2>2. /\ DOMAIN cache' = Dossier /\ \A k \in Dossier : DOMAIN cache'[k] = {"data", "stale", "error"}
        /\ \A k \in Dossier : cache'[k].data = cache[k].data /\ (cache[k].stale => cache'[k].stale)
    BY <1>0, <2>1 DEF ReadShape
  <2>3. CompleteIsCurrent'
    BY <2>1, <2>2 DEF ReadInv, CompleteIsCurrent
  <2> QED BY <1>0, <2>1, <2>2, <2>3 DEF ReadInv, ReadShape, StoredInv, UnderWay
<1>8. ASSUME NEW screen, NEW i \in Dossier \cup {NoDossier}, Show(screen, i) PROVE ReadInv'
  <2> DEFINE left == IF view.of = NoDossier THEN reading ELSE [reading EXCEPT ![view.of] = NoRead]
  <2>1. /\ UNCHANGED <<stored, written, cache, heard>> /\ view' = [screen |-> screen, of |-> i, run |-> 0]
        /\ i = NoDossier => screen = "ops"
        /\ \/ /\ i \in Dossier /\ asked' = Append(asked, Request("get", i))
              /\ reading' = [left EXCEPT ![i] = [n |-> Len(asked) + 1, tries |-> 0]]
           \/ asked' = asked /\ reading' = left
    BY <1>8 DEF Show
  <2>2. DOMAIN left = Dossier /\ \A k \in Dossier : left[k].n = 0
    <3>1. ASSUME NEW k \in Dossier, k # view.of PROVE reading[k].n = 0
      BY <3>1 DEF ReadInv, UnderWay
    <3> QED BY <1>0, <3>1 DEF ReadShape, NoRead
  <2> HIDE DEF left
  <2>3. /\ heard' \in [Dossier -> Nat] /\ \A k \in Dossier : heard'[k] <= stored[k]
        /\ DOMAIN view' = {"screen", "of", "run"} /\ view'.of = i /\ (view'.of = NoDossier => view'.screen = "ops")
        /\ DOMAIN cache' = Dossier /\ \A k \in Dossier : DOMAIN cache'[k] = {"data", "stale", "error"}
        /\ CompleteIsCurrent'
    BY <1>0, <2>1 DEF ReadShape, StoredInv, ReadInv, CompleteIsCurrent
  <2>4. CASE /\ i \in Dossier /\ asked' = Append(asked, Request("get", i))
             /\ reading' = [left EXCEPT ![i] = [n |-> Len(asked) + 1, tries |-> 0]]
    <3>1. /\ asked' \in Seq(Asking) /\ Len(asked') = Len(asked) + 1 /\ Len(asked) \in Nat
          /\ \A m \in 1..Len(asked') : asked'[m].phase = "answered" => m \in 1..Len(asked) /\ asked'[m] = asked[m]
          /\ asked'[Len(asked) + 1] = Request("get", i)
      BY <1>0, <2>4, Added
    <3>2. DOMAIN reading' = Dossier /\ reading'[i].n = Len(asked) + 1
          /\ \A k \in Dossier : k # i => reading'[k].n = 0
      BY <2>2, <2>4
    <3>3. Len(asked) + 1 \in 1..Len(asked')
      BY <3>1
    <3> QED BY <2>1, <2>3, <3>1, <3>2, <3>3, ReadsGoOn
  <2>5. CASE asked' = asked /\ reading' = left
    <3>1. asked' \in Seq(Asking)
      BY <1>0, <2>5 DEF ReadShape
    <3> QED BY <2>1, <2>2, <2>3, <2>5, <3>1, ReadsGoOn
  <2> QED BY <2>1, <2>4, <2>5
<1>9. CASE TryAgain
  <2>1. PICK i \in Dossier : i = view.of
    BY <1>0, <1>9 DEF TryAgain, ReadShape
  <2>2. /\ UNCHANGED <<stored, written, cache, heard, view>> /\ asked' = Append(asked, Request("get", i))
        /\ reading' = [reading EXCEPT ![i] = [n |-> Len(asked) + 1, tries |-> 0]]
    BY <1>9, <2>1 DEF TryAgain, Fetch, reader
  <2>3. /\ asked' \in Seq(Asking) /\ Len(asked') = Len(asked) + 1 /\ Len(asked) \in Nat
        /\ \A m \in 1..Len(asked') : asked'[m].phase = "answered" => m \in 1..Len(asked) /\ asked'[m] = asked[m]
        /\ asked'[Len(asked) + 1] = Request("get", i)
    BY <1>0, <2>2, Added
  <2>4. ASSUME NEW k \in Dossier, k # i PROVE reading[k].n = 0
    BY <2>1, <2>4 DEF ReadInv, UnderWay
  <2>5. DOMAIN reading' = Dossier /\ reading'[i].n = Len(asked) + 1
        /\ \A k \in Dossier : k # i => reading'[k].n = 0
    BY <1>0, <2>2, <2>4 DEF ReadShape
  <2>6. Len(asked) + 1 \in 1..Len(asked')
    BY <2>3
  <2>7. CompleteIsCurrent' /\ heard' \in [Dossier -> Nat] /\ \A k \in Dossier : heard'[k] <= stored[k]
    BY <1>0, <2>2 DEF ReadInv, CompleteIsCurrent, ReadShape, StoredInv
  <2> QED BY <1>0, <2>1, <2>2, <2>3, <2>5, <2>6, <2>7, ReadsGoOn DEF ReadShape
<1>10. CASE AskRun
  <2>1. PICK i \in Dossier : i = view.of
    BY <1>0, <1>10 DEF AskRun, ReadShape
  <2>2. /\ UNCHANGED <<stored, written, cache, reading, heard>> /\ asked' = Append(asked, Request("post", i))
        /\ view' = [view EXCEPT !.run = Len(asked) + 1]
    BY <1>10, <2>1 DEF AskRun
  <2>3. DOMAIN view' = {"screen", "of", "run"} /\ view'.of = i
    BY <1>0, <2>1, <2>2 DEF ReadShape
  <2>4. /\ asked' \in Seq(Asking) /\ Len(asked') = Len(asked) + 1 /\ Len(asked) \in Nat
        /\ \A m \in 1..Len(asked) : asked'[m] = asked[m]
        /\ \A m \in 1..Len(asked') : asked'[m].phase = "answered" => m \in 1..Len(asked) /\ asked'[m] = asked[m]
    BY <1>0, <2>2, Added
  <2>5. CompleteIsCurrent' /\ heard' \in [Dossier -> Nat] /\ \A k \in Dossier : heard'[k] <= stored[k]
    BY <1>0, <2>2 DEF ReadInv, CompleteIsCurrent, ReadShape, StoredInv
  <2>6. ASSUME NEW k \in Dossier, reading[k].n # 0
        PROVE  k = i /\ reading[k].n \in 1..Len(asked) /\ reading[k].n \in 1..Len(asked')
    <3>1. k = i /\ reading[k].n \in 1..Len(asked)
      BY <2>1, <2>6 DEF ReadInv, UnderWay
    <3> QED BY <2>4, <3>1
  <2> QED BY <1>0, <2>2, <2>3, <2>4, <2>5, <2>6, ReadsGoOn DEF ReadShape
<1>11. CASE \/ \E how \in {"here", "failed"} : BundleEnds(how)
            \/ \E k \in 1 .. Len(Board) : OpenAt(k) \/ ShowEvidence(Board[k])
            \/ Turn(1) \/ Turn(-1) \/ Overlay \/ CloseBox
  <2>1. same /\ view' = view
    BY <1>11 DEF BundleEnds, OpenAt, ShowEvidence, Turn, Overlay, CloseBox
  <2> QED BY <1>1, <2>1
<1>12. CASE Copied
  <2>1. same /\ view' = view
    BY <1>12 DEF Copied, AskCopy, Reads, Renders, Saved, reader
  <2> QED BY <1>1, <2>1
<1>13. CASE UNCHANGED reviewVars
  <2>1. same /\ view' = view
    BY <1>13 DEF reviewVars, reader
  <2> QED BY <1>1, <2>1
<1> QED BY <1>2, <1>3, <1>4, <1>5, <1>6, <1>7, <1>8, <1>9, <1>10, <1>11, <1>12, <1>13 DEF ReviewNext, Served, Read

LEMMA ReadStarts == WorkspaceInit => ReadInv
<1> SUFFICES ASSUME WorkspaceInit PROVE ReadInv
  OBVIOUS
<1>1. asked = <<>> /\ asked \in Seq(Asking) /\ Len(asked) = 0
  BY DEF WorkspaceInit, ReviewInit
<1>2. ReadShape
  BY <1>1 DEF WorkspaceInit, ReviewInit, ReadShape, Notice, NoRead
<1>3. StoredInv /\ CompleteIsCurrent
  BY <1>1 DEF WorkspaceInit, ReviewInit, StoredInv, CompleteIsCurrent, Notice
<1> QED BY <1>2, <1>3 DEF WorkspaceInit, ReviewInit, ReadInv, NoRead

\* What the page announced as complete is what is shown from then on: the cached package
\* is as new or marked stale, wherever the reader was when the run ended and whatever read
\* was under way (useRetryPackage, invalidateQueries; the GET and POST of the route).
THEOREM CompleteStaysCurrent == WorkspaceSpec => []CompleteIsCurrent
<1>1. WorkspaceInit => ReadInv
  BY ReadStarts
<1>2. ReadInv /\ [WorkspaceNext]_workspaceVars => ReadInv'
  BY BrowserSteps, ReadStep
<1>3. ReadInv => CompleteIsCurrent
  BY DEF ReadInv
<1> QED BY <1>1, <1>2, <1>3, PTL DEF WorkspaceSpec

-----------------------------------------------------------------------------
(* Copies and what was on the screen before them *)

\* What is cached of an incident was stored for it.
CachedInv == \A i \in Dossier : cache[i].data \in Int /\ cache[i].data <= stored[i]

CopyFields == {"kind", "of", "phase", "shown", "warned", "package", "failed", "states", "toast"}
CopyKinds == {"offline", "summary", "disclosure"}
Copy(row) ==
  /\ DOMAIN row = CopyFields /\ row.of \in Dossier /\ row.shown \in Int
  /\ row.phase = "asked" => row.shown <= stored[row.of]
  /\ row.phase # "asked" => row.package \in Int /\ row.package >= row.shown
  /\ row.kind \in CopyKinds /\ (row.warned => Unverified(Written[row.shown]))
  /\ row.phase \in {"asked", "verifying"} => row.states = {}
  /\ row.states # {} => row.states = States(row.kind, Written[row.package], row.failed)
CopyInv == IsList(copies) /\ \A e \in 1..Len(copies) : Copy(copies[e])

\* The warning stands on the page, and in a copy of any kind, exactly for statutes that
\* counsel has not verified.
LEMMA OnlyOfUnverified == "unverified" \in Shown => Unverified(Written[cache[view.of].data])
<1> DEFINE p == Written[cache[view.of].data]
<1>1. "unverified" \in PageShows(p, forensics[view.of]) => Unverified(p)
  BY DEF PageShows, PageHead, PageReading, PageMeasures, If
<1>2. "unverified" \in DrawerShows(p) => Unverified(p)
  BY DEF DrawerShows, DrawerReading, DrawerMeasures, If
<1> QED BY <1>1, <1>2 DEF Shown

LEMMA CopiesWarn ==
  ASSUME NEW p, NEW failed, NEW kind \in CopyKinds, Unverified(p)
  PROVE  "unverified" \in States(kind, p, failed)
<1>1. CASE kind = "offline"
  BY <1>1 DEF States, OfflineStates, OfflineHead, If
<1>2. CASE kind = "summary"
  BY <1>2 DEF States, SummaryStates, SummaryHead, If
<1>3. CASE kind = "disclosure"
  BY <1>3 DEF States, DisclosureStates, If
<1> QED BY <1>1, <1>2, <1>3 DEF CopyKinds

\* A run that is stored is newer than all before it; nothing else writes a package.
LEMMA StoredGrows ==
  ASSUME ReadInv, [ReviewNext]_reviewVars
  PROVE  \A i \in Dossier : stored[i] \in Nat /\ stored'[i] \in Nat /\ stored[i] <= stored'[i]
<1>0. stored \in [Dossier -> Nat] /\ written \in Nat /\ \A i \in Dossier : stored[i] <= written
  BY DEF ReadInv, ReadShape, StoredInv
<1>1. ASSUME NEW n \in 1..Len(asked), Stores(n)
      PROVE  \A i \in Dossier : stored'[i] \in Nat /\ stored[i] <= stored'[i]
  <2>1. stored' = [stored EXCEPT ![asked[n].of] = written + 1]
    BY <1>1 DEF Stores
  <2> QED BY <1>0, <2>1
<1>2. CASE UNCHANGED stored
  BY <1>0, <1>2
<1>3. (\E n \in 1..Len(asked) : Stores(n)) \/ UNCHANGED stored
  BY DEF ReviewNext, Served, Read, Copied, Handle, Declines, Breaks, HearRun, HearRead, Ages, Show, TryAgain,
         AskRun, BundleEnds, OpenAt, ShowEvidence, Turn, Overlay, CloseBox, AskCopy, Reads, Renders, Saved, reviewVars
<1> QED BY <1>0, <1>1, <1>2, <1>3

\* An answer is laid into the cache of the incident it was asked about.
LEMMA CachedStep == ReadInv /\ CachedInv /\ [ReviewNext]_reviewVars => CachedInv'
<1> SUFFICES ASSUME ReadInv, CachedInv, [ReviewNext]_reviewVars PROVE CachedInv'
  OBVIOUS
<1>0. /\ ReadShape /\ \A i \in Dossier : stored[i] \in Nat /\ stored'[i] \in Nat /\ stored[i] <= stored'[i]
      /\ DOMAIN cache = Dossier /\ \A i \in Dossier : DOMAIN cache[i] = {"data", "stale", "error"}
  BY StoredGrows DEF ReadInv, ReadShape
<1>1. ASSUME \A i \in Dossier : cache'[i].data = cache[i].data PROVE CachedInv'
  BY <1>0, <1>1 DEF CachedInv
<1>2. CASE UNCHANGED cache
  BY <1>1, <1>2
<1>3. ASSUME NEW i, cache' = [cache EXCEPT ![i].stale = TRUE] PROVE CachedInv'
  BY <1>0, <1>1, <1>3
<1>4. ASSUME NEW n \in 1..Len(asked), HearRun(n) PROVE CachedInv'
  <2>1. UNCHANGED cache \/ cache' = [cache EXCEPT ![asked[n].of].stale = TRUE]
    BY <1>4 DEF HearRun, Invalidate
  <2> QED BY <1>2, <1>3, <2>1
<1>5. ASSUME NEW i \in Dossier, HearRead(i) PROVE CachedInv'
  <2>1. PICK n : n = reading[i].n
    OBVIOUS
  <2>2. n # 0 /\ asked[n].phase = "answered" /\ UNCHANGED stored
    BY <1>5, <2>1 DEF HearRead
  <2>3. n \in 1..Len(asked) /\ asked[n].of = i
    BY <2>1, <2>2 DEF ReadInv, UnderWay
  <2>4. asked[n] \in Asking /\ asked[n].value \in Int /\ asked[n].value <= stored[i]
    BY <1>0, <2>2, <2>3, AskedOf DEF ReadInv, StoredInv, Asking
  <2>5. \/ UNCHANGED cache
        \/ cache' = [cache EXCEPT ![i] = [@ EXCEPT !.error = TRUE, !.stale = TRUE]]
        \/ cache' = [cache EXCEPT ![i] = [data |-> asked[n].value, stale |-> FALSE, error |-> FALSE]]
    BY <1>5, <2>1 DEF HearRead
  <2>6. CASE cache' = [cache EXCEPT ![i] = [@ EXCEPT !.error = TRUE, !.stale = TRUE]]
    BY <1>0, <1>1, <2>6
  <2>7. CASE cache' = [cache EXCEPT ![i] = [data |-> asked[n].value, stale |-> FALSE, error |-> FALSE]]
    BY <1>0, <2>2, <2>4, <2>7 DEF CachedInv
  <2> QED BY <1>2, <2>5, <2>6, <2>7
<1>6. ASSUME NEW i \in Dossier, Ages(i) PROVE CachedInv'
  BY <1>3, <1>6 DEF Ages
<1>7. \/ \E n \in 1..Len(asked) : HearRun(n)
      \/ \E i \in Dossier : HearRead(i) \/ Ages(i)
      \/ UNCHANGED cache
  BY DEF ReviewNext, Served, Read, Copied, Handle, Stores, Declines, Breaks, Show, TryAgain,
         AskRun, BundleEnds, OpenAt, ShowEvidence, Turn, Overlay, CloseBox, AskCopy, Reads, Renders, Saved, reviewVars
<1> QED BY <1>2, <1>4, <1>5, <1>6, <1>7

\* One copy goes on, or none; what the others have seen stays what is stored or older.
LEMMA CopiesStay ==
  ASSUME ReadInv, CopyInv, [ReviewNext]_reviewVars, NEW e \in 1..Len(copies)
  PROVE  Copy(copies[e])' \/ copies'[e] # copies[e]
<1>1. /\ Copy(copies[e]) /\ \A i \in Dossier : stored[i] \in Nat /\ stored'[i] \in Nat /\ stored[i] <= stored'[i]
  BY StoredGrows DEF CopyInv
<1> QED BY <1>1 DEF Copy, CopyFields

LEMMA CopyRow ==
  ASSUME ReadInv, CopyInv, [ReviewNext]_reviewVars,
         NEW e \in 1..Len(copies), NEW row, copies' = [copies EXCEPT ![e] = row],
         DOMAIN row = CopyFields, row.of = copies[e].of, row.shown = copies[e].shown,
         row.kind = copies[e].kind, row.warned = copies[e].warned,
         row.phase # "asked", row.package \in Int, row.package >= row.shown,
         row.phase = "verifying" => row.states = {},
         row.states # {} => row.states = States(row.kind, Written[row.package], row.failed)
  PROVE  CopyInv'
<1>1. copies \in Seq(ToSet(copies) \cup {row})
  BY DEF CopyInv, IsList
<1>2. copies' \in Seq(ToSet(copies) \cup {row}) /\ Len(copies') = Len(copies)
  BY <1>1
<1>3. IsList(copies')
  BY <1>2, ListIsList
<1>4. \A i \in 1..Len(copies) : copies'[i] = IF i = e THEN row ELSE copies[i]
  BY <1>1
<1>5. ASSUME NEW i \in 1..Len(copies) PROVE Copy(copies[i])'
  <2>1. CASE i = e
    BY <1>4, <2>1 DEF Copy, CopyInv
  <2>2. CASE i # e
    BY <1>4, <2>2, CopiesStay
  <2> QED BY <2>1, <2>2
<1> QED BY <1>2, <1>3, <1>5 DEF CopyInv

LEMMA CopyStep == ReadInv /\ CachedInv /\ CopyInv /\ [ReviewNext]_reviewVars => CopyInv'
<1> SUFFICES ASSUME ReadInv, CachedInv, CopyInv, [ReviewNext]_reviewVars PROVE CopyInv'
  OBVIOUS
<1>1. CASE UNCHANGED copies
  <2>1. ASSUME NEW e \in 1..Len(copies) PROVE Copy(copies[e])'
    BY <1>1, CopiesStay
  <2> QED BY <1>1, <2>1 DEF CopyInv
<1>2. ASSUME NEW kind \in {"offline", "summary", "disclosure"}, AskCopy(kind) PROVE CopyInv'
  <2> DEFINE row == [kind |-> kind, of |-> view.of, phase |-> "asked", shown |-> cache[view.of].data,
                     warned |-> "unverified" \in Shown, package |-> Notice, failed |-> FALSE, states |-> {}, toast |-> ""]
  <2>1. copies' = Append(copies, row) /\ view.screen = "page" /\ UNCHANGED stored
    BY <1>2 DEF AskCopy
  <2>2. view.of \in Dossier
    BY <2>1 DEF ReadInv, ReadShape
  <2>3. /\ DOMAIN row = CopyFields /\ row.of \in Dossier /\ row.shown \in Int /\ row.phase = "asked"
        /\ row.shown <= stored'[row.of]
        /\ row.kind = kind /\ row.states = {} /\ row.shown = cache[view.of].data
        /\ row.warned <=> "unverified" \in Shown
    BY <2>1, <2>2 DEF CopyFields, CachedInv
  <2> HIDE DEF row
  <2>4. /\ IsList(copies') /\ Len(copies') = Len(copies) + 1 /\ Len(copies) \in Nat
        /\ \A i \in 1..Len(copies') : copies'[i] = IF i = Len(copies) + 1 THEN row ELSE copies[i]
    BY <2>1, AppendIsList DEF CopyInv, IsList
  <2>5. ASSUME NEW i \in 1..Len(copies') PROVE Copy(copies[i])'
    <3>1. CASE i = Len(copies) + 1
      <4>1. copies'[i] = row
        BY <2>4, <3>1
      <4>2. row.warned => Unverified(Written[row.shown])
        BY <2>3, OnlyOfUnverified
      <4> QED BY <2>3, <4>1, <4>2 DEF Copy, CopyFields, CopyKinds, Unverified
    <3>2. CASE i # Len(copies) + 1
      <4>1. i \in 1..Len(copies) /\ copies'[i] = copies[i]
        BY <2>4, <3>2
      <4> QED BY <4>1, CopiesStay
    <3> QED BY <3>1, <3>2
  <2> QED BY <2>4, <2>5 DEF CopyInv
<1>3. ASSUME NEW e \in 1..Len(copies), Reads(e) PROVE CopyInv'
  <2>1. PICK row : row = [copies[e] EXCEPT !.phase = "verifying", !.package = stored[copies[e].of]]
    OBVIOUS
  <2>2. copies' = [copies EXCEPT ![e] = row] /\ copies[e].phase = "asked"
    BY <1>3, <2>1 DEF Reads
  <2>3. Copy(copies[e])
    BY DEF CopyInv
  <2>4. /\ DOMAIN row = CopyFields /\ row.of = copies[e].of /\ row.shown = copies[e].shown
        /\ row.phase = "verifying" /\ row.package = stored[copies[e].of]
        /\ row.kind = copies[e].kind /\ row.warned = copies[e].warned /\ row.states = {}
    BY <2>1, <2>2, <2>3 DEF Copy, CopyFields
  <2>5. row.package \in Int /\ row.package >= row.shown
    BY <2>2, <2>3, <2>4, StoredGrows DEF Copy
  <2> QED BY <2>2, <2>4, <2>5, CopyRow
<1>4. ASSUME NEW e \in 1..Len(copies), NEW b \in BOOLEAN, Renders(e, b) PROVE CopyInv'
  <2> DEFINE told == States(copies[e].kind, Written[copies[e].package], b)
  <2>1. PICK row : row = [copies[e] EXCEPT !.phase = "rendered", !.failed = b, !.states = told]
    OBVIOUS
  <2>2. copies' = [copies EXCEPT ![e] = row] /\ copies[e].phase = "verifying"
    BY <1>4, <2>1 DEF Renders
  <2> HIDE DEF told
  <2>3. Copy(copies[e])
    BY DEF CopyInv
  <2>4. /\ DOMAIN row = CopyFields /\ row.of = copies[e].of /\ row.shown = copies[e].shown
        /\ row.phase = "rendered" /\ row.package = copies[e].package
        /\ row.kind = copies[e].kind /\ row.warned = copies[e].warned
        /\ row.failed = b /\ row.states = told
    BY <2>1, <2>3 DEF Copy, CopyFields
  <2>5. row.package >= row.shown /\ row.package \in Int
    BY <2>2, <2>3, <2>4 DEF Copy
  <2>6. row.states = States(row.kind, Written[row.package], row.failed)
    BY <2>4 DEF told
  <2> QED BY <2>2, <2>4, <2>5, <2>6, CopyRow
<1>5. ASSUME NEW e \in 1..Len(copies), NEW b \in BOOLEAN, Saved(e, b) PROVE CopyInv'
  <2> DEFINE toast == CASE b -> "refused" [] copies[e].failed -> "failed objects, stated in the file"
                        [] OTHER -> "exported"
  <2>1. copies' = [copies EXCEPT ![e].phase = "over", ![e].toast = toast] /\ copies[e].phase = "rendered"
    BY <1>5 DEF Saved
  <2> HIDE DEF toast
  <2>2. PICK row : /\ row = [copies[e] EXCEPT !.phase = "over", !.toast = toast]
                   /\ copies' = [copies EXCEPT ![e] = row]
    BY <2>1
  <2>3. Copy(copies[e])
    BY DEF CopyInv
  <2>4. /\ DOMAIN row = CopyFields /\ row.of = copies[e].of /\ row.shown = copies[e].shown
        /\ row.phase = "over" /\ row.package = copies[e].package
        /\ row.kind = copies[e].kind /\ row.warned = copies[e].warned
        /\ row.failed = copies[e].failed /\ row.states = copies[e].states
    BY <2>2, <2>3 DEF Copy, CopyFields
  <2>5. row.package \in Int /\ row.package >= row.shown
    BY <2>1, <2>3, <2>4 DEF Copy
  <2>6. row.states # {} => row.states = States(row.kind, Written[row.package], row.failed)
    BY <2>3, <2>4 DEF Copy
  <2> QED BY <2>2, <2>4, <2>5, <2>6, CopyRow
<1>6. Copied \/ UNCHANGED copies
  BY DEF ReviewNext, Served, Read, Handle, Stores, Declines, Breaks, HearRun, HearRead, Ages, Show, TryAgain, AskRun,
         BundleEnds, OpenAt, ShowEvidence, Turn, Overlay, CloseBox, reader, reviewVars
<1> QED BY <1>1, <1>2, <1>3, <1>4, <1>5, <1>6 DEF Copied

\* A copy is of no older a package than the page showed when it was asked for, and gives
\* the warning the page gave unless that package is newer: the route reads the package anew
\* (export/[kind]/route.ts) and goes on with it after an await; between what the page cached
\* and what the route reads runs are stored, never taken back (storePackage).
THEOREM CopiesAreNoOlder == WorkspaceSpec => []CopyIsNoOlder
<1>1. WorkspaceInit => ReadInv /\ CachedInv /\ CopyInv
  <2> SUFFICES ASSUME WorkspaceInit PROVE ReadInv /\ CachedInv /\ CopyInv
    OBVIOUS
  <2>1. IsList(<<>>)
    <3>1. <<>> \in Seq({})
      OBVIOUS
    <3> QED BY <3>1, ListIsList
  <2>2. CopyInv /\ CachedInv
    BY <2>1 DEF WorkspaceInit, ReviewInit, CopyInv, CachedInv, Nothing, Notice
  <2> QED BY <2>2, ReadStarts
<1>2. ReadInv /\ CachedInv /\ CopyInv /\ [WorkspaceNext]_workspaceVars => (ReadInv /\ CachedInv /\ CopyInv)'
  BY BrowserSteps, ReadStep, CachedStep, CopyStep
<1>3. CopyInv => CopyIsNoOlder
  <2> SUFFICES ASSUME CopyInv, NEW e \in 1..Len(copies), copies[e].phase # "asked"
               PROVE  /\ copies[e].package >= copies[e].shown
                      /\ copies[e].warned /\ copies[e].states # {} =>
                           "unverified" \in copies[e].states \/ copies[e].package > copies[e].shown
    BY DEF CopyIsNoOlder
  <2>1. Copy(copies[e])
    BY DEF CopyInv
  <2>2. CASE copies[e].warned /\ copies[e].states # {} /\ copies[e].package = copies[e].shown
    <3>1. Unverified(Written[copies[e].package]) /\ copies[e].kind \in CopyKinds
      BY <2>1, <2>2 DEF Copy
    <3>2. "unverified" \in States(copies[e].kind, Written[copies[e].package], copies[e].failed)
      BY <3>1, CopiesWarn
    <3> QED BY <2>1, <2>2, <3>2 DEF Copy
  <2> QED BY <2>1, <2>2 DEF Copy
<1> QED BY <1>1, <1>2, <1>3, PTL DEF WorkspaceSpec

-----------------------------------------------------------------------------
(* Tiles and fights *)

Slave(v) ==
  /\ DOMAIN v = {"src", "index", "pos", "paused", "seeking", "trim", "sinceSeek", "sinceTrim",
                 "seeks", "quarantined", "locked"}
  /\ v.paused \in BOOLEAN /\ v.quarantined \in BOOLEAN

\* A slave that is not yet quarantined has been sought less often than it takes.
Bounded(v) ==
  /\ v.seeks \in Seq(Nat) /\ Len(v.seeks) <= SeekLimit
  /\ ~ v.quarantined => Len(v.seeks) < SeekLimit

Tame(sl) == DOMAIN sl = VideoIds /\ \A v \in VideoIds : Slave(sl[v]) /\ Bounded(sl[v])

\* What leaves the memory of the seeks alone.
Alike(u, v) == Slave(u) /\ u.seeks = v.seeks /\ u.quarantined = v.quarantined

LEMMA AlikeFacts ==
  ASSUME NEW v, Slave(v)
  PROVE  /\ Alike(v, v) /\ Alike([v EXCEPT !.paused = TRUE], v) /\ Alike([v EXCEPT !.paused = FALSE], v)
         /\ \A x : /\ Alike([v EXCEPT !.index = x], v) /\ Alike([v EXCEPT !.trim = x], v)
                   /\ Alike([v EXCEPT !.seeking = x], v)
                   /\ Alike([v EXCEPT !.locked = TRUE, !.trim = x], v) /\ Alike([v EXCEPT !.locked = x], v)
                   /\ Alike([v EXCEPT !.locked = FALSE, !.sinceTrim = 0, !.trim = x], v)
                   /\ Alike([v EXCEPT !.sinceSeek = 0, !.pos = x, !.seeking = TRUE], v)
                   /\ Alike([v EXCEPT !.pos = x, !.seeking = TRUE, !.sinceSeek = 0], v)
  BY DEF Alike, Slave

LEMMA AlikeTwice == ASSUME NEW u, NEW v, NEW w, Alike(u, v), Alike(w, u) PROVE Alike(w, v)
  BY DEF Alike

LEMMA AlikeIsTame == ASSUME NEW u, NEW v, Alike(u, v), Bounded(v) PROVE Slave(u) /\ Bounded(u)
  BY DEF Alike, Bounded

LEMMA HardSeekFacts == ASSUME NEW v, Slave(v), NEW p PROVE Alike(HardSeek(v, p), v)
<1>1. PICK x : x = Most(0, p)
  OBVIOUS
<1>2. HardSeek(v, p) = [v EXCEPT !.pos = x, !.seeking = TRUE, !.sinceSeek = 0]
  BY <1>1 DEF HardSeek
<1> QED BY <1>2, AlikeFacts

LEMMA EnterFacts == ASSUME NEW v, Slave(v), NEW cover PROVE Alike(Enter(v, cover), v)
<1>1. PICK u : u = [v EXCEPT !.index = cover.index, !.paused = @ \/ v.src # cover.index, !.src = cover.index]
  OBVIOUS
<1>2. Alike(u, v)
  BY <1>1 DEF Alike, Slave
<1>3. Alike(HardSeek(u, cover.local), u)
  BY <1>2, HardSeekFacts DEF Alike
<1>4. Enter(v, cover) = HardSeek(u, cover.local)
  BY <1>1 DEF Enter
<1> QED BY <1>2, <1>3, <1>4, AlikeTwice

\* The memory of the seeks takes one more, and the one that fills it quarantines.
LEMMA RecordSeekFacts ==
  ASSUME NEW v, Slave(v), Bounded(v), ~ v.quarantined
  PROVE  Slave(RecordSeek(v)) /\ Bounded(RecordSeek(v))
<1>1. PICK kept : kept = Filter(v.seeks, 0 .. SeekWindow - 1)
  OBVIOUS
<1>2. kept \in Seq(Nat) /\ Len(kept) <= Len(v.seeks) /\ Len(v.seeks) \in Nat
  BY <1>1, FilterFacts DEF Bounded
<1>3. PICK recent : recent = Append(kept, 0)
  OBVIOUS
<1>4. recent \in Seq(Nat) /\ Len(recent) = Len(kept) + 1 /\ Len(kept) \in Nat
  BY <1>2, <1>3
<1>5. Len(recent) <= SeekLimit /\ Len(recent) \in Nat
  BY <1>2, <1>4, PlaybackAssumption DEF Bounded
<1>6. PICK full \in BOOLEAN : full <=> Len(recent) >= SeekLimit
  OBVIOUS
<1>7. RecordSeek(v) = [v EXCEPT !.seeks = recent, !.quarantined = full]
  BY <1>1, <1>3, <1>6 DEF RecordSeek, Slave
<1>8. Slave(RecordSeek(v)) /\ RecordSeek(v).seeks = recent /\ RecordSeek(v).quarantined = full
  BY <1>7 DEF Slave
<1> QED BY <1>4, <1>5, <1>6, <1>8, PlaybackAssumption DEF Bounded

LEMMA CorrectIsTame ==
  ASSUME NEW v, Slave(v), Bounded(v), NEW target, NEW rate
  PROVE  Slave(Correct(v, target, rate)) /\ Bounded(Correct(v, target, rate))
<1> DEFINE c == Correct(v, target, rate)
<1> SUFFICES Slave(c) /\ Bounded(c)
  OBVIOUS
<1>1. PICK u : u = [v EXCEPT !.paused = FALSE]
  OBVIOUS
<1>2. Alike(u, v) /\ Slave(u) /\ Bounded(u)
  BY <1>1, AlikeFacts, AlikeIsTame
<1>3. PICK sooner : sooner = IF v.pos - target > 0 THEN -1 ELSE 1
  OBVIOUS
<1>4. \/ c = [u EXCEPT !.trim = 0]
      \/ ~ u.quarantined /\ c = RecordSeek(HardSeek(u, target + 1))
      \/ c = u
      \/ c = [u EXCEPT !.locked = TRUE, !.trim = 0]
      \/ c = [u EXCEPT !.locked = FALSE, !.sinceTrim = 0, !.trim = sooner]
      \/ c = [u EXCEPT !.locked = FALSE]
  BY <1>1, <1>3 DEF Correct
<1> HIDE DEF c
<1>5. CASE ~ u.quarantined /\ c = RecordSeek(HardSeek(u, target + 1))
  <2>1. PICK t : t = target + 1
    OBVIOUS
  <2>2. Alike(HardSeek(u, t), u)
    BY <1>2, HardSeekFacts
  <2>3. Slave(HardSeek(u, t)) /\ Bounded(HardSeek(u, t)) /\ ~ HardSeek(u, t).quarantined
    BY <1>2, <1>5, <2>2, AlikeIsTame DEF Alike
  <2> QED BY <1>5, <2>1, <2>3, RecordSeekFacts
<1>6. CASE ~ (~ u.quarantined /\ c = RecordSeek(HardSeek(u, target + 1)))
  <2>1. Alike(c, u)
    BY <1>2, <1>4, <1>6, AlikeFacts
  <2> QED BY <1>2, <2>1, AlikeIsTame
<1> QED BY <1>5, <1>6

\* One emission leaves a slave as tame as it was, and stops it where there is no coverage.
LEMMA TickIsTame ==
  ASSUME NEW v, Slave(v), Bounded(v), NEW cover, NEW playing, NEW rate
  PROVE  /\ Slave(Tick(v, cover, playing, rate)) /\ Bounded(Tick(v, cover, playing, rate))
         /\ cover.state # "covered" => Tick(v, cover, playing, rate).paused = TRUE
<1> DEFINE k == Tick(v, cover, playing, rate)
<1> SUFFICES Slave(k) /\ Bounded(k) /\ (cover.state # "covered" => k.paused = TRUE)
  OBVIOUS
<1>1. PICK still : still = [v EXCEPT !.paused = TRUE]
  OBVIOUS
<1>2. Alike(still, v) /\ Slave(still) /\ still.paused = TRUE
  BY <1>1, AlikeFacts, AlikeIsTame DEF Slave
<1>3. /\ cover.state # "covered" => k = [still EXCEPT !.index = 0]
      /\ \/ k = [still EXCEPT !.index = 0] \/ k = Enter(v, cover)
         \/ k = HardSeek(still, cover.local) \/ k = still
         \/ k = [still EXCEPT !.sinceSeek = 0, !.pos = cover.local, !.seeking = TRUE]
         \/ k = Correct(v, cover.local, rate)
  BY <1>1 DEF Tick
<1> HIDE DEF k
<1>4. k = Correct(v, cover.local, rate) => Slave(k) /\ Bounded(k)
  BY CorrectIsTame
<1>5. ASSUME k # Correct(v, cover.local, rate) PROVE Slave(k) /\ Bounded(k)
  <2>1. Alike(k, still) \/ Alike(k, v)
    BY <1>2, <1>3, <1>5, AlikeFacts, EnterFacts, HardSeekFacts
  <2>2. Alike(k, v)
    BY <1>2, <2>1, AlikeTwice
  <2> QED BY <2>2, AlikeIsTame
<1>6. ASSUME cover.state # "covered" PROVE k.paused = TRUE
  BY <1>2, <1>3, <1>6 DEF Slave
<1> QED BY <1>4, <1>5, <1>6

LEMMA TickedIsTame ==
  ASSUME NEW sl, Tame(sl), NEW b, NEW st, NEW t
  PROVE  Tame(Ticked(sl, b, st, t))
  BY TickIsTame DEF Tame, Ticked

LEMMA NewIsTame == Slave(NewSlave) /\ Bounded(NewSlave)
<1>1. NewSlave.seeks = <<>> /\ NewSlave.quarantined = FALSE /\ Slave(NewSlave)
  BY DEF NewSlave, Slave
<1>2. NewSlave.seeks \in Seq(Nat) /\ Len(NewSlave.seeks) = 0
  BY <1>1
<1> QED BY <1>1, <1>2, PlaybackAssumption DEF Bounded

\* The screen opens on slaves that have not been sought yet.
LEMMA ShowsIsTame == ASSUME NEW b, NEW d, Shows(b, d) PROVE Tame(slaves')
<1>1. PICK none : none = [v \in VideoIds |-> NewSlave]
  OBVIOUS
<1>2. Tame(none)
  BY <1>1, NewIsTame DEF Tame
<1>3. slaves' = Ticked(none, b, Reset(b), Clamp(b.anchor, b.tMin, b.tMax))
  BY <1>1 DEF Shows, Opened
<1> QED BY <1>2, <1>3, TickedIsTame

LEMMA GoIsTame == ASSUME Go, Tame(slaves) PROVE Tame(slaves')
<1>1. Mount \/ Unmount \/ UNCHANGED stageVars
  BY DEF Go, GoTo, Left
<1>2. CASE Mount \/ Unmount
  BY <1>2, ShowsIsTame DEF Mount, Unmount
<1>3. CASE UNCHANGED stageVars
  BY <1>3 DEF stageVars
<1> QED BY <1>1, <1>2, <1>3

\* Half a frame of wall time ages what is remembered, and forgets none of it.
LEMMA ElapseIsTame == ASSUME Elapse, Tame(slaves) PROVE Tame(slaves')
<1>1. PICK stalled :
        slaves' = [v \in VideoIds |-> IF v \in OnStage(transport) /\ slaves[v].src # 0
                                      THEN Advanced(slaves[v], v \in stalled, Length(v)) ELSE slaves[v]]
  BY DEF Elapse
<1>2. ASSUME NEW v, Slave(v), Bounded(v), NEW still, NEW length
      PROVE  Slave(Advanced(v, still, length)) /\ Bounded(Advanced(v, still, length))
  <2>1. PICK pos, seek, trim, older :
          /\ Advanced(v, still, length) = [v EXCEPT !.pos = pos, !.sinceSeek = seek, !.sinceTrim = trim, !.seeks = older]
          /\ older = [i \in 1 .. Len(v.seeks) |-> Least(v.seeks[i] + 1, SeekWindow)]
    BY DEF Advanced, Slave
  <2>2. older \in Seq(Nat) /\ Len(older) = Len(v.seeks)
    <3>1. v.seeks \in Seq(Nat) /\ Len(v.seeks) \in Nat
      BY <1>2 DEF Bounded
    <3>2. \A i \in 1..Len(v.seeks) : Least(v.seeks[i] + 1, SeekWindow) \in Nat
      BY <3>1, PlaybackAssumption DEF Least
    <3> QED BY <2>1, <3>1, <3>2
  <2>3. LET u == [v EXCEPT !.pos = pos, !.sinceSeek = seek, !.sinceTrim = trim, !.seeks = older]
        IN  Slave(u) /\ u.seeks = older /\ u.quarantined = v.quarantined
    BY <1>2 DEF Slave
  <2> QED BY <1>2, <2>1, <2>2, <2>3 DEF Bounded
<1> QED BY <1>1, <1>2 DEF Tame

LEMMA ToggleTileIsTame == ASSUME NEW id, ToggleTile(id), Tame(slaves) PROVE Tame(slaves')
<1> DEFINE st == Toggled(transport, id)
           kept == IF Emptied(transport, id) THEN {} ELSE OnStage(transport) \cap OnStage(st)
           mounted == [v \in VideoIds |-> IF v \in kept THEN slaves[v] ELSE NewSlave]
           ticked == Ticked(mounted, bundle, st, Now)
<1>1. slaves' = [v \in VideoIds |-> IF v \in kept THEN slaves[v] ELSE ticked[v]]
  BY DEF ToggleTile
<1> HIDE DEF st, kept
<1>2. Tame(mounted)
  BY NewIsTame DEF Tame
<1>3. Tame(ticked)
  BY <1>2, TickedIsTame
<1> HIDE DEF ticked
<1> QED BY <1>1, <1>3 DEF Tame

LEMMA SlavesStep == Tame(slaves) /\ [Next]_vars => Tame(slaves')
<1> SUFFICES ASSUME Tame(slaves), [Next]_vars PROVE Tame(slaves')
  OBVIOUS
<1>1. ASSUME NEW sl, Tame(sl), NEW d, NEW st, NEW t, EmitTo(sl, d, st, t) PROVE Tame(slaves')
  BY <1>1, TickedIsTame DEF EmitTo
<1>2. ASSUME NEW t, PausedAt(t) PROVE Tame(slaves')
  <2>1. PICK sl, d, st : /\ EmitTo(sl, d, st, Clamp(t, bundle.tMin, bundle.tMax))
                         /\ sl = slaves \/ sl = Ticked(slaves, bundle, st, Now)
    BY <1>2 DEF PausedAt
  <2>2. Tame(sl)
    BY <2>1, TickedIsTame
  <2> QED BY <1>1, <2>1, <2>2
<1>3. CASE \/ Toggle \/ (\E r \in Rates : SetRate(r)) \/ (\E t \in World : Seek(t))
           \/ \E d \in {-1, 1} : Step(d) \/ Boundary(d)
           \/ \E t \in World : Scrub(t)
  BY <1>1, <1>2, <1>3 DEF Toggle, Play, Pause, SetRate, Seek, Sought, Step, Boundary, Scrub, Emit
<1>4. CASE \E s \in Range(bundle.playback) : ToggleTile(s.id) \/ Focus(s.id)
  BY <1>4, ToggleTileIsTame DEF Focus
<1>5. CASE \/ \E t \in World : Pan(t)
           \/ \E span \in Spans, follow \in BOOLEAN : Zoom(span, follow)
           \/ Fit \/ ZoomToSelection
           \/ \E range \in Ranges : Marquee(range[1], range[2]) \/ Select(range)
           \/ Select(<<>>)
  BY <1>5 DEF Pan, Zoom, Fit, ZoomToSelection, Marquee, Select, Looked
<1>6. CASE Elapse
  BY <1>6, ElapseIsTame
<1>7. CASE Loop
  BY <1>1, <1>7 DEF Loop, Emit
<1>8. CASE \E v \in VideoIds : Seeked(v)
  <2>1. PICK v \in VideoIds : slaves' = [slaves EXCEPT ![v].seeking = FALSE]
    BY <1>8 DEF Seeked
  <2>2. PICK u : u = [slaves[v] EXCEPT !.seeking = FALSE] /\ slaves' = [slaves EXCEPT ![v] = u]
    BY <2>1
  <2>3. Slave(u) /\ Bounded(u)
    BY <2>2, AlikeFacts, AlikeIsTame DEF Tame
  <2> QED BY <2>2, <2>3 DEF Tame
<1>9. CASE \E b \in Bundles : Refetch(b)
  BY <1>9, ShowsIsTame DEF Refetch
<1>10. CASE Go
  BY <1>10, GoIsTame
<1>11. CASE \/ \E id \in feed \cup {None} : SelectIncident(id)
            \/ \E action \in {"ack", "dispatch", "dismiss"} : Press(action)
            \/ \E action \in {"ack", "dispatch"} : Command(action)
            \/ \E f \in SUBSET Incidents : Listed(f)
            \/ \E i \in 1 .. Len(toasts) : DismissToast(i)
            \/ Drop
  BY <1>11 DEF SelectIncident, Press, Command, Listed, DismissToast, Drop, stageVars
<1>12. CASE Follows
  BY <1>12 DEF Follows, Expire, GiveUp, Restore, StartDrain, DrainOne, Drain, Answered, stageVars
<1>13. CASE UNCHANGED vars
  BY <1>13 DEF vars, stageVars
<1> QED BY <1>3, <1>4, <1>5, <1>6, <1>7, <1>8, <1>9, <1>10, <1>11, <1>12, <1>13 DEF Next, Controls, Watch, Operate, Ran

\* A source whose frame rate is wrong is sought so often and no more within the window: the
\* slave that reaches the limit is left alone from then on, whatever seeks, stalls and
\* segments come between the corrections (VideoSlave.recordSeek, QUARANTINE_SEEKS).
THEOREM FightAlwaysEnds == WorkspaceSpec => []FightEnds
<1>1. WorkspaceInit => Tame(slaves)
  <2> SUFFICES ASSUME WorkspaceInit PROVE Tame(slaves)
    OBVIOUS
  <2>1. PICK none : none = [v \in VideoIds |-> NewSlave]
    OBVIOUS
  <2>2. Tame(none)
    BY <2>1, NewIsTame DEF Tame
  <2>3. slaves = Ticked(none, bundle, Reset(bundle), Clamp(bundle.anchor, bundle.tMin, bundle.tMax))
    BY <2>1 DEF WorkspaceInit, Init, StageInit, Opened
  <2> QED BY <2>2, <2>3, TickedIsTame
<1>2. Tame(slaves) /\ [WorkspaceNext]_workspaceVars => Tame(slaves)'
  BY BrowserSteps, SlavesStep
<1>3. Tame(slaves) => FightEnds
  <2> SUFFICES ASSUME Tame(slaves), NEW v \in VideoIds
               PROVE  Cardinality({i \in 1 .. Len(slaves[v].seeks) : slaves[v].seeks[i] < SeekWindow}) <= SeekLimit
    BY DEF FightEnds
  <2>1. PICK k \in Nat : k = Len(slaves[v].seeks) /\ k <= SeekLimit
    BY DEF Tame, Bounded
  <2> DEFINE recent == {i \in 1 .. Len(slaves[v].seeks) : slaves[v].seeks[i] < SeekWindow}
  <2>2. recent \subseteq 1..k
    BY <2>1
  <2> HIDE DEF recent
  <2>3. IsFiniteSet(1..k) /\ Cardinality(1..k) = k
    <3>1. IsFiniteSet(1..k) /\ Cardinality(1..k) = IF 1 > k THEN 0 ELSE k - 1 + 1
      BY FS_Interval
    <3> QED BY <3>1
  <2>4. IsFiniteSet(recent) /\ Cardinality(recent) <= k
    BY <2>2, <2>3, FS_Subset
  <2>5. Cardinality(recent) \in Nat
    BY <2>4, FS_CardinalityType
  <2> QED BY <2>1, <2>4, <2>5, PlaybackAssumption DEF recent
<1> QED BY <1>1, <1>2, <1>3, PTL DEF WorkspaceSpec

\* The records of the clock and of the store keep their fields.
StageShape ==
  /\ DOMAIN clock = {"anchorT", "since", "rate", "playing"}
  /\ DOMAIN transport = {"playing", "rate", "tiles", "focused", "desynced", "selection"}

StageInv == Tame(slaves) /\ StageShape /\ PausedTileIsHonest

\* What an emission leaves is honest when the clock rests at the instant it emitted.
LEMMA HeardIsHonest ==
  ASSUME NEW sl, Tame(sl), NEW b, NEW st, NEW t,
         slaves' = Ticked(sl, b, st, t), shown' = Rendered(b, st, t), bundle' = b,
         transport'.tiles = st.tiles, ~ clock'.playing => clock'.anchorT = t
  PROVE  PausedTileIsHonest'
<1> SUFFICES ASSUME ~ clock'.playing, NEW v \in VideoIds, v \in OnStage(st)
             PROVE  /\ shown'[v] = CoverageAt(SourceOf(b, v), t).state
                    /\ CoverageAt(SourceOf(b, v), t).state # "covered" => slaves'[v].paused
  BY DEF PausedTileIsHonest, Now, NowOf, OnStage
<1> HIDE DEF CoverageAt
<1>1. shown'[v] = CoverageAt(SourceOf(b, v), t).state
  BY DEF Rendered
<1>2. PICK cover : cover = CoverageAt(SourceOf(b, v), t)
  OBVIOUS
<1>3. slaves'[v] = Tick(sl[v], cover, st.playing, st.rate)
  BY <1>2 DEF Ticked
<1>4. cover.state # "covered" => slaves'[v].paused = TRUE
  <2>1. Slave(sl[v]) /\ Bounded(sl[v])
    BY DEF Tame
  <2>2. cover.state # "covered" => Tick(sl[v], cover, st.playing, st.rate).paused = TRUE
    BY <2>1, TickIsTame
  <2> QED BY <1>3, <2>2
<1> QED BY <1>1, <1>2, <1>4

\* Nothing that is on show has changed.
LEMMA RestIsHonest ==
  ASSUME PausedTileIsHonest, UNCHANGED <<bundle, shown>>, transport'.tiles = transport.tiles,
         ~ clock'.playing => ~ clock.playing /\ clock'.anchorT = clock.anchorT,
         \A v \in VideoIds : slaves[v].paused => slaves'[v].paused
  PROVE  PausedTileIsHonest'
  BY DEF PausedTileIsHonest, Now, NowOf, OnStage

LEMMA EmitIsHonest ==
  ASSUME StageInv, NEW sl, Tame(sl), NEW d, NEW st, DOMAIN st = DOMAIN transport, NEW t, EmitTo(sl, d, st, t),
         UNCHANGED bundle, DOMAIN clock' = DOMAIN clock, ~ clock'.playing => clock'.anchorT = t
  PROVE  StageInv'
<1>1. transport' = Marked(st, slaves') /\ slaves' = Ticked(sl, bundle, st, t) /\ shown' = Rendered(bundle, st, t)
  BY DEF EmitTo
<1>2. DOMAIN transport' = DOMAIN transport /\ transport'.tiles = st.tiles
  BY <1>1 DEF Marked, StageInv, StageShape
<1>3. PausedTileIsHonest'
  BY <1>1, <1>2, HeardIsHonest
<1> QED BY <1>1, <1>2, <1>3, TickedIsTame DEF StageInv, StageShape

LEMMA ShowsIsHonest == ASSUME NEW b, NEW d, Shows(b, d) PROVE StageInv'
<1>1. PICK none : none = [v \in VideoIds |-> NewSlave]
  OBVIOUS
<1>2. PICK t : t = Clamp(b.anchor, b.tMin, b.tMax)
  OBVIOUS
<1>3. Tame(none)
  BY <1>1, NewIsTame DEF Tame
<1>4. /\ slaves' = Ticked(none, b, Reset(b), t) /\ shown' = Rendered(b, Reset(b), t) /\ bundle' = b
      /\ transport' = Reset(b) /\ clock' = [anchorT |-> t, since |-> 0, rate |-> 1, playing |-> FALSE]
  BY <1>1, <1>2 DEF Shows, Opened
<1>5. PausedTileIsHonest'
  BY <1>3, <1>4, HeardIsHonest
<1>6. StageShape'
  BY <1>4 DEF StageShape, Reset
<1> QED BY <1>3, <1>4, <1>5, <1>6, TickedIsTame DEF StageInv

\* A tile that was on the stage shows what it showed; a new one hears the clock at once.
LEMMA ToggleTileIsHonest == ASSUME StageInv, NEW id, ToggleTile(id) PROVE StageInv'
<1> DEFINE st == Toggled(transport, id)
           kept == IF Emptied(transport, id) THEN {} ELSE OnStage(transport) \cap OnStage(st)
           mounted == [v \in VideoIds |-> IF v \in kept THEN slaves[v] ELSE NewSlave]
           ticked == Ticked(mounted, bundle, st, Now)
<1>1. /\ slaves' = [v \in VideoIds |-> IF v \in kept THEN slaves[v] ELSE ticked[v]]
      /\ shown' = [v \in VideoIds |-> IF v \in kept THEN shown[v] ELSE Rendered(bundle, st, Now)[v]]
      /\ transport' = st /\ UNCHANGED <<bundle, clock>>
  BY DEF ToggleTile
<1>2. DOMAIN st = DOMAIN transport
  BY DEF Toggled, StageInv, StageShape
<1>3. kept \subseteq OnStage(transport)
  OBVIOUS
<1> HIDE DEF st, kept
<1>4. Tame(mounted)
  BY NewIsTame DEF Tame, StageInv
<1>5. PausedTileIsHonest'
  <2> SUFFICES ASSUME ~ clock.playing, NEW v \in VideoIds, v \in OnStage(st)
               PROVE  /\ shown'[v] = CoverageAt(SourceOf(bundle, v), Now).state
                      /\ CoverageAt(SourceOf(bundle, v), Now).state # "covered" => slaves'[v].paused
    BY <1>1 DEF PausedTileIsHonest, Now, NowOf, OnStage
  <2>1. CASE v \in kept
    BY <1>1, <1>3, <2>1 DEF StageInv, PausedTileIsHonest
  <2>2. CASE v \notin kept
    <3>1. PICK cover : cover = CoverageAt(SourceOf(bundle, v), Now)
      OBVIOUS
    <3>2. shown'[v] = cover.state /\ slaves'[v] = Tick(mounted[v], cover, st.playing, st.rate)
      BY <1>1, <2>2, <3>1 DEF Rendered, Ticked
    <3>3. cover.state # "covered" => slaves'[v].paused = TRUE
      <4>1. Slave(mounted[v]) /\ Bounded(mounted[v])
        BY <1>4 DEF Tame
      <4> HIDE DEF mounted
      <4>2. cover.state # "covered" => Tick(mounted[v], cover, st.playing, st.rate).paused = TRUE
        BY <4>1, TickIsTame
      <4> QED BY <3>2, <4>2
    <3> QED BY <3>1, <3>2, <3>3
  <2> QED BY <2>1, <2>2
<1>6. Tame(slaves')
  BY ToggleTileIsTame DEF StageInv
<1> QED BY <1>1, <1>2, <1>5, <1>6 DEF StageInv, StageShape

LEMMA StageStep == StageInv /\ [Next]_vars => StageInv'
<1> SUFFICES ASSUME StageInv, [Next]_vars PROVE StageInv'
  OBVIOUS
<1>0. Tame(slaves) /\ Tame(slaves') /\ StageShape /\ PausedTileIsHonest
  BY SlavesStep DEF StageInv
<1>1. CASE UNCHANGED <<bundle, clock, slaves, shown>> /\ DOMAIN transport' = DOMAIN transport
           /\ transport'.tiles = transport.tiles
  BY <1>0, <1>1, RestIsHonest DEF StageInv, StageShape
<1>2. CASE UNCHANGED <<bundle, clock, slaves, shown, transport>>
  BY <1>1, <1>2
<1>3. CASE Pause /\ UNCHANGED bundle
  <2>1. /\ Emit([transport EXCEPT !.playing = FALSE], Now)
        /\ DOMAIN clock' = DOMAIN clock /\ clock'.anchorT = Now
    BY <1>0, <1>3 DEF Pause, Reanchored, StageShape
  <2>2. PICK st : st = [transport EXCEPT !.playing = FALSE]
    OBVIOUS
  <2>3. DOMAIN st = DOMAIN transport /\ EmitTo(slaves, deck, st, Now)
    BY <2>1, <2>2 DEF Emit
  <2> QED BY <1>0, <1>3, <2>1, <2>3, EmitIsHonest
<1>4. CASE Toggle
  <2>1. CASE Play
    <3>1. PICK from, st : /\ EmitTo(slaves, deck, st, from) /\ st = [transport EXCEPT !.playing = TRUE]
                          /\ clock' = [clock EXCEPT !.anchorT = from, !.since = 0, !.playing = TRUE]
      BY <2>1 DEF Play, Emit
    <3>2. DOMAIN st = DOMAIN transport /\ DOMAIN clock' = DOMAIN clock /\ clock'.anchorT = from
      BY <1>0, <3>1 DEF StageShape
    <3> QED BY <1>0, <1>4, <3>1, <3>2, EmitIsHonest DEF Toggle
  <2> QED BY <1>3, <1>4, <2>1 DEF Toggle
<1>5. CASE \E r \in Rates : SetRate(r)
  <2>1. /\ DOMAIN transport' = DOMAIN transport /\ transport'.tiles = transport.tiles
        /\ DOMAIN clock' = DOMAIN clock /\ clock'.anchorT = Now /\ clock'.playing = clock.playing
        /\ UNCHANGED <<bundle, slaves, shown>>
    BY <1>0, <1>5 DEF SetRate, Reanchored, StageShape
  <2>2. ~ clock.playing => Now = clock.anchorT
    BY DEF Now, NowOf
  <2> QED BY <1>0, <2>1, <2>2, RestIsHonest DEF StageInv, StageShape
<1>6. CASE \E t \in World : Seek(t) \/ Scrub(t)
  <2>1. PICK t, d : /\ EmitTo(slaves, d, transport, Clamp(t, bundle.tMin, bundle.tMax))
                    /\ clock' = SoughtTo(clock, t) /\ UNCHANGED bundle
    BY <1>6 DEF Seek, Sought, Scrub, Emit
  <2>2. DOMAIN clock' = DOMAIN clock /\ clock'.anchorT = Clamp(t, bundle.tMin, bundle.tMax)
    BY <1>0, <2>1 DEF SoughtTo, StageShape
  <2> QED BY <1>0, <2>1, <2>2, EmitIsHonest
<1>7. ASSUME NEW t, PausedAt(t), UNCHANGED bundle PROVE StageInv'
  <2>1. PICK sl, d, st : /\ EmitTo(sl, d, st, Clamp(t, bundle.tMin, bundle.tMax))
                         /\ sl = slaves \/ sl = Ticked(slaves, bundle, st, Now)
                         /\ st = [transport EXCEPT !.playing = FALSE]
                         /\ clock' = [SoughtTo(clock, t) EXCEPT !.playing = FALSE]
    BY <1>7 DEF PausedAt
  <2>2. Tame(sl) /\ DOMAIN st = DOMAIN transport
    BY <1>0, <2>1, TickedIsTame
  <2>3. DOMAIN clock' = DOMAIN clock /\ clock'.anchorT = Clamp(t, bundle.tMin, bundle.tMax)
    BY <1>0, <2>1 DEF SoughtTo, StageShape
  <2> QED BY <1>7, <2>1, <2>2, <2>3, EmitIsHonest
<1>8. CASE \E d \in {-1, 1} : Step(d) \/ Boundary(d)
  BY <1>3, <1>7, <1>8 DEF Step, Boundary
<1>9. CASE \E s \in Range(bundle.playback) : ToggleTile(s.id)
  BY <1>9, ToggleTileIsHonest
<1>10. CASE \/ \E s \in Range(bundle.playback) : Focus(s.id)
            \/ \E range \in Ranges : Select(range)
            \/ Select(<<>>)
  <2>1. \/ \E id : transport' = [transport EXCEPT !.focused = id]
        \/ \E range : transport' = [transport EXCEPT !.selection = range]
    BY <1>10 DEF Focus, Select
  <2>2. DOMAIN transport' = DOMAIN transport /\ transport'.tiles = transport.tiles
    BY <1>0, <2>1 DEF StageShape
  <2> QED BY <1>1, <1>10, <2>2 DEF Focus, Select
<1>11. CASE \/ \E t \in World : Pan(t)
            \/ \E span \in Spans, follow \in BOOLEAN : Zoom(span, follow)
            \/ Fit \/ ZoomToSelection
            \/ \E range \in Ranges : Marquee(range[1], range[2])
  BY <1>2, <1>11 DEF Pan, Zoom, Fit, ZoomToSelection, Marquee, Looked
<1>12. CASE Elapse
  <2>1. PICK stalled :
          slaves' = [v \in VideoIds |-> IF v \in OnStage(transport) /\ slaves[v].src # 0
                                        THEN Advanced(slaves[v], v \in stalled, Length(v)) ELSE slaves[v]]
    BY <1>12 DEF Elapse
  <2>2. ASSUME NEW v, Slave(v), NEW still, NEW length PROVE Advanced(v, still, length).paused = v.paused
    <3>1. PICK pos, seek, trim, older :
            Advanced(v, still, length) = [v EXCEPT !.pos = pos, !.sinceSeek = seek, !.sinceTrim = trim, !.seeks = older]
      BY DEF Advanced
    <3> QED BY <2>2, <3>1 DEF Slave
  <2>3. \A v \in VideoIds : slaves'[v].paused = slaves[v].paused
    BY <1>0, <2>1, <2>2 DEF Tame
  <2>4. PICK since : clock' = [clock EXCEPT !.since = since] /\ UNCHANGED <<bundle, transport, shown>>
    BY <1>12 DEF Elapse
  <2>5. DOMAIN clock' = DOMAIN clock /\ clock'.anchorT = clock.anchorT /\ clock'.playing = clock.playing
    BY <1>0, <2>4 DEF StageShape
  <2> QED BY <1>0, <2>3, <2>4, <2>5, RestIsHonest DEF StageInv, StageShape
<1>13. CASE Loop
  <2>1. CASE clock' = clock
    <3>1. EmitTo(slaves, deck, transport, Now) /\ clock.playing
      BY <1>0, <1>13, <2>1 DEF Loop, Emit, StageShape
    <3> QED BY <1>0, <1>13, <2>1, <3>1, EmitIsHonest DEF Loop
  <2>2. CASE clock' = [clock EXCEPT !.anchorT = bundle.tMax, !.since = 0, !.playing = FALSE] /\ clock' # clock
    <3>1. PICK st : st = [transport EXCEPT !.playing = FALSE] /\ EmitTo(slaves, deck, st, bundle.tMax)
      BY <1>13, <2>2 DEF Loop, Emit
    <3>2. DOMAIN st = DOMAIN transport /\ DOMAIN clock' = DOMAIN clock /\ clock'.anchorT = bundle.tMax
      BY <1>0, <2>2, <3>1 DEF StageShape
    <3> QED BY <1>0, <1>13, <3>1, <3>2, EmitIsHonest DEF Loop
  <2> QED BY <1>13, <2>1, <2>2 DEF Loop
<1>14. CASE \E v \in VideoIds : Seeked(v)
  <2>1. PICK v \in VideoIds : slaves' = [slaves EXCEPT ![v].seeking = FALSE] /\ UNCHANGED <<bundle, clock, transport, shown>>
    BY <1>14 DEF Seeked
  <2>2. \A w \in VideoIds : slaves'[w].paused = slaves[w].paused
    BY <1>0, <2>1 DEF Tame, Slave
  <2> QED BY <1>0, <2>1, <2>2, RestIsHonest DEF StageInv, StageShape
<1>15. CASE (\E b \in Bundles : Refetch(b)) \/ Go
  <2>1. CASE Refetch(bundle) \/ \E b \in Bundles : Refetch(b)
    BY <2>1, ShowsIsHonest DEF Refetch
  <2>2. CASE Go
    <3>1. Mount \/ Unmount \/ UNCHANGED stageVars
      BY <2>2 DEF Go, GoTo, Left
    <3> QED BY <1>2, <3>1, ShowsIsHonest DEF Mount, Unmount, stageVars
  <2> QED BY <1>15, <2>1, <2>2
<1>16. CASE \/ \E id \in feed \cup {None} : SelectIncident(id)
            \/ \E action \in {"ack", "dispatch", "dismiss"} : Press(action)
            \/ \E action \in {"ack", "dispatch"} : Command(action)
            \/ \E f \in SUBSET Incidents : Listed(f)
            \/ \E i \in 1 .. Len(toasts) : DismissToast(i)
            \/ Drop
  BY <1>2, <1>16 DEF SelectIncident, Press, Command, Listed, DismissToast, Drop, stageVars
<1>17. CASE Follows
  BY <1>2, <1>17 DEF Follows, Expire, GiveUp, Restore, StartDrain, DrainOne, Drain, Answered, stageVars
<1>18. CASE UNCHANGED vars
  BY <1>2, <1>18 DEF vars, stageVars
<1> QED BY <1>4, <1>5, <1>6, <1>8, <1>9, <1>10, <1>11, <1>12, <1>13, <1>14, <1>15, <1>16, <1>17, <1>18
        DEF Next, Controls, Watch, Operate, Ran

\* While the clock stands still each tile shows the coverage at the playhead, and the element
\* of a source that has none there is paused (MasterClock.pause and seek tell the listeners
\* where the clock stopped; ForensicsScreen mounts a tile that hears the clock at once).
THEOREM PausedTileStaysHonest == WorkspaceSpec => []PausedTileIsHonest
<1>1. WorkspaceInit => StageInv
  <2> SUFFICES ASSUME WorkspaceInit PROVE StageInv
    OBVIOUS
  <2>1. PICK none : none = [v \in VideoIds |-> NewSlave]
    OBVIOUS
  <2>2. PICK t : t = Clamp(bundle.anchor, bundle.tMin, bundle.tMax)
    OBVIOUS
  <2>3. Tame(none)
    BY <2>1, NewIsTame DEF Tame
  <2>4. /\ slaves = Ticked(none, bundle, Reset(bundle), t) /\ shown = Rendered(bundle, Reset(bundle), t)
        /\ transport = Reset(bundle) /\ clock = [anchorT |-> t, since |-> 0, rate |-> 1, playing |-> FALSE]
    BY <2>1, <2>2 DEF WorkspaceInit, Init, StageInit, Opened
  <2>5. ASSUME NEW v \in VideoIds, v \in OnStage(Reset(bundle))
        PROVE  /\ shown[v] = CoverageAt(SourceOf(bundle, v), t).state
               /\ CoverageAt(SourceOf(bundle, v), t).state # "covered" => slaves[v].paused
    <3>1. PICK cover : cover = CoverageAt(SourceOf(bundle, v), t)
      OBVIOUS
    <3>2. shown[v] = cover.state /\ slaves[v] = Tick(none[v], cover, Reset(bundle).playing, Reset(bundle).rate)
      BY <2>4, <2>5, <3>1 DEF Rendered, Ticked
    <3>3. Slave(none[v]) /\ Bounded(none[v])
      BY <2>3 DEF Tame
    <3>4. cover.state # "covered" => Tick(none[v], cover, Reset(bundle).playing, Reset(bundle).rate).paused = TRUE
      BY <3>3, TickIsTame
    <3> QED BY <3>1, <3>2, <3>4
  <2>6. PausedTileIsHonest
    BY <2>4, <2>5 DEF PausedTileIsHonest, Now, NowOf, OnStage
  <2> QED BY <2>3, <2>4, <2>6, TickedIsTame DEF StageInv, StageShape, Reset
<1>2. StageInv /\ [WorkspaceNext]_workspaceVars => StageInv'
  BY BrowserSteps, StageStep
<1>3. StageInv => PausedTileIsHonest
  BY DEF StageInv
<1> QED BY <1>1, <1>2, <1>3, PTL DEF WorkspaceSpec

=============================================================================
