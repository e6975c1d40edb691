---------------------------- MODULE StreamProofs ----------------------------
(***************************************************************************)
(* Theorems about StreamSync, for any alerts, incidents and bounds: the    *)
(* console holds the connection its subscriptions ask for, and a banner    *)
(* leaves the screen for one of two reasons only.                          *)
(***************************************************************************)
EXTENDS StreamSync, SequenceTheorems, ListFacts

\* No list of alerts names one twice, and the screen holds no more than it may.
ListsOK ==
  /\ IsInjective(banners) /\ Len(banners) <= Limit
  /\ IsInjective(open) /\ ToSet(open) \subseteq raised
  /\ \A n \in 1..MaxMounts : IsInjective(hydrations[n].items)

StreamInv == TypeOK /\ ListsOK /\ OneConnection

-----------------------------------------------------------------------------
(* Lists of alerts *)

\* slice(0, LIMIT): the list itself when it fits, its first elements when not.
LEMMA FirstOfFacts ==
  ASSUME NEW s \in Seq(Alert)
  PROVE  /\ FirstOf(s) \in Seq(Alert)
         /\ Len(FirstOf(s)) <= Limit
         /\ \A i \in 1..Len(FirstOf(s)) : FirstOf(s)[i] = s[i]
         /\ Len(s) <= Limit => FirstOf(s) = s
         /\ Len(s) > Limit => Len(FirstOf(s)) = Limit
         /\ IsInjective(s) => IsInjective(FirstOf(s))
<1> DEFINE n == IF Len(s) < Limit THEN Len(s) ELSE Limit
<1>1. n \in Nat /\ n <= Len(s) /\ n <= Limit /\ Limit \in Nat /\ Len(s) \in Nat
  BY BoundAssumption
<1>2. FirstOf(s) \in Seq(Alert) /\ Len(FirstOf(s)) = n /\ \A i \in 1..n : FirstOf(s)[i] = s[i]
  BY <1>1, SubSeqProperties DEF FirstOf
<1>3. DOMAIN FirstOf(s) = 1..n /\ DOMAIN s = 1..Len(s)
  BY <1>2
<1>4. Len(s) <= Limit => FirstOf(s) = s
  BY <1>1, <1>2, <1>3
<1>5. IsInjective(s) => IsInjective(FirstOf(s))
  BY <1>1, <1>2, <1>3 DEF IsInjective
<1> QED BY <1>1, <1>2, <1>4, <1>5

\* Joining two lists that share no element.
LEMMA JoinFacts ==
  ASSUME NEW s \in Seq(Alert), NEW t \in Seq(Alert)
  PROVE  /\ s \o t \in Seq(Alert) /\ Len(s \o t) = Len(s) + Len(t)
         /\ \A i \in 1..Len(s) : (s \o t)[i] = s[i]
         /\ ToSet(s \o t) = ToSet(s) \cup ToSet(t)
         /\ IsInjective(s) /\ IsInjective(t) /\ ToSet(s) \cap ToSet(t) = {} => IsInjective(s \o t)
<1>1. /\ s \o t \in Seq(Alert) /\ Len(s \o t) = Len(s) + Len(t)
      /\ \A i \in 1..Len(s) : (s \o t)[i] = s[i]
      /\ \A i \in 1..Len(t) : (s \o t)[Len(s) + i] = t[i]
      /\ Len(s) \in Nat /\ Len(t) \in Nat
      /\ DOMAIN s = 1..Len(s) /\ DOMAIN t = 1..Len(t) /\ DOMAIN (s \o t) = 1..(Len(s) + Len(t))
  OBVIOUS
<1>2. ASSUME NEW i \in 1..(Len(s) + Len(t))
      PROVE  \/ i \in 1..Len(s) /\ (s \o t)[i] = s[i]
             \/ i - Len(s) \in 1..Len(t) /\ (s \o t)[i] = t[i - Len(s)]
  <2>1. CASE i <= Len(s)
    BY <1>1, <2>1
  <2>2. CASE i > Len(s)
    <3>1. i - Len(s) \in 1..Len(t) /\ i = Len(s) + (i - Len(s))
      BY <1>1, <2>2
    <3> QED BY <1>1, <3>1
  <2> QED BY <1>1, <2>1, <2>2
<1>3. ToSet(s \o t) = ToSet(s) \cup ToSet(t)
  <2>1. ASSUME NEW x \in ToSet(s \o t) PROVE x \in ToSet(s) \cup ToSet(t)
    BY <1>1, <1>2 DEF ToSet
  <2>2. ASSUME NEW x \in ToSet(s) PROVE x \in ToSet(s \o t)
    <3>1. PICK i \in 1..Len(s) : x = s[i]
      BY <1>1 DEF ToSet
    <3>2. i \in DOMAIN (s \o t) /\ (s \o t)[i] = x
      BY <1>1, <3>1
    <3> QED BY <3>2 DEF ToSet
  <2>3. ASSUME NEW x \in ToSet(t) PROVE x \in ToSet(s \o t)
    <3>1. PICK i \in 1..Len(t) : x = t[i]
      BY <1>1 DEF ToSet
    <3>2. Len(s) + i \in DOMAIN (s \o t) /\ (s \o t)[Len(s) + i] = x
      BY <1>1, <3>1
    <3> QED BY <3>2 DEF ToSet
  <2> QED BY <2>1, <2>2, <2>3
<1>4. ASSUME IsInjective(s), IsInjective(t), ToSet(s) \cap ToSet(t) = {} PROVE IsInjective(s \o t)
  <2> SUFFICES ASSUME NEW i \in 1..(Len(s) + Len(t)), NEW j \in 1..(Len(s) + Len(t)), (s \o t)[i] = (s \o t)[j]
               PROVE  i = j
    BY <1>1 DEF IsInjective
  <2>1. CASE i \in 1..Len(s) /\ (s \o t)[i] = s[i] /\ j \in 1..Len(s) /\ (s \o t)[j] = s[j]
    BY <1>1, <1>4, <2>1 DEF IsInjective
  <2>2. CASE /\ i - Len(s) \in 1..Len(t) /\ (s \o t)[i] = t[i - Len(s)]
             /\ j - Len(s) \in 1..Len(t) /\ (s \o t)[j] = t[j - Len(s)]
    <3>1. i - Len(s) = j - Len(s)
      BY <1>1, <1>4, <2>2 DEF IsInjective
    <3> QED BY <1>1, <3>1
  <2>3. \A k \in 1..Len(s), l \in 1..Len(t) : s[k] # t[l]
    BY <1>1, <1>4 DEF ToSet
  <2> QED BY <1>2, <2>1, <2>2, <2>3
<1> QED BY <1>1, <1>3, <1>4

\* filter(p => p.id !== id)
LEMMA WithoutFacts ==
  ASSUME NEW s \in Seq(Alert), NEW a
  PROVE  /\ Without(s, a) \in Seq(Alert) /\ Len(Without(s, a)) <= Len(s)
         /\ ToSet(Without(s, a)) = ToSet(s) \ {a}
         /\ a \notin ToSet(s) => Without(s, a) = s
         /\ a \in ToSet(s) => Len(Without(s, a)) < Len(s)
         /\ IsInjective(s) => IsInjective(Without(s, a))
<1>1. ToSet(s) \subseteq Alert
  BY DEF ToSet
<1> QED BY <1>1, FilterFacts DEF Without

\* A new list of one alert and the others on the screen.
LEMMA RaisedFacts ==
  ASSUME NEW s \in Seq(Alert), IsInjective(s), NEW a \in Alert
  PROVE  LET r == <<a>> \o Without(s, a)
         IN  /\ r \in Seq(Alert) /\ IsInjective(r) /\ r[1] = a
             /\ ToSet(s) \subseteq ToSet(r)
             /\ a \in ToSet(s) => Len(r) <= Len(s)
             /\ a \notin ToSet(s) => r = <<a>> \o s
<1> DEFINE w == Without(s, a)
<1>1. /\ w \in Seq(Alert) /\ ToSet(w) = ToSet(s) \ {a} /\ IsInjective(w)
      /\ a \notin ToSet(s) => w = s
      /\ a \in ToSet(s) => Len(w) < Len(s)
  BY WithoutFacts
<1>2. <<a>> \in Seq(Alert) /\ Len(<<a>>) = 1 /\ <<a>>[1] = a /\ ToSet(<<a>>) = {a} /\ IsInjective(<<a>>)
  BY DEF ToSet, IsInjective
<1> HIDE DEF w
<1>3. /\ <<a>> \o w \in Seq(Alert) /\ Len(<<a>> \o w) = 1 + Len(w)
      /\ (<<a>> \o w)[1] = a
      /\ ToSet(<<a>> \o w) = {a} \cup ToSet(w)
      /\ IsInjective(<<a>> \o w)
  <2>1. {a} \cap ToSet(w) = {}
    BY <1>1
  <2>2. PICK t \in Seq(Alert) : t = <<a>>
    BY <1>2
  <2>3. /\ t \o w \in Seq(Alert) /\ Len(t \o w) = Len(t) + Len(w)
        /\ \A i \in 1..Len(t) : (t \o w)[i] = t[i]
        /\ ToSet(t \o w) = ToSet(t) \cup ToSet(w)
        /\ IsInjective(t \o w)
    BY <1>1, <1>2, <2>1, <2>2, JoinFacts
  <2>4. Len(t) = 1 /\ t[1] = a /\ ToSet(t) = {a}
    BY <1>2, <2>2
  <2>5. (t \o w)[1] = a
    BY <2>3, <2>4
  <2> QED BY <2>2, <2>3, <2>4, <2>5
<1> QED BY <1>1, <1>3 DEF w

-----------------------------------------------------------------------------
(* The server, the link and the console keep their types *)

\* The list requests a step leaves behind.
LEMMA ListKinds ==
  /\ {NoList, ListAsked, ListDue, [NoList EXCEPT !.phase = "failed"]} \subseteq ListRequest
  /\ \A n \in 0..Retries : [ListAsked EXCEPT !.retries = n] \in ListRequest
  /\ \A l \in ListRequest, v \in [Incident -> 0..MaxVersion] :
        [l EXCEPT !.phase = "answered", !.versions = v] \in ListRequest
<1> DEFINE none == [i \in Incident |-> 0]
<1>1. none \in [Incident -> 0..MaxVersion] /\ 0 \in 0..Retries
  BY BoundAssumption
<1>2. /\ NoList = [phase |-> "none", versions |-> none, retries |-> 0]
      /\ ListAsked = [phase |-> "asked", versions |-> none, retries |-> 0]
      /\ ListDue = [phase |-> "due", versions |-> none, retries |-> 0]
      /\ [NoList EXCEPT !.phase = "failed"] = [phase |-> "failed", versions |-> none, retries |-> 0]
  BY DEF NoList, ListAsked, ListDue
<1>3. \A n : [ListAsked EXCEPT !.retries = n] = [phase |-> "asked", versions |-> none, retries |-> n]
  BY <1>2
<1> HIDE DEF none
<1>4. {NoList, ListAsked, ListDue, [NoList EXCEPT !.phase = "failed"]} \subseteq ListRequest
  BY <1>1, <1>2 DEF ListRequest
<1>5. \A n \in 0..Retries : [ListAsked EXCEPT !.retries = n] \in ListRequest
  BY <1>1, <1>3 DEF ListRequest
<1>6. \A l \in ListRequest, v \in [Incident -> 0..MaxVersion] :
        [l EXCEPT !.phase = "answered", !.versions = v] \in ListRequest
  BY DEF ListRequest
<1> QED BY <1>4, <1>5, <1>6

LEMMA StreamInitial == Init => StreamInv
<1> SUFFICES ASSUME Init PROVE StreamInv
  OBVIOUS
<1> USE BoundAssumption DEF Init
<1>1. TypeOK
  <2>1. <<>> \in Seq(Alert) /\ <<>> \in Seq(Frame)
    OBVIOUS
  <2>2. NoRequest \in [phase : {"none", "asked", "answered", "done", "failed"}, items : Seq(Alert)]
    BY <2>1 DEF NoRequest
  <2>3. ListDue \in ListRequest
    BY ListKinds
  <2>4. hydrations \in [1..MaxMounts -> [phase : {"none", "asked", "answered", "done", "failed"}, items : Seq(Alert)]]
    BY <2>2
  <2>5. version \in [Incident -> 0..MaxVersion] /\ cached \in [Incident -> 0..MaxVersion]
    OBVIOUS
  <2>6. refCount \in Nat /\ attempt \in Nat /\ mounts \in Nat /\ drops \in Nat
    OBVIOUS
  <2> HIDE DEF Init
  <2> QED BY <2>1, <2>3, <2>4, <2>5, <2>6 DEF TypeOK, Init
<1>2. ListsOK
  BY DEF ListsOK, IsInjective, ToSet, NoRequest
<1> QED BY <1>1, <1>2 DEF StreamInv, OneConnection

LEMMA PublishType ==
  ASSUME TypeOK, NEW type, NEW subject, NEW v, Publish(type, subject, v),
         [type |-> type, subject |-> subject, version |-> v] \in Frame
  PROVE  wire' \in Seq(Frame)
<1>1. PICK f \in Frame : f = [type |-> type, subject |-> subject, version |-> v]
  OBVIOUS
<1>2. wire' = wire \/ wire' = Append(wire, f)
  BY <1>1 DEF Publish
<1>3. wire \in Seq(Frame)
  BY DEF TypeOK
<1> QED BY <1>2, <1>3

\* What a handled frame leaves of the banners.
LEMMA HandleFacts ==
  ASSUME TypeOK, NEW f \in Frame, Handle(f)
  PROVE  /\ f.type = "raised" => f.subject \in Alert
                                 /\ banners' = FirstOf(<<f.subject>> \o Without(banners, f.subject))
         /\ f.type = "cleared" => f.subject \in Alert /\ banners' = Without(banners, f.subject)
                                  /\ f = [type |-> "cleared", subject |-> f.subject, version |-> 0]
         /\ f.type \notin {"raised", "cleared"} => banners' = banners
         /\ f.type \in {"created", "updated"} => f.subject \in Incident /\ f.version \in 1..MaxVersion
         /\ f.type \in {"raised", "cleared", "created", "updated"}
<1>1. f \in [type : {"raised", "cleared"}, subject : Alert, version : {0}]
      \/ f \in [type : {"created", "updated"}, subject : Incident, version : 1..MaxVersion]
  BY DEF Frame
<1> QED BY <1>1 DEF Handle

\* The banners stay a list of distinct alerts within the limit.
LEMMA BannersStep ==
  ASSUME TypeOK, ListsOK, [Next]_vars
  PROVE  banners' \in Seq(Alert) /\ IsInjective(banners') /\ Len(banners') <= Limit
<1>1. CASE Deliver
  <2>1. PICK f \in Frame : Handle(f)
    BY <1>1 DEF Deliver, TypeOK
  <2>2. CASE f.type = "raised"
    <3>1. f.subject \in Alert /\ banners' = FirstOf(<<f.subject>> \o Without(banners, f.subject))
      BY <2>1, <2>2, HandleFacts
    <3>2. PICK r \in Seq(Alert) : r = <<f.subject>> \o Without(banners, f.subject) /\ IsInjective(r)
      BY <3>1, RaisedFacts DEF TypeOK, ListsOK
    <3> QED BY <3>1, <3>2, FirstOfFacts
  <2>3. CASE f.type = "cleared"
    <3>1. banners' = Without(banners, f.subject) /\ Len(banners) \in Nat /\ Limit \in Nat
      <4>1. banners' = Without(banners, f.subject)
        BY <2>1, <2>3, HandleFacts
      <4> QED BY <4>1, BoundAssumption DEF TypeOK
    <3>2. Without(banners, f.subject) \in Seq(Alert) /\ Len(Without(banners, f.subject)) <= Len(banners)
          /\ IsInjective(Without(banners, f.subject))
      BY WithoutFacts DEF TypeOK, ListsOK
    <3>3. Len(Without(banners, f.subject)) \in Nat
      BY <3>2
    <3> QED BY <3>1, <3>2, <3>3 DEF ListsOK
  <2> QED BY <2>1, <2>2, <2>3, HandleFacts DEF TypeOK, ListsOK
<1>2. ASSUME NEW n \in 1..MaxMounts, Hydrate(n)
      PROVE  banners' \in Seq(Alert) /\ IsInjective(banners') /\ Len(banners') <= Limit
  <2> DEFINE items == hydrations[n].items
  <2> DEFINE kept == Filter(items, Alert \ Shown)
  <2>1. items \in Seq(Alert) /\ IsInjective(items) /\ banners \in Seq(Alert)
    BY DEF TypeOK, ListsOK
  <2>2. kept \in Seq(Alert) /\ IsInjective(kept) /\ ToSet(banners) \cap ToSet(kept) = {}
    BY <2>1, FilterFacts DEF Shown
  <2>3. banners \o kept \in Seq(Alert) /\ IsInjective(banners \o kept)
    <3> HIDE DEF kept
    <3> QED BY <2>1, <2>2, JoinFacts DEF ListsOK
  <2>4. banners' = banners \/ banners' = FirstOf(banners \o kept)
    BY <1>2 DEF Hydrate, Merged
  <2> HIDE DEF kept
  <2> QED BY <2>1, <2>3, <2>4, FirstOfFacts DEF ListsOK
<1>3. CASE ~ Deliver /\ ~ \E n \in 1..MaxMounts : Hydrate(n)
  <2>1. banners' = banners
    BY <1>3 DEF Next, vars, Raise, Supersede, Change, ChangeSilently, Connect, Disconnect, Attach, Drop, Reopen,
       Answer, HydrateFails, Flush, ServeList, ListArrives, ListLost, lists
  <2> QED BY <2>1 DEF TypeOK, ListsOK
<1> QED BY <1>1, <1>2, <1>3

Hydration == [phase : {"none", "asked", "answered", "done", "failed"}, items : Seq(Alert)]

\* raisePreAlert puts a new alert first, and supersedePreAlert takes one out.
LEMMA OpenStep ==
  ASSUME TypeOK, ListsOK, [Next]_vars
  PROVE  /\ open' \in Seq(Alert) /\ raised' \subseteq Alert
         /\ IsInjective(open') /\ ToSet(open') \subseteq raised'
<1>1. ASSUME NEW a \in Alert, Raise(a), a \notin raised
      PROVE  /\ open' \in Seq(Alert) /\ raised' \subseteq Alert
             /\ IsInjective(open') /\ ToSet(open') \subseteq raised'
  <2>0. <<a>> \in Seq(Alert)
    OBVIOUS
  <2>1. PICK t \in Seq(Alert) : t = <<a>>
    BY <2>0
  <2>2. IsInjective(t) /\ ToSet(t) = {a}
    BY <2>1 DEF IsInjective, ToSet
  <2>3. open \in Seq(Alert) /\ IsInjective(open) /\ ToSet(open) \cap {a} = {}
    BY <1>1 DEF TypeOK, ListsOK
  <2>4. t \o open \in Seq(Alert) /\ IsInjective(t \o open) /\ ToSet(t \o open) = {a} \cup ToSet(open)
    BY <2>2, <2>3, JoinFacts
  <2>5. open' = t \o open /\ raised' = raised \cup {a}
    BY <1>1, <2>1 DEF Raise
  <2> QED BY <2>4, <2>5 DEF TypeOK, ListsOK
<1>2. ASSUME NEW a \in Alert, Supersede(a)
      PROVE  /\ open' \in Seq(Alert) /\ raised' \subseteq Alert
             /\ IsInjective(open') /\ ToSet(open') \subseteq raised'
  BY <1>2, WithoutFacts DEF Supersede, TypeOK, ListsOK
<1>3. ASSUME NEW a \in Alert, Raise(a), a \in raised PROVE open' = open /\ raised' = raised
  BY <1>3 DEF Raise
<1>4. CASE ~ \E a \in Alert : Raise(a) \/ Supersede(a)
  <2>1. open' = open /\ raised' = raised
    BY <1>4 DEF Next, vars, server, Change, ChangeSilently, Connect, Disconnect, Attach, Drop, Reopen,
       Answer, Hydrate, HydrateFails, Deliver, Flush, ServeList, ListArrives, ListLost
  <2> QED BY <2>1 DEF TypeOK, ListsOK
<1> QED BY <1>1, <1>2, <1>3, <1>4 DEF TypeOK, ListsOK

\* A request for the open alerts carries the answer it got and nothing after it is done.
LEMMA HydrationsStep ==
  ASSUME TypeOK, ListsOK, [Next]_vars
  PROVE  /\ hydrations' \in [1..MaxMounts -> Hydration]
         /\ \A n \in 1..MaxMounts : IsInjective(hydrations'[n].items)
<1>1. hydrations \in [1..MaxMounts -> Hydration] /\ open \in Seq(Alert)
  BY DEF TypeOK, Hydration
<1>2. ASSUME NEW n \in 1..MaxMounts, NEW h \in Hydration, IsInjective(h.items),
             hydrations' = [hydrations EXCEPT ![n] = h]
      PROVE  /\ hydrations' \in [1..MaxMounts -> Hydration]
             /\ \A m \in 1..MaxMounts : IsInjective(hydrations'[m].items)
  BY <1>1, <1>2 DEF ListsOK
<1>3. ASSUME NEW n \in 1..MaxMounts, Answer(n)
      PROVE  \E h \in Hydration : IsInjective(h.items) /\ hydrations' = [hydrations EXCEPT ![n] = h]
  <2>1. [phase |-> "answered", items |-> open] \in Hydration
    BY <1>1 DEF Hydration
  <2> QED BY <1>3, <2>1 DEF Answer, ListsOK
<1>4. ASSUME NEW n \in 1..MaxMounts, Hydrate(n) \/ HydrateFails(n)
      PROVE  \E h \in Hydration : IsInjective(h.items) /\ hydrations' = [hydrations EXCEPT ![n] = h]
  <2>1. \A p \in {"done", "failed"} : [NoRequest EXCEPT !.phase = p] \in Hydration
                                      /\ IsInjective([NoRequest EXCEPT !.phase = p].items)
    <3>1. <<>> \in Seq(Alert) /\ IsInjective(<<>>)
      BY DEF IsInjective
    <3>2. \A p \in {"done", "failed"} : [NoRequest EXCEPT !.phase = p] = [phase |-> p, items |-> <<>>]
      BY DEF NoRequest
    <3> QED BY <3>1, <3>2 DEF Hydration
  <2>2. \E p \in {"done", "failed"} : hydrations' = [hydrations EXCEPT ![n] = [NoRequest EXCEPT !.phase = p]]
    BY <1>4 DEF Hydrate, HydrateFails
  <2> QED BY <2>1, <2>2
<1>5. ASSUME Connect, hydrations' # hydrations
      PROVE  \E n \in 1..MaxMounts, h \in Hydration :
               IsInjective(h.items) /\ hydrations' = [hydrations EXCEPT ![n] = h]
  <2>1. mounts + 1 \in 1..MaxMounts
    BY <1>5, BoundAssumption DEF Connect, TypeOK
  <2>2. PICK n \in 1..MaxMounts : hydrations' = [hydrations EXCEPT ![n].phase = "asked"]
    BY <1>5, <2>1 DEF Connect
  <2>3. hydrations[n] \in Hydration /\ IsInjective(hydrations[n].items)
    BY <1>1 DEF ListsOK
  <2>4. [hydrations[n] EXCEPT !.phase = "asked"] \in Hydration
        /\ IsInjective([hydrations[n] EXCEPT !.phase = "asked"].items)
    BY <2>3 DEF Hydration
  <2>5. hydrations' = [hydrations EXCEPT ![n] = [hydrations[n] EXCEPT !.phase = "asked"]]
    BY <2>2
  <2> QED BY <2>4, <2>5
<1>6. CASE ~ Connect /\ ~ \E n \in 1..MaxMounts : Answer(n) \/ Hydrate(n) \/ HydrateFails(n)
  <2>1. hydrations' = hydrations
    BY <1>6 DEF Next, vars, Raise, Supersede, Change, ChangeSilently, Disconnect, Attach, Drop, Reopen,
       Deliver, Flush, ServeList, ListArrives, ListLost
  <2> QED BY <1>1, <2>1 DEF ListsOK
<1> QED BY <1>1, <1>2, <1>3, <1>4, <1>5, <1>6 DEF ListsOK

\* Rows, frames, lists and the link keep their types.
LEMMA StreamTypeStep == TypeOK /\ ListsOK /\ [Next]_vars => TypeOK'
<1> SUFFICES ASSUME TypeOK, ListsOK, [Next]_vars PROVE TypeOK'
  OBVIOUS
<1> USE BoundAssumption
<1>1. open' \in Seq(Alert) /\ raised' \subseteq Alert /\ banners' \in Seq(Alert)
      /\ hydrations' \in [1..MaxMounts -> Hydration]
  BY OpenStep, BannersStep, HydrationsStep
<1> DEFINE RowsType == /\ version' \in [Incident -> 0..MaxVersion] /\ cached' \in [Incident -> 0..MaxVersion]
                       /\ missed' \subseteq Incident /\ heard' \subseteq Incident
                       /\ wire' \in Seq(Frame)
<1> DEFINE LinkType == /\ conn' \in {"closed", "opening", "live", "waiting"} /\ timer' \in BOOLEAN
                       /\ state' \in {"offline", "connecting", "reconnecting", "live"}
                       /\ refCount' \in Nat /\ attempt' \in Nat /\ mounts' \in Nat /\ drops' \in Nat
                       /\ dirty' \in BOOLEAN /\ loaded' \in BOOLEAN
                       /\ list' \in ListRequest
<1>2. ASSUME NEW a \in Alert, Raise(a) \/ Supersede(a) PROVE RowsType /\ LinkType
  <2>1. \A type \in {"raised", "cleared"} : [type |-> type, subject |-> a, version |-> 0] \in Frame
    BY DEF Frame
  <2>2. wire' \in Seq(Frame)
    BY <1>2, <2>1, PublishType DEF Raise, Supersede
  <2> QED BY <1>2, <2>2 DEF Raise, Supersede, link, lists, TypeOK
<1>3. ASSUME NEW i \in Incident, Change(i) PROVE RowsType /\ LinkType
  <2>1. version[i] + 1 \in 1..MaxVersion /\ version' \in [Incident -> 0..MaxVersion]
    BY <1>3 DEF Change, TypeOK
  <2>2. \A type \in {"created", "updated"} : [type |-> type, subject |-> i, version |-> version[i] + 1] \in Frame
    BY <2>1 DEF Frame
  <2>3. wire' \in Seq(Frame)
    BY <1>3, <2>2, PublishType DEF Change
  <2> QED BY <1>3, <2>1, <2>3 DEF Change, link, lists, TypeOK
<1>4. ASSUME NEW i \in Incident, ChangeSilently(i) PROVE RowsType /\ LinkType
  <2>1. version[i] + 1 \in 0..MaxVersion /\ version' \in [Incident -> 0..MaxVersion]
    BY <1>4 DEF ChangeSilently, TypeOK
  <2>2. RowsType
    BY <1>4, <2>1 DEF ChangeSilently, lists, TypeOK
  <2>3. LinkType
    BY <1>4 DEF ChangeSilently, link, lists, TypeOK
  <2> QED BY <2>2, <2>3
<1>5. ASSUME Connect PROVE RowsType /\ LinkType
  <2>1. ListAsked \in ListRequest
    BY ListKinds
  <2>2. RowsType
    BY <1>5 DEF Connect, server, TypeOK
  <2>3. LinkType
    <3>1. refCount' \in Nat /\ mounts' \in Nat
      BY <1>5 DEF Connect, TypeOK
    <3>2. conn' \in {"closed", "opening", "live", "waiting"} /\ state' \in {"offline", "connecting", "reconnecting", "live"}
      BY <1>5 DEF Connect, TypeOK
    <3>3. list' \in ListRequest
      BY <1>5, <2>1 DEF Connect, TypeOK
    <3> QED BY <1>5, <3>1, <3>2, <3>3 DEF Connect, TypeOK
  <2> QED BY <2>2, <2>3
<1>0. wire \in Seq(Frame) /\ <<>> \in Seq(Frame) /\ refCount \in Nat /\ attempt \in Nat /\ mounts \in Nat /\ drops \in Nat
  <2>1. <<>> \in Seq(Frame)
    OBVIOUS
  <2> QED BY <2>1 DEF TypeOK
<1>6. ASSUME Disconnect PROVE RowsType /\ LinkType
  <2>1. RowsType
    <3>1. wire' = wire \/ wire' = <<>>
      BY <1>6 DEF Disconnect
    <3>2. wire' \in Seq(Frame)
      BY <1>0, <3>1
    <3> QED BY <1>6, <3>2 DEF Disconnect, server, TypeOK
  <2>2. LinkType
    <3>1. refCount' \in Nat
      BY <1>6 DEF Disconnect, TypeOK
    <3>2. /\ conn' \in {"closed", "opening", "live", "waiting"} /\ timer' \in BOOLEAN
          /\ state' \in {"offline", "connecting", "reconnecting", "live"}
      BY <1>6 DEF Disconnect, TypeOK
    <3>3. list' \in ListRequest
      BY <1>6, ListKinds DEF Disconnect, ListLeft, TypeOK
    <3> QED BY <1>6, <3>1, <3>2, <3>3 DEF Disconnect, TypeOK
  <2> QED BY <2>1, <2>2
<1>7. ASSUME Attach \/ Drop \/ Reopen PROVE RowsType /\ LinkType
  <2>1. RowsType
    <3>1. wire' = wire \/ wire' = <<>>
      BY <1>7 DEF Attach, Drop, Reopen
    <3>2. wire' \in Seq(Frame)
      BY <1>0, <3>1
    <3> QED BY <1>7, <3>2 DEF Attach, Drop, Reopen, server, lists, TypeOK
  <2>2. LinkType
    <3>1. refCount' = refCount /\ mounts' = mounts
      BY <1>7 DEF Attach, Drop, Reopen
    <3>a. drops' = drops \/ drops' = drops + 1
      BY <1>7 DEF Attach, Drop, Reopen
    <3>b. attempt' = attempt \/ attempt' = 0 \/ attempt' = attempt + 1
      BY <1>7 DEF Attach, Drop, Reopen
    <3>c. refCount' \in Nat /\ attempt' \in Nat /\ mounts' \in Nat /\ drops' \in Nat
      BY <1>0, <3>1, <3>a, <3>b
    <3>2. /\ conn' \in {"closed", "opening", "live", "waiting"} /\ timer' \in BOOLEAN
          /\ state' \in {"offline", "connecting", "reconnecting", "live"}
      BY <1>7 DEF Attach, Drop, Reopen, TypeOK
    <3> QED BY <1>7, <3>c, <3>2 DEF Attach, Drop, Reopen, lists, TypeOK
  <2> QED BY <2>1, <2>2
<1>8. ASSUME NEW n \in 1..MaxMounts, Answer(n) \/ Hydrate(n) \/ HydrateFails(n) PROVE RowsType /\ LinkType
  BY <1>8 DEF Answer, Hydrate, HydrateFails, server, link, lists, TypeOK
<1>9. ASSUME Deliver PROVE RowsType /\ LinkType
  <2>1. PICK f \in Frame : Handle(f) /\ wire' = Tail(wire) /\ wire # <<>>
    BY <1>9 DEF Deliver, TypeOK
  <2>2. wire' \in Seq(Frame)
    BY <2>1 DEF TypeOK
  <2>3. dirty' \in BOOLEAN /\ heard' \subseteq Incident /\ cached' \in [Incident -> 0..MaxVersion]
    <3>1. f.type \in {"created", "updated"} => f.subject \in Incident /\ f.version \in 0..MaxVersion
      <4>1. f.type \in {"created", "updated"} => f.subject \in Incident /\ f.version \in 1..MaxVersion
        BY <2>1, HandleFacts
      <4> QED BY <4>1
    <3>2. cached \in [Incident -> 0..MaxVersion] /\ heard \subseteq Incident /\ dirty \in BOOLEAN
      BY DEF TypeOK
    <3>3. dirty' \in BOOLEAN /\ heard' \subseteq Incident
      BY <2>1, <3>1, <3>2 DEF Handle
    <3>4. cached' \in [Incident -> 0..MaxVersion]
      BY <2>1, <3>1, <3>2 DEF Handle
    <3> QED BY <3>3, <3>4
  <2>4. RowsType
    BY <1>9, <2>2, <2>3 DEF Deliver, server, TypeOK
  <2>5. LinkType
    BY <1>9, <2>3 DEF Deliver, link, TypeOK
  <2> QED BY <2>4, <2>5
<1>10. ASSUME Flush PROVE RowsType /\ LinkType
  <2>1. list' \in ListRequest
    BY <1>10, ListKinds DEF Flush, TypeOK
  <2> QED BY <1>10, <2>1 DEF Flush, server, link, TypeOK
<1>11. ASSUME ServeList PROVE RowsType /\ LinkType
  <2>1. [list EXCEPT !.phase = "answered", !.versions = version] \in ListRequest
    BY ListKinds DEF TypeOK
  <2> QED BY <1>11, <2>1 DEF ServeList, server, link, TypeOK
<1>12. ASSUME ListArrives PROVE RowsType /\ LinkType
  <2>1. NoList \in ListRequest /\ list.versions \in [Incident -> 0..MaxVersion]
    BY ListKinds DEF TypeOK, ListRequest
  <2> QED BY <1>12, <2>1 DEF ListArrives, server, link, TypeOK
<1>14. ASSUME ListLost PROVE RowsType /\ LinkType
  <2>1. list.retries \in 0..Retries
    BY DEF TypeOK, ListRequest
  <2>2. CASE list.retries < Retries
    <3>1. list.retries + 1 \in 0..Retries
      BY <2>1, <2>2
    <3>2. list' \in ListRequest
      BY <1>14, <2>2, <3>1, ListKinds DEF ListLost, TypeOK
    <3> QED BY <1>14, <3>2 DEF ListLost, server, link, TypeOK
  <2>3. CASE ~ list.retries < Retries
    <3>1. list' \in ListRequest
      BY <1>14, <2>3, ListKinds DEF ListLost
    <3> QED BY <1>14, <3>1 DEF ListLost, server, link, TypeOK
  <2> QED BY <2>2, <2>3
<1>13. ASSUME UNCHANGED vars PROVE RowsType /\ LinkType
  BY <1>13 DEF vars, server, link, lists, TypeOK
<1>15. RowsType /\ LinkType
  <2> HIDE DEF RowsType, LinkType
  <2> QED
    BY <1>2, <1>3, <1>4, <1>5, <1>6, <1>7, <1>8, <1>9, <1>10, <1>11, <1>12, <1>13, <1>14 DEF Next
<1> QED BY <1>1, <1>15 DEF TypeOK, Hydration

LEMMA ListsStep == TypeOK /\ ListsOK /\ [Next]_vars => ListsOK'
  BY OpenStep, BannersStep, HydrationsStep DEF ListsOK

\* A connection is opened by the first subscriber or by the timer of one that was lost,
\* and the last subscriber takes both away.
LEMMA ConnectionStep == TypeOK /\ OneConnection /\ [Next]_vars => OneConnection'
<1> SUFFICES ASSUME TypeOK, OneConnection, [Next]_vars PROVE OneConnection'
  OBVIOUS
<1> USE DEF OneConnection
<1>1. refCount \in Nat
  BY DEF TypeOK
<1>2. CASE Connect
  BY <1>1, <1>2 DEF Connect
<1>3. CASE Disconnect
  BY <1>1, <1>3 DEF Disconnect
<1>4. CASE Attach
  BY <1>1, <1>4 DEF Attach
<1>5. CASE Drop
  BY <1>1, <1>5 DEF Drop
<1>6. CASE Reopen
  BY <1>1, <1>6 DEF Reopen
<1>7. CASE ~ (Connect \/ Disconnect \/ Attach \/ Drop \/ Reopen)
  <2>1. refCount' = refCount /\ conn' = conn /\ timer' = timer
    BY <1>7 DEF Next, vars, link, Raise, Supersede, Change, ChangeSilently, Answer, Hydrate, HydrateFails,
       Deliver, Flush, ServeList, ListArrives, ListLost
  <2> QED BY <2>1
<1> QED BY <1>2, <1>3, <1>4, <1>5, <1>6, <1>7

LEMMA StreamStep == StreamInv /\ [Next]_vars => StreamInv'
  BY StreamTypeStep, ListsStep, ConnectionStep DEF StreamInv

-----------------------------------------------------------------------------
(* What makes a banner leave *)

\* Handling a frame takes a banner off only by its clearing, or because the screen is full
\* and a newer alert is put first.
LEMMA HandleKeeps ==
  ASSUME StreamInv, NEW f \in Frame, Handle(f), NEW a \in Shown, a \notin ToSet(banners')
  PROVE  \/ f = [type |-> "cleared", subject |-> a, version |-> 0]
         \/ Len(banners') = Limit /\ banners'[1] # banners[1]
<1> USE DEF StreamInv
<1>1. banners \in Seq(Alert) /\ IsInjective(banners) /\ Len(banners) <= Limit /\ Len(banners) \in Nat
      /\ DOMAIN banners = 1..Len(banners) /\ Limit \in Nat
  BY BoundAssumption DEF TypeOK, ListsOK
<1>2. CASE f.type = "cleared"
  <2>1. banners' = Without(banners, f.subject) /\ f = [type |-> "cleared", subject |-> f.subject, version |-> 0]
    BY <1>2, HandleFacts
  <2>2. ToSet(banners') = ToSet(banners) \ {f.subject}
    BY <1>1, <2>1, WithoutFacts
  <2> QED BY <2>1, <2>2 DEF Shown
<1>3. CASE f.type = "raised"
  <2>1. f.subject \in Alert /\ banners' = FirstOf(<<f.subject>> \o Without(banners, f.subject))
    BY <1>3, HandleFacts
  <2>2. PICK s \in Alert : s = f.subject
    BY <2>1
  <2>3. PICK r : r = <<s>> \o Without(banners, s)
    OBVIOUS
  <2>4. /\ r \in Seq(Alert) /\ r[1] = s /\ ToSet(banners) \subseteq ToSet(r)
        /\ s \in ToSet(banners) => Len(r) <= Len(banners)
        /\ s \notin ToSet(banners) => r = <<s>> \o banners
    BY <1>1, <2>3, RaisedFacts
  <2>5. /\ banners' = FirstOf(r)
        /\ \A i \in 1..Len(FirstOf(r)) : FirstOf(r)[i] = r[i]
        /\ Len(r) <= Limit => FirstOf(r) = r
        /\ Len(r) > Limit => Len(FirstOf(r)) = Limit
    BY <2>1, <2>2, <2>3, <2>4, FirstOfFacts
  <2>6. Len(r) > Limit /\ s \notin ToSet(banners)
    BY <1>1, <2>4, <2>5 DEF Shown
  <2>7. Len(banners) >= 1
    BY <1>1 DEF Shown, ToSet
  <2>8. Len(banners') = Limit /\ banners'[1] = s
    BY <1>1, <2>4, <2>5, <2>6, <2>7
  <2>9. banners[1] \in ToSet(banners)
    BY <1>1, <2>7 DEF ToSet
  <2> QED BY <2>6, <2>8, <2>9
<1>4. CASE f.type \notin {"raised", "cleared"}
  BY <1>4, HandleFacts DEF Shown
<1> QED BY <1>2, <1>3, <1>4

\* A hydration that answers late puts its alerts after those on the screen.
LEMMA HydrateKeeps ==
  ASSUME StreamInv, NEW n \in 1..MaxMounts, Hydrate(n)
  PROVE  Shown \subseteq ToSet(banners')
<1> USE DEF StreamInv
<1> DEFINE items == hydrations[n].items
<1>0. items \in Seq(Alert)
  BY DEF TypeOK
<1>a. banners \in Seq(Alert) /\ Len(banners) <= Limit
  BY DEF TypeOK, ListsOK
<1>1. banners \in Seq(Alert) /\ items \in Seq(Alert) /\ Len(banners) <= Limit /\ Len(banners) \in Nat
      /\ DOMAIN banners = 1..Len(banners) /\ Limit \in Nat
  <2>1. Limit \in Nat
    BY BoundAssumption
  <2> QED BY <1>0, <1>a, <2>1
<1>2. PICK k \in Seq(Alert) : k = Filter(items, Alert \ Shown)
  BY <1>1, FilterFacts
<1>3. PICK r \in Seq(Alert) : /\ r = banners \o k /\ Len(r) = Len(banners) + Len(k)
                             /\ \A i \in 1..Len(banners) : r[i] = banners[i]
  BY <1>1, <1>2, JoinFacts
<1>4. banners' = banners \/ banners' = FirstOf(r)
  BY <1>2, <1>3 DEF Hydrate, Merged
<1>5. CASE banners' = banners
  BY <1>5 DEF Shown
<1>6. CASE banners' = FirstOf(r)
  <2>1. /\ FirstOf(r) \in Seq(Alert)
        /\ \A i \in 1..Len(FirstOf(r)) : FirstOf(r)[i] = r[i]
        /\ Len(r) <= Limit => FirstOf(r) = r
        /\ Len(r) > Limit => Len(FirstOf(r)) = Limit
    BY FirstOfFacts
  <2>a. Len(k) \in Nat /\ Len(FirstOf(r)) \in Nat /\ Len(r) \in Nat /\ Len(r) >= Len(banners)
    BY <1>1, <1>3, <2>1
  <2>2. Len(FirstOf(r)) >= Len(banners) /\ Len(FirstOf(r)) \in Nat /\ Len(k) \in Nat
    <3>1. CASE Len(r) <= Limit
      BY <2>1, <2>a, <3>1
    <3>2. CASE Len(r) > Limit
      BY <1>1, <2>1, <2>a, <3>2
    <3> QED BY <1>1, <2>a, <3>1, <3>2
  <2>3. ASSUME NEW i \in 1..Len(banners) PROVE banners[i] \in ToSet(FirstOf(r))
    <3>1. i \in 1..Len(FirstOf(r)) /\ i \in DOMAIN FirstOf(r) /\ FirstOf(r)[i] = banners[i]
      BY <1>1, <1>3, <2>1, <2>2
    <3> QED BY <3>1 DEF ToSet
  <2>4. \A a \in ToSet(banners) : a \in ToSet(FirstOf(r))
    BY <1>1, <2>3 DEF ToSet
  <2> QED BY <1>6, <2>4 DEF Shown
<1> QED BY <1>4, <1>5, <1>6

-----------------------------------------------------------------------------
\* The rows, the link, the requests and what the console shows keep their types.
THEOREM StreamTypeCorrect == Spec => []TypeOK
  <1>1. StreamInv => TypeOK
    BY DEF StreamInv
  <1> QED BY <1>1, StreamInitial, StreamStep, PTL DEF Spec

\* StreamClient.connect and its cleanup: however subscriptions, errors and timers fall, an
\* unsubscribed console holds no connection and no timer, a subscribed one exactly one of them.
THEOREM ConnectionHeldOnce == Spec => []OneConnection
  <1>1. StreamInv => OneConnection
    BY DEF StreamInv
  <1> QED BY <1>1, StreamInitial, StreamStep, PTL DEF Spec

\* preAlerts in StreamClient: a step takes a banner off the screen only by handling its
\* clearing, or by putting a newer alert first on a full screen.
THEOREM BannersStay == Spec => BannerStays
  <1> DEFINE Stays == \A a \in Shown : a \notin ToSet(banners') =>
                        \/ wire # <<>> /\ Head(wire) = [type |-> "cleared", subject |-> a, version |-> 0]
                        \/ Len(banners') = Limit /\ banners'[1] # banners[1]
  <1>1. StreamInv /\ [Next]_vars => [Stays]_vars
    <2> SUFFICES ASSUME StreamInv, Next PROVE Stays
      OBVIOUS
    <2>1. CASE Deliver
      <3>1. PICK f \in Frame : f = Head(wire) /\ wire # <<>> /\ Handle(f)
        BY <2>1 DEF Deliver, StreamInv, TypeOK
      <3> QED BY <3>1, HandleKeeps
    <2>2. CASE \E n \in 1..MaxMounts : Hydrate(n)
      BY <2>2, HydrateKeeps
    <2>3. CASE ~ Deliver /\ ~ \E n \in 1..MaxMounts : Hydrate(n)
      <3>1. banners' = banners
        BY <2>3 DEF Next, Raise, Supersede, Change, ChangeSilently, Connect, Disconnect, Attach, Drop, Reopen,
           Answer, HydrateFails, Flush, ServeList, ListArrives, ListLost, lists
      <3> QED BY <3>1 DEF Shown
    <2> QED BY <2>1, <2>2, <2>3
  <1> QED BY <1>1, StreamInitial, StreamStep, PTL DEF Spec, BannerStays
=============================================================================
