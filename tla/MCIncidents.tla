---------------------------- MODULE MCIncidents ----------------------------
(* Values for the constants of Incidents.                                  *)
EXTENDS Incidents, TLC

CONSTANTS cam, phone, drone, upload   \* sources

\* no property names a pass
PassSymmetry == Permutations(Run)

\* Window: 1 for a source with a good clock, 2 for one with a poor clock.
WindowOf(source) == IF source = phone THEN 2 ELSE 1

Seen(id, source, people) == [id |-> id, source |-> source, people |-> people]

Call(of, domain, cell, t, affected) ==
  [of |-> of, domain |-> domain, cell |-> cell, t |-> t, affected |-> affected]

\* Three devices on one event, the third a cell further away from the first, and a
\* report of another domain beside them.
Devices == {Call(Seen(1, cam, 2), "safety", 0, 0, 1),
            Call(Seen(2, phone, 0), "safety", 1, 2, 2),
            Call(Seen(3, drone, 1), "safety", 2, 1, 1),
            Call(Seen(4, drone, 0), "traffic", 1, 1, 1)}

\* A clip of the same event without a capture time, ruled on at two moments.
Clip == Seen(5, upload, 0)
Rulings == {Call(Clip, "safety", 1, 1, 1), Call(Clip, "safety", 1, 3, 1)}

MCReport == Devices \cup Rulings
MCObservation == {r.of : r \in MCReport}
MCDomain == [r \in Report |-> r.domain]
MCDisk == [r \in Report |-> {s \in Report : s.cell - r.cell \in -1..1}]
MCWindow == [r \in Report |-> WindowOf(r.of.source)]

\* Two of the devices on one event, for the understanding passes: either may be first.
Pair == {r \in Devices : r.of.id \in {2, 3}}

MCAmp == {0, 1}
MCClaim == {{r.of : r \in Pair}, {o \in Observation : o.id \in {3, 5}}}
MCBand == [r \in Report |-> [n \in 1..Full |-> [a \in MCAmp |->
             (IF r.domain = "safety" THEN 1 ELSE 0) + (n - 1) + a]]]

\* Bounds: which observations may come, whether a source may be removed.
Only(S) == \A o \in Observation \ {r.of : r \in S} : incidentOf'[o] = None /\ o \notin settled'
Removed(o) == incidentOf[o] # None /\ incidentOf'[o] = None
Packages == {i \in DOMAIN incidents : incidents'[i].package # None}

\* The four devices, with three actions or with one and sources that are removed.
Fusion == Only(Devices) /\ runs' = runs /\ \A o \in Observation : ~Removed(o)
Removals == Only(Devices) /\ runs' = runs /\ actions' <= 1

\* Two passes over the pair with two actions.
Passes == Only(Pair) /\ actions' <= 2 /\ \A o \in Observation : ~Removed(o)

\* The rulings beside a device, one pass or an action, and sources that are removed.
Repeated ==
  /\ Only(Rulings \cup {r \in Pair : r.of.id = 3})
  /\ Cardinality({k \in Run : runs'[k] # Idle}) <= 1
  /\ \A i \in Packages : incidents'[i].package.amp = NoAmp
  /\ \/ actions' = 0
     \/ actions' = 1 /\ Packages = {} /\ \A k \in Run : runs'[k] = Idle

VARIABLE scenario
MCInit == Init /\ scenario \in {"fusion", "removals", "passes", "rulings"}
MCNext ==
  /\ Next
  /\ UNCHANGED scenario
  /\ \/ scenario = "fusion" /\ Fusion
     \/ scenario = "removals" /\ Removals
     \/ scenario = "passes" /\ Passes
     \/ scenario = "rulings" /\ Repeated
MCSpec == MCInit /\ [][MCNext]_<<vars, scenario>>
=============================================================================
