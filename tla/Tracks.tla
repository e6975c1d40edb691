-------------------------------- MODULE Tracks --------------------------------
(***************************************************************************)
(* Ground-plane tracks and entities (lib/store/tracks.ts), as devices       *)
(* report them (app/api/v1/ingest/track/route.ts) and as a bundle measures  *)
(* them: differenced in the console, filtered by the forensic tier when it  *)
(* answers (fis services/kinematics.py).  A position is a place on one      *)
(* line, in decimetres, times are milliseconds, speeds hundredths of a km/h,*)
(* rounded down.  Acceleration, braking and the post encroachment time are  *)
(* left out.                                                                *)
(***************************************************************************)
EXTENDS Integers, Sequences, SequencesExt, FiniteSets, Lists

CONSTANTS
  Sightings,   \* the observations devices report tracks and entities for
  Scenes,      \* the incidents they are bound to
  Unbound,     \* no incident yet
  DeviceOf,    \* per observation [homography, residual, jitter] of its source's record
  Reports,     \* tracks that arrive, [id, from, samples]
  EntityKinds        \* what an entity is reported to be

ASSUME TracksAssumption ==
  /\ Unbound \notin Scenes
  /\ \A o \in Sightings : DeviceOf[o] \in [homography : BOOLEAN, residual : Nat, jitter : Nat]
  /\ \A r \in Reports : r.from \in Sightings /\ Len(r.samples) > 0
  /\ "none" \notin EntityKinds

VARIABLES
  boundTo,   \* the incident of an observation
  trackRows, \* the table of tracks, in row order: a report and the incident it had
  entity,    \* the one entity followed: [kind, first], the kinds of its row and of its first report
  seen,      \* its sightings: observation -> the incident when it was recorded
  figures    \* the kinematics, conflicts and dossier of a bundle, and how far it is
tracksVars == <<boundTo, trackRows, entity, seen, figures>>

Unseen == [kind |-> "none", first |-> "none"]
NoFigures == [at |-> "idle", of |-> Unbound, local |-> <<>>, answer |-> <<>>, list |-> <<>>,
              conflicts |-> {}, flag |-> FALSE, path |-> {}]

-----------------------------------------------------------------------------
(* Measuring: one track *)

Between(a, b) == IF a > b THEN a - b ELSE b - a
AtLeast(floor, n) == IF n < floor THEN floor ELSE n
\* decimetres in milliseconds, as hundredths of a km/h
Speed(distance, ms) == (distance * 36000) \div ms

\* the residual at both ends widens the distance, the clock error the time, of which
\* no less than 40 ms is ever taken
Point(a, b, device) ==
  LET d == Between(a.x, b.x)  dt == b.t - a.t
  IN  [t |-> b.t, x |-> b.x, speed |-> Speed(d, dt),
       lo |-> Speed(AtLeast(0, d - 2 * device.residual), AtLeast(40, dt + 2 * device.jitter)),
       hi |-> Speed(d + 2 * device.residual, AtLeast(40, dt - 2 * device.jitter))]

\* no point for the first sample, nor for one at the time of the one before it
Points(row) ==
  LET s == row.samples
      later == SelectSeq([i \in 1 .. Len(s) - 1 |-> i + 1], LAMBDA i : s[i].t > s[i - 1].t)
  IN  [k \in DOMAIN later |-> Point(s[later[k] - 1], s[later[k]], DeviceOf[row.from])]

\* the tracks of an incident that have two points
Derived(i) ==
  LET rows == Filter(trackRows, {row \in ToSet(trackRows) : row.incident = i})
      tracks == [k \in DOMAIN rows |-> [id |-> rows[k].id, from |-> rows[k].from, points |-> Points(rows[k])]]
  IN  Filter(tracks, {d \in ToSet(tracks) : Len(d.points) > 1})

Peak(points) ==
  points[CHOOSE k \in DOMAIN points :
           /\ \A j \in DOMAIN points : points[j].speed <= points[k].speed
           /\ \A j \in 1 .. k - 1 : points[j].speed < points[k].speed]

\* measured: an error bar of at most a third of the speed, and a calibrated device
LocalGrade(d) ==
  LET p == Peak(d.points)
  IN  IF p.speed > 0 /\ (p.hi - p.lo) * 100 <= 33 * p.speed /\ DeviceOf[d.from].residual <= 15
      THEN "measured" ELSE "indicative"

Places(d) == [k \in DOMAIN d.points |-> d.points[k].x]

\* at is where the figures are drawn, measured what they were computed from
Differenced(i) ==
  [k \in DOMAIN Derived(i) |->
     LET d == Derived(i)[k]
     IN  [id |-> d.id, from |-> d.from, at |-> Places(d), measured |-> Places(d),
          estimator |-> "finite-difference", grade |-> LocalGrade(d)]]

-----------------------------------------------------------------------------
(* Measuring: the forensic tier *)

TierGrade(device) == CASE device.jitter <= 20 /\ device.residual <= 3 -> "A"
                       [] device.jitter <= 50 /\ device.residual <= 10 -> "B"
                       [] OTHER -> "C"

\* the console sends the points, not the samples; the filter's numbers are left out
Estimate(d) ==
  [id |-> d.id, measured |-> Places(d), grade |-> TierGrade(DeviceOf[d.from]),
   refused |-> CASE Len(d.points) < 4 -> "too_few_samples"
                 [] DeviceOf[d.from].jitter > 500 -> "timebase_sigma_exceeded"
                 [] OTHER -> "no"]

\* Mutant of Base: read again after the answer.
BaseNow(id) == LET now == Differenced(figures.of) IN Filter(now, {f \in ToSet(now) : f.id = id})
\* byId: the local figures under an id, of which the last counts
Base(id) == Filter(figures.local, {f \in ToSet(figures.local) : f.id = id})

\* a refused track is left out; an estimate is drawn at the places of its base, by index
Filtered(answer) ==
  LET kept == Filter(answer, {item \in ToSet(answer) : Base(item.id) # <<>> /\ item.refused = "no"})
  IN  [k \in DOMAIN kept |->
         LET item == kept[k]  base == Last(Base(item.id))
         IN  [base EXCEPT !.estimator = "kalman-rts", !.measured = item.measured,
                !.at = [n \in DOMAIN item.measured |-> IF n \in DOMAIN base.at THEN base.at[n] ELSE base.at[1]],
                !.grade = IF item.grade \in {"A", "B"} THEN "measured" ELSE "indicative"]]

\* all refused: the differenced figures after all
Listed(answer) == IF Filtered(answer) # <<>> THEN Filtered(answer) ELSE figures.local

-----------------------------------------------------------------------------
(* Measuring: two tracks *)

\* the point of the other track nearest in time, the first of them
Beside(p, points) ==
  points[CHOOSE k \in DOMAIN points :
           /\ \A j \in DOMAIN points : Between(points[k].t, p.t) <= Between(points[j].t, p.t)
           /\ \A j \in 1 .. k - 1 : Between(points[k].t, p.t) < Between(points[j].t, p.t)]

Gap(p, points) == Between(p.x, Beside(p, points).x)
Closing(p, points) == p.speed + Beside(p, points).speed

\* where both are known within 1.5 s and their speeds add up to more than 0.5 m/s
Met(a, b) == SelectSeq(a.points, LAMBDA p : Between(Beside(p, b.points).t, p.t) <= 1500
                                            /\ Closing(p, b.points) > 180)

Conflict(a, b) ==
  LET met == Met(a, b)
      p == met[CHOOSE k \in DOMAIN met :
                 /\ \A j \in DOMAIN met : Gap(met[k], b.points) <= Gap(met[j], b.points)
                 /\ \A j \in 1 .. k - 1 : Gap(met[k], b.points) < Gap(met[j], b.points)]
      ms(gap) == (gap * 36000) \div Closing(p, b.points)
      slack == 2 * (DeviceOf[a.from].residual + DeviceOf[b.from].residual)
      hi == ms(Gap(p, b.points) + slack)
  IN  [pair |-> <<a, b>>, ttc |-> ms(Gap(p, b.points)), lo |-> ms(AtLeast(0, Gap(p, b.points) - slack)), hi |-> hi,
       severity |-> CASE hi < 1500 -> "critical" [] hi < 3000 -> "serious" [] hi < 5000 -> "low" [] OTHER -> "none"]

Conflicts(i) ==
  LET d == Derived(i)
  IN  {Conflict(d[p[1]], d[p[2]]) : p \in {q \in (DOMAIN d) \X (DOMAIN d) : q[1] < q[2] /\ Met(d[q[1]], d[q[2]]) # <<>>}}

-----------------------------------------------------------------------------
(* Devices *)

\* fusion binds an observation, at any time; what was recorded before stays as it was
Bind(o, i) ==
  /\ boundTo[o] = Unbound /\ boundTo' = [boundTo EXCEPT ![o] = i]
  /\ UNCHANGED <<trackRows, entity, seen, figures>>

\* sorted by time; a track of one sample is not stored; one with the same key is replaced
StoreTracks(r) ==
  trackRows' = IF Len(r.samples) < 2 THEN trackRows
          ELSE Filter(trackRows, {row \in ToSet(trackRows) : <<row.id, row.from>> # <<r.id, r.from>>})
                 \o <<[id |-> r.id, from |-> r.from, incident |-> boundTo[r.from],
                       samples |-> SortSeq(r.samples, LAMBDA a, b : a.t < b.t)]>>

PostTrack(r) ==
  /\ DeviceOf[r.from].homography
  /\ StoreTracks(r)
  /\ UNCHANGED <<boundTo, entity, seen, figures>>

\* Mutant of Recorded: the row takes the kind of every report.
RecordedAnew(kind) == [kind |-> kind, first |-> IF entity = Unseen THEN kind ELSE entity.first]
\* recordEntities: the kind is that of the first report
Recorded(kind) == IF entity = Unseen THEN [kind |-> kind, first |-> kind] ELSE entity

PostEntity(o, kind) ==
  /\ entity' = Recorded(kind)
  /\ seen' = [x \in DOMAIN seen \cup {o} |-> IF x = o THEN boundTo[o] ELSE seen[x]]
  /\ UNCHANGED <<boundTo, trackRows, figures>>

-----------------------------------------------------------------------------
(* A bundle *)

\* the tier is asked only if there are tracks; what it will be compared with is kept
AskTier(i) ==
  /\ figures.at = "idle"
  /\ figures' = [NoFigures EXCEPT !.at = "asking", !.of = i, !.local = Differenced(i),
                                  !.answer = [k \in DOMAIN Derived(i) |-> Estimate(Derived(i)[k])]]
  /\ UNCHANGED <<boundTo, trackRows, entity, seen>>

\* conflicts are measured when the tier has answered, from the tracks there are by then
Hear(list) ==
  /\ figures.at = "asking"
  /\ figures' = [figures EXCEPT !.at = "listed", !.list = list, !.conflicts = Conflicts(figures.of)]
  /\ UNCHANGED <<boundTo, trackRows, entity, seen>>
TierAnswers == figures.answer # <<>> /\ Hear(Listed(figures.answer))
TierMissing == Hear(figures.local)

\* a person is followed to other incidents only under a flag
Dossier(flag) ==
  /\ figures.at = "listed"
  /\ figures' = [figures EXCEPT !.at = "done", !.flag = flag,
                   !.path = LET all == {seen[o] : o \in DOMAIN seen}
                            IN  IF flag \/ entity.kind # "person" THEN (IF figures.of \in all THEN all ELSE {})
                                ELSE all \cap {figures.of}]
  /\ UNCHANGED <<boundTo, trackRows, entity, seen>>

TracksInit ==
  /\ boundTo = [o \in Sightings |-> Unbound] /\ trackRows = <<>> /\ entity = Unseen
  /\ seen = [o \in {} |-> Unbound] /\ figures = NoFigures
Bundled ==
  \/ \E o \in Sightings, i \in Scenes : Bind(o, i)
  \/ \E i \in Scenes : AskTier(i)
  \/ TierAnswers \/ TierMissing \/ (\E flag \in BOOLEAN : Dossier(flag))
TracksNext == Bundled \/ \E r \in Reports : PostTrack(r)
EntitiesNext == Bundled \/ \E o \in Sightings, kind \in EntityKinds : PostEntity(o, kind)

-----------------------------------------------------------------------------
\* Every speed is drawn where it was measured, however long the tier took and whatever
\* was reported again meanwhile, unless two observations of the incident use one track id.
PositionsAreTheirOwn ==
  (\A j, k \in DOMAIN figures.local : figures.local[j].id = figures.local[k].id => j = k) =>
    \A k \in DOMAIN figures.list : figures.list[k].at = figures.list[k].measured

\* An entity first reported as a person is followed to no other incident without a flag,
\* whatever later reports call it.
FollowedUnderFlag ==
  figures.at = "done" /\ entity.first = "person" /\ ~ figures.flag => figures.path \subseteq {figures.of}
=============================================================================
