------------------------------ MODULE Playback ------------------------------
(* The forensics workspace: one master clock, the tiles on the stage that     *)
(* follow it, and the timeline deck under them (src/lib/playback/*,           *)
(* src/lib/timeline/transform.ts, ForensicsScreen, TransportBar, VideoTile    *)
(* and TimelineDeck under src/components).                                     *)
(*                                                                            *)
(* One unit of time is half a frame, because a step lands on the middle of a  *)
(* frame.  Instants the code takes from performance.now() are kept as the age *)
(* they have now, capped where the code stops telling ages apart.  The clock  *)
(* is outside React: what it tells its listeners (emit) they do at once, and  *)
(* nobody hears it between two emissions.                                      *)
EXTENDS Lists, FiniteSets, SequencesExt

CONSTANTS Records,      \* what the store may hold of the incident, fetch after fetch
          Lead, Trail, AnchorBand,   \* the least window round the anchor: 120 s, 180 s, and 1 s
          Rates,        \* playback rates, 1 among them
          ScrubAbove,   \* above this rate a tile scrubs by seeking
          Suppress,     \* SEEK_SUPPRESS_MS, and the interval between two trims
          ScrubEvery,   \* the interval between two scrubbing seeks
          StillError,   \* the error a paused tile leaves alone: 40 ms
          LockLimit, ExitLimit, HardLimit,   \* the three bands
          SeekLimit, SeekWindow,             \* QUARANTINE_SEEKS, QUARANTINE_WINDOW_MS
          Stage,        \* tiles the stage holds: 4
          Spans, OpeningSpan, Ranges,        \* the deck's zoom levels, and ranges dragged over it
          Sessions      \* what the operator and the world still do, part by part

ASSUME PlaybackAssumption == SeekLimit \in Nat \ {0} /\ SeekWindow \in Nat

Frame == 2
Least(a, b) == IF a < b THEN a ELSE b
Most(a, b) == IF a > b THEN a ELSE b
Clamp(x, lo, hi) == Least(Most(x, lo), hi)
Abs(x) == IF x < 0 THEN -x ELSE x

(****************************** the forensic bundle ***************************)
LeastOf(S) == CHOOSE x \in S : \A y \in S : x <= y
MostOf(S) == CHOOSE x \in S : \A y \in S : x >= y
\* A lane per source: its clips in order of t_start, read through its clock offset.
Lane(r, id) ==
    LET clips == SelectSeq(r.observations, LAMBDA o : o.video /\ o.source = id)
    IN  [id |-> id, kind |-> "video", offset |-> r.offset[id],
         segments |-> SortSeq([i \in 1 .. Len(clips) |-> [t_start |-> clips[i].t_start, t_end |-> clips[i].t_end]],
                              LAMBDA a, b : a.t_start < b.t_start)]
Bare(id, kind) == [id |-> id, kind |-> kind, offset |-> 0, segments |-> <<>>]
\* buildForensics: the window, the lanes in the order their sources first reported,
\* the sensors, the ground plane; the screen opens on the first entry on the anchor.
BuildForensics(r) ==
    LET obs == r.observations
        sources == FoldLeft(LAMBDA seen, o : IF o.video /\ ~Contains(seen, o.source)
                                             THEN Append(seen, o.source) ELSE seen, <<>>, obs)
        times == UNION {{o.t_start, o.t_end} : o \in Range(obs)}
        tMin == LeastOf(times \cup {r.anchor - Lead})
        onAnchor == {o.t_start : o \in Range(obs)} \cap (r.anchor .. r.anchor + AnchorBand)
    IN  [tMin |-> tMin, tMax |-> MostOf(times \cup {r.anchor + Trail}),
         anchor |-> IF onAnchor = {} THEN tMin ELSE LeastOf(onAnchor),
         playback |-> [i \in 1 .. Len(sources) |-> Lane(r, sources[i])]
                      \o [i \in 1 .. Len(r.sensors) |-> Bare(r.sensors[i], "scope")]
                      \o <<Bare("map", "map")>>]
Bundles == {BuildForensics(r) : r \in Records}

VideoIds == UNION {{s.id : s \in {x \in Range(b.playback) : x.kind = "video"}} : b \in Bundles}

VARIABLES bundle,      \* what the bundle query holds
          clock,       \* [anchorT, since, rate, playing]
          transport,   \* the transport store
          slaves,      \* per video source its element and its slave, while it is mounted
          shown,       \* per video source the coverage its tile last rendered
          deck,        \* [t0, span, follow]
          playhead,    \* the playhead node: the time and the view it was last placed with
          session      \* operations, and stalls of the elements, still to come
stageVars == <<bundle, clock, transport, slaves, shown, deck, playhead>>

(***************************** coverage and frames ****************************)
Known(b, id) == \E s \in Range(b.playback) : s.id = id
SourceOf(b, id) == CHOOSE s \in Range(b.playback) : s.id = id
MediaTimeOf(s, t) == t - s.offset

\* coverageAt's binary search over the segments in order of t_start.
CoverageAt(s, t) ==
    LET m == MediaTimeOf(s, t)
        segs == s.segments
        search[lo \in 1 .. Len(segs) + 1, hi \in 0 .. Len(segs)] ==
            IF lo > hi THEN 0
            ELSE LET mid == (lo + hi) \div 2
                 IN  IF m < segs[mid].t_start THEN search[lo, mid - 1]
                     ELSE IF m >= segs[mid].t_end THEN search[mid + 1, hi]
                     ELSE mid
        found == IF segs = <<>> THEN 0 ELSE search[1, Len(segs)]
    IN  [index |-> found,
         state |-> CASE segs = <<>> -> "none"
                     [] found # 0 -> "covered"
                     [] found = 0 /\ segs # <<>> /\ m < segs[1].t_start -> "before"
                     [] found = 0 /\ segs # <<>> /\ m >= Last(segs).t_end -> "after"
                     [] OTHER -> "gap",
         local |-> IF found = 0 THEN 0 ELSE m - segs[found].t_start]

\* The middle of the next or the previous frame of the segment under the playhead.
StepFrame(m, seg, direction) ==
    seg.t_start + Frame * Most(0, ((m - seg.t_start) \div Frame) + direction) + 1

\* The nearest segment edge more than a millisecond away, if there is one.
Boundaries(s, t, direction) ==
    LET m == MediaTimeOf(s, t)
        edges == {e \in UNION {{g.t_start, g.t_end} : g \in Range(s.segments)} :
                      IF direction = 1 THEN e > m ELSE e < m}
    IN  {e + s.offset : e \in {x \in edges : \A y \in edges : direction * (y - x) >= 0}}

(******************************* the master clock *****************************)
NowOf(c, b) == IF ~c.playing THEN c.anchorT
               ELSE Clamp(c.anchorT + c.since * c.rate, b.tMin, b.tMax)
Now == NowOf(clock, bundle)
Reanchored == [clock EXCEPT !.anchorT = Now, !.since = 0]
SoughtTo(c, t) == [c EXCEPT !.anchorT = Clamp(t, bundle.tMin, bundle.tMax), !.since = 0]

(****************************** one video element *****************************)
Old == Most(Suppress, ScrubEvery) + 1      \* an age no interval tells from a greater one
NewSlave == [src |-> 0, index |-> 0, pos |-> 0, paused |-> TRUE, seeking |-> FALSE, trim |-> 0,
             sinceSeek |-> Old, sinceTrim |-> Old, seeks |-> <<>>, quarantined |-> FALSE, locked |-> TRUE]

HardSeek(v, p) == [v EXCEPT !.pos = Most(0, p), !.seeking = TRUE, !.sinceSeek = 0]

\* Mutant of RecordSeek: the seeks are counted and nothing is made of the count.
RecordSeekForever(v) ==
    [v EXCEPT !.seeks = Append(Filter(@, 0 .. SeekWindow - 1), 0)]
\* recordSeek: the sixth part of a minute is remembered, and too many seeks in it end the fight.
RecordSeek(v) ==
    LET recent == Append(Filter(v.seeks, 0 .. SeekWindow - 1), 0)
    IN  [v EXCEPT !.seeks = recent, !.quarantined = @ \/ Len(recent) >= SeekLimit]

\* Loading a segment resets the element, which pauses it.
Enter(v, cover) ==
    HardSeek([v EXCEPT !.index = cover.index,
                       !.paused = @ \/ v.src # cover.index,
                       !.src = cover.index], cover.local)

\* The slave of a playing tile at a rate the browser honours: locked, trimmed, or sought.
Correct(v, target, rate) ==
    LET error == v.pos - target
        out == Abs(error) > (IF v.locked THEN ExitLimit ELSE LockLimit)
        u == [v EXCEPT !.paused = FALSE]
    IN  IF u.quarantined THEN [u EXCEPT !.trim = 0]
        ELSE IF Abs(error) > HardLimit
        THEN IF ~u.seeking /\ u.sinceSeek > Suppress THEN RecordSeek(HardSeek(u, target + 1)) ELSE u
        ELSE IF ~out THEN [u EXCEPT !.locked = TRUE, !.trim = 0]
        ELSE IF u.sinceTrim > Suppress
        THEN [u EXCEPT !.locked = FALSE, !.sinceTrim = 0, !.trim = IF error > 0 THEN -1 ELSE 1]
        ELSE [u EXCEPT !.locked = FALSE]

\* VideoSlave.tick: what one emission makes of one element.
Tick(v, cover, playing, rate) ==
    LET still == [v EXCEPT !.paused = TRUE]
        error == v.pos - cover.local
    IN  IF cover.state # "covered" THEN [still EXCEPT !.index = 0]
        ELSE IF cover.index # v.index THEN Enter(v, cover)
        ELSE IF ~playing
        THEN IF Abs(error) > StillError /\ v.sinceSeek > Suppress THEN HardSeek(still, cover.local) ELSE still
        ELSE IF rate > ScrubAbove
        THEN IF v.sinceSeek > ScrubEvery
             THEN [still EXCEPT !.sinceSeek = 0, !.pos = cover.local, !.seeking = TRUE] ELSE still
        ELSE Correct(v, cover.local, rate)

(******************************** an emission *********************************)
OnStage(st) == {v \in VideoIds : \E i \in 1 .. Len(st.tiles) : st.tiles[i] = v}
Ticked(sl, b, st, t) ==
    [v \in VideoIds |-> IF v \in OnStage(st)
                        THEN Tick(sl[v], CoverageAt(SourceOf(b, v), t), st.playing, st.rate)
                        ELSE sl[v]]
Rendered(b, st, t) ==
    [v \in VideoIds |-> IF v \in OnStage(st) THEN CoverageAt(SourceOf(b, v), t).state ELSE "none"]
\* A slave that has just given up marks its source desynced in the store.
Marked(st, sl) == [st EXCEPT !.desynced = @ \cup {v \in OnStage(st) : sl[v].quarantined}]

ClampPan(d, b) ==
    [d EXCEPT !.t0 = Least(Most(d.t0, b.tMin), Most(b.tMin, b.tMax - d.span))]
\* Follow mode pages: past 85 per cent of the view the view jumps.
Followed(d, b, t) ==
    IF d.follow /\ (20 * (t - d.t0) > 17 * d.span \/ t < d.t0)
    THEN ClampPan([d EXCEPT !.t0 = t - ((3 * d.span) \div 20)], b) ELSE d

Placed(t, d) == [t |-> t, t0 |-> d.t0, span |-> d.span]

\* One emission at t to slaves sl and a deck d, with the store already holding st.
EmitTo(sl, d, st, t) ==
    LET next == Ticked(sl, bundle, st, t)
    IN  /\ slaves' = next
        /\ transport' = Marked(st, next)
        /\ shown' = Rendered(bundle, st, t)
        /\ playhead' = Placed(t, d)
        /\ deck' = Followed(d, bundle, t)
Emit(st, t) == EmitTo(slaves, deck, st, t)
\* The screen renders again: the deck's lanes are new, so the deck subscribes again.
Rerendered ==
    LET d == ClampPan(deck, bundle)
    IN  playhead' = Placed(Now, d) /\ deck' = Followed(d, bundle, Now)

(******************************** the operator ********************************)
May(part) == session[part] > 0
Spend(part) == session' = [session EXCEPT ![part] = @ - 1]

Play ==
    LET from == IF Now >= bundle.tMax THEN bundle.tMin ELSE clock.anchorT
    IN  /\ ~clock.playing
        /\ clock' = [clock EXCEPT !.anchorT = from, !.since = 0, !.playing = TRUE]
        /\ Emit([transport EXCEPT !.playing = TRUE], from)
\* Mutant of Pause: the listeners are not told where the clock stopped.
PauseUnheard ==
    /\ clock.playing
    /\ clock' = [Reanchored EXCEPT !.playing = FALSE]
    /\ transport' = [transport EXCEPT !.playing = FALSE]
    /\ UNCHANGED <<slaves, shown, deck, playhead>>
Pause ==
    /\ clock.playing
    /\ clock' = [Reanchored EXCEPT !.playing = FALSE]
    /\ Emit([transport EXCEPT !.playing = FALSE], Now)
Toggle == May("transport") /\ Spend("transport") /\ (Play \/ Pause) /\ UNCHANGED bundle

SetRate(r) ==
    /\ May("transport") /\ Spend("transport") /\ r # clock.rate
    /\ transport' = [transport EXCEPT !.rate = r]
    /\ clock' = [Reanchored EXCEPT !.rate = r]
    /\ UNCHANGED <<bundle, slaves, shown, deck, playhead>>

Sought(t) ==
    /\ clock' = SoughtTo(clock, t)
    /\ Emit(transport, Clamp(t, bundle.tMin, bundle.tMax))
Seek(t) == May("transport") /\ Spend("transport") /\ Sought(t) /\ UNCHANGED bundle

\* Stepping and jumping pause first, which the listeners hear, and seek then.
PausedAt(t) ==
    LET still == [transport EXCEPT !.playing = FALSE]
        heard == clock.playing
        sl == IF heard THEN Ticked(slaves, bundle, still, Now) ELSE slaves
        d == IF heard THEN Followed(deck, bundle, Now) ELSE deck
    IN  /\ clock' = [SoughtTo(clock, t) EXCEPT !.playing = FALSE]
        /\ EmitTo(sl, d, still, Clamp(t, bundle.tMin, bundle.tMax))
Focused == Known(bundle, transport.focused)
Step(direction) ==
    LET s == SourceOf(bundle, transport.focused)
        cover == CoverageAt(s, Now)
    IN  /\ May("transport") /\ Spend("transport") /\ Focused
        /\ IF cover.state = "covered"
           THEN PausedAt(StepFrame(MediaTimeOf(s, Now), s.segments[cover.index], direction) + s.offset)
           ELSE Pause              \* "the focused source has no coverage here"
        /\ UNCHANGED bundle
Boundary(direction) ==
    /\ May("transport") /\ Spend("transport") /\ Focused
    /\ \E t \in Boundaries(SourceOf(bundle, transport.focused), Now, direction) : PausedAt(t)
    /\ UNCHANGED bundle

(********************************** the stage *********************************)
\* The first two videos, the ground plane and the first scope.
Ids(b, kind) ==
    LET of == SelectSeq(b.playback, LAMBDA s : s.kind = kind)
    IN  [i \in 1 .. Len(of) |-> of[i].id]
Upto(seq, n) == SubSeq(seq, 1, Least(n, Len(seq)))
Initial(b) ==
    LET preferred == Upto(Ids(b, "video"), 2)
        tiles == Upto(preferred \o Upto(Ids(b, "map"), 1) \o Upto(Ids(b, "scope"), 1), Stage)
    IN  [tiles |-> tiles, focused |-> Head(tiles)]

\* toggleTile; a stage left empty is filled again by the effect that opens the screen.
Emptied(st, id) == st.tiles = <<id>>
Toggled(st, id) ==
    LET without == SelectSeq(st.tiles, LAMBDA x : x # id)
    IN  IF Emptied(st, id)
        THEN [st EXCEPT !.tiles = Initial(bundle).tiles, !.focused = Initial(bundle).focused]
        ELSE IF Contains(st.tiles, id)
        THEN [st EXCEPT !.tiles = without, !.focused = IF @ = id THEN Head(without) ELSE @]
        ELSE IF Len(st.tiles) < Stage THEN [st EXCEPT !.tiles = Append(@, id)] ELSE st

\* A tile that appears mounts a new element and hears the clock at once.
ToggleTile(id) ==
    LET st == Toggled(transport, id)
        kept == IF Emptied(transport, id) THEN {} ELSE OnStage(transport) \cap OnStage(st)
        mounted == [v \in VideoIds |-> IF v \in kept THEN slaves[v] ELSE NewSlave]
        ticked == Ticked(mounted, bundle, st, Now)
    IN  /\ May("stage") /\ Spend("stage") /\ Known(bundle, id)
        /\ transport' = st
        /\ slaves' = [v \in VideoIds |-> IF v \in kept THEN slaves[v] ELSE ticked[v]]
        /\ shown' = [v \in VideoIds |-> IF v \in kept THEN shown[v] ELSE Rendered(bundle, st, Now)[v]]
        /\ Rerendered
        /\ UNCHANGED <<bundle, clock>>
Focus(id) ==
    /\ May("stage") /\ Spend("stage") /\ Contains(transport.tiles, id)
    /\ transport' = [transport EXCEPT !.focused = id]
    /\ Rerendered
    /\ UNCHANGED <<bundle, clock, slaves, shown>>

(*********************************** the deck *********************************)
Within(d) == d.t0 .. d.t0 + d.span
Looked(d) == deck' = d /\ UNCHANGED <<bundle, clock, transport, slaves, shown, playhead>>
ZoomTo(d, t0, span) ==
    ClampPan([d EXCEPT !.t0 = t0, !.span = Least(span, bundle.tMax - bundle.tMin)], bundle)
\* Scrubbing on the ruler lets go of the playhead and seeks.
Scrub(t) ==
    /\ May("deck") /\ Spend("deck") /\ t \in Within(deck)
    /\ clock' = SoughtTo(clock, t)
    /\ EmitTo(slaves, [deck EXCEPT !.follow = FALSE], transport, Clamp(t, bundle.tMin, bundle.tMax))
    /\ UNCHANGED bundle
\* The wheel zooms and pans and lets go; the bracket keys zoom and do not.
Zoom(span, follow) ==
    /\ May("deck") /\ Spend("deck") /\ span \in Spans
    /\ Looked([ZoomTo(deck, deck.t0 + ((deck.span - span) \div 2), span) EXCEPT !.follow = follow])
Pan(t0) ==
    May("deck") /\ Spend("deck") /\ Looked([ZoomTo(deck, t0, deck.span) EXCEPT !.follow = FALSE])
Fit ==
    /\ May("deck") /\ Spend("deck")
    /\ Looked([t0 |-> bundle.tMin, span |-> bundle.tMax - bundle.tMin, follow |-> TRUE])
\* A drag over the lanes zooms to it and lets go.
Marquee(from, to) ==
    /\ May("deck") /\ Spend("deck") /\ from \in Within(deck) /\ to \in Within(deck) /\ from < to
    /\ Looked([ZoomTo(deck, from, to - from) EXCEPT !.follow = FALSE])
\* A shifted drag selects the range; without one the selection is cleared.
Select(range) ==
    /\ May("deck") /\ Spend("deck") /\ Range(range) \subseteq Within(deck)
    /\ range # transport.selection /\ transport' = [transport EXCEPT !.selection = range]
    /\ Rerendered
    /\ UNCHANGED <<bundle, clock, slaves, shown>>
ZoomToSelection ==
    /\ May("deck") /\ Spend("deck") /\ transport.selection # <<>>
    /\ Looked(ZoomTo(deck, transport.selection[1], Most(1, transport.selection[2] - transport.selection[1])))

(************************ what happens without the operator *******************)
\* A half frame of wall time: elements play on, or stall on their buffers.
Aged(n) == Least(n + 1, Old)
\* An element plays to the end of what it has loaded and no further.
Length(id) == LET g == SourceOf(bundle, id).segments[slaves[id].src] IN g.t_end - g.t_start
Advanced(v, stalled, length) ==
    [v EXCEPT !.pos = IF v.paused \/ v.seeking \/ stalled THEN @ ELSE Least(@ + clock.rate + v.trim, Most(@, length)),
              !.sinceSeek = Aged(@), !.sinceTrim = Aged(@),
              !.seeks = [i \in 1 .. Len(@) |-> Least(@[i] + 1, SeekWindow)]]
Running == {v \in OnStage(transport) : ~slaves[v].paused /\ ~slaves[v].seeking}
Elapse ==
    /\ clock' = [clock EXCEPT !.since = IF clock.playing /\ Now < bundle.tMax THEN @ + 1 ELSE @]
    /\ \E stalled \in SUBSET Running :
          /\ IF stalled = {} THEN UNCHANGED session ELSE May("stall") /\ Spend("stall")
          /\ slaves' = [v \in VideoIds |-> IF v \in OnStage(transport) /\ slaves[v].src # 0
                                            THEN Advanced(slaves[v], v \in stalled, Length(v)) ELSE slaves[v]]
    /\ UNCHANGED <<bundle, transport, shown, deck, playhead>>

Seeked(v) ==
    /\ slaves[v].seeking
    /\ slaves' = [slaves EXCEPT ![v].seeking = FALSE]
    /\ UNCHANGED <<bundle, clock, transport, shown, deck, playhead, session>>

\* The animation frame of a playing clock: the end of the window stops it.
Loop ==
    /\ clock.playing
    /\ IF Now >= bundle.tMax
       THEN /\ clock' = [clock EXCEPT !.anchorT = bundle.tMax, !.since = 0, !.playing = FALSE]
            /\ Emit([transport EXCEPT !.playing = FALSE], bundle.tMax)
       ELSE Emit(transport, Now) /\ UNCHANGED clock
    /\ UNCHANGED <<bundle, session>>

\* reset: the store of a screen that has just opened.
Reset(b) == [playing |-> FALSE, rate |-> 1, tiles |-> Initial(b).tiles, focused |-> Initial(b).focused,
             desynced |-> {}, selection |-> <<>>]
\* A new clock opens on the anchor, with a new stage.
Opened(b) ==
    LET st == Reset(b)
        none == [v \in VideoIds |-> NewSlave]
    IN  [clock |-> [anchorT |-> Clamp(b.anchor, b.tMin, b.tMax), since |-> 0, rate |-> 1, playing |-> FALSE],
         transport |-> st,
         slaves |-> Ticked(none, b, st, Clamp(b.anchor, b.tMin, b.tMax)),
         shown |-> Rendered(b, st, Clamp(b.anchor, b.tMin, b.tMax))]
Shows(b, d) ==
    LET o == Opened(b)
    IN  /\ bundle' = b
        /\ clock' = o.clock /\ transport' = o.transport /\ slaves' = o.slaves /\ shown' = o.shown
        /\ playhead' = Placed(o.clock.anchorT, d) /\ deck' = Followed(d, b, o.clock.anchorT)
OpeningDeck(b) == ClampPan([t0 |-> b.tMin, span |-> OpeningSpan, follow |-> TRUE], b)

\* A bundle with new content replaces the clock and the stage; the deck stays where it was.
Refetch(b) == May("refetch") /\ Spend("refetch") /\ b # bundle /\ Shows(b, ClampPan(deck, b))

\* The screen is opened, and closed: a closed one leaves nothing behind.
Mount == \E b \in Bundles : Shows(b, OpeningDeck(b))
Unmount == Shows(bundle, OpeningDeck(bundle))

StageInit ==
    /\ bundle \in Bundles
    /\ session \in Sessions
    /\ LET o == Opened(bundle)
       IN  clock = o.clock /\ transport = o.transport /\ slaves = o.slaves /\ shown = o.shown
    /\ playhead = Placed(clock.anchorT, OpeningDeck(bundle))
    /\ deck = Followed(OpeningDeck(bundle), bundle, clock.anchorT)

World == bundle.tMin .. bundle.tMax
Operate == \/ Toggle
           \/ \E r \in Rates : SetRate(r)
           \/ \E t \in World : Seek(t)
           \/ \E d \in {-1, 1} : Step(d) \/ Boundary(d)
           \/ \E s \in Range(bundle.playback) : ToggleTile(s.id) \/ Focus(s.id)
           \/ \E t \in World : Scrub(t) \/ Pan(t)
           \/ \E span \in Spans, follow \in BOOLEAN : (follow => deck.follow) /\ Zoom(span, follow)
           \/ Fit \/ ZoomToSelection
           \/ \E range \in Ranges : Marquee(range[1], range[2]) \/ Select(range)
           \/ Select(<<>>)
Ran == Elapse \/ Loop \/ (\E v \in VideoIds : Seeked(v))
Watch == Operate \/ Ran \/ (\E b \in Bundles : Refetch(b))

(********************************** properties ********************************)
\* No later frame corrects a tile once the clock stands still: what each tile then
\* shows is the coverage at the playhead, and no element runs on behind a gap.
PausedTileIsHonest ==
    ~clock.playing => \A v \in OnStage(transport) :
        LET state == CoverageAt(SourceOf(bundle, v), Now).state
        IN  shown[v] = state /\ (state # "covered" => slaves[v].paused)

\* A source whose frame rate is wrong is sought a bounded number of times, and then
\* left alone, whatever stalls and seeks are mixed with the corrections (videoSlave.ts:19).
FightEnds ==
    \A v \in VideoIds :
        Cardinality({i \in 1 .. Len(slaves[v].seeks) : slaves[v].seeks[i] < SeekWindow}) <= SeekLimit
=============================================================================
