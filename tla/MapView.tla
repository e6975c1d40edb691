------------------------------- MODULE MapView -------------------------------
(* The map of a screen (MapCanvas) and the controller that owns the MapLibre   *)
(* instance (src/lib/map/controller.ts).  React hands each prop to a setter     *)
(* when it changes; the controller holds data back while the style is not yet   *)
(* loaded (pending) and while the camera moves (deferred).  Data are versions,  *)
(* 0 is an empty collection; incidents stands for both incident sources, fov    *)
(* for wedges and sensors, patrol for arrows and trails.  Hover and blink write *)
(* feature state and paint only, and are left out.                              *)
EXTENDS Naturals, FiniteSetsExt

CONSTANTS MaxChanges   \* bound: how often data change

Layer == {"incidents", "fov", "patrol", "risk"}

VARIABLES props,    \* what the screen renders: data, toggles, the selected incident
          phase,    \* of the map: "none", "loading" or "ready" (style.load has fired)
          camera,   \* [moving, near]: isMoving(), and whether the zoom is 15 or more
          pending, deferred,   \* layer -> the version held back, for the layers in it
          armed,    \* [timer, moveend]: what will flush deferred
          onMap,    \* layer -> version in its GeoJSON source
          look      \* the style: which group shows, the selection ring, layer visibility
mapVars == <<props, phase, camera, pending, deferred, armed, onMap, look>>

Installed == [clustering |-> FALSE, ring |-> FALSE, risk |-> FALSE, fov |-> TRUE]

(****************************** writing a source ******************************)
\* What is held back is a function on some of the layers; later data win.
Held(f, l, v) == [k \in DOMAIN f \cup {l} |-> IF k = l THEN v ELSE f[k]]
Empty == [l \in {} |-> 0]

\* setSourceData: straight through, or pending until the style is there.
SetSourceData(data) ==
    IF phase = "ready"
    THEN /\ onMap' = [l \in Layer |-> IF l \in DOMAIN data THEN data[l] ELSE onMap[l]]
         /\ UNCHANGED pending
    ELSE /\ pending' = [l \in DOMAIN pending \cup DOMAIN data |->
                          IF l \in DOMAIN data THEN data[l] ELSE pending[l]]
         /\ UNCHANGED onMap

\* queueSourceData: deferred while the camera moves; the first one arms the flush.
QueueSourceData(l, v) ==
    IF camera.moving
    THEN /\ deferred' = Held(deferred, l, v)
         /\ armed' = IF armed.timer THEN armed ELSE [timer |-> TRUE, moveend |-> TRUE]
         /\ UNCHANGED <<pending, onMap>>
    ELSE SetSourceData(Held(Empty, l, v)) /\ UNCHANGED <<deferred, armed>>

\* Mutant of FlushDeferred: what was flushed stays behind.
FlushKeeping(moveend) ==
    /\ SetSourceData(deferred)
    /\ armed' = [timer |-> FALSE, moveend |-> moveend] /\ UNCHANGED deferred
FlushDeferred(moveend) ==
    /\ SetSourceData(deferred)
    /\ armed' = [timer |-> FALSE, moveend |-> moveend] /\ deferred' = Empty

(******************************* the style's state ****************************)
\* applyClusterPolicy: beyond forty markers, unless near; nothing before style.load.
Clustered(many, near) ==
    IF phase = "ready" THEN [look EXCEPT !.clustering = many /\ ~near] ELSE look
\* setSelected filters the ring; flyTo eases to an incident that is in the list.
Ringed(l) == IF phase = "ready" THEN [l EXCEPT !.ring = props'.selected] ELSE l
Flown == camera' = IF props'.selected THEN [camera EXCEPT !.moving = TRUE] ELSE camera

(********************************* the effects ********************************)
Given == FoldSet(LAMBDA l, n : n + props.data[l], 0, Layer)
Changed(l) == props' = [props EXCEPT !.data[l] = @ + 1]
Give(l) == /\ phase # "none" /\ Given < MaxChanges
           /\ Changed(l) /\ UNCHANGED phase

\* A new list also selects and flies again: byId is a dependency of that effect.
SetIncidents ==
    /\ phase # "none" /\ Given < MaxChanges
    /\ \E many \in BOOLEAN :
         /\ props' = [props EXCEPT !.data["incidents"] = @ + 1, !.many = many]
         /\ look' = Ringed(Clustered(many, camera.near))
    /\ QueueSourceData("incidents", props'.data["incidents"])
    /\ Flown /\ UNCHANGED phase
SetSources ==
    /\ Give("fov") /\ QueueSourceData("fov", props'.data["fov"]) /\ UNCHANGED <<camera, look>>
\* Patrols move at 4 Hz and are written straight through.
SetPatrols ==
    /\ Give("patrol") /\ SetSourceData(Held(Empty, "patrol", props'.data["patrol"]))
    /\ UNCHANGED <<camera, deferred, armed, look>>
\* A hidden surface takes no data; what came meanwhile is given when it is shown.
SetRisk(on) ==
    /\ look' = IF phase = "ready" THEN [look EXCEPT !.risk = on] ELSE look
    /\ IF on THEN QueueSourceData("risk", props'.data["risk"])
       ELSE UNCHANGED <<pending, deferred, armed, onMap>>
    /\ UNCHANGED <<phase, camera>>
RiskChanges == \/ Give("risk") /\ SetRisk(props.risk)
               \/ /\ phase # "none" /\ props' = [props EXCEPT !.risk = ~@]
                  /\ SetRisk(props'.risk)
SetFovVisible ==
    /\ phase # "none" /\ props' = [props EXCEPT !.fov = ~@]
    /\ look' = IF phase = "ready" THEN [look EXCEPT !.fov = props'.fov] ELSE look
    /\ UNCHANGED <<phase, camera, pending, deferred, armed, onMap>>
SelectOnMap(id) ==
    /\ phase # "none" /\ props' = [props EXCEPT !.selected = id]
    /\ look' = Ringed(look) /\ Flown
    /\ UNCHANGED <<phase, pending, deferred, armed, onMap>>

(********************************** the map ***********************************)
\* All effects run once when the canvas mounts: nothing is ready, all is pending.
MountMap ==
    /\ phase = "none" /\ phase' = "loading"
    /\ pending' = [l \in Layer \ (IF props.risk THEN {} ELSE {"risk"}) |-> props.data[l]]
    /\ camera' = [moving |-> props.selected, near |-> FALSE]
    /\ deferred' = Empty /\ armed' = [timer |-> FALSE, moveend |-> FALSE]
    /\ onMap' = [l \in Layer |-> 0] /\ look' = Installed /\ UNCHANGED props
\* style.load: install the sources, empty, and the layers, and write what is pending.
StyleLoad ==
    /\ phase = "loading" /\ phase' = "ready"
    /\ onMap' = [l \in Layer |-> IF l \in DOMAIN pending THEN pending[l] ELSE 0]
    /\ pending' = Empty /\ look' = Installed
    /\ UNCHANGED <<props, camera, deferred, armed>>
Destroy ==
    /\ phase # "none" /\ phase' = "none"
    /\ pending' = Empty /\ deferred' = Empty /\ armed' = [timer |-> FALSE, moveend |-> FALSE]
    /\ camera' = [moving |-> FALSE, near |-> FALSE] /\ onMap' = [l \in Layer |-> 0] /\ look' = Installed
    /\ UNCHANGED props

MoveStart ==
    /\ phase # "none" /\ ~camera.moving /\ camera' = [camera EXCEPT !.moving = TRUE]
    /\ UNCHANGED <<props, phase, pending, deferred, armed, onMap, look>>
\* moveend flushes what an earlier deferral armed it for; zoomend applies the policy.
MoveEnd(near, zoomed) ==
    /\ phase # "none" /\ camera.moving /\ (near # camera.near => zoomed)
    /\ camera' = [moving |-> FALSE, near |-> near]
    /\ look' = IF zoomed THEN Clustered(props.many, near) ELSE look
    /\ IF armed.moveend THEN FlushDeferred(FALSE) ELSE UNCHANGED <<pending, deferred, armed, onMap>>
    /\ UNCHANGED <<props, phase>>
\* Two seconds after the first deferral, however long the camera moves.
FlushTimer ==
    /\ armed.timer /\ FlushDeferred(armed.moveend)
    /\ UNCHANGED <<props, phase, camera, look>>

MapInit ==
    /\ props = [data |-> [l \in Layer |-> 0], many |-> FALSE, risk |-> FALSE, fov |-> TRUE, selected |-> FALSE]
    /\ phase = "none" /\ camera = [moving |-> FALSE, near |-> FALSE]
    /\ pending = Empty /\ deferred = Empty /\ armed = [timer |-> FALSE, moveend |-> FALSE]
    /\ onMap = [l \in Layer |-> 0] /\ look = Installed
Effects == SetIncidents \/ SetSources \/ SetPatrols \/ RiskChanges \/ SetFovVisible
           \/ \E id \in BOOLEAN : SelectOnMap(id)
MapNext == \/ Effects \/ MountMap \/ StyleLoad \/ Destroy \/ MoveStart \/ FlushTimer
           \/ \E near, zoomed \in BOOLEAN : MoveEnd(near, zoomed)
MapSpec == MapInit /\ [][MapNext]_mapVars

(********************************** properties ********************************)
\* The last data given are the data on the map: patrols at any time, the others
\* whenever the camera rests, whatever was held back before the style loaded or
\* during a move and however the flush of one came between the writes of another.
MapShowsTheLast ==
    phase = "ready" =>
        /\ onMap["patrol"] = props.data["patrol"]
        /\ \A l \in {"incidents", "fov"} \cup (IF props.risk THEN {"risk"} ELSE {}) :
             IF ~camera.moving THEN onMap[l] = props.data[l]
             ELSE onMap[l] = props.data[l] \/ (armed.timer /\ deferred[l] = props.data[l])
=============================================================================
