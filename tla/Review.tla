-------------------------------- MODULE Review --------------------------------
(* Reading an incident's package and taking copies of it out: the drawer of    *)
(* the control room, the package page, the lightbox of both, the route they    *)
(* read from, and the three exports (IncidentDrawer, IncidentPackageScreen,    *)
(* Lightbox, app/api/v1/incidents/[id]/package and export, lib/export).        *)
(*                                                                            *)
(* Drawer and page share one cached query per incident.  Its GET runs the      *)
(* understanding tier itself when nothing is stored, the page's button asks    *)
(* for a run with a POST; a run goes on when the reader has left.  Packages    *)
(* are numbered in the order in which runs store them.  A cached answer is     *)
(* such a number, Notice when the tier was unavailable, Nothing before the     *)
(* first answer.  What the runs write is the constant Written.                 *)
EXTENDS Integers, Sequences, FiniteSets

CONSTANTS Dossier, NoDossier,  \* the incidents read, and none of them
          Written,             \* the packages the runs store, in order
          Retries,             \* how often a failed read is sent again
          Limits               \* bounds: how many requests, moves, looks and copies

ASSUME ReviewAssumption == NoDossier \notin Dossier

Nothing == -1
Notice == 0
Failed == -1

VARIABLES stored,     \* the package the server has for an incident, Notice if none
          written,    \* how many were ever stored
          asked,   \* reads and runs asked for, in order
          cache,      \* per incident [data, stale, error]
          reading,    \* per incident the read in flight, [n, tries], n = 0 if none
          heard,      \* per incident the newest package announced complete
          view,       \* [screen, of, run]: what is open, and the run it asked for
          forensics,     \* per incident the forensics query: "pending", "here", "failed"
          box,        \* the lightbox: [index, overlay], index 0 when closed
          copies,     \* exports asked for: what was shown then, what was read, what they state
          moves, looks, limit  \* how often the reader went elsewhere, used the lightbox; the bounds
reader == <<view, forensics, box, moves, looks, limit>>
reviewVars == <<stored, written, asked, cache, reading, heard, reader, copies>>

(******************************* what is on show ******************************)
Panel(i) == CASE cache[i].error -> "error"
                 [] cache[i].data = Nothing -> "loading"
                 [] cache[i].data = Notice -> "unavailable"
                 [] OTHER -> "package"
If(condition, part) == IF condition THEN {part} ELSE {}
Unverified(p) == "statutes" \in p.has /\ ~p.verified

\* Of the parts of a package the page shows these, and of the bundle the timeline.
PageHead(p) == {"header", "metrics"} \cup If(~p.agrees, "disagreement")
PageReading(p, b) ==
    {"summary", "context"} \cup If(b = "here", "timeline")
    \cup If("causal" \in p.has \/ b = "here", "causal")
PageMeasures(p) == {"severity", "quality", "trace"} \cup (p.has \cap {"statutes", "routing"})
                   \cup If(Unverified(p), "unverified")
PageShows(p, b) == PageHead(p) \cup PageReading(p, b) \cup PageMeasures(p)
DrawerReading(p) == {"summary", "actors", "context"}
                    \cup (p.has \cap {"violation", "causal"}) \cup If(~p.agrees, "disagreement")
DrawerMeasures(p) == {"severity", "quality", "trace"} \cup (p.has \cap {"statutes", "routing"})
                     \cup If(Unverified(p), "unverified")
DrawerShows(p) == DrawerReading(p) \cup DrawerMeasures(p)
\* The open screen, when it has a package, and the parts in which it cites observations.
Shown == LET p == Written[cache[view.of].data]
         IN  IF view.screen = "page" THEN PageShows(p, forensics[view.of]) ELSE DrawerShows(p)
Citing == {"summary", "timeline", "context", "causal", "actors", "violation"}

\* What the copies state; failed says that an object did not verify.
OfflineHead(p) == {"summary", "claims", "reel", "timeline", "register"}
                  \cup (p.has \cap {"statutes"}) \cup If(Unverified(p), "unverified")
OfflineStates(p, failed) == OfflineHead(p) \cup {"quality", "trace"} \cup If(failed, "failures")
SummaryHead(p) == {"summary", "context", "severity"} \cup (p.has \cap {"violation", "causal", "statutes", "routing"})
                  \cup If(~p.agrees, "disagreement") \cup If(Unverified(p), "unverified")
SummaryStates(p) == SummaryHead(p) \cup {"kinematics", "quality"}
\* Built by removal: people become a count, and the log says what was removed.
Removals(p) == If("people" \in p.has, "people withheld") \cup {"dossiers withheld"}
DisclosureStates(p) ==
    {"summary", "register", "quality", "kinematics"} \cup (p.has \cap {"violation", "statutes"})
    \cup Removals(p) \cup If(~p.agrees, "disagreement") \cup If(Unverified(p), "unverified")
States(kind, p, failed) == CASE kind = "offline" -> OfflineStates(p, failed)
                             [] kind = "summary" -> SummaryStates(p)
                             [] kind = "disclosure" -> DisclosureStates(p)

(********************************* the requests *******************************)
Request(kind, i) == [kind |-> kind, of |-> i, phase |-> "sent", value |-> Nothing]
Room(n) == Len(asked) + n <= limit.requests
\* A read in flight is not sent twice; an invalidation cancels it and reads again.
Fetch(i, tries) == /\ Room(1)
                   /\ asked' = Append(asked, Request("get", i))
                   /\ reading' = [reading EXCEPT ![i] = [n |-> Len(asked) + 1, tries |-> tries]]
NoRead == [n |-> 0, tries |-> 0]

(********************************* the server *********************************)
\* GET answers what is stored, or runs the tier; POST runs it in any case.
Handle(n) ==
    /\ asked[n].phase = "sent"
    /\ asked' = [asked EXCEPT ![n] =
         IF @.kind = "get" /\ stored[@.of] # Notice
         THEN [@ EXCEPT !.phase = "answered", !.value = stored[asked[n].of]]
         ELSE [@ EXCEPT !.phase = "running"]]
    /\ UNCHANGED <<stored, written, cache, reading, heard, reader, copies>>
\* Mutant of Stores: the package an incident has is not replaced.
StoresOnce(n) ==
    /\ asked[n].phase = "running" /\ written < Len(Written)
    /\ written' = written + 1
    /\ stored' = [stored EXCEPT ![asked[n].of] = IF @ = Notice THEN written + 1 ELSE @]
    /\ asked' = [asked EXCEPT ![n].phase = "answered", ![n].value = written + 1]
    /\ UNCHANGED <<cache, reading, heard, reader, copies>>
Stores(n) ==
    /\ asked[n].phase = "running" /\ written < Len(Written)
    /\ written' = written + 1
    /\ stored' = [stored EXCEPT ![asked[n].of] = written + 1]
    /\ asked' = [asked EXCEPT ![n].phase = "answered", ![n].value = written + 1]
    /\ UNCHANGED <<cache, reading, heard, reader, copies>>
\* Without a key, or when the gateway gives up, a GET answers a notice and a POST
\* an error; a run that failed otherwise, or a request that is lost, is an error.
Declines(n) ==
    /\ asked[n].phase = "running"
    /\ asked' = [asked EXCEPT ![n].phase = "answered",
                      ![n].value = IF asked[n].kind = "get" THEN Notice ELSE Failed]
    /\ UNCHANGED <<stored, written, cache, reading, heard, reader, copies>>
Breaks(n) ==
    /\ \/ asked[n].phase \in {"sent", "running"}
       \/ asked[n].phase = "answered" /\ asked[n].value # Failed
    /\ asked' = [asked EXCEPT ![n].phase = "answered", ![n].value = Failed]
    /\ UNCHANGED <<stored, written, cache, reading, heard, reader, copies>>

(********************************* the answers ********************************)
Took(n) == [asked EXCEPT ![n].phase = "over", ![n].value = Nothing]
HearRead(i) ==
    LET n == reading[i].n  value == asked[n].value
    IN  /\ n # 0 /\ asked[n].phase = "answered"
        /\ IF value = Failed /\ reading[i].tries < Retries
           THEN /\ Room(1)
                /\ asked' = Append(Took(n), Request("get", i))
                /\ reading' = [reading EXCEPT ![i] = [n |-> Len(asked) + 1, tries |-> @.tries + 1]]
                /\ UNCHANGED cache
           ELSE /\ asked' = Took(n) /\ reading' = [reading EXCEPT ![i] = NoRead]
                /\ cache' = [cache EXCEPT ![i] =
                     IF value = Failed THEN [@ EXCEPT !.error = TRUE, !.stale = TRUE]
                     ELSE [data |-> value, stale |-> FALSE, error |-> FALSE]]
        /\ UNCHANGED <<stored, written, heard, reader, copies>>

Later(a, b) == IF a > b THEN a ELSE b
\* Mutant of Invalidate: a read that is under way is left to finish.
InvalidateGently(n, i) ==
    /\ cache' = [cache EXCEPT ![i].stale = TRUE]
    /\ IF view.of = i /\ reading[i].n = 0
       THEN /\ Room(1)
            /\ asked' = Append(Took(n), Request("get", i))
            /\ reading' = [reading EXCEPT ![i] = [n |-> Len(asked) + 1, tries |-> 0]]
       ELSE asked' = Took(n) /\ UNCHANGED reading
\* invalidateQueries: what nobody shows is marked stale, what is shown is read again.
Invalidate(n, i) ==
    /\ cache' = [cache EXCEPT ![i].stale = TRUE]
    /\ IF view.of = i
       THEN /\ Room(1)
            /\ asked' = Append(Took(n), Request("get", i))
            /\ reading' = [reading EXCEPT ![i] = [n |-> Len(asked) + 1, tries |-> 0]]
       ELSE asked' = Took(n) /\ UNCHANGED reading
\* onSuccess and onError of the page's mutation, whether or not the page is still open.
HearRun(n) ==
    /\ asked[n].kind = "post" /\ asked[n].phase = "answered"
    /\ IF asked[n].value = Failed
       THEN asked' = Took(n) /\ UNCHANGED <<cache, reading, heard>>
       ELSE /\ Invalidate(n, asked[n].of)
            /\ heard' = [heard EXCEPT ![asked[n].of] = Later(@, asked[n].value)]
    /\ UNCHANGED <<stored, written, reader, copies>>

(********************************* the reader *********************************)
\* What mounts reads if it has nothing, an error, or something stale; what unmounts
\* aborts its read.  The box belongs to the component, and a drawer that changes its
\* incident stays the same component.
Show(screen, i) ==
    LET left == IF view.of = NoDossier THEN reading ELSE [reading EXCEPT ![view.of] = NoRead]
    IN  /\ moves < limit.moves /\ moves' = moves + 1
        /\ <<screen, i>> # <<view.screen, view.of>> /\ (i = NoDossier => screen = "ops")
        /\ view' = [screen |-> screen, of |-> i, run |-> 0]
        /\ box' = IF screen = "ops" /\ view.screen = "ops" /\ i # NoDossier /\ view.of # NoDossier
                  THEN box ELSE [index |-> 0, overlay |-> FALSE]
        /\ IF i # NoDossier /\ (cache[i].data = Nothing \/ cache[i].stale \/ cache[i].error)
           THEN /\ Room(1)
                /\ asked' = Append(asked, Request("get", i))
                /\ reading' = [left EXCEPT ![i] = [n |-> Len(asked) + 1, tries |-> 0]]
           ELSE asked' = asked /\ reading' = left
        /\ forensics' = IF screen = "page" /\ forensics[i] = "failed"
                     THEN [forensics EXCEPT ![i] = "pending"] ELSE forensics
        /\ UNCHANGED <<stored, written, cache, heard, copies, looks, limit>>
\* Ten seconds after it came an answer is stale; nothing is read for that alone.
Ages(i) == /\ cache[i].data # Nothing /\ ~cache[i].stale /\ moves < limit.moves
           /\ cache' = [cache EXCEPT ![i].stale = TRUE]
           /\ UNCHANGED <<stored, written, asked, reading, heard, reader, copies>>
TryAgain == /\ view.of # NoDossier /\ Panel(view.of) = "error" /\ reading[view.of].n = 0
            /\ Fetch(view.of, 0)
            /\ UNCHANGED <<stored, written, cache, heard, reader, copies>>
\* The button is off until the run it asked for, and the read after it, are over.
Retrying == view.run # 0 /\ (asked[view.run].phase # "over" \/ reading[view.of].n # 0)
AskRun == /\ view.screen = "page" /\ Panel(view.of) = "unavailable" /\ ~Retrying /\ Room(2)
          /\ asked' = Append(asked, Request("post", view.of))
          /\ view' = [view EXCEPT !.run = Len(asked) + 1]
          /\ UNCHANGED <<stored, written, cache, reading, heard, forensics, box, moves, looks, limit, copies>>
BundleEnds(how) == /\ view.screen = "page" /\ forensics[view.of] = "pending"
                   /\ forensics' = [forensics EXCEPT ![view.of] = how]
                   /\ UNCHANGED <<stored, written, asked, cache, reading, heard, view, box, moves, looks, limit, copies>>

(******************************** the lightbox ********************************)
Board == IF view.of = NoDossier \/ Panel(view.of) # "package" THEN <<>>
         ELSE Written[cache[view.of].data].board
Look == looks < limit.looks /\ looks' = looks + 1
OpenAt(k) == /\ Look /\ k \in 1 .. Len(Board) /\ box' = [index |-> k, overlay |-> FALSE]
             /\ UNCHANGED <<stored, written, asked, cache, reading, heard, view, forensics, moves, limit, copies>>
\* A citation in a part on show opens the board where that observation is, if it is on it.
ShowEvidence(o) == /\ Citing \cap Shown # {}
                   /\ \E k \in 1 .. Len(Board) : Board[k] = o /\ (\A j \in 1 .. k - 1 : Board[j] # o) /\ OpenAt(k)
\* Arrows go around, the overlay stays on from one frame to the next.
Turn(delta) == /\ Look /\ box.index # 0 /\ Board # <<>>
               /\ box' = [box EXCEPT !.index = 1 + ((@ - 1 + delta + Len(Board)) % Len(Board))]
               /\ UNCHANGED <<stored, written, asked, cache, reading, heard, view, forensics, moves, limit, copies>>
Overlay == /\ Look /\ box.index # 0 /\ box' = [box EXCEPT !.overlay = ~@]
           /\ UNCHANGED <<stored, written, asked, cache, reading, heard, view, forensics, moves, limit, copies>>
CloseBox == /\ Look /\ box.index # 0 /\ box' = [index |-> 0, overlay |-> FALSE]
            /\ UNCHANGED <<stored, written, asked, cache, reading, heard, view, forensics, moves, limit, copies>>

(********************************* the exports ********************************)
AskCopy(kind) ==
    /\ view.screen = "page" /\ Panel(view.of) = "package" /\ Len(copies) < limit.copies
    /\ copies' = Append(copies, [kind |-> kind, of |-> view.of, phase |-> "asked",
                                 shown |-> cache[view.of].data, warned |-> "unverified" \in Shown,
                                 package |-> Notice, failed |-> FALSE, states |-> {}, toast |-> ""])
    /\ UNCHANGED <<stored, written, asked, cache, reading, heard, reader>>
\* The package is read before the bundle is awaited; then the objects are verified,
\* and a failure does not stop the export.
Reads(e) == /\ copies[e].phase = "asked"
            /\ copies' = [copies EXCEPT ![e].phase = "verifying", ![e].package = stored[copies[e].of]]
            /\ UNCHANGED <<stored, written, asked, cache, reading, heard, reader>>
Renders(e, failed) ==
    /\ copies[e].phase = "verifying"
    /\ copies' = [copies EXCEPT ![e].phase = "rendered", ![e].failed = failed,
                    ![e].states = States(copies[e].kind, Written[copies[e].package], failed)]
    /\ UNCHANGED <<stored, written, asked, cache, reading, heard, reader>>
\* requestExport saves the file, and runExport tells what the headers said of it.
Saved(e, lost) ==
    /\ copies[e].phase = "rendered"
    /\ copies' = [copies EXCEPT ![e].phase = "over",
                    ![e].toast = CASE lost -> "refused" [] copies[e].failed -> "failed objects, stated in the file"
                                   [] OTHER -> "exported"]
    /\ UNCHANGED <<stored, written, asked, cache, reading, heard, reader>>

ReviewInit ==
    /\ stored = [i \in Dossier |-> Notice] /\ written = 0 /\ asked = <<>>
    /\ cache = [i \in Dossier |-> [data |-> Nothing, stale |-> FALSE, error |-> FALSE]]
    /\ reading = [i \in Dossier |-> NoRead] /\ heard = [i \in Dossier |-> Notice]
    /\ view = [screen |-> "ops", of |-> NoDossier, run |-> 0] /\ forensics = [i \in Dossier |-> "pending"]
    /\ box = [index |-> 0, overlay |-> FALSE] /\ copies = <<>>
    /\ moves = 0 /\ looks = 0 /\ limit \in Limits
Served == \/ \E n \in 1 .. Len(asked) : Handle(n) \/ Stores(n) \/ Declines(n) \/ Breaks(n) \/ HearRun(n)
          \/ \E i \in Dossier : HearRead(i) \/ Ages(i)
Read == \/ \E screen \in {"ops", "page"}, i \in Dossier \cup {NoDossier} : Show(screen, i)
        \/ TryAgain \/ AskRun \/ (\E how \in {"here", "failed"} : BundleEnds(how))
        \/ (\E k \in 1 .. Len(Board) : OpenAt(k) \/ ShowEvidence(Board[k]))
        \/ Turn(1) \/ Turn(-1) \/ Overlay \/ CloseBox
Copied == \/ \E kind \in {"offline", "summary", "disclosure"} : AskCopy(kind)
          \/ \E e \in 1 .. Len(copies) : Reads(e) \/ (\E b \in BOOLEAN : Renders(e, b) \/ Saved(e, b))
ReviewNext == Served \/ Read \/ Copied
ReviewSpec == ReviewInit /\ [][ReviewNext]_reviewVars

(********************************** properties ********************************)
\* What the page announced as complete is what is shown from then on: the cached
\* package is as new, or marked stale, or being read again by a read that began
\* later, wherever the reader was when the run ended and whatever read was then
\* under way for the drawer or the page.
CompleteIsCurrent ==
    \A i \in Dossier : cache[i].data >= heard[i] \/ cache[i].stale \/ cache[i].data = Nothing

\* A copy is of no older a package than the page showed when it was asked for, however
\* runs of the tier, reads of the drawer and of the page, and the export's own read
\* follow one another: nobody takes out less than they had before them.  And the warning
\* that counsel has not verified the statutes, if the page gave it, is in the copy, unless
\* a newer run was stored before the export read.
CopyIsNoOlder ==
    \A e \in 1 .. Len(copies) : copies[e].phase # "asked" =>
      /\ copies[e].package >= copies[e].shown
      /\ copies[e].warned /\ copies[e].states # {} =>
           "unverified" \in copies[e].states \/ copies[e].package > copies[e].shown
=============================================================================
