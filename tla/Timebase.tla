------------------------------ MODULE Timebase ------------------------------
(***************************************************************************)
(* The clock model of one source (fis services/timebase.py,                *)
(* api/routers_timebase.py): observations of its clock arrive in any       *)
(* order, a fit loads them, splits them where the clock was stepped, and   *)
(* replaces the stored segments in a transaction of its own.               *)
(*                                                                         *)
(* The fit is exact: every quantity of the least squares is kept as its    *)
(* integer numerator over a common denominator and every observation has   *)
(* sigma 1, so comparisons of the code are comparisons of integers.        *)
(* MinForBreak stands for the code's 6.  A source may be observed several  *)
(* times at one reading of its clock; the query does not say in which      *)
(* order it returns these.                                                 *)
(***************************************************************************)
EXTENDS Integers, Sequences, SequencesExt, FiniteSetsExt, Lists

CONSTANTS
  Fitter,        \* requests to fit, each made once
  Observation,   \* the observations of the clock that may be posted
  At,            \* per observation its source time
  Histories,     \* what the clock may do: the error each observation shows
  TieOrders,     \* the orders in which observations at one source time are returned
  MinForBreak    \* observations before a fit may judge a break

ASSUME TimebaseAssumption ==
  /\ At \in [Observation -> Nat] /\ Histories \subseteq [Observation -> Int] /\ MinForBreak \in Nat \ {0, 1}
  /\ \A tie \in TieOrders :
       /\ \A o, p \in Observation : <<o, p>> \in tie <=> o # p /\ <<p, o>> \notin tie
       /\ \A o, p, q \in Observation : <<o, p>> \in tie /\ <<p, q>> \in tie => <<o, q>> \in tie

VARIABLES
  history,   \* the clock of this source
  observed,  \* sync_observation: those recorded
  fits,      \* per request: idle, loaded with what it read, storing, answered, or done without a fit
  segments   \* clock_segment by seq: the observations each row was fitted from
clockVars == <<history, observed, fits, segments>>

BreakSigmas == 6
FreeRunning == 1   \* of one unit of time past the last observation

-----------------------------------------------------------------------------
(* _fit_one: numerators over det, and n for the residual *)

Total(list) ==
  LET upTo[n \in 0 .. Len(list)] == IF n = 0 THEN 0 ELSE upTo[n - 1] + list[n]
  IN  upTo[Len(list)]

\* the design: elapsed time and error of each observation, and the sums over them
Sums(list) ==
  LET x == [i \in DOMAIN list |-> At[list[i]] - At[list[1]]]
      y == [i \in DOMAIN list |-> history[list[i]]]
  IN  [n |-> Len(list), x |-> x, y |-> y, sx |-> Total(x), sy |-> Total(y),
       sxx |-> Total([i \in DOMAIN x |-> x[i] * x[i]]), sxy |-> Total([i \in DOMAIN x |-> x[i] * y[i]])]

Line(s) ==
  LET det == s.n * s.sxx - s.sx * s.sx
      b0 == s.sxx * s.sy - s.sx * s.sxy
      b1 == s.n * s.sxy - s.sx * s.sy
      residual == [i \in DOMAIN s.x |-> det * s.y[i] - b0 - b1 * s.x[i]]
      \* twice the noise over the span, and twice its own standard error
      measurable == /\ b1 * Last(s.x) > 2 * det \/ -b1 * Last(s.x) > 2 * det
                    /\ b1 * b1 > 4 * s.n * det
  IN  [n |-> s.n, det |-> det, offset |-> b0, drift |-> IF measurable THEN b1 ELSE 0,
       offsetVar |-> s.sxx, driftVar |-> s.n, cov |-> -s.sx,
       rss |-> Total([i \in DOMAIN residual |-> residual[i] * residual[i]])]

From(list) == At[list[1]]
To(list) == At[Last(list)]

\* of one observation, or several at the same instant, an offset is measured, and no rate
Fit(list) ==
  IF From(list) = To(list)
  THEN [n |-> Len(list), det |-> Len(list), offset |-> Total([i \in DOMAIN list |-> history[list[i]]]),
        drift |-> 0, offsetVar |-> 1, driftVar |-> 0, cov |-> 0, rss |-> 0]
  ELSE Line(Sums(list))

\* Mutant of Scale: a break is judged by the scatter alone.
ScaleOfScatter(fit, e) == fit.rss

\* prediction variance, the observation's own, and the scatter: over det^2 n
Scale(fit, e) ==
  fit.n * fit.det * (fit.offsetVar + 2 * e * fit.cov + e * e * fit.driftVar)
    + fit.n * fit.det * fit.det + fit.rss

\* an error y shown e after the start of the fit
Breaks(fit, e, y) ==
  LET off == fit.det * y - fit.offset - fit.drift * e
  IN  off * off * fit.n > BreakSigmas * BreakSigmas * Scale(fit, e)

-----------------------------------------------------------------------------
(* segment *)

Taken(state, o) ==
  IF /\ Len(state.current) >= MinForBreak
     /\ Breaks(Fit(state.current), At[o] - From(state.current), history[o])
  THEN [done |-> Append(state.done, state.current), current |-> <<o>>]
  ELSE [state EXCEPT !.current = Append(@, o)]

\* a tail of one or two takes the place of the segment before it
Segmented(list) ==
  LET taken[n \in 0 .. Len(list)] ==
        IF n = 0 THEN [done |-> <<>>, current |-> <<>>] ELSE Taken(taken[n - 1], list[n])
      end == taken[Len(list)]
  IN  IF end.done # <<>> /\ Len(end.current) < 3
      THEN Append(Front(end.done), end.current)
      ELSE Append(end.done, end.current)

-----------------------------------------------------------------------------
(* The requests *)

\* sent and forgotten: it may come late, out of order, or not at all
Observe(o) ==
  /\ o \notin observed
  /\ observed' = observed \cup {o}
  /\ UNCHANGED <<history, fits, segments>>

InOrder(S, tie) ==
  Ordered(S, {pair \in S \X S : \/ At[pair[1]] < At[pair[2]]
                                \/ At[pair[1]] = At[pair[2]] /\ pair \in tie})

\* one statement, ordered by source time alone; fewer than two are not fitted
Load(f, tie) ==
  /\ fits[f].at = "idle"
  /\ fits' = [fits EXCEPT ![f] = IF Cardinality(observed) < 2 THEN [at |-> "done"]
                                 ELSE [at |-> "loaded", list |-> InOrder(observed, tie)]]
  /\ UNCHANGED <<history, observed, segments>>

\* its DELETE sees the rows of this moment
Replace(f) ==
  /\ fits[f].at = "loaded"
  /\ fits' = [fits EXCEPT ![f].at = "storing"]
  /\ UNCHANGED <<history, observed, segments>>

\* Mutant of Rows: rows are overwritten by seq, and none is deleted first.
RowsOverwritten(new) == new \o SubSeq(segments, Len(new) + 1, Len(segments))

Rows(new) == new

\* the transaction ends; another that has deleted meanwhile inserts seq 0 a second
\* time and fails with it
Store(f) ==
  /\ fits[f].at = "storing"
  /\ segments' = Rows(Segmented(fits[f].list))
  /\ fits' = [g \in Fitter |-> IF g = f THEN [at |-> "answered", list |-> fits[f].list, segments |-> Segmented(fits[f].list)]
                              ELSE IF fits[g].at = "storing" THEN [at |-> "done"] ELSE fits[g]]
  /\ UNCHANGED <<history, observed>>

TimebaseInit ==
  /\ history \in Histories /\ observed = {} /\ segments = <<>>
  /\ fits = [f \in Fitter |-> [at |-> "idle"]]

TimebaseNext ==
  \/ \E o \in Observation : Observe(o)
  \/ \E f \in Fitter : (\E tie \in TieOrders : Load(f, tie)) \/ Replace(f) \/ Store(f)

-----------------------------------------------------------------------------
(* resolve *)

Covers(s, t) == From(s) <= t /\ t <= To(s)
Distance(s, t) == LET d(a) == IF a < t THEN t - a ELSE a - t IN Min({d(From(s)), d(To(s))})

\* the first that covers the reading, or else the nearest
Chosen(t) ==
  LET inside == {i \in DOMAIN segments : Covers(segments[i], t)}
      nearest == {i \in DOMAIN segments : \A j \in DOMAIN segments :
                                            Distance(segments[i], t) <= Distance(segments[j], t)}
  IN  segments[Min(IF inside # {} THEN inside ELSE nearest)]

Unobserved(s, t) == IF Covers(s, t) THEN 0 ELSE Distance(s, t)

\* sigma squared: the fit, its drift applied for so long, the free oscillator, the scatter
Widened(fit, e, free) ==
  fit.n * fit.det * (fit.offsetVar + e * e * fit.driftVar) + free * free * fit.det * fit.det * fit.n + fit.rss
SigmaIn(s, t) == Widened(Fit(s), t - From(s), FreeRunning * Unobserved(s, t))
Sigma(t) == SigmaIn(Chosen(t), t)

-----------------------------------------------------------------------------
\* "An earlier version split a clock that never jumped" (timebase.py:167): a clock that
\* only jitters is one segment, whichever of its readings have arrived when it is fitted.
JitterIsOneSegment ==
  (\A o, p \in Observation : history[o] - history[p] <= 2) => Len(segments) <= 1

\* Whatever order observations and fits arrive in, and however often the clock was read at
\* one time: rows of different fits never stand side by side, so that no observation counts
\* in two segments and their spans meet in an end point at most, where the clock was
\* stepped between two observations at one source time; and a reading further past the
\* last observation is known less well.
ClockIsSound ==
  /\ \A i, j \in DOMAIN segments : i < j =>
       /\ To(segments[i]) <= From(segments[j])
       /\ ToSet(segments[i]) \cap ToSet(segments[j]) = {}
  /\ segments # <<>> =>
       LET last == Max({To(segments[i]) : i \in DOMAIN segments})
       IN  \A d \in 1 .. 3 : Sigma(last + d) < Sigma(last + d + 1)

\* "A tail too short to fit is kept with the segment before it" (timebase.py:206): every
\* observation a fit used is in the segments it answers with.
TailIsKept ==
  \A f \in Fitter : fits[f].at = "answered" =>
    \A i \in DOMAIN fits[f].list :
      \E s \in DOMAIN fits[f].segments : fits[f].list[i] \in ToSet(fits[f].segments[s])
=============================================================================
