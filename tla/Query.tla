--------------------------------- MODULE Query ---------------------------------
(***************************************************************************)
(* The query console: a question is screened, fixed queries read the        *)
(* store, a model phrases an answer from what they returned, and the        *)
(* incidents it names are cited (lib/reasoning/query.ts, the query route,   *)
(* components/query/QueryScreen.tsx).  The answer's words, its table and    *)
(* the rows of the aggregating queries are left out: no incident is cited   *)
(* from them.                                                               *)
(***************************************************************************)
EXTENDS Integers, Sequences, FiniteSets

CONSTANTS
  Questions,   \* what may be asked, [days, screened]
  NoQuestion,  \* the empty input
  ReadLimit,   \* incidents that incidents.recent returns at most
  LastDay, MaxFiled, MaxAsked   \* bounds

ASSUME QuestionsAssumption ==
  /\ NoQuestion \notin Questions
  /\ \A q \in Questions : q.days \in Nat /\ q.screened \in BOOLEAN

VARIABLES
  today,    \* the server's clock
  filed,    \* filed[i]: the day incident i was detected; an incident is known by its number
  keyed,    \* whether a model is configured
  asked,    \* the questions sent, in order, with how far each is
  queries,  \* the table: the answers stored, as numbers of asked
  shown,    \* the history on the screen, likewise
  pinned,   \* the answers pinned to the active case
  typed     \* the input
queryVars == <<today, filed, keyed, asked, queries, shown, pinned, typed>>

-----------------------------------------------------------------------------
(* The store *)

\* an incident is filed with the capture time of its observation, which may be old
File(day) ==
  /\ Len(filed) < MaxFiled /\ day <= today
  /\ filed' = Append(filed, day)
  /\ UNCHANGED <<today, keyed, asked, queries, shown, pinned, typed>>

DayPasses ==
  /\ today < LastDay /\ today' = today + 1
  /\ UNCHANGED <<filed, keyed, asked, queries, shown, pinned, typed>>

\* incidents.recent: of the window of a question the latest, no more than the limit
Window(q) == {i \in DOMAIN filed : filed[i] > today - q.days}
Later(i, j) == filed[j] > filed[i] \/ (filed[j] = filed[i] /\ j > i)
Recent(q) == {i \in Window(q) : Cardinality({j \in Window(q) : Later(i, j)}) < ReadLimit}

-----------------------------------------------------------------------------
(* The server *)

\* a query that throws has returned no rows; the handler is atomic up to the call
Read(q) == IF q.screened THEN {{}} ELSE {Recent(q), {}}

\* screened, or no model to phrase an answer: stored and answered at once
Stage(q) == IF q.screened \/ ~ keyed THEN "answered" ELSE "phrasing"

Asks(q) ==
  /\ Len(asked) < MaxAsked
  /\ \E rows \in Read(q) : asked' = Append(asked, [question |-> q, rows |-> rows, cited |-> {}, at |-> Stage(q)])
  /\ queries' = IF Stage(q) = "answered" THEN queries \cup {Len(asked) + 1} ELSE queries

\* Mutant of Known: what the store holds when the model has answered.
KnownNow(k) == Recent(asked[k].question)
\* the ids the queries returned for a question
Known(k) == asked[k].rows

\* the model may name any incident there is
Phrased(k, named) ==
  /\ asked[k].at = "phrasing"
  /\ asked' = [asked EXCEPT ![k].at = "answered", ![k].cited = named \cap Known(k)]
  /\ queries' = queries \cup {k}
  /\ UNCHANGED <<today, filed, keyed, shown, pinned, typed>>

\* the call throws: 502, and nothing is stored
CallFails(k) ==
  /\ asked[k].at = "phrasing"
  /\ asked' = [asked EXCEPT ![k].at = "failed"]
  /\ UNCHANGED <<today, filed, keyed, queries, shown, pinned, typed>>

-----------------------------------------------------------------------------
(* The screen *)

\* the mutation on the screen is the last one sent
Busy == asked # <<>> /\ asked[Len(asked)].at \in {"phrasing", "answered", "failed"}

Type(q) ==
  /\ ~ Busy /\ typed' = q
  /\ UNCHANGED <<today, filed, keyed, asked, queries, shown, pinned>>

Submit ==
  /\ ~ Busy /\ typed # NoQuestion /\ Asks(typed)
  /\ UNCHANGED <<today, filed, keyed, shown, pinned, typed>>

\* a suggestion is sent whether or not another question is out
Suggested(q) ==
  /\ shown = <<>> /\ ~ q.screened /\ Asks(q)
  /\ UNCHANGED <<today, filed, keyed, shown, pinned, typed>>

\* answers are listed as they arrive; the input is cleared, whatever it holds by then
Arrives(k) ==
  /\ asked[k].at = "answered"
  /\ asked' = [asked EXCEPT ![k].at = "settled"]
  /\ shown' = Append(shown, k) /\ typed' = NoQuestion
  /\ UNCHANGED <<today, filed, keyed, queries, pinned>>

\* an error was answered, or the answer is lost on its way: a toast
ArrivesNot(k) ==
  /\ asked[k].at \in {"answered", "failed"}
  /\ asked' = [asked EXCEPT ![k].at = "settled"]
  /\ UNCHANGED <<today, filed, keyed, queries, shown, pinned, typed>>

\* a blocked answer has no such button; without an active case it does nothing
Pin(n) ==
  /\ ~ asked[shown[n]].question.screened
  /\ pinned' = pinned \cup {shown[n]}
  /\ UNCHANGED <<today, filed, keyed, asked, queries, shown, typed>>

QueryInit ==
  /\ today = 1 /\ filed = <<>> /\ keyed \in BOOLEAN
  /\ asked = <<>> /\ queries = {} /\ shown = <<>> /\ pinned = {} /\ typed = NoQuestion

QueryNext ==
  \/ \E day \in 1 .. LastDay : File(day)
  \/ DayPasses
  \/ \E k \in DOMAIN asked, named \in SUBSET DOMAIN filed : Phrased(k, named)
  \/ \E k \in DOMAIN asked : CallFails(k) \/ Arrives(k) \/ ArrivesNot(k)
  \/ \E q \in Questions : Type(q) \/ Suggested(q)
  \/ Submit
  \/ \E n \in DOMAIN shown : Pin(n)

-----------------------------------------------------------------------------
\* "the trace above the answer a true account of what was read" (query.ts:13-14): an
\* answer on the screen or in a case is the stored one, and each incident it cites is of
\* the rows read for its own question, however many were filed while the model phrased it
\* and in whatever order the answers of two questions came.
CitationsWereRead ==
  \A k \in {shown[n] : n \in DOMAIN shown} \cup pinned :
    k \in queries /\ asked[k].cited \subseteq asked[k].rows
=============================================================================
