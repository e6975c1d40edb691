----------------------------- MODULE Acquisition -----------------------------
(***************************************************************************)
(* Material a demuxer refuses (fis services/acquisition.py, nal.py): a     *)
(* recorder writes units until its export is interrupted, and what arrived *)
(* is made into a master a decoder opens, or refused with a reason.        *)
(***************************************************************************)
EXTENDS Integers, Sequences, SequencesExt, FiniteSetsExt, Lists

CONSTANTS
  Kinds,     \* what a recorder writes: "sps", "pps", "idr", "slice", "sei"
  MaxUnits   \* bound on the units of an export

VARIABLES
  stream,    \* units written, [kind, size]; a whole picture has size 8
  export     \* "recording", or what acquire made of it
acquisitionVars == <<stream, export>>

ParameterSets == {"sps", "pps"}
Of(units, kinds) == Filter(units, [kind : kinds, size : Nat])
Has(units, kind) == \E i \in DOMAIN units : units[i].kind = kind
Refusal(reason) == [opened |-> FALSE, refused |-> reason]
Recording == Refusal("still recording")

\* sizes of one kind in ascending order, the upper of the two in the middle
MedianSize(units, kind) ==
  LET sizes == SortSeq([i \in DOMAIN Of(units, {kind}) |-> Of(units, {kind})[i].size], <)
  IN  sizes[Len(sizes) \div 2 + 1]

\* the last unit, if it is a picture less than half as long as its kind usually is
Interrupted(units) ==
  LET tail == Last(units)
  IN  tail.kind \in {"slice", "idr"} /\ 2 * tail.size < MedianSize(units, tail.kind)

Whole(units) == IF Interrupted(units) THEN Front(units) ELSE units

\* Mutant of Decodable: every unit is kept, in its place.
DecodableAll(units, first) == units

\* parameter sets first, then everything from the first keyframe
Decodable(units, first) ==
  Of(units, ParameterSets) \o Of(SubSeq(units, first, Len(units)), Kinds \ ParameterSets)

Acquired(units) ==
  LET whole == Whole(units)
      keyframes == {i \in DOMAIN whole : whole[i].kind = "idr"}
  IN  IF units = <<>> THEN Refusal("no_nal_units")
      ELSE IF ~ Has(units, "sps") \/ ~ Has(units, "pps") THEN Refusal("missing_parameter_sets")
      ELSE IF keyframes = {} THEN Refusal("no_keyframe")
      ELSE [opened |-> TRUE, master |-> Decodable(whole, Min(keyframes))]

Write(kind) ==
  /\ export = Recording /\ Len(stream) < MaxUnits
  /\ stream' = Append(stream, [kind |-> kind, size |-> 8])
  /\ UNCHANGED export

\* the copy stops, perhaps inside a unit
Interrupt ==
  /\ export = Recording /\ stream # <<>> /\ Last(stream).size = 8
  /\ stream' = [stream EXCEPT ![Len(stream)].size = 2]
  /\ UNCHANGED export

Acquire ==
  /\ export = Recording
  /\ export' = Acquired(stream)
  /\ UNCHANGED stream

AcquisitionInit == stream = <<>> /\ export = Recording
AcquisitionNext == (\E kind \in Kinds : Write(kind)) \/ Interrupt \/ Acquire

-----------------------------------------------------------------------------
\* No picture of a master comes before its parameter sets or before a keyframe, however
\* the recording began and wherever its copy was cut.
MasterStartsAtAKeyframe ==
  export.opened =>
    \A i \in DOMAIN export.master : export.master[i].kind \in {"idr", "slice"} =>
      {"sps", "pps", "idr"} \subseteq {export.master[j].kind : j \in 1 .. i}
=============================================================================
