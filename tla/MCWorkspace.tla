---------------------------- MODULE MCWorkspace ----------------------------
(* Two bundles and seven sessions for the console, each strong in one kind of *)
(* step; props that change twice for the map; and for the review a package    *)
(* the scene pass disputes and one it does not.                               *)
EXTENDS Workspace

O(a, b, video) == [source |-> "cam", t_start |-> a, t_end |-> b, video |-> video]
MCRecords ==
    {[anchor |-> 1, offset |-> [cam |-> 0], sensors |-> <<>>,
      observations |-> <<O(1, 1, FALSE), O(7, 9, TRUE), O(0, 6, TRUE)>>],
     [anchor |-> 1, offset |-> [cam |-> 1], sensors |-> <<>>,
      observations |-> <<O(1, 3, TRUE), O(3, 7, TRUE)>>]}
MCRanges == {<<2, 5>>, <<0, 1>>}
S(sl, t, st, d, r, sel, act, list, go, drop) ==
    [stall |-> sl, transport |-> t, stage |-> st, deck |-> d, refetch |-> r,
     select |-> sel, act |-> act, list |-> list, go |-> go, drop |-> drop]
MCSessions ==
    {S(6, 1, 0, 0, 0, 0, 0, 0, 0, 0), S(0, 2, 0, 0, 0, 0, 0, 0, 0, 0), S(1, 1, 1, 0, 1, 0, 0, 0, 1, 0),
     S(0, 1, 0, 1, 0, 0, 0, 0, 0, 0), S(0, 0, 0, 2, 0, 0, 0, 0, 0, 0),
     S(0, 0, 0, 0, 0, 0, 2, 0, 0, 2), S(0, 0, 0, 0, 0, 1, 1, 1, 1, 1)}
MCWritten ==
    <<[board |-> <<"o1", "o2">>, agrees |-> FALSE, verified |-> FALSE, has |-> {"statutes", "people", "causal"}],
      [board |-> <<"o2">>, agrees |-> TRUE, verified |-> TRUE, has |-> {"statutes", "routing", "violation"}]>>
MCLimits == {[requests |-> 5, moves |-> 2, looks |-> 0, copies |-> 0],
             [requests |-> 2, moves |-> 1, looks |-> 2, copies |-> 1],
             [requests |-> 2, moves |-> 2, looks |-> 0, copies |-> 1]}
=============================================================================
