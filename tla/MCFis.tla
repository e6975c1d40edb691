-------------------------------- MODULE MCFis --------------------------------
(* Two connections, two recipes, one derivative and two bundles; six           *)
(* observations of four clocks and two fits; exports of five units; objects of  *)
(* every kind; two observations that report tracks moving on, reported again,   *)
(* too short, under one id and moving apart.                                    *)
EXTENDS Fis

\* connections and bundles are interchangeable
MCSymmetry == Permutations(Writer) \cup Permutations(Bundle)

MCRecipe == {"mixed", "external"}
MCStepsOf == [r \in MCRecipe |->
  CASE r = "mixed" -> {[class |-> "E", external |-> FALSE], [class |-> "I", external |-> FALSE],
                       [class |-> "D", external |-> FALSE]}
    [] OTHER -> {[class |-> "E", external |-> TRUE]}]

\* six observations, two of them at one source time
MCAt == <<1, 2, 3, 3, 4, 5>>
MCTieOrders == {{<<o, p>> \in (1..6) \X (1..6) : o < p}, {<<o, p>> \in (1..6) \X (1..6) : o > p}}

\* noise, drift, a step between the two at one time, and one shortly before the last
MCHistories == {<<0, 0, 0, 2, 1, 2>>, <<0, 3, 6, 6, 9, 12>>, <<0, 0, 1, 30, 30, 31>>, <<0, 0, 0, 0, 30, 31>>}

MCMaterials ==
  [signature : {"verified", "unverified", "bad_signature"}, sized : BOOLEAN, decodes : BOOLEAN,
   frames : {2, 60}, regular : BOOLEAN, cut : {FALSE}, overlay : {TRUE}, legible : {3, 4}, gaps : BOOLEAN,
   rescanned : BOOLEAN, created : {"none", "far"}, claimed : {TRUE}]

\* every half second, from here and by so much each time
Moving(x, step, n) == [k \in 1 .. n |-> [t |-> 500 * k, x |-> x + step * k]]
MCDeviceOf == [o1 |-> [homography |-> TRUE, residual |-> 2, jitter |-> 10],
               o2 |-> [homography |-> TRUE, residual |-> 9, jitter |-> 40]]
MCReports == {[id |-> "t1", from |-> "o1", samples |-> Moving(0, -60, 5)],
              [id |-> "t1", from |-> "o1", samples |-> Moving(9, -50, 5)],
              [id |-> "t2", from |-> "o2", samples |-> Moving(30, 60, 3)],
              [id |-> "t1", from |-> "o2", samples |-> Moving(30, 60, 1)],
              [id |-> "t1", from |-> "o2", samples |-> Moving(-200, 60, 5)]}
=============================================================================
