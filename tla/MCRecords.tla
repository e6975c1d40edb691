------------------------------ MODULE MCRecords ------------------------------
(* One recording with a stated place and one without; an administrator and an *)
(* investigator, and each part of the office with what it needs of the others.*)
EXTENDS Records

CONSTANTS clip, still, crossing, ada, ivo

MCStated == [f \in Recording |-> IF f = clip THEN crossing ELSE None]

MCRoleOf == [w \in Worker |-> IF w = ada THEN "admin" ELSE "investigator"]

MCBudgets == {[registry |-> 6, search |-> 0, cases |-> 0, toggles |-> 0],
              [registry |-> 1, search |-> 5, cases |-> 0, toggles |-> 0],
              [registry |-> 0, search |-> 2, cases |-> 2, toggles |-> 4],
              [registry |-> 1, search |-> 2, cases |-> 6, toggles |-> 0]}
=============================================================================
