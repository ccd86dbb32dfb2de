----------------------------- MODULE VariableMap -----------------------------
(***************************************************************************)
(* What shell memory promises: a map from names to values with room for a  *)
(* fixed number of names.  A new name for which there is no room is        *)
(* ignored.                                                                *)
(***************************************************************************)
EXTENDS Naturals, FiniteSets

CONSTANTS Names, Values, Undefined, Capacity

VARIABLES env,     \* the value of each name, or Undefined
          asked    \* name and value of the set that was asked for last, or anything else

Defined == {v \in Names : env[v] # Undefined}

Init == env = [v \in Names |-> Undefined] /\ asked = << >>

HasRoom(v) == v \in Defined \/ Cardinality(Defined) < Capacity

Set(v, x) == /\ asked' = <<v, x>>
             /\ env' = IF HasRoom(v) THEN [env EXCEPT ![v] = x] ELSE env

Other == asked' \notin Names \X Values /\ UNCHANGED env

Next == Other \/ \E v \in Names, x \in Values : Set(v, x)

Spec == Init /\ [][Next]_<<env, asked>>
=============================================================================
