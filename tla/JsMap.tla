------------------------------- MODULE JsMap -------------------------------
(* A JavaScript Map as a function on its keys, and clocks that stop at a   *)
(* bound.                                                                  *)
EXTENDS Naturals, Functions

(* Map.set and Map.delete. *)
With(f, x, v) == [y \in DOMAIN f \cup {x} |-> IF y = x THEN v ELSE f[y]]
Without(f, x) == Restrict(f, DOMAIN f \ {x})

(* Math.min, and a difference that never goes below zero. *)
Least(a, b) == IF a <= b THEN a ELSE b
Minus(a, b) == IF a <= b THEN 0 ELSE a - b
=============================================================================
