------------------------------ MODULE HandleMaps -----------------------------
(* Maps from window handles, as the code uses std::unordered_map.          *)
EXTENDS Functions

(* map[x] = v, where x may be new.                                         *)
With(map, x, v) == [y \in DOMAIN map \cup {x} |-> IF y = x THEN v ELSE map[y]]

(* map.erase(x)                                                            *)
Without(map, x) == Restrict(map, DOMAIN map \ {x})
=============================================================================
