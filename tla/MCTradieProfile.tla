--------------------------- MODULE MCTradieProfile ---------------------------
(* Small instances of TradieProfile: two categories, two photos. *)
EXTENDS TradieProfile, TLC

CONSTANTS a, b, u

SetUp(services, regions, image) ==
    [kind |-> "setup", services |-> services, regions |-> regions, image |-> image, size |-> 0]

Upload(n) == [kind |-> "upload", services |-> {}, regions |-> {}, image |-> FALSE, size |-> n]

Remove == [Upload(0) EXCEPT !.kind = "remove"]

\* Set-ups whose lists overlap, and one of each kind that is refused.
SetUps == { SetUp({a}, {a}, TRUE), SetUp({a, b}, {b}, TRUE), SetUp({b}, {}, FALSE) }

Refusals == { SetUp({a, b, u}, {a}, TRUE), SetUp({u}, {a}, FALSE), SetUp({a}, {u}, FALSE) }

AnyOf == SetUps \cup Refusals \cup { Upload(1), Upload(2), Remove }

Symmetry == Permutations(Call)
=============================================================================
