---------------------------- MODULE MCStorefront ----------------------------
(* A store on a plan of one product, which is empty or sells one product   *)
(* of one variant and one image; new products have neither.                *)
EXTENDS Storefront, TLC
CONSTANTS p1, p2, p3, v1, f1

MCFirstProducts == {{}, {p1}}
MCVariantOf == [v \in {v1} |-> p1]
MCFileOf    == [f \in {f1} |-> p1]
MCMatching  == [f \in {"all", "shoes"} |-> IF f = "all" THEN {p1, p2, p3} ELSE {}]
MCSymmetry  == Permutations(Requests) \cup Permutations(Customers)
                 \cup Permutations({p2, p3})
=============================================================================
