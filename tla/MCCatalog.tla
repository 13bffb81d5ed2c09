----------------------------- MODULE MCCatalog -----------------------------
(* A removed and an active category and a pending help request, and the calls on them. *)
EXTENDS Catalog, TLC

CONSTANTS plumbing, roofing, painting, old1, old2, help1, r1, r2

Asks(kind, id, values) == [kind |-> kind, id |-> id, values |-> values]

AnyOf ==
    {Asks("create", old1, "name" :> plumbing @@ "rest" :> r1),
     Asks("create", old1, "name" :> roofing @@ "rest" :> r1),
     Asks("update", old1, "name" :> plumbing),
     Asks("update", old1, "rest" :> r2 @@ "active" :> TRUE),
     Asks("update", old1, "name" :> roofing @@ "active" :> FALSE),
     Asks("update", old2, "name" :> plumbing),
     Asks("update", help1, "rest" :> r2),
     Asks("remove", old1, << >>), Asks("remove", old2, << >>),
     Asks("get", old1, << >>), Asks("list", old1, << >>),
     Asks("ask", old1, << >>),
     Asks("resolve", help1, << >>), Asks("resolve", old1, << >>)}

Row(name, active) == "name" :> name @@ "active" :> active @@ "rest" :> r1

Tables ==
    {[i \in RowId |-> CASE i = old1 -> Row(names[1], active)
                     [] i = old2 -> Row(names[2], TRUE)
                     [] i = help1 -> "status" :> "pending"
                     [] OTHER -> NoRow] :
        names \in {<<plumbing, roofing>>, <<roofing, painting>>}, active \in BOOLEAN}

Symmetry == Permutations(Call)
=============================================================================
