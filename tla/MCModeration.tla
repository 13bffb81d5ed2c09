---------------------------- MODULE MCModeration ----------------------------
(***************************************************************************)
(* Bounds for model checking Moderation: a customer and the approved       *)
(* profile of a tradie, which an old review of another customer is on.     *)
(***************************************************************************)
EXTENDS Moderation, TLC

CONSTANTS cust, trad, other, old1, boss, deputy, why

Ask(kind, user) ==
    [kind |-> kind, user |-> user, profile |-> trad, role |-> "customer", table |-> "profiles",
     ids |-> << >>, bulk |-> FALSE, status |-> "approved", reason |-> Null, admin |-> boss]

Decide(table, ids, bulk, status, admin) ==
    [Ask("decide", cust) EXCEPT
        !.table = table, !.ids = ids, !.bulk = bulk, !.status = status,
        !.reason = IF status = "approved" THEN Null ELSE why, !.admin = admin]

AnyOf ==
    {Ask("review", cust), [Ask("review", cust) EXCEPT !.role = "tradie"],
     Ask("add", cust), Ask("remove", cust), Ask("contact", cust), Ask("visit", cust),
     Ask("erase", cust), Ask("erase", trad),
     Decide("profiles", <<trad>>, FALSE, "rejected", boss),
     Decide("profiles", <<trad>>, FALSE, "approved", deputy),
     Decide("reviews", <<old1>>, FALSE, "rejected", deputy),
     Decide("reviews", <<old1, cust, old1>>, TRUE, "approved", boss),
     Decide("profiles", <<cust, trad>>, TRUE, "rejected", boss)}

AtFirst(status) ==
    [col \in Column |-> CASE col = "status" -> status
                          [] col = "reason" -> IF status = "rejected" THEN why ELSE Null
                          [] OTHER          -> Null]

Tables ==
    {[rows |-> {Profile(trad), [table |-> "reviews", id |-> old1, customer |-> other, profile |-> trad]},
      decision |-> [id \in Item |-> AtFirst(status)]] : status \in {"approved", "rejected"}}

Symmetry == Permutations(Call)
=============================================================================
