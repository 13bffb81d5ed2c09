------------------------------ MODULE MCPaging ------------------------------
(* Up to three rows at first and one or two more later, in pages of one and of two. *)
EXTENDS Paging, TLC

CONSTANTS i1, i2, i3, i4, me, you, customer, tradie, near, far

Alternate(a, b) == [i \in Item |-> IF i \in {i2} THEN b ELSE a]

MCOwnerOf == Alternate(me, you)
MCRoleOf == Alternate(tradie, customer)
MCTextOf == Alternate(near, far)
MCJoined == Alternate(1, 2)

Lists == {"users", "all_profiles", "all_reviews", "help_desk", "profiles", "approved_reviews",
          "my_reviews", "favourites", "conversations", "messages"}

Filters ==
    {[status |-> "any", role |-> "any", text |-> "any"],
     [status |-> "approved", role |-> "any", text |-> "any"],
     [status |-> "any", role |-> tradie, text |-> near]}

Statuses == {[i \in Item |-> IF i = i3 THEN s ELSE "approved"] : s \in {"approved", "pending"}}

Firsts ==
    {[present |-> {i1, i2, i3}, stamp |-> [i \in Item |-> CASE i = i1 -> 6 [] i = i2 -> 4 [] OTHER -> 2],
      status |-> s] : s \in Statuses}
    \cup
    {[present |-> {i1, i3}, stamp |-> [i \in Item |-> IF i = i3 THEN 5 ELSE 2], status |-> s] : s \in Statuses}
=============================================================================
