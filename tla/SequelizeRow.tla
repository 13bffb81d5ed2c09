---------------------------- MODULE SequelizeRow ----------------------------
(***************************************************************************)
(* What instance.update(values) and instance.save() of Sequelize do to a   *)
(* row.  An instance is a copy of the row as a query read it.  Only the    *)
(* columns whose value differs from that copy are written, whatever the    *)
(* row holds by now; if none does, no statement is sent at all.  A row is  *)
(* a function on the columns, and values a function on some of them.       *)
(***************************************************************************)

\* The columns the statement sets.
Changed(instance, values) == {col \in DOMAIN values : values[col] # instance[col]}

\* The row after values are written to the columns cols of it.
Set(row, cols, values) ==
    [col \in DOMAIN row |-> IF col \in cols THEN values[col] ELSE row[col]]
=============================================================================
