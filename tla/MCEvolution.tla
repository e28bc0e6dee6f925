----------------------------- MODULE MCEvolution -----------------------------
(***************************************************************************)
(* Instances of Evolution for TLC.  The table has a key and one column to  *)
(* begin with.                                                             *)
(***************************************************************************)
EXTENDS Evolution

CONSTANTS r1, r2

Type(base, width) == [base |-> base, width |-> width]

MCInitialShape ==
  <<Column("id", Type("bigint", 0), FALSE), Column("code", Type("varchar", 20), TRUE)>>

Edit(op, name) == [op |-> op, name |-> name]

Adding == [op |-> "add", name |-> "note", type |-> Type("text", 0)]
Dropping == Edit("drop", "code")
Requiring == Edit("require", "code")
Renaming == [op |-> "rename", name |-> "code", to |-> "sku"]
Wider == [op |-> "retype", name |-> "code", type |-> Type("text", 0)]
Narrower == [op |-> "retype", name |-> "code", type |-> Type("varchar", 10)]

MCEdits == {Adding, Dropping, Requiring, Renaming, Wider, Narrower}

-----------------------------------------------------------------------------
(* Rows of a price and a stock.  The stock is unique, the price required.  *)

CONSTANTS k1, k2, k3

R(price, stock) == [c \in Cols |-> IF c = "price" THEN price ELSE stock]

Sold(v) == [p \in {k1} |-> R(v, Null)]

Prices == {Sold(0), Sold(1)}

Shelf == k1 :> R(1, 0) @@ k2 :> R(1, 1) @@ k3 :> R(1, Null)
Lower == k1 :> R(0, Null) @@ k2 :> R(0, Null)

Shelves == {Shelf, Lower}

Stocks == {k1 :> R(0, 1), k2 :> R(0, 1), k2 :> R(Null, Null)}

MCChangeSets == Prices \cup Shelves \cup Stocks

Comparison(col, op, value) == [kind |-> "compare", col |-> col, op |-> op, value |-> value]

InStock == Comparison("stock", "ge", 0)
Unpriced == [kind |-> "isnull", col |-> "price"]
Dear == [kind |-> "in", col |-> "price", values |-> {1}]
Cheap == [kind |-> "not", terms |-> {Dear}]
Either == [kind |-> "or", terms |-> {InStock, Unpriced}]
Both == [kind |-> "and", terms |-> {InStock, Dear}]

MCKeyOrder == <<k1, k2, k3>>
MCVals == {Null} \cup (-2 .. 1)

MCFilters == {InStock, Unpriced, Dear, Cheap, Either, Both}

Field(col) == [kind |-> "column", col |-> col]
Constant(value) == [kind |-> "const", value |-> value]
To(col, expr) == [col |-> col, expr |-> expr]

Trade == <<To("price", Field("stock")), To("stock", Field("price"))>>
Raise == <<To("price", [kind |-> "arith", op |-> "+", left |-> Field("price"),
                        right |-> Constant(1)])>>
Share == <<To("price", [kind |-> "arith", op |-> "/", left |-> Field("price"),
                        right |-> Field("stock")])>>
Fill == <<To("stock", [kind |-> "coalesce", left |-> Field("stock"),
                       right |-> Field("price")])>>
Clear == <<To("price", [kind |-> "case", when |-> InStock, left |-> Constant(0),
                        right |-> Field("price")])>>

MCAssignments == {Trade, Raise, Share, Fill, Clear, <<>>}

-----------------------------------------------------------------------------
CONSTANTS dev, test

Two == {Main, dev}
Three == {Main, dev, test}

Mix(ops, requests, branches, edits, changes, c, p) ==
  [ops |-> ops, requests |-> requests, branches |-> branches, edits |-> edits,
   changes |-> changes, commits |-> c, plans |-> p]

(* The mixes of operations, each with the requests at work, the branches,  *)
(* the edits made of schemas, the change sets, and the numbers of commits  *)
(* and plans.                                                              *)
MCWorkloads ==
  {Mix({"branch", "alter", "schema", "apply", "crash"}, {r1}, Two, MCEdits, {}, 1, 1),
   Mix({"branch", "alter", "schema"}, {r1}, Three, {Adding, Dropping, Wider, Narrower}, {}, 1, 1),
   Mix({"branch", "alter", "schema", "apply"}, {r1, r2}, Two, {Adding, Dropping}, {}, 1, 1),
   Mix({"branch", "commit", "propose", "review"}, {r1}, Two, {}, Prices, 3, 0),
   Mix({"branch", "commit", "propose", "crash"}, {r1, r2}, Two, {}, Prices, 3, 0),
   Mix({"branch", "commit", "propose"}, {r1, r2}, Two, {}, {Sold(1)}, 4, 0),
   Mix({"branch", "alter", "commit", "propose", "apply"}, {r1}, Two, {Adding}, Prices, 3, 1),
   Mix({"erase"}, {}, {}, {}, {}, 1, 0),
   Mix({"branch", "commit", "where"}, {r1, r2}, Two, {}, Shelves, 3, 0),
   Mix({"branch", "commit", "propose"}, {r1}, Two, {}, Stocks, 4, 0),
   Mix({"branch", "commit", "propose"}, {r1, r2}, Two, {}, Stocks, 3, 0)}

MCCatchUpWorkloads ==
  {Mix({"branch", "alter", "schema", "apply"}, {r1}, Two, {Adding, Wider}, {}, 1, 2)}

EvolutionSymmetry ==
  Permutations(Requests) \cup Permutations(Principals) \cup Permutations(Subjects)
    \cup Permutations(Texts) \cup Permutations(Keys)
=============================================================================
