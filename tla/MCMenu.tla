------------------------------- MODULE MCMenu -------------------------------
(* Two stores of one tenant.  Store A has two categories with an item each,  *)
(* a group with one option and a price by size, a web view that merges the   *)
(* two items and adds a deal, and a vendor view with one mapping; store B a  *)
(* little of each, for an edit to stray into.                                *)
EXTENDS MenuBank

MCTenantOf == [l \in {"A", "B"} |-> "T"]

MCInitDb ==
    [next |-> 30, version |-> [l \in {"A", "B"} |-> 1],
     printers |-> [l \in {"A", "B"} |-> IF l = "A" THEN {"p1", "p3"} ELSE {"p2"}],
     menus |-> (1 :> [loc |-> "A", name |-> "wings", avail |-> TRUE, pos |-> 0])
               @@ (2 :> [loc |-> "B", name |-> "wings", avail |-> TRUE, pos |-> 0]),
     cats |-> (3 :> [loc |-> "A", menu |-> 1, name |-> "wings", avail |-> TRUE, pos |-> 0, printer |-> "p1"])
              @@ (4 :> [loc |-> "A", menu |-> 1, name |-> "fries", avail |-> TRUE, pos |-> 1, printer |-> NONE])
              @@ (5 :> [loc |-> "B", menu |-> 2, name |-> "wings", avail |-> TRUE, pos |-> 0, printer |-> "p2"]),
     items |-> (6 :> [loc |-> "A", cat |-> 3, name |-> "wings", price |-> 100, inStock |-> TRUE, outUntil |-> NONE,
                      printer |-> NONE, pos |-> 0])
               @@ (7 :> [loc |-> "A", cat |-> 4, name |-> "fries", price |-> 100, inStock |-> TRUE, outUntil |-> NONE,
                         printer |-> NONE, pos |-> 0])
               @@ (8 :> [loc |-> "B", cat |-> 5, name |-> "wings", price |-> 100, inStock |-> TRUE, outUntil |-> NONE,
                         printer |-> NONE, pos |-> 0]),
     groups |-> (9 :> [loc |-> "A", name |-> "wings", rules |-> [required |-> FALSE, min |-> 0, max |-> 0], portions |-> FALSE])
                @@ (10 :> [loc |-> "B", name |-> "wings", rules |-> [required |-> FALSE, min |-> 0, max |-> 0], portions |-> FALSE]),
     opts |-> (11 :> [loc |-> "A", group |-> 9, name |-> "wings", delta |-> 100, inStock |-> TRUE, pos |-> 0, isDefault |-> FALSE])
              @@ (12 :> [loc |-> "B", group |-> 10, name |-> "wings", delta |-> 100, inStock |-> TRUE, pos |-> 0, isDefault |-> FALSE]),
     links |-> {[item |-> 6, group |-> 9, pos |-> 0]},
     sizes |-> (13 :> [loc |-> "A", name |-> "wings", pos |-> 0]) @@ (14 :> [loc |-> "B", name |-> "wings", pos |-> 0]),
     itemSizes |-> {[item |-> 6, size |-> 13, price |-> 100]},
     optPrices |-> {[opt |-> 11, size |-> 13, price |-> 100]},
     views |-> (15 :> [loc |-> "A", kind |-> "web", rules |-> [markup |-> 0, round |-> "none", hidden |-> {}]])
               @@ (16 :> [loc |-> "A", kind |-> "vendor", rules |-> [markup |-> 0, round |-> "none", hidden |-> {}]]),
     entries |-> (17 :> [kind |-> "merge", anchors |-> <<6, 7>>, view |-> 15, loc |-> "A", category |-> NONE, pos |-> 0,
                         hidden |-> FALSE, price |-> NONE, sizePrices |-> <<>>, vendor |-> "vwings"])
                 @@ (18 :> [kind |-> "augment", anchors |-> <<7, 6>>, view |-> 15, loc |-> "A", category |-> NONE, pos |-> 1,
                            hidden |-> FALSE, price |-> 100, sizePrices |-> <<>>, vendor |-> "vwings"])
                 @@ (19 :> [kind |-> "map", anchors |-> <<7>>, view |-> 16, loc |-> "A", category |-> NONE, pos |-> 0,
                            hidden |-> FALSE, price |-> NONE, sizePrices |-> <<>>, vendor |-> "vwings"])]

MCRules == {[markup |-> 2000, round |-> "ceil_99", hidden |-> {3}], [markup |-> 0, round |-> "none", hidden |-> {4}]}
MCWishes == {[category |-> NONE, hidden |-> FALSE, price |-> NONE, vendor |-> "wings"],
             [category |-> "wings", hidden |-> TRUE, price |-> 100, vendor |-> "vwings"]}

(* Files: a new item for the category without a printer, rows of one item    *)
(* that disagree, a tie between printers, a printer the store lacks.         *)
MCRow(c, i, price, printer) == [menu |-> "wings", cat |-> c, item |-> i, price |-> price, printer |-> printer]

MCFiles == {<<MCRow("fries", "fries", NONE, NONE), MCRow("fries", "dip", 200, "p1")>>,
            <<MCRow("wings", "wings", 200, "p3"), MCRow("fries", "fries", 100, "p1"), MCRow("wings", "wings", 100, "p1")>>,
            <<MCRow("new", "wings", 100, "p1"), MCRow("new", "fries", NONE, "p3"), MCRow("new", "dip", NONE, NONE)>>,
            <<MCRow("wings", "dip", 100, "p2")>>}
=============================================================================
