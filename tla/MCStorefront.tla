---------------------------- MODULE MCStorefront ----------------------------
(* A shop with a pizza in two sizes, a soda, a combined item and a group of  *)
(* options; a day of 6 ticks, a week of 2 days.                              *)
EXTENDS Storefront

r(o, c) == [open |-> o, close |-> c]

(* Overnight on the first day, a split day on the second; or no hours.       *)
MCHours == {(0 :> {r(3, 1)} @@ 1 :> {r(1, 2), r(4, 5)}), (0 :> {} @@ 1 :> {})}
MCExceptions == {[closed |-> TRUE, hours |-> {}], [closed |-> FALSE, hours |-> {r(2, 2)}],
                 [closed |-> FALSE, hours |-> {r(0, 4)}]}
MCOrderings == {[pickup |-> p, delivery |-> TRUE, eta |-> [pickup |-> 1, delivery |-> 2], days |-> 1] : p \in BOOLEAN}
                 \cup {[pickup |-> TRUE, delivery |-> TRUE, eta |-> [pickup |-> 9, delivery |-> 2], days |-> 1]}
MCPresetLen == [p \in {"30m"} |-> 2]
MCUntils == {NONE, 8}

group(opts, req, min, max) == [opts |-> opts, required |-> req, min |-> min, max |-> max, multiple |-> FALSE]
opt(p, d) == [price |-> p, prices |-> [z \in {"L"} |-> p + 10], isDefault |-> d, soldOut |-> FALSE]
noChoice == [c \in {} |-> Nil]
thing(p, sizes, b, groups) ==
    [price |-> p, sizes |-> sizes, choices |-> noChoice, bank |-> b, rate |-> b, groups |-> groups, soldOut |-> FALSE]
MCMenu ==
    [items |-> [pizza |-> thing(0, <<[size |-> "S", price |-> 75], [size |-> "L", price |-> 115]>>, "b1", <<"top">>),
                soda |-> thing(25, <<>>, "b2", <<>>)],
     groups |-> [top |-> group([ham |-> opt(15, FALSE), olive |-> opt(5, TRUE)], FALSE, 0, 2)],
     facts |-> [b1 |-> [category |-> "food", tax |-> 0], b2 |-> [category |-> "drink", tax |-> 1150]],
     sizes |-> {"S", "L"}]

el(items) == [items |-> items, categories |-> {}, sizes |-> {}]
food == [items |-> {}, categories |-> {"food"}, sizes |-> {}]
base == [id |-> "d0", kind |-> "code", active |-> TRUE, fulfil |-> "both", sched |-> Nil, price |-> 0, slots |-> <<>>, el |-> Nil,
         qty |-> 0, each |-> 0, n |-> 0, pct |-> 0, code |-> Nil, amount |-> 0, firstOnly |-> FALSE, min |-> 0, kinds |-> {"web", "counter"}]
slot(e, n) == [el |-> e, included |-> n]
code == [base EXCEPT !.id = "c", !.code = "SAVE", !.amount = 200]
pctCode == [code EXCEPT !.amount = 0, !.pct = 33, !.min = 80, !.firstOnly = TRUE]
badCode == [code EXCEPT !.amount = 0, !.pct = 150]
mix == [base EXCEPT !.id = "m", !.kind = "mix", !.el = food, !.qty = 2, !.each = 60]
nth == [mix EXCEPT !.id = "n", !.kind = "nth", !.n = 2, !.pct = 50, !.fulfil = "pickup"]
free == [base EXCEPT !.id = "f", !.kind = "free_item", !.el = el({"b2"}), !.min = 100,
                     !.sched = [days |-> {0}, start |-> 4, end |-> 2]]
bundle == [base EXCEPT !.id = "b", !.kind = "bundle", !.price = 105, !.slots = <<slot(food, 1), slot(el({"b2"}), 0)>>]
dearBundle == [bundle EXCEPT !.price = 190]
MCDeals == {pctCode, badCode, nth}

st(stacking) ==
    [tax |-> 600, stacking |-> stacking,
     fees |-> [serviceFee |-> 9, serviceBps |-> 250, deliveryFee |-> 30, freeOver |-> 150, deliveryMin |-> 60],
     tips |-> [enabled |-> TRUE, default |-> 18], cardFee |-> [mode |-> "surcharge", bps |-> 300]]
none == [k \in {} |-> NoOverride]
cashLess == [k \in {"web"} |-> [NoOverride EXCEPT !.cardFee = [mode |-> "cash_discount", bps |-> 400]]]
MCSettings == {[store |-> st("stack"), kinds |-> none], [store |-> [st("single") EXCEPT !.fees.serviceFee = -5], kinds |-> none],
               [store |-> st("single"), kinds |-> cashLess @@ [k \in {"counter"} |-> NoOverride]]}
MCShops == {[store |-> Nil, kinds |-> none, deals |-> <<bundle, nth, free>>],
            [store |-> st("stack"), kinds |-> cashLess, deals |-> <<dearBundle, mix, free, code>>],
            [store |-> st("best"), kinds |-> none, deals |-> <<bundle, mix, pctCode>>]}

sel(i, z, picks) == [item |-> i, choice |-> Nil, size |-> z, picks |-> picks]
pick(o) == [group |-> "top", option |-> o]
line(s, q) == [sel |-> s, qty |-> q, deal |-> Nil, picks |-> <<>>]
combo(ps) == [sel |-> Nil, qty |-> 1, deal |-> "b", picks |-> ps]
cart(type, pay, lines, c) ==
    [type |-> type, payment |-> pay, lines |-> lines, code |-> c, tip |-> Nil, tipPct |-> Nil, first |-> TRUE]
ham == sel("pizza", "L", <<pick("ham")>>)
soda == sel("soda", Nil, <<>>)
big == cart("pickup", "card", <<line(ham, 2), line(soda, 1)>>, "SAVE")
meal == cart("delivery", "cash", <<combo(<<sel("pizza", Nil, <<pick("olive"), pick("ham")>>), soda>>), line(soda, 1)>>, Nil)
MCCarts == {[kind |-> "web", cart |-> big, promised |-> 9], [kind |-> "web", cart |-> meal, promised |-> NONE],
               [kind |-> "counter", cart |-> meal, promised |-> NONE]}
=============================================================================
