------------------------------ MODULE Pricing -------------------------------
(* The pricing engine (domain/pricing/engine.go): a cart priced against a    *)
(* channel's menu, settings and deals, in integer cents.  Pure; wording,     *)
(* warnings and nudges are left out, an issue is its code.                   *)
(*                                                                           *)
(* ctx.items    menu item -> price, sizes (a sequence of size and price),    *)
(*              choices (of a combined item), bank and rate (the bank item   *)
(*              it is, and whose tax applies), groups, soldOut               *)
(* ctx.groups   group -> opts (option -> price, by size, isDefault,          *)
(*              soldOut), required, min, max, multiple                       *)
(* ctx.facts    bank item -> category and tax rate                           *)
(* ctx.st, ctx.deals, ctx.types   settings, deals in order, order types on   *)
EXTENDS Integers, FiniteSets, FiniteSetsExt, Functions, Sequences, SequencesExt

CONSTANT Nil    \* an absent value

ASSUME NilAssumption == Nil \notin Int /\ Nil \notin {"code_invalid", "code_minimum", "code_first_order"}

(* What the engine is given: prices, rates and amounts are integers, sizes,   *)
(* picks, slots, lines and deals are lists.                                  *)
IsList(s) == s \in Seq(Range(s))

PricedOK(x) == {"price", "sizes"} \subseteq DOMAIN x /\ x.price \in Int /\ IsList(x.sizes)
                 /\ \A n \in DOMAIN x.sizes : x.sizes[n].price \in Int

ItemsOK(items) ==
    \A i \in DOMAIN items :
        /\ PricedOK(items[i]) /\ {"choices", "groups"} \subseteq DOMAIN items[i] /\ IsList(items[i].groups)
        /\ \A c \in DOMAIN items[i].choices : PricedOK(items[i].choices[c])

OptionOK(o) == {"price", "prices"} \subseteq DOMAIN o /\ o.price \in Int /\ \A z \in DOMAIN o.prices : o.prices[z] \in Int

GroupsOK(groups) ==
    \A g \in DOMAIN groups :
        LET opts == groups[g].opts
        IN  "opts" \in DOMAIN groups[g] /\ IsFiniteSet(DOMAIN opts) /\ \A o \in DOMAIN opts : OptionOK(opts[o])

FactsOK(facts) == \A b \in DOMAIN facts : facts[b].tax \in Int

FeesOK(fees) == {fees.serviceFee, fees.serviceBps, fees.deliveryFee} \subseteq Int

DealOK(d) ==
    {"id", "price", "each", "pct", "amount", "slots"} \subseteq DOMAIN d /\ {d.price, d.each, d.pct, d.amount} \subseteq Int /\ IsList(d.slots)

DealsOK(deals) == IsList(deals) /\ \A n \in DOMAIN deals : DealOK(deals[n])

CtxOK(ctx) ==
    /\ ItemsOK(ctx.items) /\ GroupsOK(ctx.groups) /\ FactsOK(ctx.facts) /\ DealsOK(ctx.deals)
    /\ FeesOK(ctx.st) /\ ctx.st.tax \in Nat /\ {ctx.st.tips.default, ctx.st.cardFee.bps} \subseteq Int

LineOK(line) ==
    /\ line.qty \in Int /\ IsList(line.picks) /\ \A k \in DOMAIN line.picks : IsList(line.picks[k].picks)
    /\ line.deal = Nil => IsList(line.sel.picks)

CartOK(cart) ==
    /\ IsList(cart.lines) /\ \A n \in DOMAIN cart.lines : LineOK(cart.lines[n])
    /\ cart.tip # Nil => cart.tip \in Int

-----------------------------------------------------------------------------
Sum(amounts) == FoldLeft(LAMBDA sum, a : sum + a, 0, amounts)

Total(s, amount(_)) == Sum([n \in DOMAIN s |-> amount(s[n])])

(* A loop that keeps the elements at some indices, and one that appends.     *)
Select(s, at) ==
    FoldLeft(LAMBDA kept, n : IF n \in at THEN Append(kept, s[n]) ELSE kept, <<>>, [n \in DOMAIN s |-> n])

Join(seqs) == FoldLeft(LAMBDA all, s : all \o s, <<>>, seqs)

(* Half up; half away from zero below zero.                                  *)
Pct(amount, bps) ==
    IF amount < 0 THEN -((-amount * bps + 5000) \div 10000) ELSE (amount * bps + 5000) \div 10000

(* Does a deal run at an instant for an order type?                          *)
Live(deal, at, type) ==
    /\ deal.active
    /\ deal.fulfil \in {"both", type}
    /\ deal.sched # Nil =>
         LET s == deal.sched
         IN  /\ s.days # {} => at.day \in s.days
             /\ IF s.start # Nil /\ s.end # Nil /\ s.end <= s.start
                THEN at.minute >= s.start \/ at.minute < s.end
                ELSE /\ s.start # Nil => at.minute >= s.start
                     /\ s.end # Nil => at.minute < s.end

Matches(el, u) ==
    /\ u.item # Nil
    /\ u.item \in el.items \/ (u.category # Nil /\ u.category \in el.categories)
    /\ el.sizes # {} => u.size \in el.sizes

Category(ctx, b) == IF b \in DOMAIN ctx.facts THEN ctx.facts[b].category ELSE Nil
Rate(ctx, b) == IF b \in DOMAIN ctx.facts /\ ctx.facts[b].tax > 0 THEN ctx.facts[b].tax ELSE ctx.st.tax

-----------------------------------------------------------------------------
(* One configured item.                                                      *)

(* What the selection is of: the item, or the choice of a combined one.      *)
Chosen(ctx, sel) ==
    LET it == ctx.items[sel.item]
    IN  IF DOMAIN it.choices = {} THEN [price |-> it.price, sizes |-> it.sizes, soldOut |-> it.soldOut, bank |-> it.bank, rate |-> it.rate]
        ELSE it.choices[sel.choice]

SizeAt(sizes, size) == CHOOSE n \in DOMAIN sizes : (size = Nil /\ n = 1) \/ sizes[n].size = size

(* An option's price: its own for the item's size, if it has one.            *)
OptionPrice(o, size) == IF size # Nil /\ size \in DOMAIN o.prices THEN o.prices[size] ELSE o.price

PicksOf(sel, g) == Select(sel.picks, {n \in DOMAIN sel.picks : sel.picks[n].group = g})

KnownPicks(ctx, sel, g) ==
    LET picks == PicksOf(sel, g) IN Select(picks, {n \in DOMAIN picks : picks[n].option \in DOMAIN ctx.groups[g].opts})

(* The options on the item: the ones picked, then (unless the group is pick  *)
(* one) the defaults left off.                                               *)
OptionsOf(ctx, sel, g, size) ==
    LET grp == ctx.groups[g]
        picked == KnownPicks(ctx, sel, g)
        left == {o \in DOMAIN grp.opts : grp.opts[o].isDefault /\ \A n \in DOMAIN picked : picked[n].option # o}
    IN  [n \in DOMAIN picked |-> [price |-> OptionPrice(grp.opts[picked[n].option], size), removed |-> FALSE]]
          \o IF grp.max = 1 THEN <<>> ELSE [n \in 1..Cardinality(left) |-> [price |-> 0, removed |-> TRUE]]

GroupIssues(ctx, sel, g) ==
    LET grp == ctx.groups[g]
        picks == PicksOf(sel, g)
        known == KnownPicks(ctx, sel, g)
        least == IF grp.required THEN Max({grp.min, 1}) ELSE grp.min
        twice == \E n, k \in DOMAIN known : n # k /\ known[n].option = known[k].option
    IN  (IF Len(known) < Len(picks) THEN {"unknown_option"} ELSE {})
          \cup (IF \/ twice /\ ~grp.multiple
                   \/ Len(picks) < least
                   \/ grp.max > 0 /\ Len(picks) > grp.max THEN {"option_rules"} ELSE {})
          \cup (IF \E n \in DOMAIN known : grp.opts[known[n].option].soldOut THEN {"sold_out"} ELSE {})

(* The priciest `free` of the charged options are included.                  *)
Included(opts, free) ==
    LET charged == {n \in DOMAIN opts : opts[n].price > 0 /\ ~opts[n].removed}
        before(n, k) == opts[n].price > opts[k].price \/ (opts[n].price = opts[k].price /\ n < k)
    IN  {n \in charged : Cardinality({k \in charged : before(k, n)}) < free}

Unpriced(issue) == [base |-> 0, extras |-> 0, unit |-> 0, bank |-> Nil, rate |-> Nil, size |-> Nil, opts |-> <<>>, issues |-> {issue}]

(* The item of chosen c and size z, with options opts of which those in `in` *)
(* are included.                                                             *)
Configured(ctx, sel, groups, c, z, opts, in) ==
    LET extras == Sum([n \in DOMAIN opts |-> IF n \notin in /\ opts[n].price > 0 THEN opts[n].price ELSE 0])
        foreign == \E n \in DOMAIN sel.picks : ~Contains(ctx.items[sel.item].groups, sel.picks[n].group)
    IN  [base |-> z.price, extras |-> extras, unit |-> z.price + extras, bank |-> c.bank, rate |-> c.rate, size |-> z.size,
         opts |-> [n \in DOMAIN opts |-> [price |-> opts[n].price, removed |-> opts[n].removed, included |-> n \in in]],
         issues |-> (IF c.soldOut THEN {"sold_out"} ELSE {})
                      \cup (IF foreign THEN {"unknown_option"} ELSE {})
                      \cup UNION {GroupIssues(ctx, sel, groups[n]) : n \in DOMAIN groups}]

WithOptions(ctx, sel, groups, c, z, opts, free) == Configured(ctx, sel, groups, c, z, opts, Included(opts, free))

WithSize(ctx, sel, groups, c, z, free) ==
    WithOptions(ctx, sel, groups, c, z, Join([n \in DOMAIN groups |-> OptionsOf(ctx, sel, groups[n], z.size)]), free)

KnownGroups(ctx, gs) == Select(gs, {n \in DOMAIN gs : gs[n] \in DOMAIN ctx.groups})

WithChoice(ctx, sel, c, free) ==
    IF sel.size # Nil /\ \A n \in DOMAIN c.sizes : c.sizes[n].size # sel.size
    THEN [Unpriced("unknown_size") EXCEPT !.bank = c.bank, !.rate = c.rate]
    ELSE WithSize(ctx, sel, KnownGroups(ctx, ctx.items[sel.item].groups), c,
                  IF c.sizes = <<>> THEN [size |-> Nil, price |-> c.price] ELSE c.sizes[SizeAt(c.sizes, sel.size)], free)

Resolve(ctx, sel, free) ==
    IF sel.item \notin DOMAIN ctx.items THEN Unpriced("unknown_item")
    ELSE IF DOMAIN ctx.items[sel.item].choices # {} /\ sel.choice \notin DOMAIN ctx.items[sel.item].choices
         THEN Unpriced("option_rules")
    ELSE WithChoice(ctx, sel, Chosen(ctx, sel), free)

-----------------------------------------------------------------------------
(* The lines of a cart.  A line has a total, a rate to tax it at (Nil: not   *)
(* taxed), the units automatic deals count, and its issues.                  *)

Qty(line) == Min({Max({line.qty, 1}), 50})

LineOfItem(ctx, qty, p) ==
    LET u == [price |-> p.unit, item |-> p.bank, category |-> Category(ctx, p.bank), size |-> p.size]
    IN  [total |-> p.unit * qty, rate |-> Rate(ctx, p.rate), issues |-> p.issues,
         units |-> IF p.bank # Nil /\ p.issues = {} THEN [n \in 1..qty |-> u] ELSE <<>>]

ItemLine(ctx, line) == LineOfItem(ctx, Qty(line), Resolve(ctx, line.sel, 0))

DealNamed(ctx, id, kinds) ==
    LET found == {n \in DOMAIN ctx.deals : ctx.deals[n].id = id /\ ctx.deals[n].kind \in kinds}
    IN  IF found = {} THEN Nil ELSE ctx.deals[Max(found)]

(* The picks of a bundle's slots, as many as were made.                      *)
SlotPicks(ctx, d, line) ==
    [k \in 1..Min({Len(d.slots), Len(line.picks)}) |-> Resolve(ctx, line.picks[k], d.slots[k].included)]

SlotIssues(ctx, slot, p) ==
    LET u == [item |-> p.bank, category |-> Category(ctx, p.bank), size |-> p.size]
    IN  p.issues \cup IF p.issues = {} /\ ~Matches(slot.el, u) THEN {"deal_slot"} ELSE {}

(* A bundle costs its price and the extras of its picks; it is taxed like    *)
(* the first pick that has a rate.                                           *)
LineOfBundle(ctx, d, qty, ps, live) ==
    LET rated == {k \in DOMAIN ps : ps[k].rate # Nil}
    IN  [total |-> (d.price + Total(ps, LAMBDA p : p.extras)) * qty, units |-> <<>>,
         rate |-> IF rated = {} THEN ctx.st.tax ELSE Rate(ctx, ps[Min(rated)].rate),
         issues |-> (IF live THEN {} ELSE {"deal_unavailable"})
                      \cup (IF Len(ps) < Len(d.slots) THEN {"deal_slot"} ELSE {})
                      \cup UNION {SlotIssues(ctx, d.slots[k], ps[k]) : k \in DOMAIN ps}]

BundleOf(ctx, line, d, at, type) ==
    IF d = Nil \/ ~d.active THEN [total |-> 0, rate |-> Nil, units |-> <<>>, issues |-> {"deal_ended"}]
    ELSE LineOfBundle(ctx, d, Qty(line), SlotPicks(ctx, d, line), Live(d, at, type))

BundleLine(ctx, line, at, type) == BundleOf(ctx, line, DealNamed(ctx, line.deal, {"bundle"}), at, type)

QuoteLines(ctx, cart, at) ==
    [n \in DOMAIN cart.lines |-> IF cart.lines[n].deal = Nil THEN ItemLine(ctx, cart.lines[n])
                                 ELSE BundleLine(ctx, cart.lines[n], at, cart.type)]

-----------------------------------------------------------------------------
(* Discounts.                                                                *)

MixAmount(d, el) ==
    IF d.qty > 0 /\ Len(el) >= d.qty THEN Total(el, LAMBDA u : Max({u.price - d.each, 0})) ELSE 0

NthAmount(d, el) ==
    LET dearer(n) == {k \in DOMAIN el : el[k].price > el[n].price \/ (el[k].price = el[n].price /\ k <= n)}
    IN  Sum([n \in DOMAIN el |-> IF d.n >= 1 /\ Cardinality(dearer(n)) % d.n = 0 THEN Pct(el[n].price, d.pct * 100) ELSE 0])

FreeAmount(d, el, sub) == IF el # <<>> /\ sub >= d.min THEN Min({el[n].price : n \in DOMAIN el}) ELSE 0

AutoAmount(ctx, d, units, sub, at, type) ==
    LET el == Select(units, {n \in DOMAIN units : Matches(d.el, units[n])})
    IN  IF ~Live(d, at, type) \/ d.el = Nil THEN 0
        ELSE CASE d.kind = "mix" -> MixAmount(d, el)
               [] d.kind = "nth" -> NthAmount(d, el)
               [] d.kind = "free_item" -> FreeAmount(d, el, sub)
               [] OTHER -> 0

Autos(ctx, units, sub, at, type) ==
    LET off == [n \in DOMAIN ctx.deals |-> AutoAmount(ctx, ctx.deals[n], units, sub, at, type)]
    IN  Select(off, {n \in DOMAIN off : off[n] > 0})

(* A promo code: what it takes off, or why it does not.                      *)
CodeDeal(ctx, code) ==
    LET found == {n \in DOMAIN ctx.deals : ctx.deals[n].kind = "code" /\ ctx.deals[n].code = code}
    IN  IF found = {} THEN Nil ELSE ctx.deals[Max(found)]

CodeIssue(ctx, cart, sub, at) ==
    LET d == CodeDeal(ctx, cart.code)
    IN  IF cart.code = Nil THEN Nil
        ELSE IF d = Nil \/ ~Live(d, at, cart.type) THEN "code_invalid"
        ELSE IF sub < d.min THEN "code_minimum"
        ELSE IF d.firstOnly /\ cart.first = FALSE THEN "code_first_order" ELSE Nil

CodeAmounts(ctx, cart, sub, at) ==
    LET d == CodeDeal(ctx, cart.code)
    IN  IF cart.code = Nil \/ CodeIssue(ctx, cart, sub, at) # Nil THEN <<>>
        ELSE <<Min({sub, IF d.pct > 0 THEN Pct(sub, d.pct * 100) ELSE d.amount})>>

(* The one that saves most; the code when they save the same.                *)
PickOne(autos, code) ==
    LET all == autos \o code
    IN  IF all = <<>> THEN <<>> ELSE <<Max({all[n] : n \in DOMAIN all})>>

Discounts(ctx, cart, autos, code) ==
    LET bundle == \E n \in DOMAIN cart.lines : cart.lines[n].deal # Nil
    IN  CASE ctx.st.stacking = "stack" -> autos \o code
          [] ctx.st.stacking = "single" /\ bundle -> <<>>
          [] OTHER -> PickOne(autos, code)

(* Never more off than the food.                                             *)
Clamped(amounts, sub) ==
    FoldLeft(LAMBDA ds, a : Append(ds, Min({a, sub - Sum(ds)})), <<>>, amounts)

-----------------------------------------------------------------------------
(* Fees and tax.                                                             *)

DeliveryFee(ctx, cart, after) ==
    LET st == ctx.st
    IN  IF cart.type # "delivery" \/ ~ctx.types.delivery \/ (st.freeOver # Nil /\ after >= st.freeOver) THEN 0
        ELSE st.deliveryFee

TypeIssues(ctx, cart, after) ==
    (IF cart.type \notin {"pickup", "delivery"} THEN {"bad_type"}
     ELSE IF ~ctx.types[cart.type] THEN {"type_off"} ELSE {})
      \cup IF cart.type = "delivery" /\ ctx.types.delivery /\ cart.lines # <<>> /\ after < ctx.st.deliveryMin
           THEN {"delivery_minimum"} ELSE {}

CashDiscount(ctx, cart, after) ==
    IF ctx.st.cardFee.mode = "cash_discount" /\ cart.payment = "cash" /\ after > 0
    THEN <<Pct(after, ctx.st.cardFee.bps)>> ELSE <<>>

Gross(lines, r) == Total(lines, LAMBDA l : IF l.rate = r THEN l.total ELSE 0)

RatesOf(lines) == {lines[n].rate : n \in DOMAIN lines} \ {Nil}

(* A sum over the rates, each at its first line.                             *)
OverRates(lines, amount(_)) ==
    LET first(n) == lines[n].rate # Nil /\ \A k \in 1..n - 1 : lines[k].rate # lines[n].rate
    IN  Sum([n \in DOMAIN lines |-> IF first(n) THEN amount(lines[n].rate) ELSE 0])

(* The discounts are spread over the rates by their share of the food; the   *)
(* last rate takes what rounding left.                                       *)
Share(lines, sub, off, r) == IF sub > 0 THEN (off * Gross(lines, r)) \div sub ELSE 0

FoodTax_NoSpread(lines, sub, off) ==
    OverRates(lines, LAMBDA r : Pct(Gross(lines, r) - 2 * Share(lines, sub, off, r), r))

FoodTax(lines, sub, off) ==
    LET last == Max(RatesOf(lines))
        others == OverRates(lines, LAMBDA r : IF r = last THEN 0 ELSE Share(lines, sub, off, r))
        share(r) == IF r = last /\ sub > 0 THEN off - others ELSE Share(lines, sub, off, r)
    IN  OverRates(lines, LAMBDA r : Pct(Gross(lines, r) - share(r), r))

Tip(ctx, cart, after) ==
    IF ~ctx.st.tips.enabled THEN 0
    ELSE IF cart.tip # Nil /\ cart.tip >= 0 THEN cart.tip
    ELSE Pct(after, 100 * IF cart.tipPct # Nil /\ cart.tipPct \in 0..100 THEN cart.tipPct ELSE ctx.st.tips.default)

CardFee(ctx, cart, base) ==
    IF ctx.st.cardFee.mode = "surcharge" /\ cart.payment # "cash" THEN Pct(base, ctx.st.cardFee.bps) ELSE 0

(* The quote, from the lines on: the discounts, what is left of the food,    *)
(* then fees, tax, tip and card fee on that.                                 *)
Quoted(ctx, cart, lines, sub, food, discounts, errors, after, delivery, service, tax, tip) ==
    LET card == CardFee(ctx, cart, after + delivery + service + tax)
    IN  [lines |-> lines, sub |-> sub, discounts |-> discounts, delivery |-> delivery, service |-> service,
         tax |-> tax, tip |-> tip, card |-> card, total |-> after + delivery + service + tax + tip + card,
         errors |-> errors \cup UNION {lines[n].issues : n \in DOMAIN lines}
                      \cup (IF lines = <<>> THEN {"empty"} ELSE {}) \cup TypeIssues(ctx, cart, food)]

WithFees(ctx, cart, lines, sub, food, discounts, errors, after, service) ==
    Quoted(ctx, cart, lines, sub, food, discounts, errors, after, DeliveryFee(ctx, cart, food), service,
           FoodTax(lines, sub, sub - after) + Pct(service, ctx.st.tax), Tip(ctx, cart, after))

WithCash(ctx, cart, lines, sub, food, deals, errors, cash) ==
    LET after == food - Sum(cash)
    IN  WithFees(ctx, cart, lines, sub, food, deals \o cash, errors, after,
                 IF lines = <<>> THEN 0 ELSE ctx.st.serviceFee + Pct(after, ctx.st.serviceBps))

WithDeals(ctx, cart, lines, sub, deals, errors) ==
    WithCash(ctx, cart, lines, sub, sub - Sum(deals), deals, errors, CashDiscount(ctx, cart, sub - Sum(deals)))

WithCode(ctx, cart, at, lines, sub, autos, code) ==
    LET alone == ctx.st.stacking = "single" /\ code # <<>> /\ \E n \in DOMAIN cart.lines : cart.lines[n].deal # Nil
    IN  WithDeals(ctx, cart, lines, sub, Clamped(Discounts(ctx, cart, autos, code), sub),
                  ({CodeIssue(ctx, cart, sub, at)} \ {Nil}) \cup IF alone THEN {"code_not_combinable"} ELSE {})

WithLines(ctx, cart, at, lines, sub) ==
    WithCode(ctx, cart, at, lines, sub,
             Autos(ctx, Join([n \in DOMAIN lines |-> lines[n].units]), sub, at, cart.type),
             CodeAmounts(ctx, cart, sub, at))

Subtotalled(ctx, cart, at, lines) == WithLines(ctx, cart, at, lines, Total(lines, LAMBDA l : l.total))

(* Price: the quote of a cart.                                               *)
Price(ctx, cart, at) == Subtotalled(ctx, cart, at, QuoteLines(ctx, cart, at))

=============================================================================
