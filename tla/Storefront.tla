----------------------------- MODULE Storefront -----------------------------
(* A location's shop: its pricing settings and deals (app/pricing and its    *)
(* repository), and what Place (app/orderport/service.go) does with a cart   *)
(* between the request and the charge: it reads the store's status, prices   *)
(* the cart again, checks the address and builds the order, each from its    *)
(* own read, while the manager edits.  OrderPlacement has the rest of Place: *)
(* the payment and the save.                                                 *)
EXTENDS StoreStatus, Pricing

CONSTANTS
    Menu,         \* the channel's menu: items, groups and facts (see Pricing)
    Carts,        \* bound: carts sent, each by a channel kind and for a time or for now
    Settings,     \* bound: pricing settings a manager may send, bad ones too
    Deals,        \* bound: deals he may send, bad ones too
    Shops,        \* bound: the settings and deals a shop starts with
    MaxDeals      \* bound: deals kept at once

VARIABLES
    settings,     \* location_pricing: the store's row, Nil before the first save
    overrides,    \* ... and the kinds' rows
    deals,        \* deals, in order
    place         \* the request being placed: where it is and what it has read

priceVars == <<settings, overrides, deals>>
storefrontVars == <<statusVars, priceVars, place>>

PriceKinds == {"web", "operator", "counter", "vendor"}

-----------------------------------------------------------------------------
(* Settings.                                                                 *)

DefaultStore ==
    [tax |-> 600, stacking |-> "best",
     fees |-> [serviceFee |-> 0, serviceBps |-> 0, deliveryFee |-> 0, freeOver |-> Nil, deliveryMin |-> 0],
     tips |-> [enabled |-> FALSE, default |-> 18], cardFee |-> [mode |-> "none", bps |-> 0]]

NoOverride == [fees |-> Nil, tips |-> Nil, cardFee |-> Nil]

DefaultOverrides == [k \in {"web"} |-> [NoOverride EXCEPT !.tips = [enabled |-> TRUE, default |-> 18]]]

Within(x, most) == x \in 0..most

ValidSets(s) ==
    /\ s.fees # Nil =>
         /\ Within(s.fees.serviceFee, 10000) /\ Within(s.fees.serviceBps, 3000)
         /\ Within(s.fees.deliveryFee, 10000) /\ Within(s.fees.deliveryMin, 100000)
         /\ s.fees.freeOver # Nil => Within(s.fees.freeOver, 100000)
    /\ s.tips # Nil => Within(s.tips.default, 100)
    /\ s.cardFee # Nil => s.cardFee.mode \in {"none", "surcharge", "cash_discount"} /\ Within(s.cardFee.bps, 1000)

ValidStore(s) == Within(s.tax, 3000) /\ s.stacking \in {"best", "stack", "single"} /\ ValidSets(s)

(* The rows, as SaveSettings writes them in one transaction: an empty        *)
(* override is removed.                                                      *)
UpsertPricingSettings(kinds, s) == [k \in kinds |-> s[k]]
DeletePricingSettings(s) == DOMAIN s \ {k \in DOMAIN s : s[k] = NoOverride}
ListPricingSettings == [store |-> settings, kinds |-> overrides]

Stored == IF ListPricingSettings.store = Nil THEN [store |-> DefaultStore, kinds |-> DefaultOverrides]
          ELSE ListPricingSettings

Effective(s, o) ==
    LET set(f, own) == IF f = Nil THEN own ELSE f
        fees == set(o.fees, s.fees)
    IN  [tax |-> s.tax, stacking |-> s.stacking, serviceFee |-> fees.serviceFee, serviceBps |-> fees.serviceBps,
         deliveryFee |-> fees.deliveryFee, freeOver |-> fees.freeOver, deliveryMin |-> fees.deliveryMin,
         tips |-> set(o.tips, s.tips), cardFee |-> set(o.cardFee, s.cardFee)]

(* A shop: the store's row has all its sets, and what is kept was valid.     *)
HasSets(s) == s.fees # Nil /\ s.tips # Nil /\ s.cardFee # Nil

ShopOK(s, kinds, ds) ==
    /\ s # Nil => ValidStore(s) /\ HasSets(s)
    /\ \A k \in DOMAIN kinds : ValidSets(kinds[k])
    /\ DealsOK(ds)

ASSUME ShopAssumption ==
    /\ ItemsOK(Menu.items) /\ GroupsOK(Menu.groups) /\ FactsOK(Menu.facts)
    /\ \A r \in Carts : CartOK(r.cart)
    /\ \A s \in Settings : HasSets(s.store)
    /\ \A d \in Deals : DealOK(d)
    /\ \A s \in Shops : ShopOK(s.store, s.kinds, s.deals)

SaveSettings(s, over) ==
    /\ ValidStore(s)
    /\ DOMAIN over \subseteq PriceKinds
    /\ \A k \in DOMAIN over : ValidSets(over[k])
    /\ settings' = s
    /\ overrides' = UpsertPricingSettings(DeletePricingSettings(over), over)
    /\ Edit
    /\ UNCHANGED <<scheduleVars, ordering, stockVars, deals, place>>

-----------------------------------------------------------------------------
(* Deals.                                                                    *)

EmptyEligible(el) == el = Nil \/ (el.items = {} /\ el.categories = {})

ValidShape(d) ==
    /\ d.fulfil \in {"both", "pickup", "delivery"}
    /\ CASE d.kind = "bundle" ->
              /\ d.price >= 0 /\ Len(d.slots) \in 1..10
              /\ \A k \in DOMAIN d.slots : ~EmptyEligible(d.slots[k].el) /\ d.slots[k].included >= 0
         [] d.kind = "mix" -> d.qty >= 2 /\ d.each >= 0 /\ ~EmptyEligible(d.el)
         [] d.kind = "nth" -> d.n >= 2 /\ d.pct \in 1..100 /\ ~EmptyEligible(d.el)
         [] d.kind = "code" -> (d.pct > 0) # (d.amount > 0) /\ d.pct <= 100 /\ d.amount >= 0 /\ d.min >= 0
         [] d.kind = "free_item" -> ~EmptyEligible(d.el) /\ d.min >= 0
         [] OTHER -> FALSE

ValidKinds(d) == d.kinds \subseteq PriceKinds

Eligibles(d) == ({d.el} \cup {d.slots[k].el : k \in DOMAIN d.slots}) \ {Nil}

(* validDeal: every item, category and size named is the store's.            *)
ValidDeal(d) ==
    /\ ValidShape(d)
    /\ ValidKinds(d)
    /\ \A el \in Eligibles(d) :
         /\ el.items \subseteq DOMAIN Menu.facts
         /\ el.categories \subseteq {Menu.facts[b].category : b \in DOMAIN Menu.facts}
         /\ el.sizes \subseteq Menu.sizes

(* deals_code_key: one deal per code.                                        *)
CodeTaken(d, others) == d.kind = "code" /\ \E n \in others : deals[n].kind = "code" /\ deals[n].code = d.code

DealEdit == Edit /\ UNCHANGED <<scheduleVars, ordering, stockVars, settings, overrides, place>>

CreateDeal(d) ==
    /\ Len(deals) < MaxDeals
    /\ ValidDeal(d)
    /\ d.id \notin {deals[n].id : n \in DOMAIN deals}
    /\ ~CodeTaken(d, DOMAIN deals)
    /\ deals' = Append(deals, d)
    /\ DealEdit

UpdateDeal(n, d) ==
    /\ ValidDeal(d)
    /\ ~CodeTaken(d, DOMAIN deals \ {n})
    /\ deals' = [deals EXCEPT ![n] = [d EXCEPT !.id = deals[n].id]]
    /\ DealEdit

DeleteDeal(n) == deals' = RemoveAt(deals, n) /\ DealEdit

-----------------------------------------------------------------------------
(* Context: what a channel of a kind prices with.                            *)

(* The channel's build of the menu shows what is sold out.                   *)
ChannelItems ==
    [i \in DOMAIN Menu.items |->
        LET it == Menu.items[i]
        IN  [it EXCEPT !.soldOut = it.bank \in ListSoldOutItems,
                       !.choices = [c \in DOMAIN it.choices |-> [it.choices[c] EXCEPT !.soldOut = c \in ListSoldOutItems]]]]

ChannelGroups ==
    [g \in DOMAIN Menu.groups |->
        [Menu.groups[g] EXCEPT !.opts = [o \in DOMAIN @ |-> [@[o] EXCEPT !.soldOut = o \in optionsOut]]]]

ListDeals(kind) == Select(deals, {n \in DOMAIN deals : deals[n].active /\ kind \in deals[n].kinds})

Context(kind) ==
    LET s == Stored
        ord == EnsureStoreOrdering
    IN  [items |-> ChannelItems, groups |-> ChannelGroups, facts |-> Menu.facts,
         st |-> Effective(s.store, IF kind \in DOMAIN s.kinds THEN s.kinds[kind] ELSE NoOverride),
         deals |-> ListDeals(kind), types |-> [pickup |-> ord.pickup, delivery |-> ord.delivery]]

PriceTime == [day |-> Date(clock) % WeekLen, minute |-> clock % DayLen]

-----------------------------------------------------------------------------
(* build: the order of a priced cart.                                        *)

(* lineOf: an item and its options; an included option costs nothing.        *)
LineOf(r, qty) ==
    qty * (r.base + Total(r.opts, LAMBDA o : IF o.included \/ o.removed THEN 0 ELSE o.price))

BuiltPicks(ctx, line, d) ==
    LET ps == SlotPicks(ctx, d, line) IN [k \in DOMAIN ps |-> LineOf(ps[k], Qty(line))]

BuiltTotals(ctx, line) ==
    IF line.deal = Nil THEN <<LineOf(Resolve(ctx, line.sel, 0), Qty(line))>>
    ELSE BuiltPicks(ctx, line, DealNamed(ctx, line.deal, {"bundle", "mix", "nth", "code", "free_item"}))

(* What a combo's picks cost more than the combo is a discount, what they    *)
(* cost less is a fee.                                                       *)
ComboFees_Dropped(diffs) == 0

ComboFees(diffs) == Total(diffs, LAMBDA x : Max({-x, 0}))

MoneyOf(cart, q, built) ==
    LET diffs == [n \in DOMAIN built |-> IF cart.lines[n].deal = Nil THEN 0 ELSE built[n] - q.lines[n].total]
    IN  [subtotal |-> Sum(built), tax |-> q.tax, tip |-> q.tip, total |-> q.total,
         fees |-> ComboFees(diffs) + q.delivery + q.service + q.card,
         discounts |-> Total(diffs, LAMBDA x : Max({x, 0})) + Sum(q.discounts)]

Money(ctx, cart, q) == MoneyOf(cart, q, [n \in DOMAIN cart.lines |-> Sum(BuiltTotals(ctx, cart.lines[n]))])

Owed(m) == m.subtotal + m.tax + m.tip + m.fees - m.discounts

(* moneyReconciles: within a cent.                                           *)
MoneyReconciles(m) == m.total - Owed(m) \in -1..1

-----------------------------------------------------------------------------
(* Place.                                                                    *)

Browsing == [at |-> "idle"]

(* A shopper prices a cart and sends it with the total he was shown, for now *)
(* (NONE) or for a time.                                                     *)
Quote(r) ==
    /\ place = Browsing
    /\ place' = [at |-> "sent", kind |-> r.kind, cart |-> r.cart, promised |-> r.promised,
                  expected |-> Price(Context(r.kind), r.cart, PriceTime).total]
    /\ ordering' = EnsureStoreOrdering
    /\ UNCHANGED <<clock, scheduleVars, stockVars, restock, edits, priceVars>> /\ NoFault

(* The store must take it now, or at a time it offers on that date.          *)
StoreTakes(cart, promised) ==
    LET st == EnsureStoreOrdering
    IN  IF promised = NONE THEN State(clock, sch, st) = "open"
        ELSE /\ TimesAllowed(clock, st, cart.type, Date(promised))
             /\ promised \in Times(clock, sch, st, cart.type, Date(promised))

Step(to) ==
    /\ place' = to
    /\ ordering' = EnsureStoreOrdering
    /\ UNCHANGED <<clock, scheduleVars, stockVars, restock, edits, priceVars>> /\ NoFault

CheckStore ==
    /\ place.at = "sent"
    /\ Step(IF StoreTakes(place.cart, place.promised) THEN [place EXCEPT !.at = "taken"] ELSE Browsing)

(* Priced again: no issue, and the total that was shown.                     *)
PriceAgain ==
    /\ place.at = "taken"
    /\ \E ctx \in {Context(place.kind)} : \E q \in {Price(ctx, place.cart, PriceTime)} :
         Step(IF q.errors = {} /\ q.total = place.expected
              THEN [at |-> "priced", kind |-> place.kind, cart |-> place.cart, ctx |-> ctx, quote |-> q] ELSE Browsing)

(* DeliveryCheck: a website order must reach an address the store delivers   *)
(* to (inside, or switched off meanwhile, which is not refused here).        *)
Reaches(result) == place.kind # "web" \/ result \notin {"outside", "check", "not_found", "error"}

DeliveryCheck ==
    /\ place.at = "priced"
    /\ \E result \in {"inside", "outside", "check", "not_found", "error"} :
         LET got == IF result # "error" /\ ~EnsureStoreOrdering.delivery THEN "delivery_off" ELSE result
         IN  Step(IF place.cart.type # "delivery" \/ Reaches(got) THEN [place EXCEPT !.at = "checked"] ELSE Browsing)

(* build before the charge: the order, or the request fails.                 *)
Build ==
    /\ place.at = "checked"
    /\ \E money \in {Money(place.ctx, place.cart, place.quote)} :
         Step([at |-> IF MoneyReconciles(money) THEN "built" ELSE "unbuildable",
               ctx |-> place.ctx, cart |-> place.cart, quote |-> place.quote, money |-> money])

(* OrderPlacement takes it from here; or the error is answered.              *)
Leave ==
    /\ place.at \in {"built", "unbuildable"}
    /\ Step(Browsing)

-----------------------------------------------------------------------------
StorefrontInit ==
    /\ StatusInit
    /\ \E s \in Shops : settings = s.store /\ overrides = s.kinds /\ deals = s.deals
    /\ place = Browsing

Sell ==
    \/ \E r \in Carts : Quote(r)
    \/ CheckStore \/ PriceAgain \/ DeliveryCheck \/ Build \/ Leave

ManagePrices ==
    \/ \E s \in Settings : SaveSettings(s.store, s.kinds)
    \/ \E d \in Deals : CreateDeal(d) \/ \E n \in DOMAIN deals : UpdateDeal(n, d)
    \/ \E n \in DOMAIN deals : DeleteDeal(n)

StorefrontNext ==
    \/ StatusNext /\ UNCHANGED <<priceVars, place>>
    \/ ManagePrices
    \/ Sell

StorefrontSpec == StorefrontInit /\ [][StorefrontNext]_storefrontVars

-----------------------------------------------------------------------------
(* Properties.                                                               *)

(* An instant is open if a range of its day holds it, or a range of the day  *)
(* before that runs past midnight does; a day without an exception of a      *)
(* store without hours is open all day.                                      *)
OpenInstant(t) ==
    LET m == t % DayLen
        always(day) == ~HoursSet(sch) /\ day \notin DOMAIN sch.exc
    IN  \/ always(Date(t))
        \/ ~always(Date(t)) /\ \E r \in DayHours(sch, Date(t)) :
             m >= r.open /\ (m < r.close \/ r.close <= r.open)
        \/ ~always(Date(t) - 1) /\ \E r \in DayHours(sch, Date(t) - 1) : r.close <= r.open /\ m < r.close

row == EnsureStoreOrdering

(* Times, status.go:386: whatever the hours, the exceptions and the pause, a *)
(* time offered leaves the whole estimate inside one open stretch, after now *)
(* and after the pause: the kitchen can start eta before it and is open      *)
(* until then.                                                               *)
PromiseKept ==
    \A kind \in Kinds, date \in Date(clock)..Date(clock) + MaxDays :
        TimesAllowed(clock, row, kind, date) =>
            \A t \in Times(clock, sch, row, kind, date) :
                LET start == t - row.eta[kind]
                IN  start >= clock /\ ~Paused(row, start) /\ \A u \in start..t - 1 : OpenInstant(u)

(* Compute, status.go:333: the store says open exactly when the instant is   *)
(* open and not paused; the next opening it names is the first instant that  *)
(* is, unless the pause has no end; and it stays open until the close it     *)
(* names.                                                                    *)
StatusIsTrue ==
    LET takes(t) == OpenInstant(t) /\ ~Paused(row, t)
        from == IF Paused(row, clock) /\ row.pausedUntil # NONE THEN row.pausedUntil ELSE clock
        next == {t \in from..Midnight(Date(from) + LookAhead + 1) - 1 : takes(t)}
        s == Compute(clock, sch, row)
    IN  /\ (s.state = "open") = takes(clock)
        /\ ~takes(clock) =>
             s.nextOpenAt = IF next = {} \/ (Paused(row, clock) /\ row.pausedUntil = NONE) THEN NONE ELSE Min(next)
        /\ s.closesAt # NONE => \A t \in clock..s.closesAt - 1 : OpenInstant(t)

(* restock, app/storestatus/service.go:324: the loop never brings an item    *)
(* back before the time it is out until, and one without a time only when a  *)
(* daily reset lies between the last restock and now, however the loop's     *)
(* reads and the manager's edits fall.                                       *)
BackWhenDue ==
    [][\A i \in Items :
         (stock[i].out /\ ~stock'[i].out /\ edits' = edits) =>
            IF stock[i].until # NONE THEN stock[i].until <= clock
            ELSE \E d \in -1..Date(clock) : Midnight(d) + ResetHour \in ordering.restockedAt + 1..clock]_storefrontVars

Priced == place.at \in {"priced", "checked", "built", "unbuildable"}

(* A cart priced without an issue can be built, and the order's parts add up *)
(* to the total charged to the cent, combos priced above or below their      *)
(* picks included (build, orderport/service.go:377).  An option with a       *)
(* negative price, its own or for a size, is the exception: the engine       *)
(* ignores it, build does not.                                               *)
Negative(o) == o.price < 0 \/ \E z \in DOMAIN o.prices : o.prices[z] < 0

MoneyAddsUp ==
    place.at \in {"built", "unbuildable"} =>
        \/ \E g \in DOMAIN place.ctx.groups : \E o \in DOMAIN place.ctx.groups[g].opts : Negative(place.ctx.groups[g].opts[o])
        \/ place.at = "built" /\ place.money.total = Owed(place.money)

(* The tax on the food is each rate's on the food at that rate after its     *)
(* share of the discounts (engine.go:643, the spread).  It is off by half a  *)
(* cent a rate for its rounding, and by what rounding the shares down moved  *)
(* to the last rate: under a cent a rate, taxed at the highest rate.         *)
ExactTax(lines, sub, off) == OverRates(lines, LAMBDA r : r * Gross(lines, r) * (sub - off))

TaxIsFair(ctx, q) ==
    LET rates == RatesOf(q.lines)
        err == (q.sub * 10000) * (q.tax - Pct(q.service, ctx.st.tax)) - ExactTax(q.lines, q.sub, Sum(q.discounts))
        most == ((5000 + Max(rates)) * q.sub) * Cardinality(rates)
    IN  q.sub > 0 => -most <= err /\ err <= most

TaxFollowsFood == Priced => TaxIsFair(place.ctx, place.quote)

=============================================================================
