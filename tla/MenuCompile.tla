---------------------------- MODULE MenuCompile -----------------------------
(* What a view of the menu shows: the bank of a location compiled with the   *)
(* view's rules and entries.  The order of categories and of items within    *)
(* them is layout and left out; the order of entries and of anchors decides  *)
(* who wins and is kept.  d is the database record of MenuTables.            *)
EXTENDS MenuTables

(* A bank price under a rule: raised by a markup in basis points, rounded up *)
(* to the cent, then up to the next X.99.                                    *)
ApplyRule(cents, markupBps, round) ==
    LET p == IF markupBps = 0 THEN cents ELSE (cents * (10000 + markupBps) + 9999) \div 10000
    IN  IF cents <= 0 THEN cents
        ELSE IF round = "ceil_99" THEN (p \div 100) * 100 + 99 ELSE p

(* The bank of a location holds an item through its category and its menu.   *)
BankItem(d, l, i) ==
    /\ i \in DOMAIN d.items /\ d.items[i].loc = l
    /\ d.items[i].cat \in DOMAIN d.cats /\ d.cats[d.items[i].cat].loc = l
    /\ d.cats[d.items[i].cat].menu \in DOMAIN d.menus

BankItems(d, l) == {i \in DOMAIN d.items : BankItem(d, l, i)}

CatOn(d, c) == d.cats[c].avail /\ d.menus[d.cats[c].menu].avail

Sellable(d, i) == CatOn(d, d.items[i].cat)

(* The item entries of a view whose anchor the bank has; of two for the same *)
(* item the later one counts.                                                *)
ByItem(d, v, i) ==
    LET es == SelectSeq(ListMenuViewEntries(d, v),
                        LAMBDA e : d.entries[e].kind = "item" /\ d.entries[e].anchors = <<i>>)
    IN  IF es = <<>> \/ ~BankItem(d, d.views[v].loc, i) THEN NONE ELSE es[Len(es)]

Merged(d, v) ==
    UNION {Range(d.entries[e].anchors) : e \in {x \in DOMAIN d.entries : d.entries[x].view = v /\ d.entries[x].kind = "merge"}}

ViewHidden(d, v, i) ==
    \/ d.items[i].cat \in d.views[v].rules.hidden
    \/ ByItem(d, v, i) # NONE /\ d.entries[ByItem(d, v, i)].hidden

(* The category an entry moves its item into: the shown bank category of     *)
(* that name, else one of the view's own.                                    *)
Named(d, v, name) ==
    LET l == d.views[v].loc
        cs == SelectSeq(ListCategoriesByLocation(d, l),
                        LAMBDA c : CatOn(d, c) /\ c \notin d.views[v].rules.hidden /\ d.cats[c].name = name)
    IN  IF cs = <<>> THEN <<"view", name>> ELSE <<"bank", cs[1]>>

Price(d, v, cents) == ApplyRule(cents, d.views[v].rules.markup, d.views[v].rules.round)

(* Sizes with their prices; an item entry may name a price of its own.       *)
Sizes(d, v, i, override) ==
    {[size |-> s.size,
      price |-> IF s.size \in DOMAIN override THEN override[s.size] ELSE Price(d, v, s.price)] :
        s \in {x \in d.itemSizes : x.item = i /\ x.size \in OfLocation(d.sizes, d.views[v].loc)}}

GroupIDs(d, v, i) == {k.group : k \in {x \in d.links : x.item = i /\ x.group \in OfLocation(d.groups, d.views[v].loc)}}

(* A group as the view shows it: an option's price takes the markup, never   *)
(* the rounding.                                                             *)
BuildGroup(d, v, g) ==
    [id |-> g, rules |-> d.groups[g].rules, portions |-> d.groups[g].portions,
     options |-> {[id |-> o, price |-> ApplyRule(d.opts[o].delta, d.views[v].rules.markup, "none"),
                   prices |-> {[size |-> p.size, price |-> ApplyRule(p.price, d.views[v].rules.markup, "none")] :
                                 p \in {x \in d.optPrices : x.opt = o}},
                   isDefault |-> d.opts[o].isDefault, soldOut |-> ~d.opts[o].inStock] :
                 o \in {x \in DOMAIN d.opts : d.opts[x].group = g}}]

(* A bank item as the view shows it, changed by its item entry.              *)
ShownItem(d, v, i) ==
    LET e == ByItem(d, v, i)
        en == d.entries[e]
    IN  [id |-> i, anchors |-> <<i>>, choices |-> {}, soldOut |-> ~d.items[i].inStock, groups |-> GroupIDs(d, v, i),
         price |-> IF e # NONE /\ en.price # NONE THEN en.price ELSE Price(d, v, d.items[i].price),
         sizes |-> Sizes(d, v, i, IF e # NONE THEN en.sizePrices ELSE <<>>),
         cat |-> IF e # NONE /\ en.category # NONE THEN Named(d, v, en.category) ELSE <<"bank", d.items[i].cat>>]

BankShown(d, v) ==
    {ShownItem(d, v, i) : i \in {x \in BankItems(d, d.views[v].loc) \ Merged(d, v) :
                                   Sellable(d, x) /\ ~ViewHidden(d, v, x)}}

CanShow(d, v, i) == BankItem(d, d.views[v].loc, i) /\ Sellable(d, i) /\ ~ViewHidden(d, v, i)

(* Mutant: a merge with an item that cannot be sold is left out.             *)
MergeChoices_All(d, v, e) ==
    LET as == d.entries[e].anchors IN {n \in DOMAIN as : \A k \in DOMAIN as : CanShow(d, v, as[k])}

(* The places of a merge's choices: of its anchors the store can sell and    *)
(* the view does not hide.  The first of them gives the price, the sizes,    *)
(* the groups and the category.                                              *)
MergeChoices(d, v, e) == LET as == d.entries[e].anchors IN {n \in DOMAIN as : CanShow(d, v, as[n])}

(* Whether place shows a merge or an added item, and in which category.      *)
Placed(d, v, e, i) ==
    /\ ~d.entries[e].hidden
    /\ d.entries[e].category = NONE => CatOn(d, d.items[i].cat) /\ d.items[i].cat \notin d.views[v].rules.hidden

Place(d, v, e, i) ==
    IF d.entries[e].category # NONE THEN Named(d, v, d.entries[e].category) ELSE <<"bank", d.items[i].cat>>

ShownMerge(d, v, e) ==
    LET as == d.entries[e].anchors
        ns == MergeChoices(d, v, e)
        cs == {as[n] : n \in ns}
        first == as[CHOOSE n \in ns : \A k \in ns : n <= k]
    IN  IF Len(as) < 2 \/ ns = {} \/ ~Placed(d, v, e, first) THEN {}
        ELSE {[id |-> e, anchors |-> as, cat |-> Place(d, v, e, first),
               choices |-> {[item |-> i, price |-> Price(d, v, d.items[i].price), sizes |-> Sizes(d, v, i, <<>>),
                             soldOut |-> ~d.items[i].inStock] : i \in cs},
               price |-> IF d.entries[e].price # NONE THEN d.entries[e].price ELSE Price(d, v, d.items[first].price),
               sizes |-> Sizes(d, v, first, <<>>), groups |-> GroupIDs(d, v, first),
               soldOut |-> \A i \in cs : ~d.items[i].inStock]}

(* An added item is sold only when the store can sell all of its anchors.    *)
ShownAugment(d, v, e) ==
    LET as == d.entries[e].anchors
        sold == \A i \in Range(as) : BankItem(d, d.views[v].loc, i) /\ Sellable(d, i)
    IN  IF as = <<>> \/ d.entries[e].price = NONE \/ ~sold \/ ~Placed(d, v, e, as[1]) THEN {}
        ELSE {[id |-> e, anchors |-> as, cat |-> Place(d, v, e, as[1]), choices |-> {}, price |-> d.entries[e].price,
               sizes |-> {}, groups |-> {}, soldOut |-> \E i \in Range(as) : ~d.items[i].inStock]}

(* The anchors an entry is flagged for: an added item stops at the first     *)
(* anchor that is gone or off.                                               *)
GoneFlagged(d, v, e) ==
    LET as == d.entries[e].anchors
        l == d.views[v].loc
        gone == {n \in DOMAIN as : ~BankItem(d, l, as[n])}
        stops == {n \in DOMAIN as : ~BankItem(d, l, as[n]) \/ ~Sellable(d, as[n])}
    IN  IF d.entries[e].kind = "augment"
        THEN {as[n] : n \in {k \in gone : \A m \in stops : k <= m}} ELSE {as[n] : n \in gone}

EntriesOf(d, v) == {e \in DOMAIN d.entries : d.entries[e].view = v}

Attention(d, v) == UNION {{[code |-> "anchor_gone", entry |-> e, item |-> i] : i \in GoneFlagged(d, v, e)} : e \in EntriesOf(d, v)}

(* A vendor view maps names to bank items; names recent orders carried that  *)
(* no map and no item takes are listed for a decision.                       *)
CompileVendor(d, v, unmatched) ==
    LET maps == {e \in EntriesOf(d, v) : d.entries[e].kind = "map" /\ BankItem(d, d.views[v].loc, d.entries[e].anchors[1])}
    IN  [shown |-> {}, groups |-> {}, maps |-> {[vendor |-> d.entries[e].vendor, item |-> d.entries[e].anchors[1]] : e \in maps},
         attention |-> Attention(d, v) \cup {[code |-> "unmatched", entry |-> NONE, item |-> n] :
                                               n \in unmatched \ {d.entries[e].vendor : e \in maps}}]

CompileView(d, v) ==
    LET shown == BankShown(d, v) \cup UNION {ShownMerge(d, v, e) : e \in {x \in EntriesOf(d, v) : d.entries[x].kind = "merge"}}
                   \cup UNION {ShownAugment(d, v, e) : e \in {x \in EntriesOf(d, v) : d.entries[x].kind = "augment"}}
    IN  [shown |-> shown, groups |-> {BuildGroup(d, v, g) : g \in UNION {s.groups : s \in shown}}, maps |-> {},
         attention |-> Attention(d, v)]

Compile(d, v, unmatched) == IF d.views[v].kind = "vendor" THEN CompileVendor(d, v, unmatched) ELSE CompileView(d, v)
=============================================================================
