----------------------------- MODULE MenuTables -----------------------------
(* The menu tables of the database and the SQL statements on them, as        *)
(* operators on one record d.  A table is a function from row ids to rows;   *)
(* a link table is a set of rows.  Ids come from the counter d.next, so they *)
(* are never used twice and their order is the order of created_at.          *)
(*                                                                           *)
(* Descriptions, tags, kitchen names, tax rates, short names and the other   *)
(* columns nothing here looks at are left out: a statement that only writes  *)
(* such columns still touches the row, and so bumps the menu version.        *)
EXTENDS Integers, FiniteSets, Sequences, SequencesExt, TLC

CONSTANTS
    TenantOf,   \* the tenant of every location
    NONE        \* SQL NULL

(* The triggers on every menu table raise the version of the location whose  *)
(* row changed.                                                              *)
Bump(d, l) == [d EXCEPT !.version[l] = @ + 1]

BumpAll(d, ls) == [d EXCEPT !.version = [l \in DOMAIN @ |-> IF l \in ls THEN @[l] + 1 ELSE @[l]]]

(* A row that WHERE id = $1 AND tenant_id = $2 finds.                        *)
Found(d, table, id, t) == id \in DOMAIN d[table] /\ TenantOf[d[table][id].loc] = t

Insert(d, table, row) ==
    Bump([d EXCEPT ![table] = [id \in DOMAIN @ \cup {d.next} |-> IF id = d.next THEN row ELSE @[id]],
                   !.next = @ + 1], row.loc)

Update(d, table, id, t, row) ==
    IF Found(d, table, id, t) THEN Bump([d EXCEPT ![table][id] = row], d[table][id].loc) ELSE d

Without(f, ids) == [id \in DOMAIN f \ ids |-> f[id]]

(* A query's ORDER BY position, created_at, and rows in that order.  A query *)
(* whose caller looks at no order is the set of its rows.                    *)
Before(table, a, b) == table[a].pos < table[b].pos \/ (table[a].pos = table[b].pos /\ a < b)

Ordered(table, ids) ==
    [n \in 1..Cardinality(ids) |-> CHOOSE a \in ids : Cardinality({b \in ids : Before(table, b, a)}) = n - 1]

OfLocation(table, l) == {id \in DOMAIN table : table[id].loc = l}

----------------------------------------------------------------------------
(* Menus, categories and items.  A row that refers to none is refused by its *)
(* foreign key.                                                              *)

CreateMenu(d, l, name, p) == Insert(d, "menus", [loc |-> l, name |-> name, avail |-> TRUE, pos |-> p])

GetMenuByID(d, id, t) == Found(d, "menus", id, t)

ListMenusByLocation(d, l) == OfLocation(d.menus, l)

UpdateMenu(d, id, t, name, avail) ==
    Update(d, "menus", id, t, [d.menus[id] EXCEPT !.name = name, !.avail = avail])

SetMenuPosition(d, id, t, p) == Update(d, "menus", id, t, [d.menus[id] EXCEPT !.pos = p])

CreateMenuCategory(d, l, menu, name, printer, p) ==
    IF menu \in DOMAIN d.menus
    THEN Insert(d, "cats", [loc |-> l, menu |-> menu, name |-> name, avail |-> TRUE, pos |-> p, printer |-> printer])
    ELSE d

GetMenuCategoryByID(d, id, t) == Found(d, "cats", id, t)

ListCategoriesByMenu(d, menu) == {c \in DOMAIN d.cats : d.cats[c].menu = menu}

ListCategoriesByLocation(d, l) == Ordered(d.cats, OfLocation(d.cats, l))

UpdateMenuCategory(d, id, t, name, avail, printer) ==
    Update(d, "cats", id, t, [d.cats[id] EXCEPT !.name = name, !.avail = avail, !.printer = printer])

SetCategoryPosition(d, id, t, p) == Update(d, "cats", id, t, [d.cats[id] EXCEPT !.pos = p])

CreateMenuItem(d, l, cat, name, price, p) ==
    IF cat \in DOMAIN d.cats
    THEN Insert(d, "items", [loc |-> l, cat |-> cat, name |-> name, price |-> price, inStock |-> TRUE,
                             outUntil |-> NONE, printer |-> NONE, pos |-> p])
    ELSE d

GetMenuItemByID(d, id, t) == Found(d, "items", id, t)

ListItemsByCategory(d, cat) == {i \in DOMAIN d.items : d.items[i].cat = cat}

ListItemsByLocation(d, l) == Ordered(d.items, OfLocation(d.items, l))

UpdateMenuItem(d, id, t, name, price, inStock, outUntil) ==
    Update(d, "items", id, t, [d.items[id] EXCEPT !.name = name, !.price = price, !.inStock = inStock,
                                                  !.outUntil = outUntil])

SetItemPrinter(d, id, t, printer) == Update(d, "items", id, t, [d.items[id] EXCEPT !.printer = printer])

SetItemPosition(d, id, t, p) == Update(d, "items", id, t, [d.items[id] EXCEPT !.pos = p])

(* The foreign keys: an item takes its links and its sizes with it, a        *)
(* category its items, a menu its categories.                                *)
DropItems(d, ids) ==
    [d EXCEPT !.items = Without(@, ids),
              !.links = {k \in @ : k.item \notin ids},
              !.itemSizes = {s \in @ : s.item \notin ids}]

DropCats(d, ids) == [DropItems(d, {i \in DOMAIN d.items : d.items[i].cat \in ids}) EXCEPT !.cats = Without(@, ids)]

DeleteMenuItem(d, id, t) ==
    IF Found(d, "items", id, t) THEN Bump(DropItems(d, {id}), d.items[id].loc) ELSE d

DeleteMenuCategory(d, id, t) ==
    IF Found(d, "cats", id, t) THEN Bump(DropCats(d, {id}), d.cats[id].loc) ELSE d

DeleteMenu(d, id, t) ==
    IF Found(d, "menus", id, t)
    THEN Bump([DropCats(d, {c \in DOMAIN d.cats : d.cats[c].menu = id}) EXCEPT !.menus = Without(@, {id})],
              d.menus[id].loc)
    ELSE d

(* The routing of a location: its items with their category and its menu,    *)
(* better candidates first, and an item's row.                               *)
ListRoutingByLocation(d, l) ==
    {i \in OfLocation(d.items, l) : d.items[i].cat \in DOMAIN d.cats /\ d.cats[d.items[i].cat].menu \in DOMAIN d.menus}

RoutingKey(d, i) ==
    LET cat == d.cats[d.items[i].cat]
        menu == d.menus[cat.menu]
    IN  <<IF menu.avail /\ cat.avail THEN 0 ELSE 1, menu.pos, cat.pos, d.items[i].pos, i>>

BetterRoute(d, a, b) ==
    \E n \in 1..5 : /\ RoutingKey(d, a)[n] < RoutingKey(d, b)[n]
                    /\ \A k \in 1..(n - 1) : RoutingKey(d, a)[k] = RoutingKey(d, b)[k]

RoutingRow(d, i) ==
    [item |-> i, name |-> d.items[i].name,
     printer |-> IF d.items[i].printer # NONE THEN d.items[i].printer ELSE d.cats[d.items[i].cat].printer]

----------------------------------------------------------------------------
(* Modifier groups, options and the links of items to groups.                *)

CreateModifierGroup(d, l, name, rules) == Insert(d, "groups", [loc |-> l, name |-> name, rules |-> rules, portions |-> FALSE])

GetModifierGroupByID(d, id, t) == Found(d, "groups", id, t)

ListModifierGroupsByLocation(d, l) == OfLocation(d.groups, l)

UpdateModifierGroup(d, id, t, name, rules) ==
    Update(d, "groups", id, t, [d.groups[id] EXCEPT !.name = name, !.rules = rules])

SetGroupPortions(d, id, t, portions) == Update(d, "groups", id, t, [d.groups[id] EXCEPT !.portions = portions])

DetachGroupFromAllItems(d, id, t) ==
    LET gone == {k \in d.links : k.group = id /\ TenantOf[d.items[k.item].loc] = t}
    IN  BumpAll([d EXCEPT !.links = @ \ gone], {d.items[k.item].loc : k \in gone})

DropOptions(d, ids) == [d EXCEPT !.opts = Without(@, ids), !.optPrices = {p \in @ : p.opt \notin ids}]

DeleteModifierGroup(d, id, t) ==
    IF Found(d, "groups", id, t)
    THEN Bump([DropOptions(d, {o \in DOMAIN d.opts : d.opts[o].group = id})
                  EXCEPT !.groups = Without(@, {id}), !.links = {k \in @ : k.group # id}], d.groups[id].loc)
    ELSE d

CreateModifierOption(d, l, group, name, delta) ==
    Insert(d, "opts", [loc |-> l, group |-> group, name |-> name, delta |-> delta, inStock |-> TRUE,
                       pos |-> 0, isDefault |-> FALSE])

ListOptionsByGroup(d, group) == Ordered(d.opts, {o \in DOMAIN d.opts : d.opts[o].group = group})

ListOptionsByLocation(d, l) == Ordered(d.opts, OfLocation(d.opts, l))

UpdateModifierOption(d, id, t, name, delta, inStock) ==
    Update(d, "opts", id, t, [d.opts[id] EXCEPT !.name = name, !.delta = delta, !.inStock = inStock])

SetOptionPosition(d, id, t, p) == Update(d, "opts", id, t, [d.opts[id] EXCEPT !.pos = p])

SetOptionBank(d, id, t, group, isDefault) ==
    IF Found(d, "opts", id, t) /\ d.opts[id].group = group
    THEN Update(d, "opts", id, t, [d.opts[id] EXCEPT !.isDefault = isDefault]) ELSE d

DeleteModifierOption(d, id, t) ==
    IF Found(d, "opts", id, t) THEN Bump(DropOptions(d, {id}), d.opts[id].loc) ELSE d

AttachModifierGroup(d, item, group, p) ==
    Bump([d EXCEPT !.links = {k \in @ : <<k.item, k.group>> # <<item, group>>}
                                \cup {[item |-> item, group |-> group, pos |-> p]}], d.items[item].loc)

DetachModifierGroup(d, item, group) ==
    IF \E k \in d.links : k.item = item /\ k.group = group
    THEN Bump([d EXCEPT !.links = {k \in @ : <<k.item, k.group>> # <<item, group>>}], d.items[item].loc) ELSE d

ListGroupsForItem(d, item) == {k \in d.links : k.item = item}

ListItemModifierGroupsByLocation(d, l) == {k \in d.links : d.items[k.item].loc = l}

----------------------------------------------------------------------------
(* Sizes and the prices by size.                                             *)

CreateMenuSize(d, l, name, p) == Insert(d, "sizes", [loc |-> l, name |-> name, pos |-> p])

ListMenuSizes(d, l) == Ordered(d.sizes, OfLocation(d.sizes, l))

GetMenuSize(d, id, t) == Found(d, "sizes", id, t)

UpdateMenuSize(d, id, t, name) == Update(d, "sizes", id, t, [d.sizes[id] EXCEPT !.name = name])

SetMenuSizePosition(d, id, t, p) == Update(d, "sizes", id, t, [d.sizes[id] EXCEPT !.pos = p])

DeleteMenuSize(d, id, t) ==
    IF Found(d, "sizes", id, t)
    THEN Bump([d EXCEPT !.sizes = Without(@, {id}), !.itemSizes = {s \in @ : s.size # id},
                        !.optPrices = {p \in @ : p.size # id}], d.sizes[id].loc)
    ELSE d

SetItemBank(d, id, t) == Update(d, "items", id, t, d.items[id])

DeleteItemSizes(d, item) == [d EXCEPT !.itemSizes = {s \in @ : s.item # item}]

(* A row for every size that has a price.                                    *)
InsertItemSizes(d, item, prices) ==
    [d EXCEPT !.itemSizes = @ \cup {[item |-> item, size |-> s, price |-> prices[s]] : s \in DOMAIN prices},
              !.version[d.items[item].loc] = @ + Cardinality(DOMAIN prices)]

ListItemSizesByLocation(d, l) == {s \in d.itemSizes : d.items[s.item].loc = l}

DeleteOptionPrices(d, opt) == [d EXCEPT !.optPrices = {p \in @ : p.opt # opt}]

InsertOptionPrices(d, opt, prices) ==
    [d EXCEPT !.optPrices = @ \cup {[opt |-> opt, size |-> s, price |-> prices[s]] : s \in DOMAIN prices},
              !.version[d.opts[opt].loc] = @ + Cardinality(DOMAIN prices)]

ListOptionPricesByLocation(d, l) == {p \in d.optPrices : d.opts[p.opt].loc = l}

GetMenuVersion(d, l) == d.version[l]

----------------------------------------------------------------------------
(* Views and their entries.                                                  *)

CreateMenuView(d, l, kind, rules) == Insert(d, "views", [loc |-> l, kind |-> kind, rules |-> rules])

GetMenuView(d, id) == id \in DOMAIN d.views

FirstMenuViewOfKind(d, l, kind) ==
    LET vs == {v \in OfLocation(d.views, l) : d.views[v].kind = kind}
    IN  IF vs = {} THEN NONE ELSE CHOOSE v \in vs : \A w \in vs : v <= w

UpdateMenuView(d, id, rules) == Bump([d EXCEPT !.views[id].rules = rules], d.views[id].loc)

DropEntries(d, ids) == [d EXCEPT !.entries = Without(@, ids)]

DeleteMenuView(d, id) ==
    Bump([DropEntries(d, {e \in DOMAIN d.entries : d.entries[e].view = id}) EXCEPT !.views = Without(@, {id})],
         d.views[id].loc)

CreateMenuViewEntry(d, view, e) ==
    Insert(d, "entries", [e EXCEPT !.view = view, !.loc = d.views[view].loc])

GetMenuViewEntry(d, id) == id \in DOMAIN d.entries

ListMenuViewEntries(d, view) == Ordered(d.entries, {e \in DOMAIN d.entries : d.entries[e].view = view})

UpdateMenuViewEntry(d, id, e) ==
    Bump([d EXCEPT !.entries[id] = [e EXCEPT !.view = d.entries[id].view, !.kind = d.entries[id].kind,
                                             !.loc = d.entries[id].loc]], d.entries[id].loc)

DeleteMenuViewEntry(d, id) == Bump(DropEntries(d, {id}), d.entries[id].loc)

----------------------------------------------------------------------------
(* The printers of a location, kept by the tenancy service.  Deleting one    *)
(* sets the columns that name it to NULL, and the update of a menu row bumps *)
(* the version like any other.                                               *)
DeletePrinter(d, l, p) ==
    LET off(r) == IF r.printer = p THEN [r EXCEPT !.printer = NONE] ELSE r
        used == {i \in DOMAIN d.items : d.items[i].printer = p} \cup {c \in DOMAIN d.cats : d.cats[c].printer = p}
        cleared == [d EXCEPT !.printers[l] = @ \ {p},
                             !.items = [i \in DOMAIN @ |-> off(@[i])], !.cats = [c \in DOMAIN @ |-> off(@[c])]]
    IN  IF used = {} THEN cleared ELSE Bump(cleared, l)
=============================================================================
