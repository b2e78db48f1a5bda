------------------------------ MODULE MenuBank ------------------------------
(* The menu a store manages: menus, categories, items, modifier groups and   *)
(* options, sizes, and the views that show the bank to each kind of channel. *)
(* One action per operation of the menu and the view service; a manager's    *)
(* session is scoped to one location, the tables hold every location.  An    *)
(* input the code refuses changes nothing, so it is the negation of a guard. *)
EXTENDS MenuCompile, MenuCsv

CONSTANTS
    Locations,      \* the stores
    Managers,       \* the stores whose manager is at work
    Names,          \* names (compared after trimming and folding case); never empty
    Cents,          \* prices an edit may carry
    Rules,          \* price rules and hidden categories a view may be given
    Printers,       \* every printer there is
    Vendors,        \* item names vendors send
    Wishes,         \* what an entry may ask for: a category, hiding, a price, a vendor's name
    Files,          \* files a manager may import
    MaxEdits,       \* bound: edits in a behaviour
    MaxRuns,        \* bound: attempts of one import
    InitDb          \* the tables when the behaviour starts

(* What the foreign keys keep of the tables, and the service: a row is in    *)
(* the store of the row it refers to, and a printer is one of its store's.   *)
MenuTableNames == {"menus", "cats", "items", "groups", "opts", "links", "sizes", "itemSizes", "optPrices", "views", "entries"}

RowOK(d, table, id, columns) ==
    /\ id \in 0..d.next - 1
    /\ DOMAIN d[table][id] = columns
    /\ d[table][id].loc \in Locations /\ d[table][id].pos \in Nat

PrinterOK(d, row) == row.printer \in d.printers[row.loc] \cup {NONE}

MenuOK(d, m) == RowOK(d, "menus", m, {"loc", "name", "avail", "pos"})

CatOK(d, c) ==
    /\ RowOK(d, "cats", c, {"loc", "menu", "name", "avail", "pos", "printer"})
    /\ d.cats[c].menu \in DOMAIN d.menus /\ d.menus[d.cats[c].menu].loc = d.cats[c].loc
    /\ PrinterOK(d, d.cats[c])

ItemOK(d, i) ==
    /\ RowOK(d, "items", i, {"loc", "cat", "name", "price", "inStock", "outUntil", "printer", "pos"})
    /\ d.items[i].cat \in DOMAIN d.cats /\ d.cats[d.items[i].cat].loc = d.items[i].loc
    /\ PrinterOK(d, d.items[i])

EntryOK(d, e) ==
    d.entries[e].kind = "merge" => d.entries[e].anchors \in Seq(Nat) /\ Len(d.entries[e].anchors) >= 2

TablesOK(d) ==
    /\ DOMAIN d = MenuTableNames \cup {"next", "version", "printers"}
    /\ d.next \in Nat /\ DOMAIN d.printers = Locations
    /\ \A m \in DOMAIN d.menus : MenuOK(d, m)
    /\ \A c \in DOMAIN d.cats : CatOK(d, c)
    /\ \A i \in DOMAIN d.items : ItemOK(d, i)
    /\ \A e \in DOMAIN d.entries : EntryOK(d, e)

ASSUME BankAssumption ==
    /\ NONE \notin Nat
    /\ Managers \subseteq Locations
    /\ \A f \in Files : Len(f) \in Nat /\ DOMAIN f = 1..Len(f)
    /\ TablesOK(InitDb)

VARIABLES
    db,             \* the tables
    edits,          \* edits so far
    job             \* the import: its file, what is left of it, the tables it found

bankVars == <<db, edits, job>>

NoJob == [at |-> "none", loc |-> NONE, file |-> <<>>, replace |-> FALSE, todo |-> {}, found |-> NONE, runs |-> 0]

BankInit == db = InitDb /\ edits = 0 /\ job = NoJob

(* One edit by the manager of location l.                                    *)
Edit(l, d) == /\ edits < MaxEdits /\ edits' = edits + 1
              /\ db' = d
              /\ job' = [job EXCEPT !.found = NONE]

AssertLoc(table, id, l) == db[table][id].loc = l

Own(table, id, l) == Found(db, table, id, TenantOf[l]) /\ AssertLoc(table, id, l)

ValidatePrinter(l, p) == p = NONE \/ p \in db.printers[l]

(* The ids a reorder may send; it writes the place of each, in one           *)
(* transaction.                                                              *)
Pairs(table) == {<<a, b>> : a \in DOMAIN db[table], b \in DOMAIN db[table]} \ {<<a, a>> : a \in DOMAIN db[table]}

----------------------------------------------------------------------------
(* Menus and categories.                                                     *)

DoCreateMenu(l) == \E n \in Names : Edit(l, CreateMenu(db, l, n, 0))

DoUpdateMenu(l) ==
    \E m \in DOMAIN db.menus, n \in Names, a \in BOOLEAN :
        Own("menus", m, l) /\ Edit(l, UpdateMenu(db, m, TenantOf[l], n, a))

DoDeleteMenu(l) == \E m \in DOMAIN db.menus : Own("menus", m, l) /\ Edit(l, DeleteMenu(db, m, TenantOf[l]))

ReorderMenus(l) ==
    \E ids \in Pairs("menus") : Edit(l, SetMenuPosition(SetMenuPosition(db, ids[1], TenantOf[l], 0), ids[2], TenantOf[l], 1))

CreateCategory(l) ==
    \E m \in DOMAIN db.menus, n \in Names, p \in Printers \cup {NONE} :
        /\ Own("menus", m, l) /\ ValidatePrinter(l, p)
        /\ Edit(l, CreateMenuCategory(db, l, m, n, p, 0))

UpdateCategory(l) ==
    \E c \in DOMAIN db.cats, n \in Names, a \in BOOLEAN, p \in Printers \cup {NONE} :
        /\ Own("cats", c, l) /\ ValidatePrinter(l, p)
        /\ Edit(l, UpdateMenuCategory(db, c, TenantOf[l], n, a, p))

DeleteCategory(l) == \E c \in DOMAIN db.cats : Own("cats", c, l) /\ Edit(l, DeleteMenuCategory(db, c, TenantOf[l]))

ReorderCategories(l) ==
    \E ids \in Pairs("cats") : Edit(l, SetCategoryPosition(SetCategoryPosition(db, ids[1], TenantOf[l], 0), ids[2], TenantOf[l], 1))

MenuRequest(l) == DoCreateMenu(l) \/ DoUpdateMenu(l) \/ DoDeleteMenu(l) \/ ReorderMenus(l)

CategoryRequest(l) == CreateCategory(l) \/ UpdateCategory(l) \/ DeleteCategory(l) \/ ReorderCategories(l)

----------------------------------------------------------------------------
(* Items.                                                                    *)

CreateItem(l) ==
    \E c \in DOMAIN db.cats, n \in Names, p \in Cents :
        /\ Own("cats", c, l) /\ p >= 0
        /\ Edit(l, CreateMenuItem(db, l, c, n, p, 0))

(* out_until only means something while the item is out of stock.            *)
UpdateItem(l) ==
    \E i \in DOMAIN db.items, n \in Names, p \in Cents, s \in BOOLEAN, u \in {NONE, 1} :
        /\ Own("items", i, l) /\ p >= 0
        /\ Edit(l, UpdateMenuItem(db, i, TenantOf[l], n, p, s, IF s THEN NONE ELSE u))

AssignItemPrinter(l) ==
    \E i \in DOMAIN db.items, p \in Printers \cup {NONE} :
        /\ Own("items", i, l) /\ ValidatePrinter(l, p)
        /\ Edit(l, SetItemPrinter(db, i, TenantOf[l], p))

DeleteItem(l) == \E i \in DOMAIN db.items : Own("items", i, l) /\ Edit(l, DeleteMenuItem(db, i, TenantOf[l]))

ReorderItems(l) ==
    \E ids \in Pairs("items") : Edit(l, SetItemPosition(SetItemPosition(db, ids[1], TenantOf[l], 0), ids[2], TenantOf[l], 1))

ItemRequest(l) == CreateItem(l) \/ UpdateItem(l) \/ AssignItemPrinter(l) \/ DeleteItem(l) \/ ReorderItems(l)

----------------------------------------------------------------------------
(* Modifier groups and options.  The handlers of an option pass no location, *)
(* and the service asks for none.                                            *)

GroupRules == [required : BOOLEAN, min : {0, 2}, max : {0, 1}]

ValidRules(r) == (r.max # 0 => r.min <= r.max) /\ (r.required => r.min >= 1)

CreateGroup(l) ==
    \E n \in Names, r \in GroupRules : ValidRules(r) /\ Edit(l, CreateModifierGroup(db, l, n, r))

UpdateGroup(l) ==
    \E g \in DOMAIN db.groups, n \in Names, r \in GroupRules :
        Own("groups", g, l) /\ ValidRules(r) /\ Edit(l, UpdateModifierGroup(db, g, TenantOf[l], n, r))

DeleteGroup(l) ==
    \E g \in DOMAIN db.groups :
        /\ Own("groups", g, l)
        /\ Edit(l, DeleteModifierGroup(DetachGroupFromAllItems(db, g, TenantOf[l]), g, TenantOf[l]))

CreateOption(l) ==
    \E g \in DOMAIN db.groups, n \in Names, c \in Cents :
        Own("groups", g, l) /\ Edit(l, CreateModifierOption(db, l, g, n, c))

UpdateOption(l) ==
    \E o \in DOMAIN db.opts, n \in Names, c \in Cents, s \in BOOLEAN :
        /\ Found(db, "opts", o, TenantOf[l])
        /\ Edit(l, UpdateModifierOption(db, o, TenantOf[l], n, c, s))

DeleteOption(l) == \E o \in DOMAIN db.opts : Edit(l, DeleteModifierOption(db, o, TenantOf[l]))

ReorderOptions(l) ==
    \E ids \in Pairs("opts") : Edit(l, SetOptionPosition(SetOptionPosition(db, ids[1], TenantOf[l], 0), ids[2], TenantOf[l], 1))

AttachGroup(l) ==
    \E i \in DOMAIN db.items, g \in DOMAIN db.groups :
        /\ Own("items", i, l) /\ Own("groups", g, l)
        /\ Edit(l, AttachModifierGroup(db, i, g, Cardinality(ListGroupsForItem(db, i))))

DetachGroup(l) ==
    \E i \in DOMAIN db.items, g \in DOMAIN db.groups :
        Own("items", i, l) /\ Edit(l, DetachModifierGroup(db, i, g))

GroupRequest(l) == CreateGroup(l) \/ UpdateGroup(l) \/ DeleteGroup(l) \/ AttachGroup(l) \/ DetachGroup(l)

OptionRequest(l) == CreateOption(l) \/ UpdateOption(l) \/ DeleteOption(l) \/ ReorderOptions(l)

----------------------------------------------------------------------------
(* Sizes, and an item's and a group's prices by size.                        *)

SizeTaken(l, n, but) == \E s \in OfLocation(db.sizes, l) \ but : db.sizes[s].name = n

CreateSize(l) ==
    \E n \in Names : ~SizeTaken(l, n, {}) /\ Edit(l, CreateMenuSize(db, l, n, Cardinality(OfLocation(db.sizes, l))))

UpdateSize(l) ==
    \E s \in DOMAIN db.sizes, n \in Names :
        Own("sizes", s, l) /\ ~SizeTaken(l, n, {s}) /\ Edit(l, UpdateMenuSize(db, s, TenantOf[l], n))

ReorderSizes(l) ==
    \E ids \in Pairs("sizes") :
        /\ \A n \in DOMAIN ids : Own("sizes", ids[n], l)
        /\ Edit(l, SetMenuSizePosition(SetMenuSizePosition(db, ids[1], TenantOf[l], 0), ids[2], TenantOf[l], 1))

DeleteSize(l) == \E s \in DOMAIN db.sizes : Own("sizes", s, l) /\ Edit(l, DeleteMenuSize(db, s, TenantOf[l]))

(* The transactions that replace the sizes of an item, and the default and   *)
(* the prices of a group's option.                                           *)
ReplaceItemSizes(i, t, prices) ==
    InsertItemSizes(DeleteItemSizes(SetItemBank(db, i, t), i), i, prices)

ReplaceOptionPrices(d0, o, g, t, isDefault, prices) ==
    InsertOptionPrices(DeleteOptionPrices(SetOptionBank(d0, o, t, g, isDefault), o), o, prices)

PriceLists == UNION {[ss -> Cents] : ss \in {x \in SUBSET DOMAIN db.sizes : Cardinality(x) <= 1}}

KnownSizes(l, prices) == \A s \in DOMAIN prices : s \in OfLocation(db.sizes, l) /\ prices[s] >= 0

DoSetItemBank(l) ==
    \E i \in DOMAIN db.items, prices \in PriceLists :
        /\ BankItem(db, l, i) /\ KnownSizes(l, prices)
        /\ Edit(l, ReplaceItemSizes(i, TenantOf[l], prices))

SetGroupBank(l) ==
    \E g \in DOMAIN db.groups, o \in DOMAIN db.opts, portions \in BOOLEAN, isDefault \in BOOLEAN, prices \in PriceLists :
        /\ db.groups[g].loc = l /\ db.opts[o].group = g /\ KnownSizes(l, prices)
        /\ Edit(l, ReplaceOptionPrices(SetGroupPortions(db, g, TenantOf[l], portions), o, g, TenantOf[l], isDefault, prices))

SizeRequest(l) == CreateSize(l) \/ UpdateSize(l) \/ ReorderSizes(l) \/ DeleteSize(l) \/ DoSetItemBank(l) \/ SetGroupBank(l)

----------------------------------------------------------------------------
(* Views and entries.                                                        *)

Kinds == {"web", "operator", "counter", "vendor"}

PlainRules == [markup |-> 0, round |-> "none", hidden |-> {}]

EnsureDefaultView(d, l, kind) ==
    IF FirstMenuViewOfKind(d, l, kind) = NONE THEN CreateMenuView(d, l, kind, PlainRules) ELSE d

(* Listing the views of a store makes the default one of every kind.         *)
Views(l) ==
    /\ \E k \in Kinds : FirstMenuViewOfKind(db, l, k) = NONE
    /\ Edit(l, EnsureDefaultView(EnsureDefaultView(EnsureDefaultView(EnsureDefaultView(
                  db, l, "web"), l, "operator"), l, "counter"), l, "vendor"))

ViewOf(l, v) == GetMenuView(db, v) /\ db.views[v].loc = l

ValidViewRules(r) == r.markup \in -5000..10000 /\ r.round \in {"none", "ceil_99"}

CreateView(l) == \E k \in Kinds, r \in Rules : ValidViewRules(r) /\ Edit(l, CreateMenuView(db, l, k, r))

UpdateView(l) ==
    \E v \in DOMAIN db.views, r \in Rules : ViewOf(l, v) /\ ValidViewRules(r) /\ Edit(l, UpdateMenuView(db, v, r))

DeleteView(l) == \E v \in DOMAIN db.views : ViewOf(l, v) /\ Edit(l, DeleteMenuView(db, v))

(* The entries a manager may send, and the ones the service takes.           *)
EntryInputs ==
    {[kind |-> k, anchors |-> as, view |-> NONE, loc |-> NONE, category |-> w.category, pos |-> 0,
      hidden |-> w.hidden, price |-> w.price, sizePrices |-> <<>>, vendor |-> w.vendor] :
        k \in {"item", "merge", "augment", "map"}, w \in Wishes,
        as \in [1..1 -> DOMAIN db.items] \cup [1..2 -> DOMAIN db.items]}

ValidEntry(v, e) ==
    /\ (db.views[v].kind = "vendor") <=> (e.kind = "map")
    /\ e.kind \in {"item", "map"} => Len(e.anchors) = 1
    /\ e.kind = "merge" => Len(e.anchors) >= 2
    /\ e.kind = "augment" => e.anchors # <<>> /\ e.price # NONE
    /\ e.price # NONE => e.price >= 0
    /\ \A n \in DOMAIN e.anchors : BankItem(db, db.views[v].loc, e.anchors[n])

CreateEntry(l) ==
    \E v \in DOMAIN db.views : \E e \in EntryInputs :
        ViewOf(l, v) /\ ValidEntry(v, e) /\ Edit(l, CreateMenuViewEntry(db, v, e))

OwnEntry(l, id) == GetMenuViewEntry(db, id) /\ ViewOf(l, db.entries[id].view)

UpdateEntry(l) ==
    \E id \in DOMAIN db.entries, e \in EntryInputs :
        /\ OwnEntry(l, id) /\ e.kind = db.entries[id].kind /\ ValidEntry(db.entries[id].view, e)
        /\ Edit(l, UpdateMenuViewEntry(db, id, e))

DeleteEntry(l) == \E id \in DOMAIN db.entries : OwnEntry(l, id) /\ Edit(l, DeleteMenuViewEntry(db, id))

(* Mapping a vendor's name makes the vendor view when there is none.         *)
MeVendorMap(l) ==
    \E n \in Vendors, i \in DOMAIN db.items :
        LET d == EnsureDefaultView(db, l, "vendor")
            v == FirstMenuViewOfKind(d, l, "vendor")
        IN  /\ BankItem(db, l, i)
            /\ Edit(l, CreateMenuViewEntry(d, v, [kind |-> "map", anchors |-> <<i>>, view |-> NONE, loc |-> NONE,
                                                  category |-> NONE, pos |-> 0, hidden |-> FALSE, price |-> NONE,
                                                  sizePrices |-> <<>>, vendor |-> n]))

ViewRequest(l) == Views(l) \/ CreateView(l) \/ UpdateView(l) \/ DeleteView(l)

EntryRequest(l) == CreateEntry(l) \/ UpdateEntry(l) \/ DeleteEntry(l) \/ MeVendorMap(l)

(* A printer is taken away in the store's printer settings.                  *)
RemovePrinter(l) == \E p \in db.printers[l] : Edit(l, DeletePrinter(db, l, p))

----------------------------------------------------------------------------
(* An import runs a write at a time and may fail at each; a failed one can   *)
(* be run again.  Edits of others while a run is under way are left out; one *)
(* between two runs sets found to NONE.                                      *)

StartImport(l) ==
    \E f \in Files, replace \in BOOLEAN :
        /\ job.at \in {"none", "done"} /\ edits < MaxEdits /\ edits' = edits + 1
        /\ PrintersKnown(db, l, f)
        /\ job' = [at |-> "runs", loc |-> l, file |-> f, replace |-> replace, todo |-> Work(db, l, f, replace), found |-> db, runs |-> 1]
        /\ UNCHANGED db

ImportWrite ==
    /\ job.at = "runs"
    /\ \E w \in job.todo : /\ IsNext(db, job.file, job.todo, w)
                           /\ db' = Write(db, job.loc, job.file, w)
                           /\ job' = [job EXCEPT !.todo = @ \ {w}]
    /\ UNCHANGED edits

ImportDone == /\ job.at = "runs" /\ job.todo = {} /\ job' = [job EXCEPT !.at = "done"]
              /\ UNCHANGED <<db, edits>>

ImportFails == /\ job.at = "runs" /\ job.todo # {} /\ job' = [job EXCEPT !.at = "failed", !.todo = {}]
               /\ UNCHANGED <<db, edits>>

ImportAgain ==
    /\ job.at = "failed" /\ job.runs < MaxRuns
    /\ PrintersKnown(db, job.loc, job.file)
    /\ job' = [job EXCEPT !.at = "runs", !.todo = Work(db, job.loc, job.file, job.replace), !.runs = @ + 1]
    /\ UNCHANGED <<db, edits>>

ImportStep == ImportWrite \/ ImportDone \/ ImportFails \/ ImportAgain

----------------------------------------------------------------------------
(* Kitchen routing.                                                          *)

(* A vendor view's mappings; a later entry for the same name wins.           *)
VendorMaps(d, l) ==
    LET es == {e \in EntriesOf(d, FirstMenuViewOfKind(d, l, "vendor")) : d.entries[e].kind = "map"}
        last(n) == CHOOSE e \in es : /\ d.entries[e].vendor = n
                                     /\ \A x \in es \ {e} : d.entries[x].vendor = n => Before(d.entries, x, e)
    IN  [n \in {d.entries[e].vendor : e \in es} |-> d.entries[last(n)].anchors[1]]

(* The item a name stands for: the best of that name.                        *)
BestNamed(d, l, n) ==
    LET named == {i \in ListRoutingByLocation(d, l) : d.items[i].name = n}
    IN  CHOOSE i \in named : \A j \in named \ {i} : BetterRoute(d, i, j)

NamesOf(d, l) == {d.items[i].name : i \in ListRoutingByLocation(d, l)}

MappedNames(d, l) == {n \in DOMAIN VendorMaps(d, l) : VendorMaps(d, l)[n] \in ListRoutingByLocation(d, l)}

(* Mutant: the name match wins over the manager's mapping.                   *)
RoutingTable_NameFirst(d, l) ==
    [n \in NamesOf(d, l) \cup MappedNames(d, l) |->
        RoutingRow(d, IF n \in NamesOf(d, l) THEN BestNamed(d, l, n) ELSE VendorMaps(d, l)[n])]

(* Names to rows: a mapping to an item that still exists, else the best item *)
(* of that name.                                                             *)
RoutingTable(d, l) ==
    [n \in NamesOf(d, l) \cup MappedNames(d, l) |->
        RoutingRow(d, IF n \in MappedNames(d, l) THEN VendorMaps(d, l)[n] ELSE BestNamed(d, l, n))]

RouteOf(row) == IF row.printer = NONE THEN [routing |-> "unassigned", item |-> row.item, printer |-> NONE]
                ELSE [routing |-> "matched", item |-> row.item, printer |-> row.printer]

Unmatched == [routing |-> "unmatched", item |-> NONE, printer |-> NONE]

RouteItems(d, l, n) == IF n \in DOMAIN RoutingTable(d, l) THEN RouteOf(RoutingTable(d, l)[n]) ELSE Unmatched

RouteBankItems(d, l, i) == IF i \in ListRoutingByLocation(d, l) THEN RouteOf(RoutingRow(d, i)) ELSE Unmatched

(* Names recent orders carried that route to no printer.                     *)
UnmatchedNames(d, l, recent) == {n \in recent : RouteItems(d, l, n).routing = "unmatched"}

----------------------------------------------------------------------------
MenuBankNext ==
    \/ edits < MaxEdits /\ job.at # "runs" /\ \E l \in Managers :
          \/ MenuRequest(l) \/ CategoryRequest(l) \/ ItemRequest(l) \/ GroupRequest(l) \/ OptionRequest(l)
          \/ SizeRequest(l) \/ ViewRequest(l) \/ EntryRequest(l) \/ RemovePrinter(l) \/ StartImport(l)
    \/ ImportStep

BankSpec == BankInit /\ [][MenuBankNext]_bankVars
----------------------------------------------------------------------------
(* Properties.                                                               *)

(* The kitchen never prints on another store's printer, and a name a manager *)
(* mapped to an item the store still has routes like that item.              *)
RoutesHome == \A l \in Locations : \A n \in Names \cup Vendors :
    /\ RouteItems(db, l, n).printer \in db.printers[l] \cup {NONE}
    /\ LET maps == VendorMaps(db, l)
       IN  n \in DOMAIN maps /\ maps[n] \in BankItems(db, l) => RouteItems(db, l, n) = RouteBankItems(db, l, maps[n])

(* An item the store can sell and the view does not hide is shown: as itself *)
(* or as a choice of a merge, unless every merge it is in is hidden.         *)
NothingVanishes == \A v \in DOMAIN db.views : db.views[v].kind # "vendor" =>
    LET shown == Compile(db, v, {}).shown
    IN  \A i \in BankItems(db, db.views[v].loc) : Sellable(db, i) /\ ~ViewHidden(db, v, i) =>
          \/ \E s \in shown : s.id = i \/ \E c \in s.choices : c.item = i
          \/ \A e \in EntriesOf(db, v) : db.entries[e].kind = "merge" /\ i \in Range(db.entries[e].anchors)
                                           => db.entries[e].hidden

(* "A re-run after a failure picks up where it stopped": an import that ends,*)
(* after failing anywhere, leaves the menu one import without a failure      *)
(* would have left, and importing the file once more changes nothing.        *)
RerunCompletes == job.at = "done" /\ job.found # NONE =>
    /\ Content(db, job.loc) = Content(ImportAll(job.found, job.loc, job.file, job.replace), job.loc)
    /\ Content(db, job.loc) = Content(ImportAll(db, job.loc, job.file, FALSE), job.loc)

=============================================================================
