------------------------------ MODULE MenuCsv -------------------------------
(* The menu as a spreadsheet: what an import of a file writes, one database  *)
(* write after the other, and what an export puts in a file.  A row is       *)
(* [menu, cat, item, price, printer]; NONE is a blank cell.  Reading the     *)
(* cells out of the text is left out: a file that cannot be read writes      *)
(* nothing.                                                                  *)
EXTENDS MenuTables

(* Every printer a row names is one of the store's, or nothing is written.   *)
PrintersKnown(d, l, file) == \A n \in DOMAIN file : file[n].printer \in d.printers[l] \cup {NONE}

(* The first of some rows with a name.                                       *)
FirstNamed(table, ids, name) ==
    LET hits == {id \in ids : table[id].name = name}
    IN  IF hits = {} THEN NONE ELSE CHOOSE a \in hits : \A b \in hits \ {a} : Before(table, a, b)

(* The rows of the file are grouped by menu and by category: the first row   *)
(* of the menu and of the category that row n is in.                         *)
MenuRow(file, n) ==
    CHOOSE k \in DOMAIN file : file[k].menu = file[n].menu /\ \A j \in 1..(k - 1) : file[j].menu # file[n].menu

RowsOfCat(file, n) == {k \in DOMAIN file : file[k].menu = file[n].menu /\ file[k].cat = file[n].cat}

CatRow(file, n) == CHOOSE k \in RowsOfCat(file, n) : \A j \in RowsOfCat(file, n) : k <= j

(* The printer most rows of a category name: of two, the one that got as far *)
(* first.                                                                    *)
MostCommonPrinter(file, n) ==
    LET naming == {k \in RowsOfCat(file, n) : file[k].printer # NONE}
        count(k) == Cardinality({j \in naming : j <= k /\ file[j].printer = file[k].printer})
        best == CHOOSE k \in naming : \A j \in naming : count(j) < count(k) \/ (count(j) = count(k) /\ k <= j)
    IN  IF naming = {} THEN NONE ELSE file[best].printer

(* The writes of an import, each at the row that calls for it: the menus a   *)
(* replace deletes, the menus, the categories, the items and their printers. *)
Work(d, l, file, replace) ==
    {[op |-> "delete", at |-> m] : m \in IF replace THEN ListMenusByLocation(d, l) ELSE {}}
      \cup {[op |-> "menu", at |-> n] : n \in {k \in DOMAIN file : MenuRow(file, k) = k}}
      \cup {[op |-> "category", at |-> n] : n \in {k \in DOMAIN file : CatRow(file, k) = k}}
      \cup {[op |-> op, at |-> n] : op \in {"item", "printer"}, n \in DOMAIN file}

(* Their order: the deletions first, then menu by menu, category by category *)
(* and row by row.                                                           *)
WorkKey(file, w) ==
    <<MenuRow(file, w.at), IF w.op = "menu" THEN 0 ELSE CatRow(file, w.at),
      IF w.op \in {"menu", "category"} THEN 0 ELSE w.at, IF w.op = "printer" THEN 1 ELSE 0>>

Earlier(d, file, w, x) ==
    \/ w.op = "delete" /\ (x.op = "delete" => Before(d.menus, w.at, x.at))
    \/ /\ w.op # "delete" /\ x.op # "delete"
       /\ \E n \in 1..4 : /\ WorkKey(file, w)[n] < WorkKey(file, x)[n]
                          /\ \A k \in 1..(n - 1) : WorkKey(file, w)[k] = WorkKey(file, x)[k]

IsNext(d, file, todo, w) == w \in todo /\ \A x \in todo \ {w} : Earlier(d, file, w, x)

MenuNamed(d, l, m) == FirstNamed(d.menus, ListMenusByLocation(d, l), m)

CatNamed(d, l, m, c) == FirstNamed(d.cats, ListCategoriesByMenu(d, MenuNamed(d, l, m)), c)

ItemNamed(d, l, r) == FirstNamed(d.items, ListItemsByCategory(d, CatNamed(d, l, r.menu, r.cat)), r.item)

WriteMenu(d, l, r) ==
    IF MenuNamed(d, l, r.menu) # NONE THEN d ELSE CreateMenu(d, l, r.menu, Cardinality(ListMenusByLocation(d, l)))

(* A category that is missing is made with the printer; one without a        *)
(* default gets it; a default is kept.                                       *)
WriteCategory(d, l, r, printer) ==
    LET m == MenuNamed(d, l, r.menu)
        c == CatNamed(d, l, r.menu, r.cat)
    IN  IF c = NONE THEN CreateMenuCategory(d, l, m, r.cat, printer, Cardinality(ListCategoriesByMenu(d, m)))
        ELSE IF d.cats[c].printer = NONE /\ printer # NONE
             THEN UpdateMenuCategory(d, c, TenantOf[l], d.cats[c].name, d.cats[c].avail, printer) ELSE d

(* Mutant: every row makes an item.                                          *)
WriteItem_Always(d, l, r) ==
    LET c == CatNamed(d, l, r.menu, r.cat)
    IN  CreateMenuItem(d, l, c, r.item, IF r.price = NONE THEN 0 ELSE r.price, Cardinality(ListItemsByCategory(d, c)))

(* An item that is missing is made; a blank price leaves the price alone.    *)
WriteItem(d, l, r) ==
    LET c == CatNamed(d, l, r.menu, r.cat)
        i == ItemNamed(d, l, r)
    IN  IF i = NONE
        THEN CreateMenuItem(d, l, c, r.item, IF r.price = NONE THEN 0 ELSE r.price, Cardinality(ListItemsByCategory(d, c)))
        ELSE IF r.price \notin {NONE, d.items[i].price}
             THEN UpdateMenuItem(d, i, TenantOf[l], d.items[i].name, r.price, d.items[i].inStock, d.items[i].outUntil) ELSE d

(* A printer of its own only where it differs from the category's default.   *)
WritePrinter(d, l, r) ==
    LET i == ItemNamed(d, l, r)
        target == IF d.cats[CatNamed(d, l, r.menu, r.cat)].printer = r.printer THEN NONE ELSE r.printer
    IN  IF r.printer = NONE \/ d.items[i].printer = target THEN d ELSE SetItemPrinter(d, i, TenantOf[l], target)

(* One step of an import, with the look-ups it makes.                        *)
Write(d, l, file, w) ==
    CASE w.op = "delete"   -> DeleteMenu(d, w.at, TenantOf[l])
      [] w.op = "menu"     -> WriteMenu(d, l, file[w.at])
      [] w.op = "category" -> WriteCategory(d, l, file[w.at], MostCommonPrinter(file, w.at))
      [] w.op = "item"     -> WriteItem(d, l, file[w.at])
      [] w.op = "printer"  -> WritePrinter(d, l, file[w.at])

(* An import without a failure.                                              *)
ImportAll(d, l, file, replace) ==
    LET work == Work(d, l, file, replace)
        run[n \in 0..Cardinality(work)] ==
            IF n = 0 THEN [db |-> d, todo |-> work]
            ELSE LET p == run[n - 1]
                     w == CHOOSE x \in p.todo : IsNext(p.db, file, p.todo, x)
                 IN  [db |-> Write(p.db, l, file, w), todo |-> p.todo \ {w}]
    IN  run[Cardinality(work)].db

(* A location's menu by names, without the ids of its rows.                  *)
Content(d, l) ==
    {<<d.menus[m].name, d.menus[m].pos>> : m \in OfLocation(d.menus, l)}
      \cup {<<d.menus[d.cats[c].menu].name, d.cats[c].name, d.cats[c].printer, d.cats[c].pos>> : c \in OfLocation(d.cats, l)}
      \cup {<<d.cats[d.items[i].cat].name, d.items[i].name, d.items[i].price, d.items[i].printer, d.items[i].pos>> :
               i \in OfLocation(d.items, l)}
=============================================================================
