---------------------------- MODULE StoreTables ----------------------------
(* The tables of the back office (tenants, locations, printers, channels,   *)
(* operators) and the SQL statements on them, as operators on one record d. *)
(* A table is a function from row ids to rows; operator_locations is a set  *)
(* of pairs, printer_ip_changes a sequence.  Ids come from the counter      *)
(* d.next: none is used twice and their order is that of created_at.        *)
(*                                                                          *)
(* A location row keeps its editable details as one value, the address      *)
(* apart from it (the geocoder reads it), and the position with where it    *)
(* came from.  A key or a token is the number d.next had when it was made:  *)
(* the hash the table stores tells keys apart and nothing more.  Columns    *)
(* nothing here looks at are left out.                                      *)
EXTENDS Integers, FiniteSets, FiniteSetsExt, Sequences

CONSTANT NONE      \* SQL NULL

Insert(d, table, row) ==
    [d EXCEPT ![table] = [id \in DOMAIN d[table] \cup {d.next} |-> IF id = d.next THEN row ELSE d[table][id]],
              !.next = d.next + 1]

Update(d, table, id, row(_)) ==
    IF id \in DOMAIN d[table] THEN [d EXCEPT ![table] = [d[table] EXCEPT ![id] = row(d[table][id])]] ELSE d

Select(d, table, where(_)) == {id \in DOMAIN d[table] : where(d[table][id])}

Delete(d, table, ids) == [d EXCEPT ![table] = [id \in DOMAIN d[table] \ ids |-> d[table][id]]]

----------------------------------------------------------------------------
(* Tenants and locations.                                                   *)

CreateTenant(d, user, store) == Insert(d, "tenants", [user |-> user, store |-> store, config |-> NONE])

CreateLocation(d, tenant) ==
    Insert(d, "locs", [tenant |-> tenant, details |-> NONE, addr |-> NONE, pos |-> NONE,
                       geo |-> NONE, map |-> NONE, radius |-> NONE])

GetTenantByID(d, t) == t \in DOMAIN d.tenants

GetTenantAuthByUsername(d, user) == Select(d, "tenants", LAMBDA r : r.user = user)

GetTenantByStoreID(d, store) == Select(d, "tenants", LAMBDA r : r.store = store)

SetTenantStoreID(d, t, store) == Update(d, "tenants", t, LAMBDA r : [r EXCEPT !.store = store])

SetTenantCredentials(d, t, user) == Update(d, "tenants", t, LAMBDA r : [r EXCEPT !.user = user])

UpdateTenantConfig(d, t, c) == Update(d, "tenants", t, LAMBDA r : [r EXCEPT !.config = c])

ListLocationsByTenant(d, t) == Select(d, "locs", LAMBDA r : r.tenant = t)

GetLocationByID(d, l) == l \in DOMAIN d.locs

UpdateLocationDetails(d, l, details, addr) ==
    Update(d, "locs", l, LAMBDA r : [r EXCEPT !.details = details, !.addr = addr])

SetLocationPin(d, l, pos) == Update(d, "locs", l, LAMBDA r : [r EXCEPT !.pos = pos, !.geo = "manual"])

(* WHERE geo_source <> 'manual': the row geocoding may move.                *)
GeocodedRow(d, l) == {k \in DOMAIN d.locs : k = l /\ d.locs[k].geo # "manual"}

SetLocationGeocoded(d, l, pos) == Update(d, "locs", l, LAMBDA r : [r EXCEPT !.pos = pos, !.geo = "geocoded"])

ListLocationsNeedingGeocode(d) ==
    Select(d, "locs", LAMBDA r : r.addr # NONE /\ r.pos = NONE /\ r.geo # "manual")

SetLocationMap(d, l, map) == Update(d, "locs", l, LAMBDA r : [r EXCEPT !.map = map])

SetLocationDeliveryRadius(d, l, radius) == Update(d, "locs", l, LAMBDA r : [r EXCEPT !.radius = radius])

----------------------------------------------------------------------------
(* Printers.  The unique indexes: one name, and one receipt printer, per    *)
(* location.                                                                *)

CreatePrinter(d, l, name, ip, mac) ==
    Insert(d, "printers", [loc |-> l, name |-> name, ip |-> ip, mac |-> mac, receipt |-> FALSE])

GetPrinterByID(d, p) == p \in DOMAIN d.printers

ListPrintersByLocation(d, l) == Select(d, "printers", LAMBDA r : r.loc = l)

UpdatePrinter(d, p, name, ip) ==
    Update(d, "printers", p, LAMBDA r : [r EXCEPT !.name = name, !.ip = ip])

ClearReceiptPrinter(d, l) ==
    [d EXCEPT !.printers = [p \in DOMAIN d.printers |->
        IF d.printers[p].loc = l THEN [d.printers[p] EXCEPT !.receipt = FALSE] ELSE d.printers[p]]]

SetPrinterReceipt(d, p) == Update(d, "printers", p, LAMBDA r : [r EXCEPT !.receipt = TRUE])

Flagged(d, l) == \E p \in ListPrintersByLocation(d, l) : d.printers[p].receipt

(* The printer still has the IP the agent saw: the row the UPDATE finds.    *)
MovePrinterIPRow(d, l, p, old) == {q \in ListPrintersByLocation(d, l) : q = p /\ d.printers[q].ip = old}

MovePrinterIP(d, p, new, mac) ==
    Update(d, "printers", p, LAMBDA r : [r EXCEPT !.ip = new, !.mac = IF mac = NONE THEN r.mac ELSE mac])

SetPrinterMAC(d, p, mac) == Update(d, "printers", p, LAMBDA r : [r EXCEPT !.mac = mac])

InsertPrinterIPChange(d, p, old, new, source) ==
    [d EXCEPT !.ipLog = Append(@, [printer |-> p, old |-> old, new |-> new, source |-> source])]

(* The printers' lines of the log go with them (ON DELETE CASCADE).         *)
DropPrinters(d, ps) ==
    [Delete(d, "printers", ps) EXCEPT !.ipLog = SelectSeq(@, LAMBDA e : e.printer \notin ps)]

DeletePrinter(d, p) == DropPrinters(d, {p})

----------------------------------------------------------------------------
(* Channels.                                                                *)

CreateChannel(d, l, kind, builtin) ==
    Insert(d, "channels", [loc |-> l, kind |-> kind, builtin |-> builtin, name |-> NONE, view |-> NONE,
                           key |-> IF builtin THEN NONE ELSE d.next, revoked |-> FALSE])

GetChannel(d, c) == c \in DOMAIN d.channels

BuiltinChannel(d, l, kind) == Select(d, "channels", LAMBDA r : r.builtin /\ r.loc = l /\ r.kind = kind)

UpdateChannel(d, c, name) == Update(d, "channels", c, LAMBDA r : [r EXCEPT !.name = name])

SetChannelView(d, c, view) == Update(d, "channels", c, LAMBDA r : [r EXCEPT !.view = view])

(* A new key: the old hash is overwritten and the revocation lifted.        *)
SetChannelKey(d, c) ==
    [Update(d, "channels", c, LAMBDA r : [r EXCEPT !.key = d.next, !.revoked = FALSE]) EXCEPT !.next = d.next + 1]

RevokeChannel(d, c) == Update(d, "channels", c, LAMBDA r : [r EXCEPT !.revoked = TRUE])

DeleteChannel(d, c) == Delete(d, "channels", {c})

AuthenticateChannel(d, key) == Select(d, "channels", LAMBDA r : r.key = key /\ ~r.revoked)

----------------------------------------------------------------------------
(* Operators, the stores they may work for, and their tokens.               *)

CreateOperator(d, user) == Insert(d, "ops", [user |-> user, shown |-> NONE])

GetOperatorByID(d, o) == o \in DOMAIN d.ops

GetOperatorAuthByUsername(d, user) == Select(d, "ops", LAMBDA r : r.user = user)

UpdateOperatorProfile(d, o, shown) == Update(d, "ops", o, LAMBDA r : [r EXCEPT !.shown = shown])

(* ON DELETE CASCADE takes the operator's stores and tokens along.          *)
DeleteOperator(d, o) ==
    [Delete(Delete(d, "ops", {o}), "tokens", Select(d, "tokens", LAMBDA r : r.op = o))
     EXCEPT !.opLocs = {x \in @ : x[1] # o}]

DeleteOperatorLocations(d, o) == [d EXCEPT !.opLocs = {x \in @ : x[1] # o}]

AddOperatorLocations(d, o, ls) == [d EXCEPT !.opLocs = @ \cup {<<o, l>> : l \in ls}]

ListOperatorLocations(d, o) == {x[2] : x \in {y \in d.opLocs : y[1] = o}}

CreateOperatorToken(d, o, session, expires) ==
    Insert(d, "tokens", [op |-> o, session |-> session, expires |-> expires, revoked |-> FALSE])

(* The token (its hash is its id) is neither revoked nor past its expiry.   *)
GetActiveOperatorTokenByHash(d, token, now) ==
    {k \in DOMAIN d.tokens : /\ k = token /\ ~d.tokens[k].revoked
                             /\ d.tokens[k].expires = NONE \/ d.tokens[k].expires > now}

RevokeOperatorToken(d, token) == Update(d, "tokens", token, LAMBDA r : [r EXCEPT !.revoked = TRUE])

RevokeAllOperatorTokens(d, o) ==
    [d EXCEPT !.tokens = [k \in DOMAIN d.tokens |->
        IF d.tokens[k].op = o THEN [d.tokens[k] EXCEPT !.revoked = TRUE] ELSE d.tokens[k]]]

----------------------------------------------------------------------------
(* The statements of DeleteTenantCascade.  A location's channels and its    *)
(* operators' permissions go with it (ON DELETE CASCADE).                   *)

DeleteTenantPrinters(d, t) ==
    DropPrinters(d, Select(d, "printers", LAMBDA r : d.locs[r.loc].tenant = t))

DeleteTenantLocations(d, t) ==
    [Delete(Delete(d, "channels", Select(d, "channels", LAMBDA r : d.locs[r.loc].tenant = t)),
            "locs", ListLocationsByTenant(d, t))
     EXCEPT !.opLocs = {x \in @ : d.locs[x[2]].tenant # t}]

DeleteTenant(d, t) == Delete(d, "tenants", {t})

============================================================================
