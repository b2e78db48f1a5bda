----------------------------- MODULE StoreAdmin -----------------------------
(* Tenants, locations and printers as admins, managers and agents edit them  *)
(* (app/tenancy, handler/admin.go, handler/store.go, handler/geo.go,         *)
(* app/agentsync/printers.go), and the store_config push that follows an     *)
(* edit.  A handler is a call that goes from one statement to the next, so   *)
(* calls interleave between any two of them; geocoding a saved address is a  *)
(* call of its own, started when the save is done.                           *)
(*                                                                           *)
(* Inputs the handlers refuse before the first statement (an empty name, an  *)
(* unknown timezone, a radius out of range) change nothing and are left out. *)
(* Names stand for names that differ in more than case.  Devices are in      *)
(* AgentLink, orders in OrderPlacement.                                      *)
EXTENDS StoreTables

CONSTANTS
    Callers,          \* requests served at a time
    Jobs,             \* bound: background geocodes at a time
    Names,            \* bound: printer names, in their order
    IPs,              \* bound: addresses of printers
    Macs,             \* bound: hardware addresses, NONE for unknown
    Values,           \* bound: details, configs, maps and radii
    Addresses,        \* bound: street addresses of stores
    Spots,            \* bound: positions, of pins and of geocoded addresses
    Users,            \* bound: usernames, "admin" too
    StoreIds,         \* bound: vendor store ids, bad ones too
    SessionTTL,       \* life of a sign-in (12 h) and
    ImpersonateTTL,   \* of an admin's open-as-store session (2 h), in ticks
    Opening,          \* the tables at the start
    Budgets,          \* bound: how many calls of each class are made
    MaxFaults         \* bound: statements that fail

VARIABLES
    db,         \* the tables
    call,       \* what each caller and each job is doing
    cookies,    \* session cookies held by browsers
    now,        \* the clock
    untold,     \* ghost: locations whose config was written since it was last sent
    unsent,     \* ghost: locations a call left before its push, until the next one
    bare,       \* ghost: locations a call left without a receipt printer, until
                \* the next ensureReceiptPrinter
    left,       \* calls still to be made
    faults      \* failures still to come

storeVars == <<db, call, cookies, now, untold, unsent, bare, left, faults>>

Idle == [at |-> "idle"]

(* What store_config carries, the printers apart (buildStoreContext).        *)
HeadOf(d, l) ==
    LET r == d.locs[l]
    IN  <<d.tenants[r.tenant].config, r.details, r.addr, r.pos, r.map, r.radius>>

RosterOf(d, l) ==
    LET row(p) == d.printers[p]
    IN  {<<p, row(p).name, row(p).ip, row(p).receipt, row(p).mac>> : p \in ListPrintersByLocation(d, l)}

Config(d, l) == <<HeadOf(d, l), RosterOf(d, l)>>

Write(d) ==
    /\ db' = d
    /\ untold' = {l \in DOMAIN d.locs : l \in untold \/ (l \in DOMAIN db.locs /\ Config(d, l) # Config(db, l))}

Go(c, s) == call' = [call EXCEPT ![c] = s]

(* A new call: at most one at a time from a caller.                          *)
Begin(c, class, s) ==
    /\ call[c] = Idle
    /\ left[class] > 0
    /\ left' = [left EXCEPT ![class] = @ - 1]
    /\ Go(c, s)

Step(c, s) == Go(c, s) /\ UNCHANGED left

Quiet == UNCHANGED <<cookies, now, faults>>

(* A verified cookie of the location (StoreSessionAuth).                     *)
Verify(l) == \E k \in cookies : k.loc = l /\ now <= k.exp

-----------------------------------------------------------------------------
(* The push: loadStoreConfig reads tenant and location, then the printers,   *)
(* and what it read is published.  AddPrinter reads its own printer back     *)
(* first: one deleted meanwhile fails the call, and whatever it changed is   *)
(* not pushed.                                                               *)

LoadFor(l) == [at |-> "load", loc |-> l, own |-> NONE, geocode |-> FALSE]

LoadConfig(c) ==
    /\ call[c].at = "load"
    /\ LET s == call[c]
           readBack == s.own # NONE => GetPrinterByID(db, s.own)
       IN  /\ Step(c, IF readBack /\ GetLocationByID(db, s.loc)
                      THEN [at |-> "roster", loc |-> s.loc, geocode |-> s.geocode, head |-> HeadOf(db, s.loc)] ELSE Idle)
           /\ unsent' = IF readBack THEN unsent ELSE unsent \cup {s.loc}
    /\ UNCHANGED <<db, untold, bare>> /\ Quiet

LoadPrinters(c) ==
    /\ call[c].at = "roster"
    /\ LET s == call[c]
       IN  Step(c, [at |-> "push", loc |-> s.loc, geocode |-> s.geocode, body |-> <<s.head, RosterOf(db, s.loc)>>])
    /\ UNCHANGED <<db, untold, unsent, bare>> /\ Quiet

(* The frame tells the location's present config.                            *)
IsCurrent(s) == GetLocationByID(db, s.loc) /\ s.body = Config(db, s.loc)

(* Publish, and after a location save the geocode in the background.         *)
PushConfig(c) ==
    /\ call[c].at = "push"
    /\ LET s == call[c]
           told == IF IsCurrent(s) THEN {s.loc} ELSE {}
       IN  /\ untold' = untold \ told
           /\ unsent' = unsent \ told
           /\ IF s.geocode
              THEN \E j \in Jobs :
                     /\ call[j] = Idle
                     /\ call' = [call EXCEPT ![c] = Idle, ![j] = [at |-> "geocode", loc |-> s.loc]]
              ELSE Go(c, Idle)
    /\ UNCHANGED <<db, bare, left>> /\ Quiet

-----------------------------------------------------------------------------
(* Printers.                                                                 *)

NameFree(l, name, but) == \A p \in ListPrintersByLocation(db, l) \ but : db.printers[p].name # name

(* AddPrinter, for a manager (MeCreatePrinter) or the agent                  *)
(* (HandlePrinterAdd).                                                       *)
AddPrinter(c, l, name, ip, mac) ==
    /\ GetLocationByID(db, l) /\ NameFree(l, name, {})
    /\ Begin(c, "printer", [at |-> "ensure", loc |-> l, own |-> db.next])
    /\ Write(CreatePrinter(db, l, name, ip, mac))
    /\ UNCHANGED <<unsent, bare>> /\ Quiet

(* ensureReceiptPrinter: the list first, then the flag for the first by name *)
(* when none has it.                                                         *)
FirstByName(ps) == CHOOSE p \in ps : \A q \in ps : db.printers[p].name <= db.printers[q].name

EnsureReceiptPrinter(c) ==
    /\ call[c].at = "ensure"
    /\ LET s == call[c]
           ps == ListPrintersByLocation(db, s.loc)
       IN  Step(c, IF ps = {} \/ \E p \in ps : db.printers[p].receipt THEN [LoadFor(s.loc) EXCEPT !.own = s.own]
                   ELSE [at |-> "flag", loc |-> s.loc, printer |-> FirstByName(ps), own |-> s.own])
    /\ bare' = bare \ {call[c].loc}
    /\ UNCHANGED <<db, untold, unsent>> /\ Quiet

(* Nobody is about to flag a printer of these locations any more.            *)
LeftBare(ls) == bare' = bare \cup {l \in ls : ~Flagged(db, l)}

(* SetReceiptPrinter clears and sets in one transaction; a printer that is   *)
(* gone by now rolls it back and the call fails: nobody is flagged.          *)
FlagReceipt(c) ==
    /\ call[c].at = "flag"
    /\ LET s == call[c]
       IN  IF GetPrinterByID(db, s.printer)
           THEN /\ Write(SetPrinterReceipt(ClearReceiptPrinter(db, s.loc), s.printer))
                /\ Step(c, [LoadFor(s.loc) EXCEPT !.own = s.own])
                /\ bare' = bare \ {s.loc}
           ELSE Step(c, Idle) /\ LeftBare({s.loc}) /\ UNCHANGED <<db, untold>>
    /\ UNCHANGED unsent /\ Quiet

(* The manager's edit reads the printer, updates it, logs a changed IP and   *)
(* moves the receipt flag here when asked to.                                *)
MeUpdatePrinter(c, l, p, name, ip, receipt) ==
    /\ Verify(l)
    /\ p \in ListPrintersByLocation(db, l)
    /\ Begin(c, "printer", [at |-> "update", loc |-> l, printer |-> p, name |-> name, ip |-> ip,
                            receipt |-> receipt, before |-> db.printers[p].ip])
    /\ UNCHANGED <<db, untold, unsent, bare>> /\ Quiet

AfterUpdate(s) ==
    IF s.receipt THEN [at |-> "flag", loc |-> s.loc, printer |-> s.printer, own |-> NONE] ELSE LoadFor(s.loc)

UpdateRow(c) ==
    /\ call[c].at = "update"
    /\ LET s == call[c]
       IN  IF GetPrinterByID(db, s.printer) /\ NameFree(s.loc, s.name, {s.printer})
           THEN /\ Write(UpdatePrinter(db, s.printer, s.name, s.ip))
                /\ Step(c, IF s.before # s.ip THEN [s EXCEPT !.at = "log"] ELSE AfterUpdate(s))
           ELSE Step(c, Idle) /\ UNCHANGED <<db, untold>>
    /\ UNCHANGED <<unsent, bare>> /\ Quiet

(* A history line that cannot be written is only missed.                     *)
LogChange(c) ==
    /\ call[c].at = "log"
    /\ LET s == call[c]
       IN  /\ IF GetPrinterByID(db, s.printer)
              THEN Write(InsertPrinterIPChange(db, s.printer, s.before, s.ip, "manager"))
              ELSE UNCHANGED <<db, untold>>
           /\ Step(c, AfterUpdate(s))
    /\ UNCHANGED <<unsent, bare>> /\ Quiet

MeDeletePrinter(c, l, p) ==
    /\ Verify(l)
    /\ p \in ListPrintersByLocation(db, l)
    /\ Begin(c, "printer", [at |-> "delete", loc |-> l, printer |-> p, was |-> db.printers[p].receipt])
    /\ UNCHANGED <<db, untold, unsent, bare>> /\ Quiet

(* The flag is handed on if the printer had it when it was read: one flagged *)
(* since takes the flag along.                                               *)
AfterDelete_Silent(s) == IF s.was THEN [at |-> "ensure", loc |-> s.loc, own |-> NONE] ELSE Idle

AfterDelete_KeepsFlag(s) == LoadFor(s.loc)

AfterDelete(s) == IF s.was THEN [at |-> "ensure", loc |-> s.loc, own |-> NONE] ELSE LoadFor(s.loc)

DeleteRow(c) ==
    /\ call[c].at = "delete"
    /\ LET s == call[c]
       IN  /\ Write(DeletePrinter(db, s.printer))
           /\ Step(c, AfterDelete(s))
           /\ bare' = IF GetPrinterByID(db, s.printer) /\ db.printers[s.printer].receipt /\ ~s.was
                      THEN bare \cup {s.loc} ELSE bare
    /\ UNCHANGED unsent /\ Quiet

(* printer.moved: the Pi found a printer at another address.  MovePrinter    *)
(* reads the row; a printer already there only takes the MAC, which is not   *)
(* pushed, and one no longer at the old address is stale.                    *)
HandlePrinterMoved(c, l, p, old, new, mac) ==
    /\ p \in ListPrintersByLocation(db, l)
    /\ LET r == db.printers[p]
       IN  \/ /\ r.ip = new /\ mac \notin {NONE, r.mac}
              /\ Begin(c, "printer", Idle)
              /\ Write(SetPrinterMAC(db, p, mac))
              /\ unsent' = unsent \cup {l}
           \/ /\ r.ip # new /\ r.ip = old
              /\ Begin(c, "printer", [at |-> "move", loc |-> l, printer |-> p, old |-> old, new |-> new, mac |-> mac])
              /\ UNCHANGED <<db, untold, unsent>>
    /\ UNCHANGED bare /\ Quiet

(* The move and its history line in one transaction, only if the printer     *)
(* still has the old address.                                                *)
MovePrinter(c) ==
    /\ call[c].at = "move"
    /\ LET s == call[c]
       IN  IF MovePrinterIPRow(db, s.loc, s.printer, s.old) # {}
           THEN /\ Write(InsertPrinterIPChange(MovePrinterIP(db, s.printer, s.new, s.mac), s.printer, s.old, s.new, "agent"))
                /\ Step(c, LoadFor(s.loc))
           ELSE Step(c, Idle) /\ UNCHANGED <<db, untold>>
    /\ UNCHANGED <<unsent, bare>> /\ Quiet

-----------------------------------------------------------------------------
(* The location's other edits: one statement, then the push.                 *)

Edit(c, l, d) ==
    /\ GetLocationByID(db, l)
    /\ Begin(c, "location", LoadFor(l))
    /\ Write(d)
    /\ UNCHANGED <<unsent, bare>> /\ Quiet

(* Admin or manager; the address is geocoded after the push.                 *)
UpdateLocation(c, l, details, addr) ==
    /\ GetLocationByID(db, l)
    /\ Begin(c, "location", [LoadFor(l) EXCEPT !.geocode = TRUE])
    /\ Write(UpdateLocationDetails(db, l, details, addr))
    /\ UNCHANGED <<unsent, bare>> /\ Quiet

SetPin(c, l, pos) == Edit(c, l, SetLocationPin(db, l, pos))

AdminSetMap(c, l, map) == Edit(c, l, SetLocationMap(db, l, map))

HandleRadius(c, l, radius) == Edit(c, l, SetLocationDeliveryRadius(db, l, radius))

(* The tenant's config reaches the agent of its first location.              *)
PrimaryLocation(d, t) == IF ListLocationsByTenant(d, t) = {} THEN NONE ELSE Min(ListLocationsByTenant(d, t))

SetTenantConfig(c, t, config) ==
    /\ GetTenantByID(db, t)
    /\ PrimaryLocation(db, t) # NONE
    /\ Edit(c, PrimaryLocation(db, t), UpdateTenantConfig(db, t, config))

-----------------------------------------------------------------------------
(* GeocodeStore: a job reads the location, asks the geocoder and stores what *)
(* it answers.                                                               *)

GeocodeStore(j) ==
    /\ call[j].at = "geocode"
    /\ LET l == call[j].loc
       IN  Step(j, IF GetLocationByID(db, l) /\ db.locs[l].geo # "manual" /\ db.locs[l].addr # NONE
                   THEN [at |-> "asked", loc |-> l, pos |-> db.locs[l].pos] ELSE Idle)
    /\ UNCHANGED <<db, untold, unsent, bare>> /\ Quiet

(* The answer; none found, or the position it had, changes nothing.          *)
GeocodeAnswer(j, pos) ==
    /\ call[j].at = "asked"
    /\ LET s == call[j]
       IN  IF pos \notin {NONE, s.pos} /\ GeocodedRow(db, s.loc) # {}
           THEN Write(SetLocationGeocoded(db, s.loc, pos)) /\ Step(j, LoadFor(s.loc))
           ELSE Step(j, Idle) /\ UNCHANGED <<db, untold>>
    /\ UNCHANGED <<unsent, bare>> /\ Quiet

(* At startup, for every store with an address and no position.              *)
BackfillStores(j) ==
    /\ \E l \in ListLocationsNeedingGeocode(db) : Begin(j, "backfill", [at |-> "geocode", loc |-> l])
    /\ UNCHANGED <<db, untold, unsent, bare>> /\ Quiet

-----------------------------------------------------------------------------
(* Tenants: each edit one transaction.                                       *)

ValidUsername(user) == user # "admin"

ValidStoreID(store) == store # NONE => store > 0

UserFree(user, but) == user = NONE \/ GetTenantAuthByUsername(db, user) \subseteq but

StoreFree(store, but) == store = NONE \/ GetTenantByStoreID(db, store) \subseteq but

AdminEdit(c, d) == Begin(c, "tenant", Idle) /\ Write(d) /\ UNCHANGED <<unsent, bare>> /\ Quiet

AdminCreateTenant(c, user, store) ==
    /\ ValidUsername(user) /\ ValidStoreID(store) /\ UserFree(user, {}) /\ StoreFree(store, {})
    /\ AdminEdit(c, CreateLocation(CreateTenant(db, user, store), db.next))

AdminSetStoreID(c, t, store) ==
    /\ ValidStoreID(store) /\ StoreFree(store, {t})
    /\ AdminEdit(c, SetTenantStoreID(db, t, store))

AdminSetCredentials(c, t, user) ==
    /\ ValidUsername(user) /\ UserFree(user, {t})
    /\ AdminEdit(c, SetTenantCredentials(db, t, user))

DeleteTenantCascade(c, t) == AdminEdit(c, DeleteTenant(DeleteTenantLocations(DeleteTenantPrinters(db, t), t), t))

-----------------------------------------------------------------------------
(* Sessions: a signed cookie names tenant, location and expiry; nothing is   *)
(* kept on the server.                                                       *)

Claims(t, l, life, by) == [tenant |-> t, loc |-> l, exp |-> now + life, by |-> by]

OpenStoreSession(c, t) ==
    /\ PrimaryLocation(db, t) # NONE
    /\ Begin(c, "tenant", Idle)
    /\ cookies' = cookies \cup {Claims(t, PrimaryLocation(db, t), ImpersonateTTL, "admin")}
    /\ UNCHANGED <<db, untold, unsent, bare, now, faults>>

SessionLogout(k) ==
    /\ left.session > 0
    /\ left' = [left EXCEPT !.session = @ - 1]
    /\ cookies' = cookies \ {k}
    /\ UNCHANGED <<db, call, untold, unsent, bare, now, faults>>

(* Whoami clears the cookie of a store that is gone.                         *)
SessionWhoami(k) ==
    /\ now <= k.exp
    /\ ~GetTenantByID(db, k.tenant) \/ ~GetLocationByID(db, k.loc)
    /\ SessionLogout(k)

-----------------------------------------------------------------------------
(* Calls that end early: a push they owed is not sent, a flag they were to   *)
(* hand on stays where it was.                                               *)
PushStages == {"ensure", "flag", "log", "load", "roster", "push"}

ReceiptStages == {"ensure", "flag"}

EndEarly(cs) ==
    LET of(stages) == {call[c].loc : c \in {x \in cs : call[x].at \in stages}}
    IN  unsent' = unsent \cup of(PushStages) /\ LeftBare(of(ReceiptStages))

(* A statement fails: the call answers an error and does nothing more.       *)
CallFails(c) ==
    /\ call[c] # Idle
    /\ faults > 0
    /\ faults' = faults - 1
    /\ EndEarly({c})
    /\ Step(c, Idle)
    /\ UNCHANGED <<db, cookies, now, untold>>

PrinterCall(c) ==
    \/ LoadConfig(c) \/ LoadPrinters(c) \/ PushConfig(c) \/ EnsureReceiptPrinter(c) \/ FlagReceipt(c)
    \/ UpdateRow(c) \/ LogChange(c) \/ DeleteRow(c) \/ MovePrinter(c)

StoreRequest(c) ==
    \/ \E l \in DOMAIN db.locs, name \in Names, ip \in IPs, mac \in Macs : AddPrinter(c, l, name, ip, mac)
    \/ \E p \in DOMAIN db.printers :
         LET l == db.printers[p].loc
         IN  \/ \E name \in Names, ip \in IPs, receipt \in BOOLEAN : MeUpdatePrinter(c, l, p, name, ip, receipt)
             \/ MeDeletePrinter(c, l, p)
             \/ \E old, new \in IPs, mac \in Macs : HandlePrinterMoved(c, l, p, old, new, mac)
    \/ \E l \in DOMAIN db.locs :
         \/ \E v \in Values, a \in Addresses : UpdateLocation(c, l, v, a)
         \/ \E pos \in Spots : SetPin(c, l, pos)
         \/ \E v \in Values \cup {NONE} : AdminSetMap(c, l, v)
         \/ \E v \in Values : HandleRadius(c, l, v)

TenantRequest(c) ==
    \/ \E user \in Users \cup {NONE}, store \in StoreIds \cup {NONE} : AdminCreateTenant(c, user, store)
    \/ \E t \in DOMAIN db.tenants :
         \/ \E store \in StoreIds \cup {NONE} : AdminSetStoreID(c, t, store)
         \/ \E user \in Users : AdminSetCredentials(c, t, user)
         \/ \E v \in Values : SetTenantConfig(c, t, v)
         \/ DeleteTenantCascade(c, t)
         \/ OpenStoreSession(c, t)

Geocode(j) == GeocodeStore(j) \/ BackfillStores(j) \/ \E pos \in Spots \cup {NONE} : GeocodeAnswer(j, pos)

Browse == \E k \in cookies : SessionLogout(k) \/ SessionWhoami(k)

StoreInit ==
    /\ db = Opening
    /\ call = [c \in Callers \cup Jobs |-> Idle]
    /\ cookies = {[tenant |-> db.locs[l].tenant, loc |-> l, exp |-> SessionTTL, by |-> NONE] : l \in DOMAIN db.locs}
    /\ now = 0
    /\ untold = {} /\ unsent = {} /\ bare = {}
    /\ left \in Budgets
    /\ faults = MaxFaults

=============================================================================
