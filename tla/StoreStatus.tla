---------------------------- MODULE StoreStatus -----------------------------
(* A location's ordering status: the manager's ordering settings, pause and  *)
(* dated exceptions (app/storestatus/service.go and its handlers and         *)
(* repository), its 86'd items and options, and the loop that brings them    *)
(* back.  One location, whose weekly hours and menu the tenancy and menu     *)
(* services write.                                                           *)
EXTENDS StoreHours, Faults

CONSTANTS
    Items,      \* menu items that can be 86'd
    Options,    \* modifier options that can be 86'd
    MaxEta,     \* the largest estimate (240 minutes)
    MaxDays,    \* the largest scheduling window (30 days)
    ResetHour,  \* the location's daily_reset_hour, in ticks
    Start,      \* bound: the first instant ...
    Horizon,    \* bound: ... and the last
    Hours,      \* bound: weekly hours a manager may set
    Exceptions, \* bound: exceptions he may set, and on which days
    ExcDays,
    Orderings,  \* bound: ordering settings he may save
    Untils,     \* bound: times an item may be 86'd until
    MaxEdits    \* bound: the manager's edits

(* Settings, and the store_ordering row.                                     *)
OrderTypes == [pickup : BOOLEAN, delivery : BOOLEAN, eta : [Kinds -> Int], days : Int]
OrderingRow ==
    [pickup : BOOLEAN, delivery : BOOLEAN, eta : [Kinds -> Nat], days : Nat,
     pausedAt : Nat \cup {NONE}, pausedUntil : Int \cup {NONE}, restockedAt : Nat]

ASSUME StatusAssumption ==
    /\ NONE \notin Int \cup OrderingRow
    /\ Start \in Nat
    /\ ResetHour \in 0..DayLen - 1
    /\ PresetLen \in [DOMAIN PresetLen -> Nat]
    /\ Hours \subseteq OpeningHours /\ Exceptions \subseteq Exception /\ ExcDays \subseteq Int
    /\ Orderings \subseteq OrderTypes
    /\ Untils \subseteq Int \cup {NONE}

VARIABLES
    clock,      \* the store's time
    weekly,     \* locations.config opening_hours
    exc,        \* store_hours_exceptions, by day
    ordering,   \* the store_ordering row, NONE before it is made
    stock,      \* menu_items: in_stock and out_until
    optionsOut, \* modifier_options with in_stock = false
    restock,    \* RunRestock: where the pass is, and the row and time it read
    edits       \* ghost: the manager's edits so far

scheduleVars == <<weekly, exc>>
stockVars == <<stock, optionsOut>>
statusVars == <<clock, scheduleVars, ordering, stockVars, restock, edits, faults>>

(* schedule: the weekly hours and the exceptions from yesterday on.          *)
ListStoreHoursExceptions(from) == {x \in DOMAIN exc : x >= from}

sch == [weekly |-> weekly, exc |-> [x \in ListStoreHoursExceptions(Date(clock) - 1) |-> exc[x]]]

Idle == [at |-> "idle"]
In == [out |-> FALSE, until |-> NONE]

-----------------------------------------------------------------------------
(* The statements.                                                           *)

(* EnsureStoreOrdering: made with the defaults, restocked now, so that       *)
(* nothing comes back before the next reset.  The defaults are scaled down.  *)
NewOrdering == [pickup |-> TRUE, delivery |-> TRUE, eta |-> [k \in Kinds |-> SlotLen], days |-> 1,
                pausedAt |-> NONE, pausedUntil |-> NONE, restockedAt |-> clock]

EnsureStoreOrdering == IF ordering = NONE THEN NewOrdering ELSE ordering

UpdateStoreOrdering(in) ==
    [EnsureStoreOrdering EXCEPT !.pickup = in.pickup, !.delivery = in.delivery, !.eta = in.eta, !.days = in.days]

SetStorePause(at, until) == [EnsureStoreOrdering EXCEPT !.pausedAt = at, !.pausedUntil = until]
ClearStorePause == [EnsureStoreOrdering EXCEPT !.pausedAt = NONE, !.pausedUntil = NONE]
SetStoreRestocked(at) == [ordering EXCEPT !.restockedAt = at]

UpsertStoreHoursException(day, e) == [x \in DOMAIN exc \cup {day} |-> IF x = day THEN e ELSE exc[x]]
DeleteStoreHoursException(day) == [x \in DOMAIN exc \ {day} |-> exc[x]]

ListSoldOutItems == {i \in Items : stock[i].out}

ExpireOutUntil ==
    [i \in Items |-> IF stock[i].out /\ stock[i].until # NONE /\ stock[i].until <= clock THEN In ELSE stock[i]]

RestockItems_All == [i \in Items |-> In]

RestockItems ==
    [i \in Items |-> IF stock[i].out /\ (stock[i].until = NONE \/ stock[i].until <= clock) THEN In ELSE stock[i]]

RestockOptions == {}

ListStoreOrderingForRestock == ordering

-----------------------------------------------------------------------------
StatusTypeOK ==
    /\ clock \in Nat
    /\ weekly \in OpeningHours
    /\ exc \in [DOMAIN exc -> Exception]
    /\ ordering \in OrderingRow \cup {NONE}
    /\ stock \in [Items -> [out : BOOLEAN, until : Int \cup {NONE}]]
    /\ optionsOut \subseteq Options
    /\ restock \in {Idle} \cup [at : {"rows"}] \cup [at : {"restock"}, now : Nat, restockedAt : Nat]
    /\ edits \in Nat

StatusInit ==
    /\ clock = Start
    /\ weekly \in Hours
    /\ exc = [x \in {} |-> NONE]
    /\ ordering = NONE
    /\ stock = [i \in Items |-> In]
    /\ optionsOut = {}
    /\ restock = Idle
    /\ edits = 0
    /\ faults = 0

Tick ==
    /\ clock < Horizon
    /\ clock' = clock + 1
    /\ UNCHANGED <<scheduleVars, ordering, stockVars, restock, edits>>
    /\ NoFault

Edit == edits < MaxEdits /\ edits' = edits + 1 /\ UNCHANGED <<clock, restock>> /\ NoFault

(* Settings.Validate and UpdateSettings: the pause is not its business.      *)
ValidSettings(in) == (\A k \in Kinds : in.eta[k] \in 0..MaxEta) /\ in.days \in 0..MaxDays

UpdateSettings(in) ==
    /\ ValidSettings(in)
    /\ ordering' = UpdateStoreOrdering(in)
    /\ Edit
    /\ UNCHANGED <<scheduleVars, stockVars>>

Pause(preset) ==
    /\ ordering' = SetStorePause(clock, PauseUntil(sch, clock, preset))
    /\ Edit
    /\ UNCHANGED <<scheduleVars, stockVars>>

Resume ==
    /\ ordering' = ClearStorePause
    /\ Edit
    /\ UNCHANGED <<scheduleVars, stockVars>>

SetException(day, e) ==
    /\ ValidException(e)
    /\ exc' = UpsertStoreHoursException(day, e)
    /\ Edit
    /\ UNCHANGED <<weekly, ordering, stockVars>>

DeleteException(day) ==
    /\ day \in DOMAIN exc
    /\ exc' = DeleteStoreHoursException(day)
    /\ Edit
    /\ UNCHANGED <<weekly, ordering, stockVars>>

(* The tenancy service saves other opening hours.                            *)
SetHours(h) ==
    /\ \A d \in DOMAIN h : ValidHours(h[d])
    /\ weekly' = h
    /\ Edit
    /\ UNCHANGED <<exc, ordering, stockVars>>

(* The menu service 86's an item, until a time or the next reset, or brings  *)
(* it back; an option has no time.                                           *)
SetStock(i, row) ==
    /\ stock' = [stock EXCEPT ![i] = IF row.out THEN row ELSE In]
    /\ Edit
    /\ UNCHANGED <<scheduleVars, ordering, optionsOut>>

SetOptionStock(o) ==
    /\ optionsOut' \in {optionsOut \cup {o}, optionsOut \ {o}}
    /\ Edit
    /\ UNCHANGED <<scheduleVars, ordering, stock>>

(* Status, Times, DeliveryCheck and Settings make the row when they first    *)
(* read it.                                                                  *)
ReadSettings ==
    /\ ordering = NONE
    /\ ordering' = EnsureStoreOrdering
    /\ UNCHANGED <<clock, scheduleVars, stockVars, restock, edits>> /\ NoFault

-----------------------------------------------------------------------------
(* RunRestock: one pass a minute.  A failed expiry is only logged.           *)
RestockExpire ==
    /\ restock = Idle
    /\ \/ stock' = ExpireOutUntil /\ NoFault
       \/ stock' = stock /\ Fault
    /\ restock' = [at |-> "rows"]
    /\ UNCHANGED <<clock, scheduleVars, ordering, optionsOut, edits>>

(* EnsureAll, RestockRows and the time of the pass.                          *)
RestockRows ==
    /\ restock.at = "rows"
    /\ ordering' = EnsureStoreOrdering
    /\ restock' = [at |-> "restock", now |-> clock, restockedAt |-> ordering'.restockedAt]
    /\ UNCHANGED <<clock, scheduleVars, stockVars, edits>> /\ NoFault

Due(r) == r.restockedAt < LastReset(r.now, ResetHour)

(* Restock: items, options and the stamp in one transaction.                 *)
Restock ==
    /\ restock.at = "restock"
    /\ IF Due(restock)
       THEN /\ stock' = RestockItems
            /\ optionsOut' = RestockOptions
            /\ ordering' = SetStoreRestocked(restock.now)
       ELSE UNCHANGED <<stock, optionsOut, ordering>>
    /\ restock' = Idle
    /\ UNCHANGED <<clock, scheduleVars, edits>> /\ NoFault

(* A call fails: the pass ends, the next one starts over.                    *)
RestockFails ==
    /\ restock # Idle
    /\ Fault
    /\ restock' = Idle
    /\ UNCHANGED <<clock, scheduleVars, ordering, stockVars, edits>>

Manage ==
    \/ \E in \in Orderings : UpdateSettings(in)
    \/ \E p \in Presets : Pause(p)
    \/ Resume
    \/ \E d \in ExcDays : (\E e \in Exceptions : SetException(d, e)) \/ DeleteException(d)
    \/ \E h \in Hours : SetHours(h)
    \/ \E i \in Items : \E row \in {In} \cup [out : {TRUE}, until : Untils] : SetStock(i, row)
    \/ \E o \in Options : SetOptionStock(o)

StatusNext == Tick \/ Manage \/ ReadSettings \/ RestockExpire \/ RestockRows \/ Restock \/ RestockFails

=============================================================================
