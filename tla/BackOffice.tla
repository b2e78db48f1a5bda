----------------------------- MODULE BackOffice -----------------------------
(* The back office as a whole: admins, managers, agents, operators and the   *)
(* vendor feed call it at once (StoreAdmin, ChannelAccess).                  *)
EXTENDS ChannelAccess

officeVars == <<storeVars, accessVars>>

-----------------------------------------------------------------------------
(* The tables as their columns and foreign keys have them.                   *)

Maybe(S) == S \cup {NONE}

TenantRow == [user : Maybe(Users), store : Maybe(StoreIds), config : Maybe(Values)]

LocRow == [tenant : Nat, details : Maybe(Values), addr : Maybe(Addresses), pos : Maybe(Spots),
           geo : {"manual", "geocoded", NONE}, map : Maybe(Values), radius : Maybe(Values)]

PrinterRow == [loc : Nat, name : Names, ip : IPs, mac : Maybe(Macs), receipt : BOOLEAN]

ChannelRow == [loc : Nat, kind : Kinds \cup {"operator", "vendor"}, builtin : BOOLEAN, name : Maybe(Values),
               view : Maybe(Values), key : Maybe(Nat), revoked : BOOLEAN]

TablesTypeOK(d) ==
    /\ d \in [tenants : {d.tenants}, locs : {d.locs}, printers : {d.printers}, channels : {d.channels},
              ops : {d.ops}, tokens : {d.tokens}, opLocs : {d.opLocs}, ipLog : {d.ipLog}, next : Nat]
    /\ d.tenants \in [DOMAIN d.tenants -> TenantRow] /\ DOMAIN d.tenants \subseteq 0..d.next - 1
    /\ d.locs \in [DOMAIN d.locs -> LocRow] /\ DOMAIN d.locs \subseteq 0..d.next - 1
    /\ d.printers \in [DOMAIN d.printers -> PrinterRow] /\ DOMAIN d.printers \subseteq 0..d.next - 1
    /\ d.channels \in [DOMAIN d.channels -> ChannelRow] /\ DOMAIN d.channels \subseteq 0..d.next - 1

(* Every tenant has one location, made with it: no call makes another.       *)
RefsOK(d) ==
    /\ \A l \in DOMAIN d.locs : d.locs[l].tenant \in DOMAIN d.tenants
    /\ \A l, k \in DOMAIN d.locs : d.locs[l].tenant = d.locs[k].tenant => l = k
    /\ \A p \in DOMAIN d.printers : d.printers[p].loc \in DOMAIN d.locs

(* Built-in channels have no key, and a location has one of a kind.          *)
ChannelsOK(d) ==
    /\ \A c \in DOMAIN d.channels : d.channels[c].builtin => d.channels[c].key = NONE
    /\ \A b, c \in DOMAIN d.channels :
         LET x == d.channels[b]  y == d.channels[c]
         IN  x.builtin /\ y.builtin /\ x.loc = y.loc /\ x.kind = y.kind => b = c

ASSUME OfficeAssumption ==
    /\ NONE \notin Nat \cup Callers \cup Jobs
    /\ Names \subseteq Nat
    /\ {LoginFailMax, LoginGlobalMax} \subseteq Nat \ {0}

(* What main starts from is what it may have written.                        *)
ASSUME OpeningAssumption ==
    /\ TablesTypeOK(Opening) /\ RefsOK(Opening) /\ ChannelsOK(Opening)
    /\ \A l \in DOMAIN Opening.locs : ListPrintersByLocation(Opening, l) = {} \/ Flagged(Opening, l)
-----------------------------------------------------------------------------

Init == StoreInit /\ AccessInit

Next ==
    \/ \E c \in Callers :
         \/ (PrinterCall(c) \/ StoreRequest(c) \/ TenantRequest(c)) /\ UNCHANGED accessVars
         \/ ChannelAdmin(c) \/ ChannelRequest(c) \/ LoginRequest(c)
         \/ RequestFails(c)
    \/ \E j \in Jobs :
         \/ (Geocode(j) \/ LoadConfig(j) \/ LoadPrinters(j) \/ PushConfig(j)) /\ UNCHANGED accessVars
         \/ RequestFails(j)
    \/ Browse /\ UNCHANGED accessVars
    \/ Tick
    \/ MainRestarts

Spec == Init /\ [][Next]_officeVars

-----------------------------------------------------------------------------
(* Properties.                                                               *)

AtRest == \A c \in DOMAIN call : call[c] = Idle

HandedOn(l) ==
    \/ ListPrintersByLocation(db, l) = {} \/ Flagged(db, l)
    \/ \E c \in Callers : call[c].at \in ReceiptStages /\ call[c].loc = l

(* A location with printers has a receipt printer, or a call that is about   *)
(* to flag one (ensureReceiptPrinter, tenancy/service.go), whatever adds,    *)
(* edits and deletes cross or fail.  Excepted is a location a call left      *)
(* bare, until the next ensureReceiptPrinter there: the call failed or main  *)
(* stopped before the flag was set, the printer to flag was deleted between  *)
(* the list and the update, or a printer was flagged between the read and    *)
(* the delete of its row (bare).  A failure anywhere else, or at another     *)
(* location, is no excuse.                                                   *)
ReceiptHandedOn == \A l \in DOMAIN db.locs : HandedOn(l) \/ l \in bare

(* When nothing is going on, the present config of every location has been   *)
(* sent since it was written, whichever edits crossed (StoreConfigPublisher, *)
(* handler/sse.go).  Excepted is a location a call left unsent, until the    *)
(* next push of its config: the call failed or main stopped after its write  *)
(* and before its push, an add did not find its own printer again, or the    *)
(* agent reported nothing but a MAC (unsent).  Sent is not sent last: a push *)
(* that read before an edit may publish after the edit's own.                *)
EveryEditIsPushed == AtRest => untold \subseteq unsent

(* A location has at most one built-in channel of a kind, though no index    *)
(* says so, also when an operator and the vendor feed first use it at once   *)
(* (builtin, channel/service.go).                                            *)
OneBuiltin ==
    \A l \in DOMAIN db.locs, kind \in {"operator", "vendor"} : Cardinality(BuiltinChannel(db, l, kind)) <= 1

(* A request gets a channel of the location it asked for and of its kind,    *)
(* built-in or keyed as it came, whatever the cache of built-in channels     *)
(* went through.                                                             *)
RightDoor ==
    admitted # NONE =>
        /\ admitted.ch.loc = admitted.loc /\ admitted.ch.kind = admitted.kind
        /\ admitted.ch.builtin = admitted.builtin

Limits == {<<key, IF key[2] = "*" THEN LoginGlobalMax ELSE LoginFailMax>> : key \in DOMAIN hits}

(* Retry-After tells the truth: after that long there is room and one tick   *)
(* before there is none, also in a window that concurrent failures filled    *)
(* past its limit (RetryAfterN, ratelimit.go).                               *)
RetryAfterIsExact ==
    \A x \in Limits :
        LET wait == RetryAfterN(hits, x[1], x[2], now)
        IN  /\ AllowN(hits, x[1], x[2], now + wait)
            /\ wait > 0 => ~AllowN(hits, x[1], x[2], now + wait - 1)

=============================================================================
