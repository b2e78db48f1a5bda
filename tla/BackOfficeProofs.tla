-------------------------- MODULE BackOfficeProofs --------------------------
(***************************************************************************)
(* What the back office guarantees for every number of callers, jobs,      *)
(* tenants, printers and channels, and every mix of calls: the receipt     *)
(* printer is handed on, every edit is pushed, a location has one built-in *)
(* channel of a kind and a request gets the right one, and Retry-After is  *)
(* exact.                                                                  *)
(***************************************************************************)
EXTENDS BackOffice, FiniteSetTheorems, WellFoundedInduction, TLAPS

Doing == Callers \cup Jobs

(* Ids are never used twice: a call that holds one holds this printer of     *)
(* its location, or one that is gone for good.                               *)
PrinterAt(p, l) ==
    /\ p \in 0..db.next - 1
    /\ p \in DOMAIN db.printers => db.printers[p].loc = l

PrinterCalls ==
    [at : {"update", "log"}, loc : Nat, printer : Nat, name : Names, ip : IPs, receipt : BOOLEAN, before : IPs]

MoveCalls == [at : {"move"}, loc : Nat, printer : Nat, old : IPs, new : IPs, mac : Macs]

DoorCalls == [at : {"builtin", "cached", "lookup", "create"}, loc : Nat, kind : {"operator", "vendor"}]

CallTypeOK(c) ==
    LET s == call[c]
    IN  /\ s.at \in {"update", "log"} => s \in PrinterCalls
        /\ s.at = "move" => s \in MoveCalls
        /\ s.at \in {"builtin", "cached", "lookup", "create"} => s \in DoorCalls
        /\ s.at = "allowed" => s.loc \in Nat
        /\ s.at = "password" => s \in [at : {"password"}, door : {s.door}, user : {s.user}]
        /\ s.at \in {"flag", "update", "log", "delete"} => PrinterAt(s.printer, s.loc)

CallsTypeOK ==
    /\ call = [c \in Doing |-> call[c]]
    /\ \A c \in Doing : CallTypeOK(c)

(* Only the holder of builtinMu is past its lock.                            *)
OneAtTheDoor == \A c \in Doing : call[c].at \in {"cached", "lookup", "create"} => mu = c

(* A call about to make a built-in channel is right that there is none.      *)
NoneYet == \A c \in Doing : call[c].at = "create" => BuiltinChannel(db, call[c].loc, call[c].kind) = {}

(* The cache names no channel but the built-in one of its key, though that   *)
(* may be gone with its location.                                            *)
IsDoorOf(ch, k) ==
    /\ ch \in 0..db.next - 1
    /\ ch \in DOMAIN db.channels => LET r == db.channels[ch] IN r.builtin /\ k = <<r.loc, r.kind>>

CacheIsTrue == \A k \in DOMAIN builtins : IsDoorOf(builtins[k], k)

(* A call that will read the location's config and push it, unless it ends   *)
(* early: the printer it is to flag must still be there, and what it has     *)
(* read must not be old.                                                     *)
WillPush(c, l) ==
    LET s == call[c]
    IN  /\ s.at \in PushStages /\ s.loc = l
        /\ s.at = "flag" \/ (s.at = "log" /\ s.receipt) => s.printer \in DOMAIN db.printers
        /\ s.at = "roster" => s.head = HeadOf(db, l)
        /\ s.at = "push" => s.body = Config(db, l)

UntoldWillBePushed ==
    /\ untold \subseteq DOMAIN db.locs
    /\ \A l \in untold \ unsent : \E c \in Doing : WillPush(c, l)

(* Events are kept oldest first.                                             *)
OldestFirst(ts, t) ==
    /\ ts \in Seq(Nat)
    /\ \A i, j \in 1..Len(ts) : i <= j => ts[i] <= ts[j]
    /\ \A i \in 1..Len(ts) : ts[i] <= t

WindowsInOrder(h, t) == \A k \in DOMAIN h : OldestFirst(h[k], t)

HitsInOrder == now \in Nat /\ WindowsInOrder(hits, now)

(* The inductive invariant.                                                  *)
OfficeInv ==
    /\ TablesTypeOK(db) /\ RefsOK(db) /\ ChannelsOK(db)
    /\ CallsTypeOK
    /\ OneAtTheDoor /\ NoneYet /\ CacheIsTrue /\ RightDoor
    /\ ReceiptHandedOn
    /\ UntoldWillBePushed
    /\ HitsInOrder

-----------------------------------------------------------------------------
(* What a statement does to the tables.                                      *)

Good(d) == TablesTypeOK(d) /\ RefsOK(d) /\ ChannelsOK(d)

Shaped(d) ==
    d \in [tenants : {d.tenants}, locs : {d.locs}, printers : {d.printers}, channels : {d.channels},
           ops : {d.ops}, tokens : {d.tokens}, opLocs : {d.opLocs}, ipLog : {d.ipLog}, next : {d.next}]

(* Rows keep what identifies them, and a new row has a new id.               *)
Follows(d, e) ==
    /\ d.next <= e.next
    /\ \A p \in DOMAIN e.printers :
         p >= d.next \/ (p \in DOMAIN d.printers /\ e.printers[p].loc = d.printers[p].loc)
    /\ \A c \in DOMAIN e.channels :
         \/ c >= d.next
         \/ /\ c \in DOMAIN d.channels
            /\ e.channels[c].loc = d.channels[c].loc /\ e.channels[c].kind = d.channels[c].kind
            /\ e.channels[c].builtin = d.channels[c].builtin

(* No built-in channel is made.                                              *)
NoNewDoor(d, e) == \A c \in DOMAIN e.channels : e.channels[c].builtin => c \in DOMAIN d.channels

SameStores(d, e) == e.tenants = d.tenants /\ e.locs = d.locs /\ e.printers = d.printers

SameShop(d, e, l) ==
    /\ HeadOf(e, l) = HeadOf(d, l)
    /\ ListPrintersByLocation(e, l) = ListPrintersByLocation(d, l)
    /\ \A p \in ListPrintersByLocation(d, l) : e.printers[p] = d.printers[p]

(* Only location l is touched, besides new ones and deleted ones.            *)
Elsewhere(d, e, l) ==
    \A k \in DOMAIN e.locs \ {l} :
        IF k \in DOMAIN d.locs THEN SameShop(d, e, k) ELSE ListPrintersByLocation(e, k) = {}

Kept(d, e, l) == Good(e) /\ Follows(d, e) /\ NoNewDoor(d, e) /\ Elsewhere(d, e, l)

(* A location that is the same shop has the same config.                     *)
LEMMA SameShopSameConfig ==
  ASSUME NEW d, NEW e, NEW l, SameShop(d, e, l)
  PROVE  Config(e, l) = Config(d, l) /\ (Flagged(e, l) <=> Flagged(d, l))
<1>1. RosterOf(e, l) = RosterOf(d, l) BY DEF SameShop, RosterOf
<1> QED BY <1>1 DEF SameShop, Config, Flagged

(* The printers of one location are written.                                 *)
LEMMA PrintersWritten ==
  ASSUME NEW d, NEW e, Good(d), TablesTypeOK(e), NEW l,
         l \in DOMAIN d.locs \/ \A p \in DOMAIN e.printers : p \in DOMAIN d.printers /\ e.printers[p] = d.printers[p],
         e.tenants = d.tenants, e.locs = d.locs, e.channels = d.channels, d.next <= e.next,
         \A p \in DOMAIN e.printers :
            \/ p \in DOMAIN d.printers /\ e.printers[p] = d.printers[p]
            \/ /\ e.printers[p].loc = l
               /\ p >= d.next \/ (p \in DOMAIN d.printers /\ d.printers[p].loc = l),
         \A p \in DOMAIN d.printers :
            d.printers[p].loc # l => p \in DOMAIN e.printers /\ e.printers[p] = d.printers[p]
  PROVE  Kept(d, e, l)
<1>1. RefsOK(e) BY DEF Good, RefsOK
<1>2. ChannelsOK(e) BY DEF Good, ChannelsOK
<1>3. Follows(d, e) BY DEF Follows
<1>4. ASSUME NEW k \in DOMAIN e.locs \ {l} PROVE SameShop(d, e, k)
  <2>1. HeadOf(e, k) = HeadOf(d, k) BY DEF HeadOf
  <2>2. \A p : p \in ListPrintersByLocation(e, k) <=> p \in ListPrintersByLocation(d, k)
    BY <1>4 DEF ListPrintersByLocation, Select
  <2>3. \A p \in ListPrintersByLocation(d, k) : e.printers[p] = d.printers[p]
    BY <1>4 DEF ListPrintersByLocation, Select
  <2> QED BY <2>1, <2>2, <2>3 DEF SameShop
<1> QED BY <1>1, <1>2, <1>3, <1>4 DEF Kept, Good, NoNewDoor, Elsewhere

(* The details of one location are written.                                  *)
LEMMA LocationWritten ==
  ASSUME NEW d, NEW e, Good(d), TablesTypeOK(e), NEW l \in DOMAIN d.locs,
         e.tenants = d.tenants, e.printers = d.printers, e.channels = d.channels, d.next = e.next,
         DOMAIN e.locs = DOMAIN d.locs, e.locs[l].tenant = d.locs[l].tenant,
         \A k \in DOMAIN d.locs \ {l} : e.locs[k] = d.locs[k]
  PROVE  Kept(d, e, l)
<1>1. \A k \in DOMAIN d.locs : e.locs[k].tenant = d.locs[k].tenant OBVIOUS
<1>2. RefsOK(e) BY <1>1 DEF Good, RefsOK
<1>3. ChannelsOK(e) BY DEF Good, ChannelsOK
<1>4. Follows(d, e) BY DEF Follows, Good, TablesTypeOK
<1>5. ASSUME NEW k \in DOMAIN e.locs \ {l} PROVE SameShop(d, e, k)
  BY <1>5 DEF SameShop, HeadOf, ListPrintersByLocation, Select
<1> QED BY <1>2, <1>3, <1>4, <1>5 DEF Kept, Good, NoNewDoor, Elsewhere

(* Only channels, operators and tokens are written.                          *)
LEMMA DoorsWritten ==
  ASSUME NEW d, NEW e, Good(d), TablesTypeOK(e), NEW l,
         e.tenants = d.tenants, e.locs = d.locs, e.printers = d.printers, d.next <= e.next,
         \A c \in DOMAIN e.channels :
            \/ c >= d.next /\ ~e.channels[c].builtin
            \/ /\ c \in DOMAIN d.channels
               /\ e.channels[c].loc = d.channels[c].loc /\ e.channels[c].kind = d.channels[c].kind
               /\ e.channels[c].builtin = d.channels[c].builtin
               /\ e.channels[c].builtin => e.channels[c].key = d.channels[c].key
  PROVE  Kept(d, e, l)
<1>1. RefsOK(e) BY DEF Good, RefsOK
<1>2. ChannelsOK(e) BY DEF Good, ChannelsOK
<1>3. Follows(d, e) BY DEF Follows
<1>4. ASSUME NEW k \in DOMAIN e.locs PROVE SameShop(d, e, k)
  BY <1>4 DEF SameShop, HeadOf, ListPrintersByLocation, Select
<1>5. NoNewDoor(d, e) BY DEF NoNewDoor
<1> QED BY <1>1, <1>2, <1>3, <1>4, <1>5 DEF Kept, Good, Elsewhere

(* The statements about printers.                                            *)
LEMMA PrinterCreated ==
  ASSUME NEW d, Good(d), NEW l \in DOMAIN d.locs, NEW name \in Names, NEW ip \in IPs, NEW mac \in Maybe(Macs)
  PROVE  Kept(d, CreatePrinter(d, l, name, ip, mac), l)
<1> DEFINE row == [loc |-> l, name |-> name, ip |-> ip, mac |-> mac, receipt |-> FALSE]
           e == CreatePrinter(d, l, name, ip, mac)
<1>1. TablesTypeOK(d) BY DEF Good
<1>2. row \in PrinterRow BY <1>1 DEF PrinterRow, TablesTypeOK
<1>3. /\ e.printers = [id \in DOMAIN d.printers \cup {d.next} |-> IF id = d.next THEN row ELSE d.printers[id]]
      /\ e.next = d.next + 1
      /\ e.tenants = d.tenants /\ e.locs = d.locs /\ e.channels = d.channels
      /\ e \in [tenants : {e.tenants}, locs : {e.locs}, printers : {e.printers}, channels : {e.channels},
                ops : {e.ops}, tokens : {e.tokens}, opLocs : {e.opLocs}, ipLog : {e.ipLog}, next : {e.next}]
  BY <1>1 DEF CreatePrinter, Insert, TablesTypeOK
<1> HIDE DEF row, e
<1>4. TablesTypeOK(e)
  <2>1. e.printers \in [DOMAIN e.printers -> PrinterRow] BY <1>1, <1>2, <1>3 DEF TablesTypeOK
  <2>2. DOMAIN e.printers \subseteq 0..e.next - 1 BY <1>1, <1>3 DEF TablesTypeOK
  <2> QED BY <1>1, <1>3, <2>1, <2>2 DEF TablesTypeOK
<1>5. e.printers[d.next] = row BY <1>3
<1>6. \A p \in DOMAIN e.printers : p # d.next => p \in DOMAIN d.printers /\ e.printers[p] = d.printers[p] BY <1>3
<1>7. d.next \in Nat /\ d.next \notin DOMAIN d.printers BY <1>1 DEF TablesTypeOK
<1>8. row.loc = l BY DEF row
<1>9. \A p \in DOMAIN d.printers : p \in DOMAIN e.printers /\ e.printers[p] = d.printers[p] BY <1>3, <1>7
<1>10. d.next <= e.next BY <1>3, <1>7
<1> QED BY <1>3, <1>4, <1>5, <1>6, <1>7, <1>8, <1>9, <1>10, PrintersWritten DEF e

(* A row written in place of a printer's leaves the tables well-formed.      *)
LEMMA PrinterRowWritten ==
  ASSUME NEW d, TablesTypeOK(d), NEW p \in DOMAIN d.printers, NEW r \in PrinterRow
  PROVE  TablesTypeOK([d EXCEPT !.printers = [d.printers EXCEPT ![p] = r]])
<1> PICK ps : ps = [d.printers EXCEPT ![p] = r] OBVIOUS
<1>1. ps \in [DOMAIN ps -> PrinterRow] /\ DOMAIN ps = DOMAIN d.printers BY DEF TablesTypeOK
<1>2. TablesTypeOK([d EXCEPT !.printers = ps]) BY <1>1 DEF TablesTypeOK
<1> QED BY <1>2

(* An edit of name and address leaves the list and the flag.                 *)
LEMMA PrinterUpdated ==
  ASSUME NEW d, Good(d), NEW l \in DOMAIN d.locs, NEW p \in ListPrintersByLocation(d, l),
         NEW name \in Names, NEW ip \in IPs
  PROVE  LET e == UpdatePrinter(d, p, name, ip)
         IN  Kept(d, e, l) /\ ListPrintersByLocation(e, l) = ListPrintersByLocation(d, l) /\ (Flagged(d, l) => Flagged(e, l))
<1> DEFINE e == UpdatePrinter(d, p, name, ip)
<1>1. TablesTypeOK(d) /\ p \in DOMAIN d.printers /\ d.printers[p].loc = l BY DEF Good, ListPrintersByLocation, Select
<1>2. /\ e.tenants = d.tenants /\ e.locs = d.locs /\ e.channels = d.channels /\ e.next = d.next
      /\ DOMAIN e.printers = DOMAIN d.printers
      /\ \A q \in DOMAIN d.printers : q # p => e.printers[q] = d.printers[q]
      /\ e.printers[p].loc = l /\ e.printers[p].receipt = d.printers[p].receipt
  BY <1>1 DEF UpdatePrinter, Update, TablesTypeOK, PrinterRow
<1>3. TablesTypeOK(e)
  <2> DEFINE r == [d.printers[p] EXCEPT !.name = name, !.ip = ip]
  <2>1. d.printers[p] \in PrinterRow BY <1>1 DEF TablesTypeOK
  <2>2. r \in PrinterRow BY <2>1, ZenonT(40) DEF PrinterRow
  <2>3. e = [d EXCEPT !.printers = [d.printers EXCEPT ![p] = r]] BY <1>1 DEF UpdatePrinter, Update
  <2> HIDE DEF r, e
  <2> QED BY <1>1, <2>2, <2>3, PrinterRowWritten
<1>4. d.next \in Nat BY <1>1 DEF TablesTypeOK
<1> HIDE DEF e
<1>5. Kept(d, e, l) BY <1>1, <1>2, <1>3, <1>4, PrintersWritten
<1>6. \A q : q \in ListPrintersByLocation(e, l) <=> q \in ListPrintersByLocation(d, l)
  BY <1>1, <1>2 DEF ListPrintersByLocation, Select
<1>7. \A q \in DOMAIN d.printers : e.printers[q].receipt = d.printers[q].receipt BY <1>1, <1>2
<1>8. Flagged(d, l) => Flagged(e, l) BY <1>6, <1>7 DEF Flagged, ListPrintersByLocation, Select
<1> QED BY <1>5, <1>6, <1>8 DEF e

(* SetReceiptPrinter: afterwards the location has its receipt printer.       *)
LEMMA PrinterFlagged ==
  ASSUME NEW d, Good(d), NEW l \in DOMAIN d.locs, NEW p \in ListPrintersByLocation(d, l)
  PROVE  LET e == SetPrinterReceipt(ClearReceiptPrinter(d, l), p) IN Kept(d, e, l) /\ Flagged(e, l)
<1> DEFINE f == ClearReceiptPrinter(d, l)
           e == SetPrinterReceipt(f, p)
<1>1. TablesTypeOK(d) /\ p \in DOMAIN d.printers /\ d.printers[p].loc = l BY DEF Good, ListPrintersByLocation, Select
<1>2. /\ f.tenants = d.tenants /\ f.locs = d.locs /\ f.channels = d.channels /\ f.next = d.next
      /\ DOMAIN f.printers = DOMAIN d.printers
      /\ \A q \in DOMAIN d.printers : d.printers[q].loc # l => f.printers[q] = d.printers[q]
      /\ \A q \in DOMAIN d.printers : f.printers[q].loc = d.printers[q].loc
  BY <1>1 DEF ClearReceiptPrinter, TablesTypeOK, PrinterRow
<1>3. TablesTypeOK(f)
  <2>1. \A q \in DOMAIN d.printers : f.printers[q] \in PrinterRow BY <1>1 DEF ClearReceiptPrinter, TablesTypeOK, PrinterRow
  <2>2. /\ f.printers = [q \in DOMAIN d.printers |-> f.printers[q]]
        /\ f = [d EXCEPT !.printers = f.printers]
    BY DEF ClearReceiptPrinter
  <2> HIDE DEF f
  <2>3. f.printers \in [DOMAIN f.printers -> PrinterRow] /\ DOMAIN f.printers = DOMAIN d.printers BY <2>1, <2>2
  <2>4. f.printers \in [DOMAIN f.printers -> PrinterRow] /\ DOMAIN f.printers \subseteq 0..f.next - 1
    BY <1>1, <1>2, <2>3 DEF TablesTypeOK
  <2> QED BY <1>1, <1>2, <2>2, <2>4 DEF TablesTypeOK
<1> HIDE DEF f
<1>4. /\ e.tenants = f.tenants /\ e.locs = f.locs /\ e.channels = f.channels /\ e.next = f.next
      /\ DOMAIN e.printers = DOMAIN f.printers
      /\ \A q \in DOMAIN f.printers : q # p => e.printers[q] = f.printers[q]
      /\ e.printers[p].loc = l /\ e.printers[p].receipt
  BY <1>1, <1>2, <1>3 DEF SetPrinterReceipt, Update, TablesTypeOK, PrinterRow
<1>5. TablesTypeOK(e)
  <2> DEFINE r == [f.printers[p] EXCEPT !.receipt = TRUE]
  <2>1. p \in DOMAIN f.printers /\ f.printers[p] \in PrinterRow BY <1>1, <1>2, <1>3 DEF TablesTypeOK
  <2>2. r \in PrinterRow BY <2>1, ZenonT(40) DEF PrinterRow
  <2>3. e = [f EXCEPT !.printers = [f.printers EXCEPT ![p] = r]] BY <2>1 DEF SetPrinterReceipt, Update
  <2> HIDE DEF r, e
  <2> QED BY <1>3, <2>1, <2>2, <2>3, PrinterRowWritten
<1>6. d.next \in Nat BY <1>1 DEF TablesTypeOK
<1> HIDE DEF e
<1>7. Kept(d, e, l)
  <2>1. \A q \in DOMAIN e.printers :
           \/ q \in DOMAIN d.printers /\ e.printers[q] = d.printers[q]
           \/ e.printers[q].loc = l /\ q \in DOMAIN d.printers /\ d.printers[q].loc = l
    BY <1>1, <1>2, <1>4
  <2>2. \A q \in DOMAIN d.printers : d.printers[q].loc # l => q \in DOMAIN e.printers /\ e.printers[q] = d.printers[q]
    BY <1>1, <1>2, <1>4
  <2> QED BY <1>2, <1>4, <1>5, <1>6, <2>1, <2>2, PrintersWritten
<1>8. Flagged(e, l) BY <1>1, <1>2, <1>4 DEF Flagged, ListPrintersByLocation, Select
<1> QED BY <1>7, <1>8 DEF e, f

(* A printer goes; the others stay as they are.                              *)
LEMMA PrinterDeleted ==
  ASSUME NEW d, Good(d), NEW l, NEW p, p \in DOMAIN d.printers => d.printers[p].loc = l
  PROVE  LET e == DeletePrinter(d, p)
         IN  /\ Kept(d, e, l) /\ e.locs = d.locs
             /\ ListPrintersByLocation(e, l) = ListPrintersByLocation(d, l) \ {p}
             /\ \A q \in DOMAIN e.printers : e.printers[q] = d.printers[q]
<1> DEFINE e == DeletePrinter(d, p)
<1>1. TablesTypeOK(d) BY DEF Good
<1>2. /\ e.tenants = d.tenants /\ e.locs = d.locs /\ e.channels = d.channels /\ e.next = d.next
      /\ DOMAIN e.printers = DOMAIN d.printers \ {p}
      /\ \A q \in DOMAIN e.printers : e.printers[q] = d.printers[q]
  BY <1>1 DEF DeletePrinter, DropPrinters, Delete, TablesTypeOK
<1>3. TablesTypeOK(e) BY <1>1 DEF DeletePrinter, DropPrinters, Delete, TablesTypeOK
<1>4. d.next \in Nat BY <1>1 DEF TablesTypeOK
<1> HIDE DEF e
<1>5. Kept(d, e, l) BY <1>2, <1>3, <1>4, PrintersWritten
<1>6. \A q : q \in ListPrintersByLocation(e, l) <=> q \in ListPrintersByLocation(d, l) \ {p}
  BY <1>2 DEF ListPrintersByLocation, Select
<1> QED BY <1>2, <1>5, <1>6 DEF e

(* A record with two of its fields set is a record of the same fields.       *)
LEMMA MovedRow ==
  ASSUME NEW A, NEW B, NEW C, NEW D, NEW E,
         NEW q \in [loc : A, name : B, ip : C, mac : D, receipt : E], NEW x \in C, NEW y \in D
  PROVE  [q EXCEPT !.ip = x, !.mac = y] \in [loc : A, name : B, ip : C, mac : D, receipt : E]
OBVIOUS

(* A new address leaves the list and the flag.                               *)
LEMMA PrinterMoved ==
  ASSUME NEW d, Good(d), NEW l \in DOMAIN d.locs, NEW p \in ListPrintersByLocation(d, l),
         NEW new \in IPs, NEW mac \in Maybe(Macs)
  PROVE  LET e == MovePrinterIP(d, p, new, mac)
         IN  Kept(d, e, l) /\ ListPrintersByLocation(e, l) = ListPrintersByLocation(d, l) /\ (Flagged(d, l) => Flagged(e, l))
<1> DEFINE e == MovePrinterIP(d, p, new, mac)
<1>1. TablesTypeOK(d) /\ p \in DOMAIN d.printers /\ d.printers[p].loc = l BY DEF Good, ListPrintersByLocation, Select
<1>2. /\ e.tenants = d.tenants /\ e.locs = d.locs /\ e.channels = d.channels /\ e.next = d.next
      /\ DOMAIN e.printers = DOMAIN d.printers
      /\ \A q \in DOMAIN d.printers : q # p => e.printers[q] = d.printers[q]
      /\ e.printers[p].loc = l /\ e.printers[p].receipt = d.printers[p].receipt
  BY <1>1 DEF MovePrinterIP, Update, TablesTypeOK, PrinterRow
<1>3. TablesTypeOK(e)
  <2> DEFINE known == IF mac = NONE THEN d.printers[p].mac ELSE mac
  <2>1. known \in Maybe(Macs) BY <1>1 DEF TablesTypeOK, PrinterRow
  <2>2. e = [d EXCEPT !.printers = [d.printers EXCEPT ![p] = [d.printers[p] EXCEPT !.ip = new, !.mac = known]]]
    BY <1>1 DEF MovePrinterIP, Update
  <2> HIDE DEF known, e
  <2>3. [d.printers[p] EXCEPT !.ip = new, !.mac = known] \in PrinterRow
    <3>1. PICK q \in PrinterRow : q = d.printers[p] BY <1>1 DEF TablesTypeOK
    <3>2. [q EXCEPT !.ip = new, !.mac = known] \in PrinterRow BY <2>1, MovedRow DEF PrinterRow
    <3> QED BY <3>1, <3>2
  <2> QED BY <1>1, <2>2, <2>3 DEF TablesTypeOK
<1>4. d.next \in Nat BY <1>1 DEF TablesTypeOK
<1> HIDE DEF e
<1>5. Kept(d, e, l) BY <1>1, <1>2, <1>3, <1>4, PrintersWritten
<1>6. \A q : q \in ListPrintersByLocation(e, l) <=> q \in ListPrintersByLocation(d, l)
  BY <1>1, <1>2 DEF ListPrintersByLocation, Select
<1>7. \A q \in DOMAIN d.printers : e.printers[q].receipt = d.printers[q].receipt BY <1>1, <1>2
<1>8. Flagged(d, l) => Flagged(e, l) BY <1>6, <1>7 DEF Flagged, ListPrintersByLocation, Select
<1> QED BY <1>5, <1>6, <1>8 DEF e

(* A new MAC leaves the list and the flag.                                   *)
LEMMA PrinterMacSet ==
  ASSUME NEW d, Good(d), NEW l \in DOMAIN d.locs, NEW p \in ListPrintersByLocation(d, l), NEW mac \in Maybe(Macs)
  PROVE  LET e == SetPrinterMAC(d, p, mac)
         IN  Kept(d, e, l) /\ ListPrintersByLocation(e, l) = ListPrintersByLocation(d, l) /\ (Flagged(d, l) => Flagged(e, l))
<1> DEFINE e == SetPrinterMAC(d, p, mac)
<1>1. TablesTypeOK(d) /\ p \in DOMAIN d.printers /\ d.printers[p].loc = l BY DEF Good, ListPrintersByLocation, Select
<1>2. /\ e.tenants = d.tenants /\ e.locs = d.locs /\ e.channels = d.channels /\ e.next = d.next
      /\ DOMAIN e.printers = DOMAIN d.printers
      /\ \A q \in DOMAIN d.printers : q # p => e.printers[q] = d.printers[q]
      /\ e.printers[p].loc = l /\ e.printers[p].receipt = d.printers[p].receipt
  BY <1>1 DEF SetPrinterMAC, Update, TablesTypeOK, PrinterRow
<1>3. TablesTypeOK(e) BY <1>1 DEF SetPrinterMAC, Update, TablesTypeOK, PrinterRow, Maybe
<1>4. d.next \in Nat BY <1>1 DEF TablesTypeOK
<1> HIDE DEF e
<1>5. Kept(d, e, l) BY <1>1, <1>2, <1>3, <1>4, PrintersWritten
<1>6. ListPrintersByLocation(e, l) = ListPrintersByLocation(d, l)
  <2>1. \A q : q \in ListPrintersByLocation(e, l) <=> q \in ListPrintersByLocation(d, l)
    BY <1>1, <1>2 DEF ListPrintersByLocation, Select
  <2> QED BY <2>1
<1>7. \A q \in DOMAIN d.printers : e.printers[q].receipt = d.printers[q].receipt BY <1>1, <1>2
<1>8. Flagged(d, l) => Flagged(e, l) BY <1>6, <1>7 DEF Flagged, ListPrintersByLocation, Select
<1> QED BY <1>5, <1>6, <1>8 DEF e

(* The log of addresses is no part of the stores.                            *)
LEMMA ChangeLogged ==
  ASSUME NEW d, NEW m, NEW l, Kept(d, m, l), NEW p, NEW old, NEW new, NEW source
  PROVE  LET e == InsertPrinterIPChange(m, p, old, new, source) IN Kept(d, e, l) /\ SameStores(m, e)
<1> DEFINE e == InsertPrinterIPChange(m, p, old, new, source)
<1>1. TablesTypeOK(m) BY DEF Kept, Good
<1>2. SameStores(m, e) /\ e.channels = m.channels /\ e.next = m.next /\ TablesTypeOK(e)
  BY <1>1 DEF InsertPrinterIPChange, TablesTypeOK, SameStores
<1> HIDE DEF e
<1>3. RefsOK(e) BY <1>2 DEF Kept, Good, RefsOK, SameStores
<1>4. ChannelsOK(e) BY <1>2 DEF Kept, Good, ChannelsOK
<1>5. Follows(d, e) BY <1>2 DEF Kept, Follows, SameStores
<1>6. NoNewDoor(d, e) BY <1>2 DEF Kept, NoNewDoor
<1>7. \A k : ListPrintersByLocation(e, k) = ListPrintersByLocation(m, k) /\ HeadOf(e, k) = HeadOf(m, k)
  BY <1>2 DEF SameStores, ListPrintersByLocation, Select, HeadOf
<1>8. Elsewhere(d, e, l) BY <1>2, <1>7 DEF Kept, Elsewhere, SameShop, SameStores
<1> QED BY <1>2, <1>3, <1>4, <1>5, <1>6, <1>8 DEF Kept, Good, e

(* A step that writes nothing leaves every location alone.                   *)
LEMMA NothingWritten ==
  ASSUME NEW d, Good(d), NEW l
  PROVE  Kept(d, d, l)
<1>1. d.next \in Nat BY DEF Good, TablesTypeOK
<1>2. Follows(d, d) BY <1>1 DEF Follows
<1> QED BY <1>2 DEF Kept, NoNewDoor, Elsewhere, SameShop

(* The statements about locations and tenants.                               *)
LEMMA LocationRowWritten ==
  ASSUME NEW d, Good(d), NEW l \in DOMAIN d.locs, NEW row \in LocRow, row.tenant = d.locs[l].tenant
  PROVE  LET e == [d EXCEPT !.locs = [d.locs EXCEPT ![l] = row]] IN Kept(d, e, l) /\ e.printers = d.printers
<1> DEFINE e == [d EXCEPT !.locs = [d.locs EXCEPT ![l] = row]]
<1>1. TablesTypeOK(d) BY DEF Good
<1>2. /\ e.tenants = d.tenants /\ e.printers = d.printers /\ e.channels = d.channels /\ e.next = d.next
      /\ DOMAIN e.locs = DOMAIN d.locs /\ e.locs[l] = row
      /\ \A k \in DOMAIN d.locs \ {l} : e.locs[k] = d.locs[k]
  BY <1>1 DEF TablesTypeOK
<1>3. TablesTypeOK(e) BY <1>1 DEF TablesTypeOK
<1> HIDE DEF e
<1>4. Kept(d, e, l) BY <1>2, <1>3, LocationWritten
<1> QED BY <1>2, <1>4 DEF e

(* The five of them: details with the address, pin, geocoded position, map   *)
(* and radius.                                                               *)
LEMMA LocationUpdated ==
  ASSUME NEW d, Good(d), NEW l \in DOMAIN d.locs, NEW v \in Maybe(Values), NEW a \in Maybe(Addresses), NEW pos \in Maybe(Spots),
         NEW e \in {UpdateLocationDetails(d, l, v, a), SetLocationPin(d, l, pos), SetLocationGeocoded(d, l, pos),
                    SetLocationMap(d, l, v), SetLocationDeliveryRadius(d, l, v)}
  PROVE  Kept(d, e, l) /\ e.printers = d.printers
<1> DEFINE r == d.locs[l]
<1>1. r \in LocRow BY DEF Good, TablesTypeOK
<1>2. CASE e = UpdateLocationDetails(d, l, v, a)
  <2> DEFINE row == [r EXCEPT !.details = v, !.addr = a]
  <2>1. row \in LocRow /\ row.tenant = r.tenant BY <1>1 DEF LocRow
  <2>2. e = [d EXCEPT !.locs = [d.locs EXCEPT ![l] = row]] BY <1>2 DEF UpdateLocationDetails, Update
  <2> HIDE DEF row
  <2> QED BY <2>1, <2>2, LocationRowWritten
<1>3. CASE e = SetLocationPin(d, l, pos)
  <2> DEFINE row == [r EXCEPT !.pos = pos, !.geo = "manual"]
  <2>1. row \in LocRow /\ row.tenant = r.tenant BY <1>1 DEF LocRow
  <2>2. e = [d EXCEPT !.locs = [d.locs EXCEPT ![l] = row]] BY <1>3 DEF SetLocationPin, Update
  <2> HIDE DEF row
  <2> QED BY <2>1, <2>2, LocationRowWritten
<1>4. CASE e = SetLocationGeocoded(d, l, pos)
  <2> DEFINE row == [r EXCEPT !.pos = pos, !.geo = "geocoded"]
  <2>1. row \in LocRow /\ row.tenant = r.tenant BY <1>1 DEF LocRow
  <2>2. e = [d EXCEPT !.locs = [d.locs EXCEPT ![l] = row]] BY <1>4 DEF SetLocationGeocoded, Update
  <2> HIDE DEF row
  <2> QED BY <2>1, <2>2, LocationRowWritten
<1>5. CASE e = SetLocationMap(d, l, v)
  <2> DEFINE row == [r EXCEPT !.map = v]
  <2>1. row \in LocRow /\ row.tenant = r.tenant BY <1>1 DEF LocRow
  <2>2. e = [d EXCEPT !.locs = [d.locs EXCEPT ![l] = row]] BY <1>5 DEF SetLocationMap, Update
  <2> HIDE DEF row
  <2> QED BY <2>1, <2>2, LocationRowWritten
<1>6. CASE e = SetLocationDeliveryRadius(d, l, v)
  <2> DEFINE row == [r EXCEPT !.radius = v]
  <2>1. row \in LocRow /\ row.tenant = r.tenant BY <1>1 DEF LocRow
  <2>2. e = [d EXCEPT !.locs = [d.locs EXCEPT ![l] = row]] BY <1>6 DEF SetLocationDeliveryRadius, Update
  <2> HIDE DEF row
  <2> QED BY <2>1, <2>2, LocationRowWritten
<1> QED BY <1>2, <1>3, <1>4, <1>5, <1>6

(* A tenant's row, whose config only its own location shows.                 *)
LEMMA TenantRowWritten ==
  ASSUME NEW d, Good(d), NEW t \in DOMAIN d.tenants, NEW row \in TenantRow, NEW l,
         \A k \in DOMAIN d.locs \ {l} : d.locs[k].tenant = t => row.config = d.tenants[t].config
  PROVE  LET e == [d EXCEPT !.tenants = [d.tenants EXCEPT ![t] = row]] IN Kept(d, e, l) /\ e.printers = d.printers
<1> DEFINE e == [d EXCEPT !.tenants = [d.tenants EXCEPT ![t] = row]]
<1>1. TablesTypeOK(d) BY DEF Good
<1>2. /\ e.locs = d.locs /\ e.printers = d.printers /\ e.channels = d.channels /\ e.next = d.next
      /\ DOMAIN e.tenants = DOMAIN d.tenants /\ e.tenants[t] = row
      /\ \A k \in DOMAIN d.tenants \ {t} : e.tenants[k] = d.tenants[k]
  BY <1>1 DEF TablesTypeOK
<1>3. TablesTypeOK(e) BY <1>1 DEF TablesTypeOK
<1>4. d.next \in Nat BY <1>1 DEF TablesTypeOK
<1> HIDE DEF e
<1>5. RefsOK(e) BY <1>2 DEF Good, RefsOK
<1>6. ChannelsOK(e) BY <1>2 DEF Good, ChannelsOK
<1>7. Follows(d, e) BY <1>2, <1>4 DEF Follows
<1>8. ASSUME NEW k \in DOMAIN e.locs \ {l} PROVE SameShop(d, e, k)
  <2>1. k \in DOMAIN d.locs /\ d.locs[k].tenant \in DOMAIN d.tenants BY <1>2, <1>8 DEF Good, RefsOK
  <2>2. e.tenants[d.locs[k].tenant].config = d.tenants[d.locs[k].tenant].config BY <1>2, <1>8, <2>1
  <2>3. HeadOf(e, k) = HeadOf(d, k) BY <1>2, <2>2 DEF HeadOf
  <2> QED BY <1>2, <2>3 DEF SameShop, ListPrintersByLocation, Select
<1>9. Kept(d, e, l) BY <1>2, <1>3, <1>5, <1>6, <1>7, <1>8 DEF Kept, Good, NoNewDoor, Elsewhere
<1> QED BY <1>2, <1>9 DEF e

(* A store id or a username is no part of any pushed config.                 *)
LEMMA TenantEdited ==
  ASSUME NEW d, Good(d), NEW t \in DOMAIN d.tenants, NEW user \in Maybe(Users), NEW store \in Maybe(StoreIds), NEW l,
         NEW e \in {SetTenantStoreID(d, t, store), SetTenantCredentials(d, t, user)}
  PROVE  Kept(d, e, l) /\ e.printers = d.printers
<1> DEFINE r == d.tenants[t]
<1>1. r \in TenantRow BY DEF Good, TablesTypeOK
<1>2. CASE e = SetTenantStoreID(d, t, store)
  <2> DEFINE row == [r EXCEPT !.store = store]
  <2>1. row \in TenantRow /\ row.config = r.config BY <1>1 DEF TenantRow
  <2>2. e = [d EXCEPT !.tenants = [d.tenants EXCEPT ![t] = row]] BY <1>2 DEF SetTenantStoreID, Update
  <2> HIDE DEF row
  <2> QED BY <2>1, <2>2, TenantRowWritten
<1>3. CASE e = SetTenantCredentials(d, t, user)
  <2> DEFINE row == [r EXCEPT !.user = user]
  <2>1. row \in TenantRow /\ row.config = r.config BY <1>1 DEF TenantRow
  <2>2. e = [d EXCEPT !.tenants = [d.tenants EXCEPT ![t] = row]] BY <1>3 DEF SetTenantCredentials, Update
  <2> HIDE DEF row
  <2> QED BY <2>1, <2>2, TenantRowWritten
<1> QED BY <1>2, <1>3

(* A tenant's config reaches only its own location.                          *)
LEMMA TenantConfigWritten ==
  ASSUME NEW d, Good(d), NEW l \in DOMAIN d.locs, NEW v \in Values
  PROVE  LET e == UpdateTenantConfig(d, d.locs[l].tenant, v) IN Kept(d, e, l) /\ e.printers = d.printers
<1> DEFINE t == d.locs[l].tenant
           row == [d.tenants[t] EXCEPT !.config = v]
           e == UpdateTenantConfig(d, t, v)
<1>1. t \in DOMAIN d.tenants /\ \A k \in DOMAIN d.locs : d.locs[k].tenant = t => k = l BY DEF Good, RefsOK
<1>2. d.tenants[t] \in TenantRow BY <1>1 DEF Good, TablesTypeOK
<1>3. row \in TenantRow BY <1>2 DEF TenantRow, Maybe
<1>4. e = [d EXCEPT !.tenants = [d.tenants EXCEPT ![t] = row]] BY <1>1 DEF UpdateTenantConfig, Update
<1> HIDE DEF row, t, e
<1>5. \A k \in DOMAIN d.locs \ {l} : d.locs[k].tenant = t => row.config = d.tenants[t].config BY <1>1
<1>6. Kept(d, e, l) /\ e.printers = d.printers BY <1>1, <1>3, <1>4, <1>5, TenantRowWritten
<1> QED BY <1>6 DEF e, t

(* A new tenant and its location.                                            *)
LEMMA TenantCreated ==
  ASSUME NEW d, Good(d), NEW user \in Maybe(Users), NEW store \in Maybe(StoreIds), NEW l
  PROVE  LET e == CreateLocation(CreateTenant(d, user, store), d.next) IN Kept(d, e, l) /\ e.printers = d.printers
<1> DEFINE trow == [user |-> user, store |-> store, config |-> NONE]
           lrow == [tenant |-> d.next, details |-> NONE, addr |-> NONE, pos |-> NONE, geo |-> NONE, map |-> NONE, radius |-> NONE]
           f == CreateTenant(d, user, store)
           e == CreateLocation(f, d.next)
<1>1. TablesTypeOK(d) /\ d.next \in Nat BY DEF Good, TablesTypeOK
<1>2. /\ f.tenants = [id \in DOMAIN d.tenants \cup {d.next} |-> IF id = d.next THEN trow ELSE d.tenants[id]]
      /\ f.next = d.next + 1
      /\ f.printers = d.printers /\ f.locs = d.locs /\ f.channels = d.channels
      /\ f \in [tenants : {f.tenants}, locs : {f.locs}, printers : {f.printers}, channels : {f.channels},
                ops : {f.ops}, tokens : {f.tokens}, opLocs : {f.opLocs}, ipLog : {f.ipLog}, next : {f.next}]
  BY <1>1 DEF CreateTenant, Insert, TablesTypeOK
<1>3. trow \in TenantRow BY DEF TenantRow, Maybe
<1>4. lrow \in LocRow /\ lrow.tenant = d.next BY <1>1 DEF LocRow, Maybe
<1> HIDE DEF f, trow
<1>5. /\ e.locs = [id \in DOMAIN f.locs \cup {f.next} |-> IF id = f.next THEN lrow ELSE f.locs[id]]
      /\ e.next = f.next + 1
      /\ e.printers = f.printers /\ e.tenants = f.tenants /\ e.channels = f.channels
      /\ e \in [tenants : {e.tenants}, locs : {e.locs}, printers : {e.printers}, channels : {e.channels},
                ops : {e.ops}, tokens : {e.tokens}, opLocs : {e.opLocs}, ipLog : {e.ipLog}, next : {e.next}]
  BY <1>2 DEF CreateLocation, Insert
<1> HIDE DEF e, lrow
<1>6. TablesTypeOK(e)
  <2>1. e.tenants \in [DOMAIN e.tenants -> TenantRow] /\ DOMAIN e.tenants \subseteq 0..e.next - 1
    BY <1>1, <1>2, <1>3, <1>5 DEF TablesTypeOK
  <2>2. e.locs \in [DOMAIN e.locs -> LocRow] /\ DOMAIN e.locs \subseteq 0..e.next - 1
    BY <1>1, <1>2, <1>4, <1>5 DEF TablesTypeOK
  <2>3. DOMAIN e.printers \subseteq 0..e.next - 1 /\ DOMAIN e.channels \subseteq 0..e.next - 1
    BY <1>1, <1>2, <1>5 DEF TablesTypeOK
  <2>4. e.printers \in [DOMAIN e.printers -> PrinterRow] /\ e.channels \in [DOMAIN e.channels -> ChannelRow]
    BY <1>1, <1>2, <1>5 DEF TablesTypeOK
  <2>5. e.next \in Nat BY <1>1, <1>2, <1>5
  <2> QED BY <1>5, <2>1, <2>2, <2>3, <2>4, <2>5 DEF TablesTypeOK
<1>7. \A k \in DOMAIN d.locs : k < d.next /\ k \in DOMAIN e.locs /\ e.locs[k] = d.locs[k] BY <1>1, <1>2, <1>5 DEF TablesTypeOK
<1>8. \A t \in DOMAIN d.tenants : t < d.next /\ t \in DOMAIN e.tenants /\ e.tenants[t] = d.tenants[t]
  BY <1>1, <1>2, <1>5 DEF TablesTypeOK
<1>9. /\ d.next + 1 \notin DOMAIN d.locs /\ e.locs[d.next + 1] = lrow /\ d.next \in DOMAIN e.tenants
      /\ DOMAIN e.locs = DOMAIN d.locs \cup {d.next + 1}
  BY <1>1, <1>2, <1>5, <1>7
<1>10. RefsOK(e)
  <2>1. \A k \in DOMAIN e.locs : e.locs[k].tenant \in DOMAIN e.tenants BY <1>4, <1>7, <1>8, <1>9 DEF Good, RefsOK
  <2>2. ASSUME NEW j \in DOMAIN e.locs, NEW k \in DOMAIN e.locs, e.locs[j].tenant = e.locs[k].tenant PROVE j = k
    <3>1. \A i \in DOMAIN d.locs : d.locs[i].tenant # d.next BY <1>1, <1>8 DEF Good, RefsOK, TablesTypeOK
    <3> QED BY <1>4, <1>7, <1>9, <2>2, <3>1 DEF Good, RefsOK
  <2>3. \A p \in DOMAIN e.printers : e.printers[p].loc \in DOMAIN e.locs BY <1>2, <1>5, <1>9 DEF Good, RefsOK
  <2> QED BY <2>1, <2>2, <2>3 DEF RefsOK
<1>11. ChannelsOK(e) BY <1>2, <1>5 DEF Good, ChannelsOK
<1>12. Follows(d, e) BY <1>1, <1>2, <1>5 DEF Follows
<1>13. ASSUME NEW k \in DOMAIN e.locs
       PROVE  IF k \in DOMAIN d.locs THEN SameShop(d, e, k) ELSE ListPrintersByLocation(e, k) = {}
  <2>1. ListPrintersByLocation(e, k) = ListPrintersByLocation(d, k) BY <1>2, <1>5 DEF ListPrintersByLocation, Select
  <2>2. CASE k \in DOMAIN d.locs
    <3>1. d.locs[k].tenant \in DOMAIN d.tenants BY <2>2 DEF Good, RefsOK
    <3>2. HeadOf(e, k) = HeadOf(d, k) BY <1>7, <1>8, <2>2, <3>1 DEF HeadOf
    <3> QED BY <1>2, <1>5, <2>1, <2>2, <3>2 DEF SameShop
  <2>3. CASE k \notin DOMAIN d.locs BY <2>1, <2>3 DEF Good, RefsOK, ListPrintersByLocation, Select
  <2> QED BY <2>2, <2>3
<1>14. Kept(d, e, l) BY <1>2, <1>5, <1>6, <1>10, <1>11, <1>12, <1>13 DEF Kept, Good, NoNewDoor, Elsewhere
<1> QED BY <1>2, <1>5, <1>14 DEF e, f

(* A deleted tenant takes its location, and that its printers and channels.  *)
LEMMA TenantDeleted ==
  ASSUME NEW d, Good(d), NEW t, NEW l
  PROVE  LET e == DeleteTenant(DeleteTenantLocations(DeleteTenantPrinters(d, t), t), t)
         IN  /\ Kept(d, e, l)
             /\ \A k \in DOMAIN e.locs : k \in DOMAIN d.locs /\ SameShop(d, e, k)
<1> DEFINE f == DeleteTenantPrinters(d, t)
           g == DeleteTenantLocations(f, t)
           e == DeleteTenant(g, t)
           ps == {p \in DOMAIN d.printers : d.locs[d.printers[p].loc].tenant # t}
           cs == {c \in DOMAIN d.channels : d.locs[d.channels[c].loc].tenant # t}
           ls == {k \in DOMAIN d.locs : d.locs[k].tenant # t}
<1>1. TablesTypeOK(d) /\ d.next \in Nat BY DEF Good, TablesTypeOK
<1>2. /\ f.printers = [p \in ps |-> d.printers[p]]
      /\ f.next = d.next /\ f.tenants = d.tenants /\ f.locs = d.locs /\ f.channels = d.channels
      /\ f \in [tenants : {f.tenants}, locs : {f.locs}, printers : {f.printers}, channels : {f.channels},
                ops : {f.ops}, tokens : {f.tokens}, opLocs : {f.opLocs}, ipLog : {f.ipLog}, next : {f.next}]
  <2>1. DOMAIN d.printers \ Select(d, "printers", LAMBDA r : d.locs[r.loc].tenant = t) = ps
    BY <1>1 DEF Select, TablesTypeOK
  <2> HIDE DEF ps
  <2> QED BY <1>1, <2>1 DEF DeleteTenantPrinters, DropPrinters, Delete, TablesTypeOK
<1> HIDE DEF f
<1>3. /\ g.channels = [c \in cs |-> d.channels[c]]
      /\ g.locs = [k \in ls |-> d.locs[k]]
      /\ g.next = f.next /\ g.tenants = f.tenants /\ g.printers = f.printers
      /\ g \in [tenants : {g.tenants}, locs : {g.locs}, printers : {g.printers}, channels : {g.channels},
                ops : {g.ops}, tokens : {g.tokens}, opLocs : {g.opLocs}, ipLog : {g.ipLog}, next : {g.next}]
  <2>1. DOMAIN f.channels \ Select(f, "channels", LAMBDA r : f.locs[r.loc].tenant = t) = cs
    BY <1>2 DEF Select
  <2>2. DOMAIN f.locs \ ListLocationsByTenant(f, t) = ls
    BY <1>2 DEF Select, ListLocationsByTenant
  <2> HIDE DEF cs, ls
  <2> QED BY <1>2, <2>1, <2>2 DEF DeleteTenantLocations, Delete
<1> HIDE DEF g
<1>4. /\ e.tenants = [k \in DOMAIN g.tenants \ {t} |-> g.tenants[k]]
      /\ e.next = g.next /\ e.locs = g.locs /\ e.printers = g.printers /\ e.channels = g.channels
      /\ e \in [tenants : {e.tenants}, locs : {e.locs}, printers : {e.printers}, channels : {e.channels},
                ops : {e.ops}, tokens : {e.tokens}, opLocs : {e.opLocs}, ipLog : {e.ipLog}, next : {e.next}]
  BY <1>3 DEF DeleteTenant, Delete
<1> HIDE DEF e, ps, cs, ls
<1>5. /\ e.printers = [p \in ps |-> d.printers[p]] /\ e.channels = [c \in cs |-> d.channels[c]]
      /\ e.locs = [k \in ls |-> d.locs[k]] /\ e.tenants = [k \in DOMAIN d.tenants \ {t} |-> d.tenants[k]]
      /\ e.next = d.next
  BY <1>2, <1>3, <1>4
<1> USE DEF ps, cs, ls
<1>6. TablesTypeOK(e)
  <2>1. e.printers \in [DOMAIN e.printers -> PrinterRow] /\ DOMAIN e.printers \subseteq 0..e.next - 1
    <3>1. ps \in SUBSET DOMAIN d.printers OBVIOUS
    <3> HIDE DEF ps, cs, ls
    <3>2. d.printers \in [DOMAIN d.printers -> PrinterRow] /\ DOMAIN d.printers \subseteq 0..d.next - 1 BY <1>1 DEF TablesTypeOK
    <3>3. e.printers \in [ps -> PrinterRow] BY <1>5, <3>1, <3>2
    <3>4. DOMAIN e.printers = ps /\ e.next = d.next BY <1>5
    <3> QED BY <3>1, <3>2, <3>3, <3>4
  <2>2. e.locs \in [DOMAIN e.locs -> LocRow] /\ DOMAIN e.locs \subseteq 0..e.next - 1
    <3>1. ls \in SUBSET DOMAIN d.locs OBVIOUS
    <3> HIDE DEF ps, cs, ls
    <3>2. d.locs \in [DOMAIN d.locs -> LocRow] /\ DOMAIN d.locs \subseteq 0..d.next - 1 BY <1>1 DEF TablesTypeOK
    <3>3. e.locs \in [ls -> LocRow] BY <1>5, <3>1, <3>2
    <3>4. DOMAIN e.locs = ls /\ e.next = d.next BY <1>5
    <3> QED BY <3>1, <3>2, <3>3, <3>4
  <2>3. e.channels \in [DOMAIN e.channels -> ChannelRow] /\ DOMAIN e.channels \subseteq 0..e.next - 1
    <3>1. cs \in SUBSET DOMAIN d.channels OBVIOUS
    <3> HIDE DEF ps, cs, ls
    <3>2. d.channels \in [DOMAIN d.channels -> ChannelRow] /\ DOMAIN d.channels \subseteq 0..d.next - 1 BY <1>1 DEF TablesTypeOK
    <3>3. e.channels \in [cs -> ChannelRow] BY <1>5, <3>1, <3>2
    <3>4. DOMAIN e.channels = cs /\ e.next = d.next BY <1>5
    <3> QED BY <3>1, <3>2, <3>3, <3>4
  <2>4. e.tenants \in [DOMAIN e.tenants -> TenantRow] /\ DOMAIN e.tenants \subseteq 0..e.next - 1
    <3> HIDE DEF ps, cs, ls
    <3>1. d.tenants \in [DOMAIN d.tenants -> TenantRow] /\ DOMAIN d.tenants \subseteq 0..d.next - 1 BY <1>1 DEF TablesTypeOK
    <3>2. e.tenants \in [DOMAIN d.tenants \ {t} -> TenantRow] BY <1>5, <3>1
    <3>3. DOMAIN e.tenants = DOMAIN d.tenants \ {t} /\ e.next = d.next BY <1>5
    <3> QED BY <3>1, <3>2, <3>3
  <2> QED BY <1>1, <1>4, <1>5, <2>1, <2>2, <2>3, <2>4 DEF TablesTypeOK
<1>7. \A p \in DOMAIN e.printers : /\ p \in DOMAIN d.printers /\ e.printers[p] = d.printers[p]
                                    /\ d.locs[d.printers[p].loc].tenant # t
  BY <1>5
<1>8. /\ \A k \in DOMAIN e.locs : k \in DOMAIN d.locs /\ e.locs[k] = d.locs[k] /\ d.locs[k].tenant # t
      /\ \A k \in DOMAIN d.locs : d.locs[k].tenant # t => k \in DOMAIN e.locs
  BY <1>5
<1>9. \A c \in DOMAIN e.channels : c \in DOMAIN d.channels /\ e.channels[c] = d.channels[c] BY <1>5
<1>10. \A k \in DOMAIN d.tenants : k # t => k \in DOMAIN e.tenants BY <1>5
<1> HIDE DEF ps, cs, ls
<1>11. RefsOK(e)
  <2>1. \A k \in DOMAIN e.locs : e.locs[k].tenant \in DOMAIN e.tenants BY <1>8, <1>10 DEF Good, RefsOK
  <2>2. \A k, j \in DOMAIN e.locs : e.locs[k].tenant = e.locs[j].tenant => k = j BY <1>8 DEF Good, RefsOK
  <2>3. ASSUME NEW p \in DOMAIN e.printers PROVE e.printers[p].loc \in DOMAIN e.locs
    <3>1. d.printers[p].loc \in DOMAIN d.locs BY <1>7 DEF Good, RefsOK
    <3>2. e.printers[p] = d.printers[p] /\ d.locs[d.printers[p].loc].tenant # t BY <1>7
    <3>3. d.printers[p].loc \in ls BY <3>1, <3>2 DEF ls
    <3>4. DOMAIN e.locs = ls BY <1>5
    <3> QED BY <3>2, <3>3, <3>4
  <2> QED BY <2>1, <2>2, <2>3 DEF RefsOK
<1>12. ChannelsOK(e) BY <1>9 DEF Good, ChannelsOK
<1>13. d.next <= e.next BY <1>1, <1>5
<1>14. Follows(d, e) BY <1>7, <1>9, <1>13 DEF Follows
<1> USE DEF ps, cs, ls
<1>15. ASSUME NEW k \in DOMAIN e.locs PROVE k \in DOMAIN d.locs /\ SameShop(d, e, k)
  <2>1. k \in DOMAIN d.locs /\ e.locs[k] = d.locs[k] /\ d.locs[k].tenant # t BY <1>5
  <2>2. d.locs[k].tenant \in DOMAIN d.tenants BY <2>1 DEF Good, RefsOK
  <2>3. HeadOf(e, k) = HeadOf(d, k)
    <3> HIDE DEF ps, cs, ls
    <3>1. PICK u : u = d.locs[k].tenant OBVIOUS
    <3>2. u \in DOMAIN d.tenants /\ u # t BY <2>1, <2>2, <3>1
    <3>3. e.tenants[u] = d.tenants[u] BY <1>5, <3>2
    <3> QED BY <2>1, <3>1, <3>3 DEF HeadOf
  <2>4. \A p : p \in DOMAIN d.printers /\ d.printers[p].loc = k => p \in DOMAIN e.printers BY <1>5, <2>1
  <2>5. \A p : p \in ListPrintersByLocation(e, k) <=> p \in ListPrintersByLocation(d, k)
    BY <1>5, <2>4 DEF ListPrintersByLocation, Select
  <2>6. \A p \in ListPrintersByLocation(d, k) : e.printers[p] = d.printers[p]
    BY <1>5, <2>5 DEF ListPrintersByLocation, Select
  <2> QED BY <2>1, <2>3, <2>5, <2>6 DEF SameShop
<1>16. NoNewDoor(d, e) BY <1>5 DEF NoNewDoor
<1>17. Elsewhere(d, e, l) BY <1>15 DEF Elsewhere
<1> QED BY <1>6, <1>11, <1>12, <1>14, <1>15, <1>16, <1>17 DEF Kept, Good, e, g, f

(* The statements about channels and operators: they leave tenants,          *)
(* locations and printers alone.                                             *)
LEMMA OperatorsWritten ==
  ASSUME NEW d, Good(d), NEW e, SameStores(d, e), e.channels = d.channels, e.next \in Nat, d.next <= e.next,
         Shaped(e),
         NEW l
  PROVE  Kept(d, e, l)
<1>1. TablesTypeOK(d) BY DEF Good
<1>2. 0..d.next - 1 \subseteq 0..e.next - 1 BY <1>1 DEF TablesTypeOK
<1>3. TablesTypeOK(e) BY <1>1, <1>2 DEF TablesTypeOK, SameStores, Shaped
<1> QED BY <1>3, DoorsWritten DEF SameStores

(* The statements about operators, their stores and their tokens.            *)
LEMMA OperatorStatements ==
  ASSUME NEW d, Good(d), NEW o, NEW v, NEW w, NEW ls, NEW user, NEW token, NEW l,
         NEW e \in {CreateOperator(d, user), UpdateOperatorProfile(d, o, v), DeleteOperator(d, o),
                    RevokeAllOperatorTokens(d, o), RevokeOperatorToken(d, token), CreateOperatorToken(d, o, v, w),
                    AddOperatorLocations(DeleteOperatorLocations(d, o), o, ls)}
  PROVE  Kept(d, e, l) /\ SameStores(d, e)
<1>1. TablesTypeOK(d) /\ d.next \in Nat BY DEF Good, TablesTypeOK
<1>2. /\ SameStores(d, e) /\ e.channels = d.channels /\ e.next \in Nat /\ d.next <= e.next
      /\ Shaped(e)
  <2>1. CASE e = CreateOperator(d, user)
    <3> DEFINE f == CreateOperator(d, user)
    <3>1. f.next = d.next + 1 /\ f.channels = d.channels /\ SameStores(d, f) /\ Shaped(f)
      BY <1>1 DEF CreateOperator, Insert, TablesTypeOK, SameStores, Shaped
    <3> HIDE DEF f
    <3> QED BY <1>1, <2>1, <3>1 DEF f
  <2>2. CASE e = UpdateOperatorProfile(d, o, v)
    <3> DEFINE f == UpdateOperatorProfile(d, o, v)
    <3>1. f.next = d.next /\ f.channels = d.channels /\ SameStores(d, f) /\ Shaped(f)
      BY <1>1 DEF UpdateOperatorProfile, Update, TablesTypeOK, SameStores, Shaped
    <3> HIDE DEF f
    <3> QED BY <1>1, <2>2, <3>1 DEF f
  <2>3. CASE e = DeleteOperator(d, o)
    <3> DEFINE f == DeleteOperator(d, o)
    <3>1. f.next = d.next /\ f.channels = d.channels /\ SameStores(d, f) /\ Shaped(f)
      BY <1>1 DEF DeleteOperator, Delete, TablesTypeOK, SameStores, Shaped
    <3> HIDE DEF f
    <3> QED BY <1>1, <2>3, <3>1 DEF f
  <2>4. CASE e = RevokeAllOperatorTokens(d, o)
    <3> DEFINE f == RevokeAllOperatorTokens(d, o)
    <3>1. f.next = d.next /\ f.channels = d.channels /\ SameStores(d, f) /\ Shaped(f)
      BY <1>1 DEF RevokeAllOperatorTokens, TablesTypeOK, SameStores, Shaped
    <3> HIDE DEF f
    <3> QED BY <1>1, <2>4, <3>1 DEF f
  <2>5. CASE e = RevokeOperatorToken(d, token)
    <3> DEFINE f == RevokeOperatorToken(d, token)
    <3>1. f.next = d.next /\ f.channels = d.channels /\ SameStores(d, f) /\ Shaped(f)
      BY <1>1 DEF RevokeOperatorToken, Update, TablesTypeOK, SameStores, Shaped
    <3> HIDE DEF f
    <3> QED BY <1>1, <2>5, <3>1 DEF f
  <2>6. CASE e = CreateOperatorToken(d, o, v, w)
    <3> DEFINE f == CreateOperatorToken(d, o, v, w)
    <3>1. f.next = d.next + 1 /\ f.channels = d.channels /\ SameStores(d, f) /\ Shaped(f)
      BY <1>1 DEF CreateOperatorToken, Insert, TablesTypeOK, SameStores, Shaped
    <3> HIDE DEF f
    <3> QED BY <1>1, <2>6, <3>1 DEF f
  <2>7. CASE e = AddOperatorLocations(DeleteOperatorLocations(d, o), o, ls)
    <3> DEFINE f == AddOperatorLocations(DeleteOperatorLocations(d, o), o, ls)
    <3>1. f.next = d.next /\ f.channels = d.channels /\ SameStores(d, f) /\ Shaped(f)
      BY <1>1 DEF AddOperatorLocations, DeleteOperatorLocations, TablesTypeOK, SameStores, Shaped
    <3> HIDE DEF f
    <3> QED BY <1>1, <2>7, <3>1 DEF f
  <2> QED BY <2>1, <2>2, <2>3, <2>4, <2>5, <2>6, <2>7
<1> QED BY <1>2, OperatorsWritten

(* A channel's row; a built-in one keeps having no key.                      *)
LEMMA ChannelRowWritten ==
  ASSUME NEW d, Good(d), NEW c \in DOMAIN d.channels, NEW row \in ChannelRow,
         row.loc = d.channels[c].loc, row.kind = d.channels[c].kind, row.builtin = d.channels[c].builtin,
         row.builtin => row.key = d.channels[c].key,
         NEW e, SameStores(d, e), e.channels = [d.channels EXCEPT ![c] = row], e.next \in Nat, d.next <= e.next, Shaped(e),
         NEW l
  PROVE  Kept(d, e, l)
<1>1. TablesTypeOK(d) /\ d.next \in Nat BY DEF Good, TablesTypeOK
<1>2. DOMAIN e.channels = DOMAIN d.channels /\ e.channels[c] = row /\ \A b \in DOMAIN d.channels \ {c} : e.channels[b] = d.channels[b]
  BY <1>1 DEF TablesTypeOK
<1>3. e.channels \in [DOMAIN e.channels -> ChannelRow] BY <1>1 DEF TablesTypeOK
<1>4. 0..d.next - 1 \subseteq 0..e.next - 1 BY <1>1
<1>5. TablesTypeOK(e) BY <1>1, <1>2, <1>3, <1>4 DEF TablesTypeOK, SameStores, Shaped
<1>6. \A b \in DOMAIN e.channels :
         /\ b \in DOMAIN d.channels
         /\ e.channels[b].loc = d.channels[b].loc /\ e.channels[b].kind = d.channels[b].kind
         /\ e.channels[b].builtin = d.channels[b].builtin
         /\ e.channels[b].builtin => e.channels[b].key = d.channels[b].key
  BY <1>2
<1> QED BY <1>5, <1>6, DoorsWritten DEF SameStores

(* A channel is renamed and its view set.                                    *)
LEMMA ChannelEdited ==
  ASSUME NEW d, Good(d), NEW c \in DOMAIN d.channels, NEW v \in Values, NEW l
  PROVE  LET e == SetChannelView(UpdateChannel(d, c, v), c, v) IN Kept(d, e, l) /\ SameStores(d, e)
<1> DEFINE r == d.channels[c]
           row == [r EXCEPT !.name = v, !.view = v]
           f == UpdateChannel(d, c, v)
           e == SetChannelView(f, c, v)
<1>1. TablesTypeOK(d) /\ d.next \in Nat BY DEF Good, TablesTypeOK
<1>2. r \in ChannelRow BY <1>1 DEF TablesTypeOK
<1>3. row \in ChannelRow /\ row.loc = r.loc /\ row.kind = r.kind /\ row.builtin = r.builtin /\ row.key = r.key
  BY <1>2 DEF ChannelRow, Maybe
<1>4. /\ f.channels = [d.channels EXCEPT ![c] = [r EXCEPT !.name = v]] /\ SameStores(d, f) /\ f.next = d.next /\ Shaped(f)
  BY <1>1 DEF UpdateChannel, Update, TablesTypeOK, SameStores, Shaped
<1> HIDE DEF f
<1>5. c \in DOMAIN f.channels /\ f.channels[c] = [r EXCEPT !.name = v] BY <1>1, <1>4 DEF TablesTypeOK
<1>6. /\ e.channels = [f.channels EXCEPT ![c] = [f.channels[c] EXCEPT !.view = v]]
      /\ SameStores(f, e) /\ e.next = f.next /\ Shaped(e)
  BY <1>4, <1>5 DEF SetChannelView, Update, SameStores, Shaped
<1>7. [f.channels[c] EXCEPT !.view = v] = row BY <1>2, <1>5 DEF ChannelRow
<1> HIDE DEF e, row
<1>8. e.channels = [d.channels EXCEPT ![c] = row] BY <1>4, <1>6, <1>7
<1>9. SameStores(d, e) BY <1>4, <1>6 DEF SameStores
<1>10. e.next = d.next /\ d.next <= e.next BY <1>1, <1>4, <1>6
<1> QED BY <1>1, <1>3, <1>6, <1>8, <1>9, <1>10, ChannelRowWritten DEF e, f

(* A channel is revoked.                                                     *)
LEMMA ChannelRevoked ==
  ASSUME NEW d, Good(d), NEW c \in DOMAIN d.channels, NEW l
  PROVE  LET e == RevokeChannel(d, c) IN Kept(d, e, l) /\ SameStores(d, e)
<1> DEFINE r == d.channels[c]
           row == [r EXCEPT !.revoked = TRUE]
           e == RevokeChannel(d, c)
<1>1. TablesTypeOK(d) /\ d.next \in Nat BY DEF Good, TablesTypeOK
<1>2. r \in ChannelRow BY <1>1 DEF TablesTypeOK
<1>3. row \in ChannelRow /\ row.loc = r.loc /\ row.kind = r.kind /\ row.builtin = r.builtin /\ row.key = r.key
  BY <1>2 DEF ChannelRow
<1>4. e.channels = [d.channels EXCEPT ![c] = row] /\ SameStores(d, e) /\ e.next = d.next /\ Shaped(e)
  BY <1>1 DEF RevokeChannel, Update, TablesTypeOK, SameStores, Shaped
<1> HIDE DEF row, e
<1>5. e.next \in Nat /\ d.next <= e.next BY <1>1, <1>4
<1> QED BY <1>3, <1>4, <1>5, ChannelRowWritten DEF e

(* A key is rotated; only a channel that is not built-in has one.            *)
LEMMA ChannelKeySet ==
  ASSUME NEW d, Good(d), NEW c \in DOMAIN d.channels, ~d.channels[c].builtin, NEW l
  PROVE  LET e == SetChannelKey(d, c) IN Kept(d, e, l) /\ SameStores(d, e)
<1> DEFINE r == d.channels[c]
           row == [r EXCEPT !.key = d.next, !.revoked = FALSE]
           e == SetChannelKey(d, c)
<1>1. TablesTypeOK(d) /\ d.next \in Nat BY DEF Good, TablesTypeOK
<1>2. r \in ChannelRow BY <1>1 DEF TablesTypeOK
<1>3. row \in ChannelRow /\ row.loc = r.loc /\ row.kind = r.kind /\ row.builtin = r.builtin
  BY <1>1, <1>2 DEF ChannelRow, Maybe
<1>4. e.channels = [d.channels EXCEPT ![c] = row] /\ SameStores(d, e) /\ e.next = d.next + 1 /\ Shaped(e)
  BY <1>1 DEF SetChannelKey, Update, TablesTypeOK, SameStores, Shaped
<1> HIDE DEF row, e
<1>5. e.next \in Nat /\ d.next <= e.next BY <1>1, <1>4
<1> QED BY <1>3, <1>4, <1>5, ChannelRowWritten DEF e

(* A channel goes.                                                           *)
LEMMA ChannelDeleted ==
  ASSUME NEW d, Good(d), NEW c, NEW l
  PROVE  LET e == DeleteChannel(d, c) IN Kept(d, e, l) /\ SameStores(d, e)
<1> DEFINE e == DeleteChannel(d, c)
<1>1. TablesTypeOK(d) /\ d.next \in Nat BY DEF Good, TablesTypeOK
<1>2. /\ e.channels = [b \in DOMAIN d.channels \ {c} |-> d.channels[b]]
      /\ SameStores(d, e) /\ e.next = d.next /\ Shaped(e)
  BY <1>1 DEF DeleteChannel, Delete, TablesTypeOK, SameStores, Shaped
<1> HIDE DEF e
<1>3. \A b \in DOMAIN e.channels : b \in DOMAIN d.channels /\ e.channels[b] = d.channels[b] BY <1>2
<1>4. e.channels \in [DOMAIN e.channels -> ChannelRow] /\ DOMAIN e.channels \subseteq 0..e.next - 1
  BY <1>1, <1>2 DEF TablesTypeOK
<1>5. TablesTypeOK(e) BY <1>1, <1>2, <1>4 DEF TablesTypeOK, SameStores, Shaped
<1>6. d.next <= e.next BY <1>1, <1>2
<1>7. Kept(d, e, l) BY <1>2, <1>3, <1>5, <1>6, DoorsWritten DEF SameStores
<1> QED BY <1>2, <1>7 DEF e

(* A new channel, with a key or built-in.                                    *)
LEMMA ChannelCreated ==
  ASSUME NEW d, Good(d), NEW k \in DOMAIN d.locs, NEW kind \in Kinds \cup {"operator", "vendor"}, NEW builtin \in BOOLEAN,
         builtin => BuiltinChannel(d, k, kind) = {},
         NEW l
  PROVE  LET e == CreateChannel(d, k, kind, builtin)
         IN  /\ Good(e) /\ Follows(d, e) /\ Elsewhere(d, e, l) /\ SameStores(d, e)
             /\ ~builtin => NoNewDoor(d, e)
             /\ e.next = d.next + 1 /\ d.next \in DOMAIN e.channels
             /\ LET r == e.channels[d.next] IN r.loc = k /\ r.kind = kind /\ r.builtin = builtin
<1> DEFINE row == [loc |-> k, kind |-> kind, builtin |-> builtin, name |-> NONE, view |-> NONE,
                   key |-> IF builtin THEN NONE ELSE d.next, revoked |-> FALSE]
           e == CreateChannel(d, k, kind, builtin)
<1>1. TablesTypeOK(d) /\ d.next \in Nat BY DEF Good, TablesTypeOK
<1>2. row \in ChannelRow /\ row.loc = k /\ row.kind = kind /\ row.builtin = builtin /\ (builtin => row.key = NONE)
  BY <1>1 DEF ChannelRow, Maybe, TablesTypeOK
<1>3. /\ e.channels = [b \in DOMAIN d.channels \cup {d.next} |-> IF b = d.next THEN row ELSE d.channels[b]]
      /\ SameStores(d, e) /\ e.next = d.next + 1 /\ Shaped(e)
  BY <1>1 DEF CreateChannel, Insert, TablesTypeOK, SameStores, Shaped
<1> HIDE DEF e, row
<1>4. /\ e.channels[d.next] = row /\ DOMAIN e.channels = DOMAIN d.channels \cup {d.next} /\ d.next \notin DOMAIN d.channels
      /\ \A b \in DOMAIN d.channels : e.channels[b] = d.channels[b]
  BY <1>1, <1>3 DEF TablesTypeOK
<1>5. e.channels \in [DOMAIN e.channels -> ChannelRow] BY <1>1, <1>2, <1>3 DEF TablesTypeOK
<1>6. DOMAIN e.channels \subseteq 0..e.next - 1 /\ 0..d.next - 1 \subseteq 0..e.next - 1 /\ e.next \in Nat
  BY <1>1, <1>3 DEF TablesTypeOK
<1>7. TablesTypeOK(e) BY <1>1, <1>3, <1>5, <1>6 DEF TablesTypeOK, SameStores, Shaped
<1>8. RefsOK(e) BY <1>3 DEF Good, RefsOK, SameStores
<1>9. ChannelsOK(e)
  <2>1. \A b \in DOMAIN e.channels : e.channels[b].builtin => e.channels[b].key = NONE
    BY <1>2, <1>4 DEF Good, ChannelsOK
  <2>2. ASSUME NEW b \in DOMAIN e.channels, NEW c \in DOMAIN e.channels, e.channels[b].builtin, e.channels[c].builtin,
               e.channels[b].loc = e.channels[c].loc, e.channels[b].kind = e.channels[c].kind
        PROVE  b = c
    <3>1. CASE b \in DOMAIN d.channels /\ c \in DOMAIN d.channels BY <1>4, <2>2, <3>1 DEF Good, ChannelsOK
    <3>2. CASE b \in DOMAIN d.channels /\ c = d.next
      <4>1. b \in BuiltinChannel(d, k, kind) BY <1>2, <1>4, <2>2, <3>2 DEF BuiltinChannel, Select
      <4> QED BY <1>2, <1>4, <2>2, <3>2, <4>1
    <3>3. CASE c \in DOMAIN d.channels /\ b = d.next
      <4>1. c \in BuiltinChannel(d, k, kind) BY <1>2, <1>4, <2>2, <3>3 DEF BuiltinChannel, Select
      <4> QED BY <1>2, <1>4, <2>2, <3>3, <4>1
    <3> QED BY <1>4, <3>1, <3>2, <3>3
  <2> QED BY <2>1, <2>2 DEF ChannelsOK
<1>10. Follows(d, e)
  <2>1. d.next <= e.next BY <1>1, <1>3
  <2>2. \A b \in DOMAIN e.channels : b >= d.next \/ (b \in DOMAIN d.channels /\ e.channels[b] = d.channels[b])
    BY <1>1, <1>4
  <2> QED BY <1>3, <2>1, <2>2 DEF Follows, SameStores
<1>11. \A j \in DOMAIN e.locs : j \in DOMAIN d.locs /\ SameShop(d, e, j)
  BY <1>3 DEF SameStores, SameShop, HeadOf, ListPrintersByLocation, Select
<1>12. Elsewhere(d, e, l) BY <1>11 DEF Elsewhere
<1>13. ~builtin => NoNewDoor(d, e) BY <1>2, <1>4 DEF NoNewDoor
<1> QED BY <1>2, <1>3, <1>4, <1>7, <1>8, <1>9, <1>10, <1>12, <1>13 DEF Good, e

-----------------------------------------------------------------------------
(* What a step does: call c goes on, and an idle job may be started.         *)

DoorStages == {"cached", "lookup", "create"}

Acts(c) ==
    /\ call' = [k \in Doing |-> call'[k]]
    /\ \A k \in Doing : k = c \/ call'[k] = call[k] \/ (call[k] = Idle /\ call'[k].at \in {"idle", "geocode"})

(* Only location l may be excused no longer.                                 *)
ExcusesStand(l) == bare \ {l} \subseteq bare' /\ unsent \ {l} \subseteq unsent'

(* A call that goes on to s acts, and no other call does.                    *)
LEMMA GoActs ==
  ASSUME CallsTypeOK, NEW c \in Doing, NEW s, Go(c, s)
  PROVE  Acts(c) /\ call'[c] = s
BY DEF CallsTypeOK, Go, Acts

(* The calls that do not act keep their types.                               *)
LEMMA CallsKept ==
  ASSUME TablesTypeOK(db), TablesTypeOK(db'), CallsTypeOK, Follows(db, db'), NEW c \in Doing, Acts(c), CallTypeOK(c)'
  PROVE  CallsTypeOK'
<1>1. ASSUME NEW k \in Doing PROVE CallTypeOK(k)'
  <2>1. CASE k = c BY <2>1
  <2>2. CASE call'[k] = call[k]
    <3>1. CallTypeOK(k) BY DEF CallsTypeOK
    <3>2. ASSUME NEW p, NEW l, PrinterAt(p, l) PROVE PrinterAt(p, l)'
      <4>1. db.next \in Nat /\ db'.next \in Nat /\ db.next <= db'.next BY DEF TablesTypeOK, Follows
      <4>2. p \in 0..db'.next - 1 /\ ~(p >= db.next) BY <3>2, <4>1 DEF PrinterAt
      <4> QED BY <3>2, <4>2 DEF PrinterAt, Follows
    <3> QED BY <2>2, <3>1, <3>2 DEF CallTypeOK
  <2>3. CASE call'[k].at \in {"idle", "geocode"} BY <2>3 DEF CallTypeOK
  <2> QED BY <2>1, <2>2, <2>3 DEF Acts
<1> QED BY <1>1 DEF CallsTypeOK, Acts

(* A location that a step leaves alone keeps the call that will push it.     *)
LEMMA PusherKept ==
  ASSUME CallsTypeOK, NEW c \in Doing, Acts(c), NEW k \in Doing, k # c, NEW l,
         WillPush(k, l), HeadOf(db', l) = HeadOf(db, l), RosterOf(db', l) = RosterOf(db, l),
         ListPrintersByLocation(db', l) = ListPrintersByLocation(db, l)
  PROVE  WillPush(k, l)'
<1>1. call'[k] = call[k] BY DEF WillPush, PushStages, Acts, Idle
<1>2. ASSUME call[k].at \in {"flag", "log"}, call[k].printer \in DOMAIN db.printers
      PROVE  call[k].printer \in DOMAIN db'.printers
  <2>1. PrinterAt(call[k].printer, l) BY <1>2 DEF CallsTypeOK, CallTypeOK, WillPush
  <2>2. call[k].printer \in ListPrintersByLocation(db, l) BY <1>2, <2>1 DEF PrinterAt, ListPrintersByLocation, Select
  <2>3. call[k].printer \in ListPrintersByLocation(db', l) BY <2>2
  <2> QED BY <2>3 DEF ListPrintersByLocation, Select
<1>3. Config(db', l) = Config(db, l) BY DEF Config
<1> QED BY <1>1, <1>2, <1>3 DEF WillPush

(* A step of a call that leaves the tables alone keeps the others' pushes.   *)
LEMMA OtherPusherKept ==
  ASSUME OfficeInv, NEW c \in Doing, Acts(c), UNCHANGED db, NEW l \in untold, l \notin unsent, ~WillPush(c, l)
  PROVE  \E k \in Doing : WillPush(k, l)'
<1>1. PICK k \in Doing : WillPush(k, l) BY DEF OfficeInv, UntoldWillBePushed
<1>2. WillPush(k, l)' BY <1>1, PusherKept DEF OfficeInv
<1> QED BY <1>2

(* Stores and the calls about them: call c works on location l, and what is  *)
(* left to show is about l.                                                  *)
LEMMA StoresKept ==
  ASSUME OfficeInv, NEW c \in Doing, NEW l,
         Good(db'), Follows(db, db'), Elsewhere(db, db', l),
         Acts(c), CallTypeOK(c)', call[c].at \in PushStages => call[c].loc = l,
         ExcusesStand(l),
         untold' \subseteq DOMAIN db'.locs, untold' \subseteq untold \cup {l},
         l \notin unsent' /\ l \in untold' => \E k \in Doing : WillPush(k, l)',
         l \notin bare' /\ l \in DOMAIN db'.locs => HandedOn(l)'
  PROVE  CallsTypeOK' /\ ReceiptHandedOn' /\ UntoldWillBePushed'
<1>1. CallsTypeOK' BY CallsKept DEF OfficeInv, Good
<1>2. ASSUME NEW k \in DOMAIN db'.locs, k # l, k \notin bare'
      PROVE  HandedOn(k)'
  <2>1. CASE k \notin DOMAIN db.locs BY <1>2, <2>1 DEF Elsewhere, HandedOn
  <2>2. CASE k \in DOMAIN db.locs
    <3>1. SameShop(db, db', k) BY <1>2, <2>2 DEF Elsewhere
    <3>2. Flagged(db', k) <=> Flagged(db, k) BY <3>1, SameShopSameConfig
    <3>3. ListPrintersByLocation(db', k) = ListPrintersByLocation(db, k) BY <3>1 DEF SameShop
    <3>4. ASSUME NEW x \in Callers, call[x].at \in ReceiptStages, call[x].loc = k
          PROVE  call'[x].at \in ReceiptStages /\ call'[x].loc = k
      <4>1. x # c BY <1>2, <3>4 DEF PushStages, ReceiptStages
      <4>2. call'[x] = call[x] BY <3>4, <4>1 DEF Acts, Doing, Idle, ReceiptStages
      <4> QED BY <3>4, <4>2
    <3>5. HandedOn(k) BY <1>2, <2>2 DEF OfficeInv, ReceiptHandedOn, ExcusesStand
    <3> QED BY <3>2, <3>3, <3>4, <3>5 DEF HandedOn
  <2> QED BY <2>1, <2>2
<1>3. ReceiptHandedOn' BY <1>2 DEF ReceiptHandedOn
<1>4. ASSUME NEW k \in untold', k \notin unsent', k # l PROVE \E x \in Doing : WillPush(x, k)'
  <2>1. k \in untold /\ k \in DOMAIN db.locs /\ k \in DOMAIN db'.locs /\ k \notin unsent
    BY <1>4 DEF OfficeInv, UntoldWillBePushed, ExcusesStand
  <2>2. PICK x \in Doing : WillPush(x, k) BY <2>1 DEF OfficeInv, UntoldWillBePushed
  <2>3. x # c BY <1>4, <2>2 DEF WillPush
  <2>4. SameShop(db, db', k) BY <1>4, <2>1 DEF Elsewhere
  <2>5. RosterOf(db', k) = RosterOf(db, k) BY <2>4 DEF SameShop, RosterOf
  <2>6. WillPush(x, k)' BY <2>2, <2>3, <2>4, <2>5, PusherKept DEF OfficeInv, SameShop
  <2> QED BY <2>6
<1>5. UntoldWillBePushed' BY <1>4 DEF UntoldWillBePushed
<1> QED BY <1>1, <1>3, <1>5

(* A cached door stays what it was while its row is there.                   *)
LEMMA DoorKept ==
  ASSUME TablesTypeOK(db), TablesTypeOK(db'), Follows(db, db'), NEW ch, NEW k, IsDoorOf(ch, k)
  PROVE  IsDoorOf(ch, k)'
<1>1. db.next \in Nat /\ db'.next \in Nat /\ db.next <= db'.next BY DEF TablesTypeOK, Follows
<1>2. ch \in 0..db'.next - 1 /\ ~(ch >= db.next) BY <1>1 DEF IsDoorOf
<1>3. ASSUME ch \in DOMAIN db'.channels
      PROVE  LET r == db'.channels[ch] IN r.builtin /\ k = <<r.loc, r.kind>>
  <2>1. /\ ch \in DOMAIN db.channels
        /\ LET r == db.channels[ch]  q == db'.channels[ch]
           IN  q.loc = r.loc /\ q.kind = r.kind /\ q.builtin = r.builtin
    BY <1>2, <1>3 DEF Follows
  <2> QED BY <2>1 DEF IsDoorOf
<1> QED BY <1>2, <1>3 DEF IsDoorOf

(* The doors: a call that is not at one leaves them as they are.             *)
LEMMA DoorsKept ==
  ASSUME OfficeInv, NEW c \in Doing, Good(db'), Follows(db, db'), NoNewDoor(db, db'),
         Acts(c), call'[c].at \notin DoorStages,
         mu' = mu \/ Unlock(c), UNCHANGED builtins
  PROVE  OneAtTheDoor' /\ NoneYet' /\ CacheIsTrue'
<1>1. ASSUME NEW k \in Doing, call'[k].at \in DoorStages PROVE k # c /\ call'[k] = call[k]
  BY <1>1 DEF Acts, DoorStages
<1>2. OneAtTheDoor'
  <2>1. ASSUME NEW k \in Doing, call'[k].at \in DoorStages PROVE mu' = k
    <3>1. k # c /\ call'[k] = call[k] BY <1>1, <2>1
    <3>2. mu = k BY <2>1, <3>1 DEF OfficeInv, OneAtTheDoor, DoorStages
    <3> QED BY <3>1, <3>2 DEF Unlock
  <2> QED BY <2>1 DEF OneAtTheDoor, DoorStages
<1>3. ASSUME NEW l, NEW kind, BuiltinChannel(db, l, kind) = {} PROVE BuiltinChannel(db', l, kind) = {}
  <2>1. \A ch \in DOMAIN db'.channels : db'.channels[ch].builtin =>
           /\ ch \in DOMAIN db.channels
           /\ db.channels[ch].builtin /\ db.channels[ch].loc = db'.channels[ch].loc /\ db.channels[ch].kind = db'.channels[ch].kind
    BY DEF Follows, NoNewDoor, OfficeInv, TablesTypeOK
  <2> QED BY <1>3, <2>1 DEF BuiltinChannel, Select
<1>4. NoneYet' BY <1>1, <1>3 DEF OfficeInv, NoneYet, DoorStages
<1>5. CacheIsTrue' BY DoorKept DEF CacheIsTrue, OfficeInv, Good
<1> QED BY <1>2, <1>4, <1>5

(* The limiters' windows are left alone by all but sign-ins.                 *)
LEMMA StoreStep ==
  ASSUME OfficeInv, NEW c \in Doing, NEW l, Kept(db, db', l),
         Acts(c), CallTypeOK(c)', call[c].at \in PushStages => call[c].loc = l, call'[c].at \notin DoorStages,
         UNCHANGED <<accessVars, now>>, ExcusesStand(l),
         untold' \subseteq DOMAIN db'.locs, untold' \subseteq untold \cup {l},
         l \notin unsent' /\ l \in untold' => \E k \in Doing : WillPush(k, l)',
         l \notin bare' /\ l \in DOMAIN db'.locs => HandedOn(l)'
  PROVE  OfficeInv'
<1>1. CallsTypeOK' /\ ReceiptHandedOn' /\ UntoldWillBePushed' BY StoresKept DEF Kept
<1>2. mu' = mu /\ UNCHANGED <<builtins, admitted, hits>> BY DEF accessVars
<1>3. OneAtTheDoor' /\ NoneYet' /\ CacheIsTrue' BY <1>2, DoorsKept DEF Kept
<1>5. RightDoor' BY <1>2 DEF OfficeInv, RightDoor
<1>4. HitsInOrder' BY <1>2 DEF OfficeInv, HitsInOrder, WindowsInOrder
<1> QED BY <1>1, <1>3, <1>4, <1>5 DEF OfficeInv, Kept, Good

(* A statement about l leaves only l to be told.                             *)
LEMMA WriteUntold ==
  ASSUME OfficeInv, NEW d, NEW l, Kept(db, d, l), Write(d)
  PROVE  db' = d /\ untold' \subseteq DOMAIN db'.locs /\ untold' \subseteq untold \cup {l}
<1>1. db' = d /\ untold' = {k \in DOMAIN d.locs : k \in untold \/ (k \in DOMAIN db.locs /\ Config(d, k) # Config(db, k))}
  BY DEF Write
<1>2. ASSUME NEW k \in DOMAIN d.locs, k \in DOMAIN db.locs, Config(d, k) # Config(db, k) PROVE k = l
  BY <1>2, SameShopSameConfig DEF Kept, Elsewhere
<1> QED BY <1>1, <1>2

(* The receipt printer of a location stays handed on when a call that is not *)
(* about it leaves its flag and adds no printer.                             *)
LEMMA HandedStill ==
  ASSUME OfficeInv, NEW c \in Doing, NEW l \in DOMAIN db.locs, Acts(c), call[c].at \notin ReceiptStages,
         l \notin bare,
         ListPrintersByLocation(db, l) = {} => ListPrintersByLocation(db', l) = {},
         Flagged(db, l) => Flagged(db', l)
  PROVE  HandedOn(l)'
<1>1. HandedOn(l) BY DEF OfficeInv, ReceiptHandedOn
<1>2. ASSUME NEW k \in Callers, call[k].at \in ReceiptStages PROVE call'[k] = call[k]
  BY <1>2 DEF Acts, Doing, Idle, ReceiptStages
<1> QED BY <1>1, <1>2 DEF HandedOn

(* A step that neither writes nor is about a push or a receipt printer.      *)
LEMMA QuietStep ==
  ASSUME OfficeInv, NEW c \in Doing, Acts(c), CallTypeOK(c)',
         call[c].at \notin PushStages, call'[c].at \notin DoorStages,
         UNCHANGED <<db, untold, unsent, bare, accessVars, now>>
  PROVE  OfficeInv'
<1>1. Kept(db, db', NONE) BY NothingWritten DEF OfficeInv, Good
<1>2. NONE \notin DOMAIN db.locs BY OfficeAssumption DEF OfficeInv, TablesTypeOK
<1>3. untold \subseteq DOMAIN db.locs BY DEF OfficeInv, UntoldWillBePushed
<1>4. ExcusesStand(NONE) BY DEF ExcusesStand
<1> QED BY <1>1, <1>2, <1>3, <1>4, StoreStep

-----------------------------------------------------------------------------
(* The first of some naturals.                                               *)
LEMMA LeastExists ==
  ASSUME NEW S \in SUBSET Nat, S # {}
  PROVE  \E m \in S : \A y \in S : m <= y
<1>1. PICK t \in S : \A u \in S : ~(<<u, t>> \in OpToRel(<, Nat))
  BY NatLessThanWellFounded, WFMin
<1>2. \A y \in S : t <= y
  <2>1. SUFFICES ASSUME NEW y \in S, ~(t <= y) PROVE FALSE OBVIOUS
  <2>2. y < t /\ y \in Nat /\ t \in Nat BY <2>1
  <2> QED BY <1>1, <2>2 DEF OpToRel
<1> QED BY <1>2

(* Min is the least member.                                                  *)
LEMMA MinIsLeast ==
  ASSUME NEW S \in SUBSET Nat, S # {}
  PROVE  Min(S) \in S /\ \A y \in S : Min(S) <= y
BY LeastExists DEF Min

(* The first printer by name is one of the printers.                         *)
LEMMA FirstByNameIsOne ==
  ASSUME TablesTypeOK(db), NEW ps \in SUBSET DOMAIN db.printers, ps # {}
  PROVE  FirstByName(ps) \in ps
<1> DEFINE names == {db.printers[p].name : p \in ps}
<1>1. \A p \in ps : db.printers[p].name \in Nat BY OfficeAssumption DEF TablesTypeOK, PrinterRow
<1>2. names \in SUBSET Nat /\ names # {} BY <1>1
<1>3. PICK m \in names : \A n \in names : m <= n BY <1>2, LeastExists
<1>4. \E p \in ps : \A q \in ps : db.printers[p].name <= db.printers[q].name BY <1>3
<1> HIDE DEF names
<1> QED BY <1>4 DEF FirstByName

(* Each action of StoreAdmin keeps the invariant.  First the push: a step    *)
(* that writes nothing and leaves the location its receipt printer.          *)
LEMMA ReadStep ==
  ASSUME OfficeInv, NEW c \in Doing, NEW l, UNCHANGED <<db, accessVars, now, bare>>, unsent \ {l} \subseteq unsent',
         Acts(c), CallTypeOK(c)', call[c].loc = l, call[c].at \notin ReceiptStages, call'[c].at \notin DoorStages,
         untold' \subseteq untold,
         l \notin unsent' /\ l \in untold' => \E k \in Doing : WillPush(k, l)'
  PROVE  OfficeInv'
<1>1. Kept(db, db', l) BY NothingWritten DEF OfficeInv, Good
<1>2. untold' \subseteq DOMAIN db'.locs BY DEF OfficeInv, UntoldWillBePushed
<1>3. ASSUME l \notin bare', l \in DOMAIN db'.locs PROVE HandedOn(l)' BY <1>3, HandedStill
<1>4. ExcusesStand(l) BY DEF ExcusesStand
<1> QED BY <1>1, <1>2, <1>3, <1>4, StoreStep

LEMMA LoadConfigKeeps ==
  ASSUME OfficeInv, NEW c \in Doing, LoadConfig(c), UNCHANGED accessVars
  PROVE  OfficeInv'
<1> PICK l : l = call[c].loc OBVIOUS
<1> DEFINE readBack == call[c].own # NONE => GetPrinterByID(db, call[c].own)
           s == IF readBack /\ GetLocationByID(db, l)
                THEN [at |-> "roster", loc |-> l, geocode |-> call[c].geocode, head |-> HeadOf(db, l)] ELSE Idle
<1>1. /\ call[c].at = "load" /\ Go(c, s) /\ unsent' = (IF readBack THEN unsent ELSE unsent \cup {l})
      /\ UNCHANGED <<db, untold, bare, now>>
  BY DEF LoadConfig, Step, Quiet
<1>2. Acts(c) /\ call'[c] = s BY <1>1, GoActs DEF OfficeInv
<1>3. s.at \in {"roster", "idle"} BY DEF Idle
<1> HIDE DEF s
<1>4. CallTypeOK(c)' BY <1>2, <1>3 DEF CallTypeOK
<1>5. ASSUME l \notin unsent', l \in untold' PROVE \E k \in Doing : WillPush(k, l)'
  <2>1. l \in DOMAIN db.locs BY <1>1, <1>5 DEF OfficeInv, UntoldWillBePushed
  <2>2. s = [at |-> "roster", loc |-> l, geocode |-> call[c].geocode, head |-> HeadOf(db, l)]
    BY <1>1, <1>5, <2>1 DEF s, GetLocationByID
  <2>3. WillPush(c, l)' BY <1>1, <1>2, <2>2 DEF WillPush, PushStages
  <2> QED BY <2>3
<1>6. call[c].at \notin ReceiptStages /\ call'[c].at \notin DoorStages BY <1>1, <1>2, <1>3 DEF ReceiptStages, DoorStages
<1> HIDE DEF readBack
<1>7. unsent \ {l} \subseteq unsent' BY <1>1
<1> QED BY <1>1, <1>2, <1>4, <1>5, <1>6, <1>7, ReadStep

(* A head that is still current makes, with the roster, the whole config.    *)
LEMMA LoadPrintersKeeps ==
  ASSUME OfficeInv, NEW c \in Doing, LoadPrinters(c), UNCHANGED accessVars
  PROVE  OfficeInv'
<1> PICK l : l = call[c].loc OBVIOUS
<1> DEFINE s == [at |-> "push", loc |-> l, geocode |-> call[c].geocode, body |-> <<call[c].head, RosterOf(db, l)>>]
<1>1. call[c].at = "roster" /\ Go(c, s) /\ UNCHANGED <<db, untold, unsent, bare, now>> BY DEF LoadPrinters, Step, Quiet
<1>2. Acts(c) /\ call'[c] = s BY <1>1, GoActs DEF OfficeInv
<1>3. CallTypeOK(c)' BY <1>2 DEF CallTypeOK
<1>4. ASSUME l \notin unsent', l \in untold' PROVE \E k \in Doing : WillPush(k, l)'
  <2>1. CASE WillPush(c, l)
    <3>1. s.body = Config(db, l) BY <1>1, <2>1 DEF WillPush, Config
    <3>2. WillPush(c, l)' BY <1>1, <1>2, <3>1 DEF WillPush, PushStages
    <3> QED BY <3>2
  <2>2. CASE ~WillPush(c, l) BY <1>1, <1>2, <1>4, <2>2, OtherPusherKept
  <2> QED BY <2>1, <2>2
<1>5. call[c].at \notin ReceiptStages /\ call'[c].at \notin DoorStages BY <1>1, <1>2 DEF ReceiptStages, DoorStages
<1> HIDE DEF s
<1> QED BY <1>1, <1>2, <1>3, <1>4, <1>5, ReadStep

(* A push tells the location if it carries the present config.               *)
LEMMA PushConfigKeeps ==
  ASSUME OfficeInv, NEW c \in Doing, PushConfig(c), UNCHANGED accessVars
  PROVE  OfficeInv'
<1> PICK l : l = call[c].loc OBVIOUS
<1> DEFINE told == IF IsCurrent(call[c]) THEN {l} ELSE {}
<1>1. call[c].at = "push" /\ untold' = untold \ told /\ unsent' = unsent \ told /\ UNCHANGED <<db, bare, now>>
  BY DEF PushConfig, Quiet
<1>2. Acts(c) /\ call'[c] = Idle
  <2>1. CASE call[c].geocode
    <3>1. PICK j \in Jobs : /\ call[j] = Idle
                            /\ call' = [call EXCEPT ![c] = Idle, ![j] = [at |-> "geocode", loc |-> call[c].loc]]
      BY <2>1 DEF PushConfig
    <3>2. j # c BY <1>1, <3>1 DEF Idle
    <3> QED BY <3>1, <3>2 DEF OfficeInv, CallsTypeOK, Acts, Doing
  <2>2. CASE ~call[c].geocode
    <3>1. Go(c, Idle) BY <2>2 DEF PushConfig
    <3> QED BY <3>1, GoActs DEF OfficeInv
  <2> QED BY <2>1, <2>2
<1>3. CallTypeOK(c)' BY <1>2 DEF CallTypeOK, Idle
<1>4. ASSUME l \notin unsent', l \in untold' PROVE \E k \in Doing : WillPush(k, l)'
  <2>1. ~IsCurrent(call[c]) /\ l \in untold /\ l \notin unsent BY <1>1, <1>4
  <2>2. l \in DOMAIN db.locs BY <2>1 DEF OfficeInv, UntoldWillBePushed
  <2>3. ~WillPush(c, l) BY <1>1, <2>1, <2>2 DEF WillPush, IsCurrent, GetLocationByID
  <2> QED BY <1>1, <1>2, <2>1, <2>3, OtherPusherKept
<1>5. call[c].at \notin ReceiptStages /\ call'[c].at \notin DoorStages BY <1>1, <1>2 DEF ReceiptStages, DoorStages, Idle
<1>6. unsent \ {l} \subseteq unsent' /\ untold' \subseteq untold BY <1>1
<1> HIDE DEF told
<1> QED BY <1>1, <1>2, <1>3, <1>4, <1>5, <1>6, ReadStep

(* An edit of location l by a call that then pushes it.                      *)
LEMMA EditStep ==
  ASSUME OfficeInv, NEW c \in Doing, NEW l, NEW d, Kept(db, d, l), Write(d),
         Acts(c), CallTypeOK(c)', call[c].at \in PushStages => call[c].loc = l, WillPush(c, l)',
         UNCHANGED <<accessVars, now>>, ExcusesStand(l),
         l \notin bare' /\ l \in DOMAIN db'.locs => HandedOn(l)'
  PROVE  OfficeInv'
<1>1. db' = d /\ untold' \subseteq DOMAIN db'.locs /\ untold' \subseteq untold \cup {l} BY WriteUntold
<1>2. Kept(db, db', l) BY <1>1
<1>3. call'[c].at \notin DoorStages BY DEF WillPush, PushStages, DoorStages
<1> QED BY <1>1, <1>2, <1>3, StoreStep

(* A printer is added or deleted.                                            *)
LEMMA AddPrinterKeeps ==
  ASSUME OfficeInv, NEW c \in Callers, NEW l \in DOMAIN db.locs, NEW name \in Names, NEW ip \in IPs, NEW mac \in Macs,
         AddPrinter(c, l, name, ip, mac), UNCHANGED accessVars
  PROVE  OfficeInv'
<1> DEFINE s == [at |-> "ensure", loc |-> l, own |-> db.next]
<1> PICK d : d = CreatePrinter(db, l, name, ip, mac) OBVIOUS
<1>1. call[c] = Idle /\ Go(c, s) /\ Write(d) /\ UNCHANGED <<unsent, bare, now>> BY DEF AddPrinter, Begin, Quiet
<1>2. c \in Doing BY DEF Doing
<1>3. Acts(c) /\ call'[c] = s BY <1>1, <1>2, GoActs DEF OfficeInv
<1>4. CallTypeOK(c)' BY <1>3 DEF CallTypeOK
<1>5. Kept(db, d, l) BY PrinterCreated DEF OfficeInv, Good, Maybe
<1>6. WillPush(c, l)' BY <1>3 DEF WillPush, PushStages
<1>7. HandedOn(l)' BY <1>3 DEF HandedOn, ReceiptStages
<1>8. call[c].at \notin PushStages BY <1>1 DEF Idle, PushStages
<1>9. UNCHANGED <<accessVars, now>> /\ ExcusesStand(l) BY <1>1 DEF ExcusesStand
<1> QED BY <1>1, <1>2, <1>3, <1>4, <1>5, <1>6, <1>7, <1>8, <1>9, EditStep

(* The read before a delete.                                                 *)
LEMMA MeDeletePrinterKeeps ==
  ASSUME OfficeInv, NEW c \in Callers, NEW l, NEW p \in DOMAIN db.printers, db.printers[p].loc = l,
         MeDeletePrinter(c, l, p), UNCHANGED accessVars
  PROVE  OfficeInv'
<1> DEFINE s == [at |-> "delete", loc |-> l, printer |-> p, was |-> db.printers[p].receipt]
<1>1. call[c] = Idle /\ Go(c, s) /\ UNCHANGED <<db, untold, unsent, bare, now>> BY DEF MeDeletePrinter, Begin, Quiet
<1>2. c \in Doing BY DEF Doing
<1>3. Acts(c) /\ call'[c] = s BY <1>1, <1>2, GoActs DEF OfficeInv
<1>4. p \in 0..db.next - 1 BY DEF OfficeInv, TablesTypeOK
<1>5. CallTypeOK(c)' BY <1>1, <1>3, <1>4 DEF CallTypeOK, PrinterAt
<1>6. call[c].at \notin PushStages /\ call'[c].at \notin DoorStages BY <1>1, <1>3 DEF Idle, PushStages, DoorStages
<1> QED BY <1>1, <1>2, <1>3, <1>5, <1>6, QuietStep

(* A delete hands the flag on, or leaves the location bare.                  *)
LEMMA DeleteRowKeeps ==
  ASSUME OfficeInv, NEW c \in Callers, DeleteRow(c), UNCHANGED accessVars
  PROVE  OfficeInv'
<1> PICK l : l = call[c].loc OBVIOUS
<1> PICK p : p = call[c].printer OBVIOUS
<1> PICK d : d = DeletePrinter(db, p) OBVIOUS
<1>1. /\ call[c].at = "delete" /\ Write(d) /\ Go(c, AfterDelete(call[c]))
      /\ bare' = (IF p \in DOMAIN db.printers /\ db.printers[p].receipt /\ ~call[c].was THEN bare \cup {l} ELSE bare)
      /\ UNCHANGED <<unsent, now>>
  BY DEF DeleteRow, Step, Quiet, GetPrinterByID
<1>2. c \in Doing BY DEF Doing
<1>3. Acts(c) /\ call'[c] = AfterDelete(call[c]) BY <1>1, <1>2, GoActs DEF OfficeInv
<1>4. /\ call'[c].at \in {"ensure", "load"} /\ call'[c].loc = l
      /\ call[c].was => call'[c].at = "ensure"
  BY <1>3 DEF AfterDelete, LoadFor
<1>5. CallTypeOK(c)' BY <1>4 DEF CallTypeOK
<1>6. WillPush(c, l)' BY <1>4 DEF WillPush, PushStages
<1>7. PrinterAt(p, l) BY <1>1, <1>2 DEF OfficeInv, CallsTypeOK, CallTypeOK
<1>8. /\ Kept(db, d, l) /\ d.locs = db.locs
      /\ ListPrintersByLocation(d, l) = ListPrintersByLocation(db, l) \ {p}
      /\ \A q \in DOMAIN d.printers : d.printers[q] = db.printers[q]
  BY <1>7, PrinterDeleted DEF OfficeInv, Good, PrinterAt
<1>9. db' = d BY <1>1 DEF Write
<1>10. ASSUME l \notin bare', l \in DOMAIN db'.locs PROVE HandedOn(l)'
  <2>1. CASE call[c].was BY <1>4, <2>1 DEF HandedOn, ReceiptStages
  <2>2. CASE ~call[c].was
    <3>1. ~(p \in DOMAIN db.printers /\ db.printers[p].receipt) BY <1>1, <1>10, <2>2
    <3>2. Flagged(db, l) => Flagged(db', l) BY <1>8, <1>9, <3>1 DEF Flagged, ListPrintersByLocation, Select
    <3>3. ListPrintersByLocation(db, l) = {} => ListPrintersByLocation(db', l) = {} BY <1>8, <1>9
    <3>4. call[c].at \notin ReceiptStages BY <1>1 DEF ReceiptStages
    <3>5. l \in DOMAIN db.locs BY <1>8, <1>9, <1>10
    <3> QED BY <1>1, <1>2, <1>3, <1>10, <3>2, <3>3, <3>4, <3>5, HandedStill
  <2> QED BY <2>1, <2>2
<1>11. call[c].at \notin PushStages BY <1>1 DEF PushStages
<1>12. UNCHANGED <<accessVars, now>> /\ ExcusesStand(l) BY <1>1 DEF ExcusesStand
<1> QED BY <1>1, <1>2, <1>3, <1>5, <1>6, <1>8, <1>10, <1>11, <1>12, EditStep

(* The receipt printer.                                                      *)
LEMMA EnsureReceiptPrinterKeeps ==
  ASSUME OfficeInv, NEW c \in Callers, EnsureReceiptPrinter(c), UNCHANGED accessVars
  PROVE  OfficeInv'
<1> PICK l : l = call[c].loc OBVIOUS
<1> PICK ps : ps = ListPrintersByLocation(db, l) OBVIOUS
<1> DEFINE found == ps = {} \/ \E p \in ps : db.printers[p].receipt
           s == IF found THEN [LoadFor(l) EXCEPT !.own = call[c].own]
                ELSE [at |-> "flag", loc |-> l, printer |-> FirstByName(ps), own |-> call[c].own]
<1>1. call[c].at = "ensure" /\ Go(c, s) /\ bare' = bare \ {l} /\ UNCHANGED <<db, untold, unsent, now>>
  BY DEF EnsureReceiptPrinter, Step, Quiet
<1>2. c \in Doing BY DEF Doing
<1>3. Acts(c) /\ call'[c] = s BY <1>1, <1>2, GoActs DEF OfficeInv
<1>4. found => s.at = "load" /\ s.loc = l BY DEF LoadFor
<1>5. ~found => s.at = "flag" /\ s.loc = l /\ s.printer \in ps
  BY FirstByNameIsOne DEF OfficeInv, ListPrintersByLocation, Select
<1> HIDE DEF s
<1>6. ASSUME ~found PROVE PrinterAt(s.printer, l) /\ s.printer \in DOMAIN db.printers
  BY <1>5, <1>6 DEF OfficeInv, TablesTypeOK, PrinterAt, ListPrintersByLocation, Select
<1>7. CallTypeOK(c)' BY <1>1, <1>3, <1>4, <1>5, <1>6 DEF CallTypeOK, PrinterAt
<1>8. Kept(db, db', l) BY <1>1, NothingWritten DEF OfficeInv, Good
<1>9. WillPush(c, l)' BY <1>1, <1>3, <1>4, <1>5, <1>6 DEF WillPush, PushStages
<1>10. HandedOn(l)'
  <2>1. CASE found BY <1>1, <2>1 DEF HandedOn, Flagged
  <2>2. CASE ~found BY <1>3, <1>5, <2>2 DEF HandedOn, ReceiptStages
  <2> QED BY <2>1, <2>2
<1>11. untold' \subseteq DOMAIN db'.locs /\ untold' \subseteq untold \cup {l} BY <1>1 DEF OfficeInv, UntoldWillBePushed
<1>12. call'[c].at \notin DoorStages BY <1>3, <1>4, <1>5 DEF DoorStages
<1>13. UNCHANGED <<accessVars, now>> /\ ExcusesStand(l) BY <1>1 DEF ExcusesStand
<1> QED BY <1>2, <1>3, <1>7, <1>8, <1>9, <1>10, <1>11, <1>12, <1>13, StoreStep

(* The flag is set, or its printer is gone and the location is left bare.    *)
LEMMA FlagReceiptKeeps ==
  ASSUME OfficeInv, NEW c \in Callers, FlagReceipt(c), UNCHANGED accessVars
  PROVE  OfficeInv'
<1> PICK l : l = call[c].loc OBVIOUS
<1> PICK p : p = call[c].printer OBVIOUS
<1> PICK d : d = SetPrinterReceipt(ClearReceiptPrinter(db, l), p) OBVIOUS
<1>1. call[c].at = "flag" /\ UNCHANGED <<unsent, now>> BY DEF FlagReceipt, Quiet
<1>2. c \in Doing BY DEF Doing
<1>3. PrinterAt(p, l) BY <1>1, <1>2 DEF OfficeInv, CallsTypeOK, CallTypeOK
<1>4. CASE p \in DOMAIN db.printers
  <2> DEFINE s == [LoadFor(l) EXCEPT !.own = call[c].own]
  <2>1. Write(d) /\ Go(c, s) /\ bare' = bare \ {l} BY <1>4 DEF FlagReceipt, Step, GetPrinterByID
  <2>2. Acts(c) /\ call'[c] = s BY <1>2, <2>1, GoActs DEF OfficeInv
  <2>3. s.at = "load" /\ s.loc = l BY DEF LoadFor
  <2> HIDE DEF s
  <2>4. p \in ListPrintersByLocation(db, l) /\ l \in DOMAIN db.locs
    BY <1>3, <1>4 DEF PrinterAt, ListPrintersByLocation, Select, OfficeInv, RefsOK
  <2>5. Kept(db, d, l) /\ Flagged(d, l) BY <2>4, PrinterFlagged DEF OfficeInv, Good
  <2>6. HandedOn(l)' BY <2>1, <2>5 DEF HandedOn, Write
  <2>7. CallTypeOK(c)' BY <2>2, <2>3 DEF CallTypeOK
  <2>8. WillPush(c, l)' BY <2>2, <2>3 DEF WillPush, PushStages
  <2>9. UNCHANGED <<accessVars, now>> /\ ExcusesStand(l) BY <1>1, <2>1 DEF ExcusesStand
  <2> QED BY <1>2, <2>1, <2>2, <2>5, <2>6, <2>7, <2>8, <2>9, EditStep
<1>5. CASE p \notin DOMAIN db.printers
  <2>1. Go(c, Idle) /\ UNCHANGED <<db, untold>> /\ bare' = bare \cup {k \in {l} : ~Flagged(db, k)}
    BY <1>5 DEF FlagReceipt, Step, GetPrinterByID, LeftBare
  <2>2. Acts(c) /\ call'[c] = Idle BY <1>2, <2>1, GoActs DEF OfficeInv
  <2>3. CallTypeOK(c)' /\ call'[c].at \notin DoorStages BY <2>2 DEF CallTypeOK, Idle, DoorStages
  <2>4. Kept(db, db', l) BY <2>1, NothingWritten DEF OfficeInv, Good
  <2>5. untold' \subseteq DOMAIN db'.locs /\ untold' \subseteq untold \cup {l} BY <2>1 DEF OfficeInv, UntoldWillBePushed
  <2>6. ~WillPush(c, l) BY <1>1, <1>5 DEF WillPush
  <2>7. l \notin unsent' /\ l \in untold' => \E k \in Doing : WillPush(k, l)'
    BY <1>1, <1>2, <2>1, <2>2, <2>6, OtherPusherKept
  <2>8. l \notin bare' => HandedOn(l)' BY <2>1 DEF HandedOn
  <2>9. UNCHANGED <<accessVars, now>> /\ ExcusesStand(l) BY <1>1, <2>1 DEF ExcusesStand
  <2> QED BY <1>2, <2>2, <2>3, <2>4, <2>5, <2>7, <2>8, <2>9, StoreStep
<1> QED BY <1>4, <1>5

(* A manager's edit of a printer.                                            *)
LEMMA MeUpdatePrinterKeeps ==
  ASSUME OfficeInv, NEW c \in Callers, NEW l, NEW p \in DOMAIN db.printers, db.printers[p].loc = l,
         NEW name \in Names, NEW ip \in IPs, NEW receipt \in BOOLEAN,
         MeUpdatePrinter(c, l, p, name, ip, receipt), UNCHANGED accessVars
  PROVE  OfficeInv'
<1> DEFINE s == [at |-> "update", loc |-> l, printer |-> p, name |-> name, ip |-> ip,
                 receipt |-> receipt, before |-> db.printers[p].ip]
<1>1. call[c] = Idle /\ Go(c, s) /\ UNCHANGED <<db, untold, unsent, bare, now>> BY DEF MeUpdatePrinter, Begin, Quiet
<1>2. c \in Doing BY DEF Doing
<1>3. Acts(c) /\ call'[c] = s BY <1>1, <1>2, GoActs DEF OfficeInv
<1>4. PrinterAt(p, l) /\ p \in Nat BY DEF OfficeInv, TablesTypeOK, PrinterAt
<1>5. db.printers[p] \in PrinterRow BY DEF OfficeInv, TablesTypeOK
<1>6. s \in PrinterCalls BY <1>4, <1>5 DEF PrinterCalls, PrinterRow
<1>7. s.at = "update" /\ s.printer = p /\ s.loc = l OBVIOUS
<1> HIDE DEF s
<1>8. CallTypeOK(c)' BY <1>1, <1>3, <1>4, <1>6, <1>7 DEF CallTypeOK, PrinterAt
<1>9. call[c].at \notin PushStages /\ call'[c].at \notin DoorStages BY <1>1, <1>3, <1>7 DEF Idle, PushStages, DoorStages
<1> QED BY <1>1, <1>2, <1>3, <1>8, <1>9, QuietStep

(* The row of an edit: the call goes on to its push.                         *)
LEMMA UpdateRowKeeps ==
  ASSUME OfficeInv, NEW c \in Callers, UpdateRow(c), UNCHANGED accessVars
  PROVE  OfficeInv'
<1> PICK l : l = call[c].loc OBVIOUS
<1> PICK p : p = call[c].printer OBVIOUS
<1> PICK d : d = UpdatePrinter(db, p, call[c].name, call[c].ip) OBVIOUS
<1> DEFINE ok == GetPrinterByID(db, p) /\ NameFree(l, call[c].name, {p})
           s == IF call[c].before # call[c].ip THEN [call[c] EXCEPT !.at = "log"] ELSE AfterUpdate(call[c])
<1>1. call[c].at = "update" /\ UNCHANGED <<unsent, bare, now>> BY DEF UpdateRow, Quiet
<1>2. c \in Doing BY DEF Doing
<1>3. PrinterAt(p, l) /\ call[c] \in PrinterCalls BY <1>1, <1>2 DEF OfficeInv, CallsTypeOK, CallTypeOK
<1>4. CASE ok
  <2>1. Write(d) /\ Go(c, s) BY <1>4 DEF UpdateRow, Step
  <2>2. Acts(c) /\ call'[c] = s BY <1>2, <2>1, GoActs DEF OfficeInv
  <2>3. p \in ListPrintersByLocation(db, l) /\ l \in DOMAIN db.locs
    BY <1>3, <1>4 DEF PrinterAt, GetPrinterByID, ListPrintersByLocation, Select, OfficeInv, RefsOK
  <2>4. call[c].name \in Names /\ call[c].ip \in IPs BY <1>3 DEF PrinterCalls
  <2>5. /\ Kept(db, d, l) /\ ListPrintersByLocation(d, l) = ListPrintersByLocation(db, l)
        /\ (Flagged(db, l) => Flagged(d, l))
    BY <2>3, <2>4, PrinterUpdated DEF OfficeInv, Good
  <2>6. db' = d BY <2>1 DEF Write
  <2>7. p \in DOMAIN db'.printers /\ PrinterAt(p, l)'
    BY <2>3, <2>5, <2>6 DEF PrinterAt, ListPrintersByLocation, Select, Kept, Good, TablesTypeOK
  <2>8. /\ s.at \in {"log", "flag", "load"} /\ s.loc = l
        /\ s.at \in {"log", "flag"} => s.printer = p
        /\ s.at = "log" => s \in PrinterCalls
    BY <1>3 DEF AfterUpdate, LoadFor, PrinterCalls
  <2> HIDE DEF s
  <2>9. CallTypeOK(c)' BY <2>2, <2>7, <2>8 DEF CallTypeOK
  <2>10. WillPush(c, l)' BY <2>2, <2>7, <2>8 DEF WillPush, PushStages
  <2>11. ASSUME l \notin bare' PROVE HandedOn(l)'
    BY <1>1, <1>2, <2>2, <2>3, <2>5, <2>6, <2>11, HandedStill DEF ReceiptStages
  <2>12. call[c].at \notin PushStages BY <1>1 DEF PushStages
  <2>13. UNCHANGED <<accessVars, now>> /\ ExcusesStand(l) BY <1>1 DEF ExcusesStand
  <2> QED BY <1>2, <2>1, <2>2, <2>5, <2>9, <2>10, <2>11, <2>12, <2>13, EditStep
<1>5. CASE ~ok
  <2>1. Go(c, Idle) /\ UNCHANGED <<db, untold>> BY <1>5 DEF UpdateRow, Step
  <2>2. Acts(c) /\ call'[c] = Idle BY <1>2, <2>1, GoActs DEF OfficeInv
  <2>3. CallTypeOK(c)' /\ call'[c].at \notin DoorStages BY <2>2 DEF CallTypeOK, Idle, DoorStages
  <2>4. call[c].at \notin PushStages BY <1>1 DEF PushStages
  <2> QED BY <1>1, <1>2, <2>1, <2>2, <2>3, <2>4, QuietStep
<1> QED BY <1>4, <1>5

(* A history line is no part of the config.                                  *)
LEMMA LogChangeKeeps ==
  ASSUME OfficeInv, NEW c \in Callers, LogChange(c), UNCHANGED accessVars
  PROVE  OfficeInv'
<1> PICK l : l = call[c].loc OBVIOUS
<1> PICK p : p = call[c].printer OBVIOUS
<1> PICK d : d = InsertPrinterIPChange(db, p, call[c].before, call[c].ip, "manager") OBVIOUS
<1> DEFINE s == AfterUpdate(call[c])
<1>1. call[c].at = "log" /\ Go(c, s) /\ UNCHANGED <<unsent, bare, now>> BY DEF LogChange, Step, Quiet
<1>2. c \in Doing BY DEF Doing
<1>3. PrinterAt(p, l) /\ call[c] \in PrinterCalls BY <1>1, <1>2 DEF OfficeInv, CallsTypeOK, CallTypeOK
<1>4. Acts(c) /\ call'[c] = s BY <1>1, <1>2, GoActs DEF OfficeInv
<1>5. s.at = (IF call[c].receipt THEN "flag" ELSE "load") /\ s.loc = l /\ (s.at = "flag" => s.printer = p)
  BY DEF AfterUpdate, LoadFor
<1> HIDE DEF s
<1>6. Kept(db, db', l) /\ SameStores(db, db') /\ db.next <= db'.next
  <2>1. Kept(db, db, l) BY NothingWritten DEF OfficeInv, Good
  <2>2. CASE db' = db BY <2>1, <2>2 DEF SameStores, OfficeInv, TablesTypeOK
  <2>3. CASE db' = d
    <3>1. Kept(db, d, l) /\ SameStores(db, d) BY <2>1, ChangeLogged
    <3>2. db.next <= d.next BY <3>1 DEF Kept, Follows
    <3> QED BY <2>3, <3>1, <3>2
  <2> QED BY <2>2, <2>3 DEF LogChange, Write
<1>7. \A k : Config(db', k) = Config(db, k)
  BY <1>6 DEF Config, HeadOf, RosterOf, ListPrintersByLocation, Select, SameStores
<1>8. untold' \subseteq DOMAIN db'.locs /\ untold' \subseteq untold
  BY <1>6, <1>7 DEF LogChange, Write, OfficeInv, UntoldWillBePushed, SameStores
<1>9. PrinterAt(p, l)' BY <1>3, <1>6 DEF PrinterAt, SameStores, Kept, Good, OfficeInv, TablesTypeOK
<1>10. CallTypeOK(c)' BY <1>4, <1>5, <1>9 DEF CallTypeOK
<1>11. ASSUME l \notin unsent', l \in untold' PROVE \E k \in Doing : WillPush(k, l)'
  <2>1. PICK k \in Doing : WillPush(k, l) BY <1>1, <1>8, <1>11 DEF OfficeInv, UntoldWillBePushed
  <2>2. CASE k = c BY <1>1, <1>2, <1>4, <1>5, <1>6, <2>1, <2>2 DEF WillPush, PushStages, SameStores
  <2>3. CASE k # c
    <3>1. /\ HeadOf(db', l) = HeadOf(db, l) /\ RosterOf(db', l) = RosterOf(db, l)
          /\ ListPrintersByLocation(db', l) = ListPrintersByLocation(db, l)
      BY <1>6 DEF SameStores, HeadOf, RosterOf, ListPrintersByLocation, Select
    <3> QED BY <1>2, <1>4, <2>1, <2>3, <3>1, PusherKept DEF OfficeInv
  <2> QED BY <2>2, <2>3
<1>12. ASSUME l \notin bare', l \in DOMAIN db'.locs PROVE HandedOn(l)'
  <2>1. l \in DOMAIN db.locs BY <1>6, <1>12 DEF SameStores
  <2>2. ListPrintersByLocation(db', l) = ListPrintersByLocation(db, l) /\ (Flagged(db, l) => Flagged(db', l))
    BY <1>6 DEF SameStores, Flagged, ListPrintersByLocation, Select
  <2> QED BY <1>1, <1>2, <1>4, <1>12, <2>1, <2>2, HandedStill DEF ReceiptStages
<1>13. call'[c].at \notin DoorStages BY <1>4, <1>5 DEF DoorStages
<1>14. UNCHANGED <<accessVars, now>> /\ ExcusesStand(l) /\ untold' \subseteq untold \cup {l} BY <1>1, <1>8 DEF ExcusesStand
<1> QED BY <1>2, <1>4, <1>6, <1>8, <1>10, <1>11, <1>12, <1>13, <1>14, StoreStep

(* The agent's report of a moved printer.                                    *)
LEMMA HandlePrinterMovedKeeps ==
  ASSUME OfficeInv, NEW c \in Callers, NEW l, NEW p \in DOMAIN db.printers, db.printers[p].loc = l,
         NEW old \in IPs, NEW new \in IPs, NEW mac \in Macs,
         HandlePrinterMoved(c, l, p, old, new, mac), UNCHANGED accessVars
  PROVE  OfficeInv'
<1> PICK d : d = SetPrinterMAC(db, p, mac) OBVIOUS
<1> DEFINE s == [at |-> "move", loc |-> l, printer |-> p, old |-> old, new |-> new, mac |-> mac]
<1>1. call[c] = Idle /\ UNCHANGED <<bare, now>> BY DEF HandlePrinterMoved, Begin, Quiet
<1>2. c \in Doing BY DEF Doing
<1>3. p \in ListPrintersByLocation(db, l) /\ l \in DOMAIN db.locs
  BY DEF ListPrintersByLocation, Select, OfficeInv, RefsOK
<1>4. CASE Go(c, Idle) /\ Write(d) /\ unsent' = unsent \cup {l}
  <2>1. Acts(c) /\ call'[c] = Idle BY <1>2, <1>4, GoActs DEF OfficeInv
  <2>2. CallTypeOK(c)' /\ call'[c].at \notin DoorStages BY <2>1 DEF CallTypeOK, Idle, DoorStages
  <2>3. /\ Kept(db, d, l) /\ ListPrintersByLocation(d, l) = ListPrintersByLocation(db, l)
        /\ (Flagged(db, l) => Flagged(d, l))
    BY <1>3, PrinterMacSet DEF OfficeInv, Good, Maybe
  <2>4. db' = d /\ untold' \subseteq DOMAIN db'.locs /\ untold' \subseteq untold \cup {l} BY <1>4, <2>3, WriteUntold
  <2>5. l \in unsent' BY <1>4
  <2>6. ASSUME l \notin bare' PROVE HandedOn(l)'
    BY <1>1, <1>2, <1>3, <2>1, <2>3, <2>4, <2>6, HandedStill DEF ReceiptStages, Idle
  <2>7. call[c].at \notin PushStages /\ Kept(db, db', l) BY <1>1, <2>3, <2>4 DEF PushStages, Idle
  <2>8. UNCHANGED <<accessVars, now>> /\ ExcusesStand(l) BY <1>1, <1>4 DEF ExcusesStand
  <2> QED BY <1>2, <2>1, <2>2, <2>4, <2>5, <2>6, <2>7, <2>8, StoreStep
<1>5. CASE Go(c, s) /\ UNCHANGED <<db, untold, unsent>>
  <2>1. Acts(c) /\ call'[c] = s BY <1>2, <1>5, GoActs DEF OfficeInv
  <2>2. p \in Nat /\ l \in Nat BY <1>3 DEF OfficeInv, TablesTypeOK
  <2>3. s \in MoveCalls /\ s.at = "move" BY <2>2 DEF MoveCalls
  <2> HIDE DEF s
  <2>4. CallTypeOK(c)' BY <2>1, <2>3 DEF CallTypeOK
  <2>5. call[c].at \notin PushStages /\ call'[c].at \notin DoorStages BY <1>1, <2>1, <2>3 DEF Idle, PushStages, DoorStages
  <2> QED BY <1>1, <1>2, <1>5, <2>1, <2>4, <2>5, QuietStep
<1> QED BY <1>4, <1>5 DEF HandlePrinterMoved, Begin

(* A printer that moved is pushed, a stale report changes nothing.           *)
LEMMA MovePrinterKeeps ==
  ASSUME OfficeInv, NEW c \in Callers, MovePrinter(c), UNCHANGED accessVars
  PROVE  OfficeInv'
<1> PICK l : l = call[c].loc OBVIOUS
<1> PICK p : p = call[c].printer OBVIOUS
<1> PICK m : m = MovePrinterIP(db, p, call[c].new, call[c].mac) OBVIOUS
<1> PICK d : d = InsertPrinterIPChange(m, p, call[c].old, call[c].new, "agent") OBVIOUS
<1>1. call[c].at = "move" /\ UNCHANGED <<unsent, bare, now>> BY DEF MovePrinter, Quiet
<1>2. c \in Doing BY DEF Doing
<1>3. call[c].new \in IPs /\ call[c].mac \in Macs BY <1>1, <1>2 DEF OfficeInv, CallsTypeOK, CallTypeOK, MoveCalls
<1>4. CASE MovePrinterIPRow(db, l, p, call[c].old) # {}
  <2>1. Write(d) /\ Go(c, LoadFor(l)) BY <1>4 DEF MovePrinter, Step
  <2>2. Acts(c) /\ call'[c] = LoadFor(l) BY <1>2, <2>1, GoActs DEF OfficeInv
  <2>3. p \in ListPrintersByLocation(db, l) /\ l \in DOMAIN db.locs
    BY <1>4 DEF MovePrinterIPRow, ListPrintersByLocation, Select, OfficeInv, RefsOK
  <2>4. /\ Kept(db, m, l) /\ ListPrintersByLocation(m, l) = ListPrintersByLocation(db, l)
        /\ (Flagged(db, l) => Flagged(m, l))
    BY <1>3, <2>3, PrinterMoved DEF OfficeInv, Good, Maybe
  <2>5. Kept(db, d, l) /\ SameStores(m, d) BY <2>4, ChangeLogged
  <2>6. ListPrintersByLocation(d, l) = ListPrintersByLocation(m, l) /\ (Flagged(m, l) => Flagged(d, l))
    <3>1. m.printers = d.printers BY <2>5 DEF SameStores
    <3>2. ListPrintersByLocation(d, l) = ListPrintersByLocation(m, l) BY <3>1 DEF ListPrintersByLocation, Select
    <3> QED BY <3>1, <3>2 DEF Flagged
  <2>7. db' = d BY <2>1 DEF Write
  <2>8. CallTypeOK(c)' BY <2>2 DEF CallTypeOK, LoadFor
  <2>9. WillPush(c, l)' BY <2>2 DEF WillPush, PushStages, LoadFor
  <2>10. ASSUME l \notin bare' PROVE HandedOn(l)'
    BY <1>1, <1>2, <2>2, <2>3, <2>4, <2>6, <2>7, <2>10, HandedStill DEF ReceiptStages
  <2>11. call[c].at \notin PushStages BY <1>1 DEF PushStages
  <2>12. UNCHANGED <<accessVars, now>> /\ ExcusesStand(l) BY <1>1 DEF ExcusesStand
  <2> QED BY <1>2, <2>1, <2>2, <2>5, <2>8, <2>9, <2>10, <2>11, <2>12, EditStep
<1>5. CASE MovePrinterIPRow(db, l, p, call[c].old) = {}
  <2>1. Go(c, Idle) /\ UNCHANGED <<db, untold>> BY <1>5 DEF MovePrinter, Step
  <2>2. Acts(c) /\ call'[c] = Idle BY <1>2, <2>1, GoActs DEF OfficeInv
  <2>3. CallTypeOK(c)' /\ call'[c].at \notin DoorStages BY <2>2 DEF CallTypeOK, Idle, DoorStages
  <2>4. call[c].at \notin PushStages BY <1>1 DEF PushStages
  <2> QED BY <1>1, <1>2, <2>1, <2>2, <2>3, <2>4, QuietStep
<1> QED BY <1>4, <1>5

(* The location's other edits, by a request or by a geocode job.             *)
LEMMA LocationEditKeeps ==
  ASSUME OfficeInv, NEW c \in Doing, NEW l \in DOMAIN db.locs, NEW d, Kept(db, d, l), d.printers = db.printers,
         NEW s, s.at = "load", s.loc = l, call[c].at \notin PushStages,
         Go(c, s), Write(d), UNCHANGED <<accessVars, unsent, bare, now>>
  PROVE  OfficeInv'
<1>1. Acts(c) /\ call'[c] = s BY GoActs DEF OfficeInv
<1>2. CallTypeOK(c)' BY <1>1 DEF CallTypeOK
<1>3. WillPush(c, l)' BY <1>1 DEF WillPush, PushStages
<1>4. db' = d BY DEF Write
<1>5. ASSUME l \notin bare' PROVE HandedOn(l)'
  <2>1. ListPrintersByLocation(db', l) = ListPrintersByLocation(db, l) /\ (Flagged(db, l) => Flagged(db', l))
    BY <1>4 DEF Flagged, ListPrintersByLocation, Select
  <2>2. call[c].at \notin ReceiptStages BY DEF PushStages, ReceiptStages
  <2> QED BY <1>1, <1>5, <2>1, <2>2, HandedStill
<1>6. UNCHANGED <<accessVars, now>> /\ ExcusesStand(l) BY DEF ExcusesStand
<1> QED BY <1>1, <1>2, <1>3, <1>5, <1>6, EditStep

(* One statement on a location, then the push.                               *)
LEMMA EditKeeps ==
  ASSUME OfficeInv, NEW c \in Callers, NEW l \in DOMAIN db.locs, NEW d, Kept(db, d, l), d.printers = db.printers,
         Edit(c, l, d), UNCHANGED accessVars
  PROVE  OfficeInv'
<1>1. call[c] = Idle /\ Go(c, LoadFor(l)) /\ Write(d) /\ UNCHANGED <<unsent, bare, now>> BY DEF Edit, Begin, Quiet
<1>2. call[c].at \notin PushStages /\ c \in Doing BY <1>1 DEF Idle, PushStages, Doing
<1>3. LoadFor(l).at = "load" /\ LoadFor(l).loc = l BY DEF LoadFor
<1> QED BY <1>1, <1>2, <1>3, LocationEditKeeps

(* The location's other edits.                                               *)
LEMMA LocationRequestsKeep ==
  ASSUME OfficeInv, NEW c \in Callers, NEW l \in DOMAIN db.locs, UNCHANGED accessVars,
         \/ \E v \in Values, a \in Addresses : UpdateLocation(c, l, v, a)
         \/ \E pos \in Spots : SetPin(c, l, pos)
         \/ \E v \in Values \cup {NONE} : AdminSetMap(c, l, v)
         \/ \E v \in Values : HandleRadius(c, l, v)
  PROVE  OfficeInv'
<1>1. ASSUME NEW v \in Values, NEW a \in Addresses, UpdateLocation(c, l, v, a) PROVE OfficeInv'
  <2> PICK d : d = UpdateLocationDetails(db, l, v, a) OBVIOUS
  <2> DEFINE s == [LoadFor(l) EXCEPT !.geocode = TRUE]
  <2>1. call[c] = Idle /\ Go(c, s) /\ Write(d) /\ UNCHANGED <<unsent, bare, now>> BY <1>1 DEF UpdateLocation, Begin, Quiet
  <2>2. Kept(db, d, l) /\ d.printers = db.printers
    <3>1. \A pos \in Maybe(Spots) : d \in {UpdateLocationDetails(db, l, v, a), SetLocationPin(db, l, pos), SetLocationGeocoded(db, l, pos),
                    SetLocationMap(db, l, v), SetLocationDeliveryRadius(db, l, v)} OBVIOUS
    <3> QED BY <3>1, LocationUpdated DEF OfficeInv, Good, Maybe
  <2>3. s.at = "load" /\ s.loc = l BY DEF LoadFor
  <2>4. call[c].at \notin PushStages /\ c \in Doing BY <2>1 DEF Idle, PushStages, Doing
  <2> HIDE DEF s
  <2> QED BY <2>1, <2>2, <2>3, <2>4, LocationEditKeeps
<1>2. ASSUME NEW pos \in Spots, SetPin(c, l, pos) PROVE OfficeInv'
  <2> PICK d : d = SetLocationPin(db, l, pos) OBVIOUS
  <2>1. Kept(db, d, l) /\ d.printers = db.printers BY LocationUpdated DEF OfficeInv, Good, Maybe
  <2> QED BY <1>2, <2>1, EditKeeps DEF SetPin
<1>3. ASSUME NEW v \in Values \cup {NONE}, AdminSetMap(c, l, v) PROVE OfficeInv'
  <2> PICK d : d = SetLocationMap(db, l, v) OBVIOUS
  <2>1. Kept(db, d, l) /\ d.printers = db.printers BY LocationUpdated DEF OfficeInv, Good, Maybe
  <2> QED BY <1>3, <2>1, EditKeeps DEF AdminSetMap
<1>4. ASSUME NEW v \in Values, HandleRadius(c, l, v) PROVE OfficeInv'
  <2> PICK d : d = SetLocationDeliveryRadius(db, l, v) OBVIOUS
  <2>1. Kept(db, d, l) /\ d.printers = db.printers BY LocationUpdated DEF OfficeInv, Good, Maybe
  <2> QED BY <1>4, <2>1, EditKeeps DEF HandleRadius
<1> QED BY <1>1, <1>2, <1>3, <1>4

(* The tenants.                                                              *)
LEMMA AdminEditKeeps ==
  ASSUME OfficeInv, NEW c \in Callers, NEW d, Kept(db, d, NONE), AdminEdit(c, d), UNCHANGED accessVars
  PROVE  OfficeInv'
<1>1. call[c] = Idle /\ Go(c, Idle) /\ Write(d) /\ UNCHANGED <<unsent, bare, now>> BY DEF AdminEdit, Begin, Quiet
<1>2. c \in Doing BY DEF Doing
<1>3. Acts(c) /\ call'[c] = Idle BY <1>1, <1>2, GoActs DEF OfficeInv
<1>4. CallTypeOK(c)' /\ call'[c].at \notin DoorStages /\ call[c].at \notin PushStages
  BY <1>1, <1>3 DEF CallTypeOK, Idle, DoorStages, PushStages
<1>5. db' = d /\ untold' \subseteq DOMAIN db'.locs /\ untold' \subseteq untold \cup {NONE} BY <1>1, WriteUntold
<1>6. Kept(db, db', NONE) BY <1>5
<1>7. NONE \notin DOMAIN db'.locs BY <1>6, OfficeAssumption DEF Kept, Good, TablesTypeOK
<1>8. UNCHANGED <<accessVars, now>> /\ ExcusesStand(NONE) BY <1>1 DEF ExcusesStand
<1> QED BY <1>2, <1>3, <1>4, <1>5, <1>6, <1>7, <1>8, StoreStep

(* A tenant's config is pushed to its first location.                        *)
LEMMA SetTenantConfigKeeps ==
  ASSUME OfficeInv, NEW c \in Callers, NEW t \in DOMAIN db.tenants, NEW v \in Values,
         SetTenantConfig(c, t, v), UNCHANGED accessVars
  PROVE  OfficeInv'
<1> PICK l : l = PrimaryLocation(db, t) OBVIOUS
<1> PICK d : d = UpdateTenantConfig(db, t, v) OBVIOUS
<1>1. l # NONE /\ Edit(c, l, d) BY DEF SetTenantConfig
<1>2. l \in ListLocationsByTenant(db, t)
  <2>1. ListLocationsByTenant(db, t) \in SUBSET Nat
    BY DEF ListLocationsByTenant, Select, OfficeInv, TablesTypeOK
  <2> QED BY <1>1, <2>1, MinIsLeast DEF PrimaryLocation
<1>3. l \in DOMAIN db.locs /\ db.locs[l].tenant = t BY <1>2 DEF ListLocationsByTenant, Select
<1>4. Kept(db, d, l) /\ d.printers = db.printers BY <1>3, TenantConfigWritten DEF OfficeInv, Good
<1> QED BY <1>1, <1>3, <1>4, EditKeeps

(* The admin's edits of tenants.                                             *)
LEMMA TenantRequestKeeps ==
  ASSUME OfficeInv, NEW c \in Callers, TenantRequest(c), UNCHANGED accessVars
  PROVE  OfficeInv'
<1>1. ASSUME NEW user \in Users \cup {NONE}, NEW store \in StoreIds \cup {NONE}, AdminCreateTenant(c, user, store) PROVE OfficeInv'
  <2> PICK d : d = CreateLocation(CreateTenant(db, user, store), db.next) OBVIOUS
  <2>1. Kept(db, d, NONE) BY TenantCreated DEF OfficeInv, Good, Maybe
  <2> QED BY <1>1, <2>1, AdminEditKeeps DEF AdminCreateTenant
<1>2. ASSUME NEW t \in DOMAIN db.tenants, NEW store \in StoreIds \cup {NONE}, AdminSetStoreID(c, t, store) PROVE OfficeInv'
  <2> PICK d : d = SetTenantStoreID(db, t, store) OBVIOUS
  <2>1. NONE \in Maybe(Users) /\ d \in {SetTenantStoreID(db, t, store), SetTenantCredentials(db, t, NONE)} BY DEF Maybe
  <2>2. Kept(db, d, NONE) BY <2>1, TenantEdited DEF OfficeInv, Good, Maybe
  <2> QED BY <1>2, <2>2, AdminEditKeeps DEF AdminSetStoreID
<1>3. ASSUME NEW t \in DOMAIN db.tenants, NEW user \in Users, AdminSetCredentials(c, t, user) PROVE OfficeInv'
  <2> PICK d : d = SetTenantCredentials(db, t, user) OBVIOUS
  <2>1. NONE \in Maybe(StoreIds) /\ d \in {SetTenantStoreID(db, t, NONE), SetTenantCredentials(db, t, user)} BY DEF Maybe
  <2>2. Kept(db, d, NONE) BY <2>1, TenantEdited DEF OfficeInv, Good, Maybe
  <2> QED BY <1>3, <2>2, AdminEditKeeps DEF AdminSetCredentials
<1>4. ASSUME NEW t \in DOMAIN db.tenants, DeleteTenantCascade(c, t) PROVE OfficeInv'
  <2> PICK d : d = DeleteTenant(DeleteTenantLocations(DeleteTenantPrinters(db, t), t), t) OBVIOUS
  <2>1. Kept(db, d, NONE) BY TenantDeleted DEF OfficeInv, Good
  <2> QED BY <1>4, <2>1, AdminEditKeeps DEF DeleteTenantCascade
<1>5. ASSUME NEW t \in DOMAIN db.tenants, OpenStoreSession(c, t) PROVE OfficeInv'
  <2>1. call[c] = Idle /\ Go(c, Idle) /\ UNCHANGED <<db, untold, unsent, bare, now>> BY <1>5 DEF OpenStoreSession, Begin
  <2>2. c \in Doing BY DEF Doing
  <2>3. Acts(c) /\ call'[c] = Idle BY <2>1, <2>2, GoActs DEF OfficeInv
  <2>4. CallTypeOK(c)' /\ call'[c].at \notin DoorStages /\ call[c].at \notin PushStages
    BY <2>1, <2>3 DEF CallTypeOK, Idle, DoorStages, PushStages
  <2> QED BY <2>1, <2>2, <2>3, <2>4, QuietStep
<1> QED BY <1>1, <1>2, <1>3, <1>4, <1>5, SetTenantConfigKeeps DEF TenantRequest

(* The geocode jobs.                                                         *)
LEMMA GeocodeKeeps ==
  ASSUME OfficeInv, NEW j \in Jobs, Geocode(j), UNCHANGED accessVars
  PROVE  OfficeInv'
<1>1. j \in Doing BY DEF Doing
<1>2. CASE GeocodeStore(j)
  <2>1. PICK s : Go(j, s) /\ s.at \in {"asked", "idle"} BY <1>2 DEF GeocodeStore, Step, Idle
  <2>2. call[j].at \notin PushStages /\ UNCHANGED <<db, untold, unsent, bare, now>> BY <1>2 DEF GeocodeStore, Quiet, PushStages
  <2>3. Acts(j) /\ call'[j] = s BY <1>1, <2>1, GoActs DEF OfficeInv
  <2>4. CallTypeOK(j)' /\ call'[j].at \notin DoorStages BY <2>1, <2>3 DEF CallTypeOK, DoorStages
  <2> QED BY <1>1, <2>2, <2>3, <2>4, QuietStep
<1>3. CASE BackfillStores(j)
  <2>1. PICK s : Go(j, s) /\ s.at = "geocode" BY <1>3 DEF BackfillStores, Begin
  <2>2. call[j].at \notin PushStages /\ UNCHANGED <<db, untold, unsent, bare, now>>
    BY <1>3 DEF BackfillStores, Begin, Quiet, PushStages, Idle
  <2>3. Acts(j) /\ call'[j] = s BY <1>1, <2>1, GoActs DEF OfficeInv
  <2>4. CallTypeOK(j)' /\ call'[j].at \notin DoorStages BY <2>1, <2>3 DEF CallTypeOK, DoorStages
  <2> QED BY <1>1, <2>2, <2>3, <2>4, QuietStep
<1>4. ASSUME NEW pos \in Spots \cup {NONE}, GeocodeAnswer(j, pos) PROVE OfficeInv'
  <2> PICK l : l = call[j].loc OBVIOUS
  <2> PICK d : d = SetLocationGeocoded(db, l, pos) OBVIOUS
  <2> DEFINE found == pos \notin {NONE, call[j].pos} /\ GeocodedRow(db, l) # {}
  <2>1. call[j].at \notin PushStages /\ UNCHANGED <<unsent, bare, now>> BY <1>4 DEF GeocodeAnswer, Quiet, PushStages
  <2>2. CASE found
    <3>1. Write(d) /\ Go(j, LoadFor(l)) BY <1>4, <2>2 DEF GeocodeAnswer, Step
    <3>2. l \in DOMAIN db.locs BY <2>2 DEF GeocodedRow
    <3>3. Kept(db, d, l) /\ d.printers = db.printers
      <4>1. NONE \in Maybe(Values) /\ NONE \in Maybe(Addresses) /\ pos \in Maybe(Spots) BY DEF Maybe
      <4>2. d \in {UpdateLocationDetails(db, l, NONE, NONE), SetLocationPin(db, l, pos), SetLocationGeocoded(db, l, pos),
                   SetLocationMap(db, l, NONE), SetLocationDeliveryRadius(db, l, NONE)} OBVIOUS
      <4> QED BY <3>2, <4>1, <4>2, LocationUpdated DEF OfficeInv, Good
    <3>4. LoadFor(l).at = "load" /\ LoadFor(l).loc = l BY DEF LoadFor
    <3> QED BY <1>1, <2>1, <3>1, <3>2, <3>3, <3>4, LocationEditKeeps
  <2>3. CASE ~found
    <3>1. Go(j, Idle) /\ UNCHANGED <<db, untold>> BY <1>4, <2>3 DEF GeocodeAnswer, Step
    <3>2. Acts(j) /\ call'[j] = Idle BY <1>1, <3>1, GoActs DEF OfficeInv
    <3>3. CallTypeOK(j)' /\ call'[j].at \notin DoorStages BY <3>2 DEF CallTypeOK, Idle, DoorStages
    <3> QED BY <1>1, <2>1, <3>1, <3>2, <3>3, QuietStep
  <2> QED BY <2>2, <2>3
<1> QED BY <1>2, <1>3, <1>4 DEF Geocode

-----------------------------------------------------------------------------
(* Channels, operators and sign-ins: stores and their calls stay as they are.*)
LEMMA AccessKeepsStores ==
  ASSUME OfficeInv, NEW c \in Doing, Good(db'), Follows(db, db'), Elsewhere(db, db', NONE), SameStores(db, db'),
         Acts(c), CallTypeOK(c)', call[c].at \notin PushStages, UNCHANGED <<untold, unsent, bare>>
  PROVE  CallsTypeOK' /\ ReceiptHandedOn' /\ UntoldWillBePushed'
<1>1. NONE \notin DOMAIN db.locs BY OfficeAssumption DEF OfficeInv, TablesTypeOK
<1>2. db'.locs = db.locs BY DEF SameStores
<1>3. untold' \subseteq DOMAIN db'.locs /\ untold' \subseteq untold \cup {NONE} /\ NONE \notin untold'
  BY <1>1, <1>2 DEF OfficeInv, UntoldWillBePushed
<1>4. ExcusesStand(NONE) BY DEF ExcusesStand
<1> QED BY <1>1, <1>2, <1>3, <1>4, StoresKept

(* A step about access that holds no lock.                                   *)
LEMMA AccessStep ==
  ASSUME OfficeInv, NEW c \in Doing, Kept(db, db', NONE), SameStores(db, db'),
         Acts(c), CallTypeOK(c)', call[c].at \notin PushStages, call'[c].at \notin DoorStages,
         UNCHANGED <<untold, unsent, bare, builtins, mu>>, RightDoor', HitsInOrder'
  PROVE  OfficeInv'
<1>1. CallsTypeOK' /\ ReceiptHandedOn' /\ UntoldWillBePushed' BY AccessKeepsStores DEF Kept
<1>2. OneAtTheDoor' /\ NoneYet' /\ CacheIsTrue' BY DoorsKept DEF Kept
<1> QED BY <1>1, <1>2 DEF OfficeInv, Kept, Good

(* One statement on channels or operators.                                   *)
LEMMA ChannelEditKeeps ==
  ASSUME OfficeInv, NEW c \in Callers, NEW d, Kept(db, d, NONE), SameStores(db, d), ChannelEdit(c, d)
  PROVE  OfficeInv'
<1>1. call[c] = Idle /\ Go(c, Idle) /\ db' = d /\ UNCHANGED <<accessVars, now, untold, unsent, bare>>
  BY DEF ChannelEdit, Begin, Still
<1>2. c \in Doing BY DEF Doing
<1>3. Acts(c) /\ call'[c] = Idle BY <1>1, <1>2, GoActs DEF OfficeInv
<1>4. CallTypeOK(c)' /\ call'[c].at \notin DoorStages /\ call[c].at \notin PushStages
  BY <1>1, <1>3 DEF CallTypeOK, Idle, DoorStages, PushStages
<1>5. Kept(db, db', NONE) /\ SameStores(db, db') BY <1>1
<1>6. UNCHANGED <<builtins, mu, admitted, hits>> BY <1>1 DEF accessVars
<1>7. RightDoor' /\ HitsInOrder' BY <1>1, <1>6 DEF OfficeInv, RightDoor, HitsInOrder, WindowsInOrder
<1> QED BY <1>1, <1>2, <1>3, <1>4, <1>5, <1>6, <1>7, AccessStep

(* The admin's edits of channels and operators.                              *)
LEMMA ChannelAdminKeeps ==
  ASSUME OfficeInv, NEW c \in Callers, ChannelAdmin(c)
  PROVE  OfficeInv'
<1>1. ASSUME NEW l \in DOMAIN db.locs, NEW kind \in Kinds, AdminCreateChannel(c, l, kind) PROVE OfficeInv'
  <2> PICK d : d = CreateChannel(db, l, kind, FALSE) OBVIOUS
  <2>1. Kept(db, d, NONE) /\ SameStores(db, d) BY ChannelCreated DEF OfficeInv, Good, Kept
  <2> QED BY <1>1, <2>1, ChannelEditKeeps DEF AdminCreateChannel
<1>2. ASSUME NEW ch \in DOMAIN db.channels, NEW v \in Values, EditChannel(c, ch, v, v) PROVE OfficeInv'
  <2> PICK d : d = SetChannelView(UpdateChannel(db, ch, v), ch, v) OBVIOUS
  <2>1. Kept(db, d, NONE) /\ SameStores(db, d) BY ChannelEdited DEF OfficeInv, Good
  <2> QED BY <1>2, <2>1, ChannelEditKeeps DEF EditChannel
<1>3. ASSUME NEW ch \in DOMAIN db.channels, Rotate(c, ch) PROVE OfficeInv'
  <2> PICK d : d = SetChannelKey(db, ch) OBVIOUS
  <2>1. ~db.channels[ch].builtin BY <1>3 DEF Rotate, Keyed
  <2>2. Kept(db, d, NONE) /\ SameStores(db, d) BY <2>1, ChannelKeySet DEF OfficeInv, Good
  <2> QED BY <1>3, <2>2, ChannelEditKeeps DEF Rotate
<1>4. ASSUME NEW ch \in DOMAIN db.channels, Revoke(c, ch) PROVE OfficeInv'
  <2> PICK d : d = RevokeChannel(db, ch) OBVIOUS
  <2>1. Kept(db, d, NONE) /\ SameStores(db, d) BY ChannelRevoked DEF OfficeInv, Good
  <2> QED BY <1>4, <2>1, ChannelEditKeeps DEF Revoke
<1>5. ASSUME NEW ch \in DOMAIN db.channels, RemoveChannel(c, ch) PROVE OfficeInv'
  <2> PICK d : d = DeleteChannel(db, ch) OBVIOUS
  <2>1. Kept(db, d, NONE) /\ SameStores(db, d) BY ChannelDeleted DEF OfficeInv, Good
  <2> QED BY <1>5, <2>1, ChannelEditKeeps DEF RemoveChannel
<1>6. ASSUME NEW user, NEW o, NEW v, NEW d \in {CreateOperator(db, user), UpdateOperatorProfile(db, o, v), DeleteOperator(db, o),
                                      RevokeAllOperatorTokens(db, o)}, ChannelEdit(c, d)
      PROVE  OfficeInv'
  <2>1. Kept(db, d, NONE) /\ SameStores(db, d)
    <3>1. d \in {CreateOperator(db, user), UpdateOperatorProfile(db, o, v), DeleteOperator(db, o),
                 RevokeAllOperatorTokens(db, o), RevokeOperatorToken(db, NONE), CreateOperatorToken(db, o, v, NONE),
                 AddOperatorLocations(DeleteOperatorLocations(db, o), o, NONE)} OBVIOUS
    <3> QED BY <3>1, OperatorStatements DEF OfficeInv, Good
  <2> QED BY <1>6, <2>1, ChannelEditKeeps
<1>7. ASSUME NEW o \in DOMAIN db.ops, NEW locs \in SUBSET DOMAIN db.locs, SetAllowedLocations(c, o, locs) PROVE OfficeInv'
  <2> DEFINE s == [at |-> "allow", op |-> o, locs |-> locs]
  <2>1. call[c] = Idle /\ Go(c, s) /\ UNCHANGED <<db, accessVars, now, untold, unsent, bare>>
    BY <1>7 DEF SetAllowedLocations, Begin, Still
  <2>2. c \in Doing BY DEF Doing
  <2>3. Acts(c) /\ call'[c] = s BY <2>1, <2>2, GoActs DEF OfficeInv
  <2>4. CallTypeOK(c)' /\ call'[c].at \notin DoorStages /\ call[c].at \notin PushStages
    BY <2>1, <2>3 DEF CallTypeOK, Idle, DoorStages, PushStages
  <2> QED BY <2>1, <2>2, <2>3, <2>4, QuietStep
<1>8. CASE ReplaceLocations(c)
  <2> PICK d : d = AddOperatorLocations(DeleteOperatorLocations(db, call[c].op), call[c].op, call[c].locs) OBVIOUS
  <2>1. Kept(db, d, NONE) /\ SameStores(db, d)
    <3>1. \A o, ls : AddOperatorLocations(DeleteOperatorLocations(db, o), o, ls) \in
            {CreateOperator(db, NONE), UpdateOperatorProfile(db, o, NONE), DeleteOperator(db, o),
             RevokeAllOperatorTokens(db, o), RevokeOperatorToken(db, NONE), CreateOperatorToken(db, o, NONE, NONE),
             AddOperatorLocations(DeleteOperatorLocations(db, o), o, ls)} OBVIOUS
    <3> QED BY <3>1, OperatorStatements DEF OfficeInv, Good
  <2>2. Kept(db, db, NONE) /\ SameStores(db, db) BY NothingWritten DEF OfficeInv, Good, SameStores
  <2>3. Kept(db, db', NONE) /\ SameStores(db, db') BY <1>8, <2>1, <2>2 DEF ReplaceLocations
  <2>4. call[c].at = "allow" /\ Go(c, Idle) /\ UNCHANGED <<accessVars, now, untold, unsent, bare>>
    BY <1>8 DEF ReplaceLocations, Step, Still
  <2>5. c \in Doing BY DEF Doing
  <2>6. Acts(c) /\ call'[c] = Idle BY <2>4, <2>5, GoActs DEF OfficeInv
  <2>7. CallTypeOK(c)' /\ call'[c].at \notin DoorStages /\ call[c].at \notin PushStages
    BY <2>4, <2>6 DEF CallTypeOK, Idle, DoorStages, PushStages
  <2>8. UNCHANGED <<builtins, mu, admitted, hits>> BY <2>4 DEF accessVars
  <2>9. RightDoor' /\ HitsInOrder' BY <2>4, <2>8 DEF OfficeInv, RightDoor, HitsInOrder, WindowsInOrder
  <2> QED BY <2>3, <2>4, <2>5, <2>6, <2>7, <2>8, <2>9, AccessStep
<1> QED BY <1>1, <1>2, <1>3, <1>4, <1>5, <1>6, <1>7, <1>8
        DEF ChannelAdmin, AdminCreateOperator, AdminUpdateOperator, AdminDeleteOperator, AdminRevokeTokens

(* A call that goes from one stage to the next and changes nothing else.     *)
LEMMA StillStep ==
  ASSUME OfficeInv, NEW c \in Doing, NEW s, Go(c, s), call[c].at \notin PushStages,
         s = Idle \/ (s \in DoorCalls /\ s.at = "builtin") \/ (s.at = "allowed" /\ s.loc \in Nat),
         UNCHANGED <<db, untold, unsent, bare, accessVars, now>>
  PROVE  OfficeInv'
<1>1. Acts(c) /\ call'[c] = s BY GoActs DEF OfficeInv
<1>2. s.at \in {"idle", "builtin", "allowed"} BY DEF Idle
<1>3. CallTypeOK(c)' BY <1>1, <1>2 DEF CallTypeOK, Idle
<1>4. call'[c].at \notin DoorStages BY <1>1, <1>2 DEF DoorStages
<1> QED BY <1>1, <1>3, <1>4, QuietStep

(* Only one call is past the lock.                                           *)
LEMMA AloneAtTheDoor ==
  ASSUME OfficeInv, NEW c \in Doing, mu = NONE \/ call[c].at \in DoorStages
  PROVE  \A k \in Doing \ {c} : call[k].at \notin DoorStages
<1>1. NONE \notin Doing BY OfficeAssumption DEF Doing
<1>2. \A k \in Doing : call[k].at \in DoorStages => mu = k BY DEF OfficeInv, OneAtTheDoor, DoorStages
<1> QED BY <1>1, <1>2

(* A step of the call that holds builtinMu.                                  *)
LEMMA DoorStep ==
  ASSUME OfficeInv, NEW c \in Doing,
         Good(db'), Follows(db, db'), Elsewhere(db, db', NONE), SameStores(db, db'),
         Acts(c), CallTypeOK(c)', call[c].at \notin PushStages, UNCHANGED <<untold, unsent, bare, now, hits>>,
         mu = NONE \/ call[c].at \in DoorStages,
         call'[c].at \in DoorStages => mu' = c,
         call'[c].at = "create" => BuiltinChannel(db', call'[c].loc, call'[c].kind) = {},
         \A k \in DOMAIN builtins' :
            (k \in DOMAIN builtins /\ builtins'[k] = builtins[k]) \/ IsDoorOf(builtins[k], k)',
         RightDoor'
  PROVE  OfficeInv'
<1>1. CallsTypeOK' /\ ReceiptHandedOn' /\ UntoldWillBePushed' BY AccessKeepsStores
<1>2. \A k \in Doing \ {c} : call'[k].at \notin DoorStages
  BY AloneAtTheDoor DEF Acts, DoorStages
<1>3. OneAtTheDoor' BY <1>2 DEF OneAtTheDoor, DoorStages
<1>4. NoneYet' BY <1>2 DEF NoneYet, DoorStages
<1>5. CacheIsTrue'
  <2>1. ASSUME NEW k \in DOMAIN builtins, builtins'[k] = builtins[k], IsDoorOf(builtins[k], k)
        PROVE  IsDoorOf(builtins[k], k)'
    <3> PICK ch : ch = builtins[k] OBVIOUS
    <3>1. IsDoorOf(ch, k)' BY <2>1, DoorKept DEF OfficeInv, Good
    <3> QED BY <2>1, <3>1 DEF IsDoorOf
  <2> QED BY <2>1 DEF CacheIsTrue, OfficeInv
<1>6. HitsInOrder' BY DEF HitsInOrder, WindowsInOrder, OfficeInv
<1> QED BY <1>1, <1>3, <1>4, <1>5, <1>6 DEF OfficeInv, Good

(* The next stage of a call at the door.                                     *)
LEMMA DoorCallGoes ==
  ASSUME CallsTypeOK, NEW c \in Doing, call[c].at \in DoorStages \cup {"builtin"},
         NEW at \in DoorStages, Go(c, [call[c] EXCEPT !.at = at])
  PROVE  /\ Acts(c) /\ call'[c].at = at /\ call'[c].loc = call[c].loc /\ call'[c].kind = call[c].kind
         /\ CallTypeOK(c)'
<1>1. call[c] \in DoorCalls BY DEF CallsTypeOK, CallTypeOK, DoorStages
<1> DEFINE s == [call[c] EXCEPT !.at = at]
<1>2. s \in DoorCalls /\ s.at = at /\ s.loc = call[c].loc /\ s.kind = call[c].kind BY <1>1 DEF DoorCalls, DoorStages
<1>3. Acts(c) /\ call'[c] = s BY GoActs
<1> HIDE DEF s
<1>4. CallTypeOK(c)' BY <1>2, <1>3 DEF CallTypeOK, DoorStages
<1> QED BY <1>2, <1>3, <1>4

(* A call that got its channel: it is cached under the right key.            *)
LEMMA AnswerKeeps ==
  ASSUME OfficeInv, NEW c \in Doing, call[c].at \in DoorStages, NEW ch, NEW row, Answer(c, ch, row),
         Good(db'), Follows(db, db'), Elsewhere(db, db', NONE), SameStores(db, db'),
         ch \in DOMAIN db'.channels, row = db'.channels[ch],
         row.builtin, row.loc = call[c].loc, row.kind = call[c].kind,
         UNCHANGED <<untold, unsent, bare, now, hits>>
  PROVE  OfficeInv'
<1>1. Go(c, Idle) BY DEF Answer, Step
<1>2. Acts(c) /\ call'[c] = Idle BY <1>1, GoActs DEF OfficeInv
<1>3. CallTypeOK(c)' /\ call'[c].at \notin DoorStages BY <1>2 DEF CallTypeOK, Idle, DoorStages
<1>4. row \in ChannelRow /\ ch \in 0..db'.next - 1 BY DEF Good, TablesTypeOK
<1>5. row.builtin = TRUE BY <1>4 DEF ChannelRow
<1>6. RightDoor' BY <1>5 DEF Answer, RightDoor
<1>7. ASSUME NEW k \in DOMAIN builtins'
      PROVE (k \in DOMAIN builtins /\ builtins'[k] = builtins[k]) \/ IsDoorOf(builtins[k], k)'
  <2>1. CASE k = CacheKey(call[c])
    <3>1. k = <<row.loc, row.kind>> BY <2>1 DEF CacheKey
    <3>2. builtins'[k] = ch BY <2>1 DEF Answer
    <3> QED BY <1>4, <3>1, <3>2 DEF IsDoorOf
  <2>2. CASE k # CacheKey(call[c]) BY <1>7, <2>2 DEF Answer
  <2> QED BY <2>1, <2>2
<1>8. call[c].at \notin PushStages BY DEF DoorStages, PushStages
<1> QED BY <1>2, <1>3, <1>6, <1>7, <1>8, DoorStep DEF DoorStages

(* The stages of builtin.                                                    *)
LEMMA LockKeeps ==
  ASSUME OfficeInv, NEW c \in Doing, Lock(c)
  PROVE  OfficeInv'
<1>1. /\ call[c].at = "builtin" /\ mu = NONE /\ mu' = c /\ Go(c, [call[c] EXCEPT !.at = "cached"])
      /\ UNCHANGED <<db, builtins, admitted, hits, now, untold, unsent, bare>>
  BY DEF Lock, MayLock, Step, Still
<1>2. Acts(c) /\ call'[c].at = "cached" /\ CallTypeOK(c)'
  BY <1>1, DoorCallGoes DEF OfficeInv, DoorStages
<1>3. Kept(db, db', NONE) /\ SameStores(db, db') BY <1>1, NothingWritten DEF OfficeInv, Good, SameStores
<1>4. RightDoor' BY <1>1 DEF OfficeInv, RightDoor
<1> QED BY <1>1, <1>2, <1>3, <1>4, DoorStep DEF Kept, PushStages

(* A hit is the right channel; a stale entry is dropped.                     *)
LEMMA CheckCacheKeeps ==
  ASSUME OfficeInv, NEW c \in Doing, CheckCache(c)
  PROVE  OfficeInv'
<1> PICK key : key = CacheKey(call[c]) OBVIOUS
<1> DEFINE hit == key \in DOMAIN builtins /\ GetChannel(db, builtins[key])
<1>1. /\ call[c].at = "cached" /\ UNCHANGED <<db, hits, now, untold, unsent, bare>>
      /\ IF hit THEN Answer(c, builtins[key], db.channels[builtins[key]])
         ELSE builtins' = Forget(key) /\ Go(c, [call[c] EXCEPT !.at = "lookup"]) /\ UNCHANGED <<mu, admitted>>
  BY DEF CheckCache, Still, Step
<1>2. Kept(db, db', NONE) /\ SameStores(db, db') BY <1>1, NothingWritten DEF OfficeInv, Good, SameStores
<1>3. CASE hit
  <2>1. IsDoorOf(builtins[key], key) BY <1>3 DEF OfficeInv, CacheIsTrue
  <2>2. builtins[key] \in DOMAIN db.channels BY <1>3 DEF GetChannel
  <2> PICK row : row = db.channels[builtins[key]] OBVIOUS
  <2>3. row.builtin /\ key = <<row.loc, row.kind>> BY <2>1, <2>2 DEF IsDoorOf
  <2>4. row.loc = call[c].loc /\ row.kind = call[c].kind BY <2>3 DEF CacheKey
  <2> PICK ch : ch = builtins[key] OBVIOUS
  <2>5. Answer(c, ch, row) /\ ch \in DOMAIN db'.channels /\ row = db'.channels[ch] BY <1>1, <1>3, <2>2
  <2> QED BY <1>1, <1>2, <2>3, <2>4, <2>5, AnswerKeeps DEF Kept, DoorStages
<1>4. CASE ~hit
  <2>1. Acts(c) /\ call'[c].at = "lookup" /\ CallTypeOK(c)' BY <1>1, <1>4, DoorCallGoes DEF OfficeInv, DoorStages
  <2>2. \A k \in DOMAIN builtins' : k \in DOMAIN builtins /\ builtins'[k] = builtins[k] BY <1>1, <1>4 DEF Forget
  <2>3. mu' = c BY <1>1, <1>4 DEF OfficeInv, OneAtTheDoor
  <2>4. RightDoor' BY <1>1, <1>4 DEF OfficeInv, RightDoor
  <2> QED BY <1>1, <1>2, <2>1, <2>2, <2>3, <2>4, DoorStep DEF Kept, PushStages, DoorStages
<1> QED BY <1>3, <1>4

(* The row that is found is the one to answer.                               *)
LEMMA LookupKeeps ==
  ASSUME OfficeInv, NEW c \in Doing, Lookup(c)
  PROVE  OfficeInv'
<1> PICK rows : rows = BuiltinChannel(db, call[c].loc, call[c].kind) OBVIOUS
<1>1. /\ call[c].at = "lookup" /\ UNCHANGED <<db, hits, now, untold, unsent, bare>>
      /\ IF rows # {} THEN Answer(c, Min(rows), db.channels[Min(rows)])
         ELSE Go(c, [call[c] EXCEPT !.at = "create"]) /\ UNCHANGED <<builtins, mu, admitted>>
  BY DEF Lookup, Still, Step
<1>2. Kept(db, db', NONE) /\ SameStores(db, db') BY <1>1, NothingWritten DEF OfficeInv, Good, SameStores
<1>3. CASE rows # {}
  <2>1. rows \in SUBSET Nat BY DEF BuiltinChannel, Select, OfficeInv, TablesTypeOK
  <2> PICK ch : ch = Min(rows) OBVIOUS
  <2>2. ch \in rows BY <1>3, <2>1, MinIsLeast
  <2> PICK row : row = db.channels[ch] OBVIOUS
  <2>3. ch \in DOMAIN db.channels /\ row.builtin /\ row.loc = call[c].loc /\ row.kind = call[c].kind
    BY <2>2 DEF BuiltinChannel, Select
  <2>4. Answer(c, ch, row) /\ ch \in DOMAIN db'.channels /\ row = db'.channels[ch] BY <1>1, <1>3, <2>3
  <2> QED BY <1>1, <1>2, <2>3, <2>4, AnswerKeeps DEF Kept, DoorStages
<1>4. CASE rows = {}
  <2>1. /\ Acts(c) /\ call'[c].at = "create" /\ CallTypeOK(c)'
        /\ call'[c].loc = call[c].loc /\ call'[c].kind = call[c].kind
    BY <1>1, <1>4, DoorCallGoes DEF OfficeInv, DoorStages
  <2>2. mu' = c BY <1>1, <1>4 DEF OfficeInv, OneAtTheDoor
  <2>3. RightDoor' BY <1>1, <1>4 DEF OfficeInv, RightDoor
  <2>4. BuiltinChannel(db', call'[c].loc, call'[c].kind) = {} BY <1>1, <1>4, <2>1
  <2> QED BY <1>1, <1>2, <1>4, <2>1, <2>2, <2>3, <2>4, DoorStep DEF Kept, PushStages, DoorStages
<1> QED BY <1>3, <1>4

(* The lookup found none and the lock was held since: one is made.           *)
LEMMA CreateBuiltinKeeps ==
  ASSUME OfficeInv, NEW c \in Doing, CreateBuiltin(c)
  PROVE  OfficeInv'
<1> PICK l : l = call[c].loc OBVIOUS
<1> PICK kind : kind = call[c].kind OBVIOUS
<1> PICK d : d = CreateChannel(db, l, kind, TRUE) OBVIOUS
<1>1. /\ call[c].at = "create" /\ UNCHANGED <<hits, now, untold, unsent, bare>>
      /\ IF l \in DOMAIN db.locs THEN db' = d /\ Answer(c, db.next, d.channels[db.next])
         ELSE Go(c, Idle) /\ Unlock(c) /\ UNCHANGED <<db, builtins, admitted>>
  BY DEF CreateBuiltin, Still, Step, GetLocationByID
<1>2. kind \in {"operator", "vendor"} BY <1>1 DEF OfficeInv, CallsTypeOK, CallTypeOK, DoorCalls
<1>3. BuiltinChannel(db, l, kind) = {} BY <1>1 DEF OfficeInv, NoneYet
<1>4. CASE l \in DOMAIN db.locs
  <2>1. /\ Good(d) /\ Follows(db, d) /\ Elsewhere(db, d, NONE) /\ SameStores(db, d)
        /\ db.next \in DOMAIN d.channels
        /\ LET r == d.channels[db.next] IN r.loc = l /\ r.kind = kind /\ r.builtin = TRUE
    <3>1. Good(db) /\ kind \in Kinds \cup {"operator", "vendor"} BY <1>2 DEF OfficeInv, Good
    <3>2. ASSUME NEW b \in BOOLEAN, b
          PROVE  LET e == CreateChannel(db, l, kind, b)
                 IN  /\ Good(e) /\ Follows(db, e) /\ Elsewhere(db, e, NONE) /\ SameStores(db, e)
                     /\ db.next \in DOMAIN e.channels
                     /\ LET r == e.channels[db.next] IN r.loc = l /\ r.kind = kind /\ r.builtin = b
      BY <1>3, <1>4, <3>1, ChannelCreated
    <3>3. LET e == CreateChannel(db, l, kind, TRUE)
          IN  /\ Good(e) /\ Follows(db, e) /\ Elsewhere(db, e, NONE) /\ SameStores(db, e)
              /\ db.next \in DOMAIN e.channels
              /\ LET r == e.channels[db.next] IN r.loc = l /\ r.kind = kind /\ r.builtin = TRUE
      BY <3>2, Zenon
    <3> QED BY <3>3
  <2> PICK ch : ch = db.next OBVIOUS
  <2> PICK row : row = d.channels[ch] OBVIOUS
  <2>2. db' = d /\ Answer(c, ch, row) BY <1>1, <1>4
  <2> QED BY <1>1, <2>1, <2>2, AnswerKeeps DEF DoorStages
<1>5. CASE l \notin DOMAIN db.locs
  <2>1. Go(c, Idle) /\ Unlock(c) /\ UNCHANGED <<db, builtins, admitted>> BY <1>1, <1>5
  <2>2. Acts(c) /\ call'[c] = Idle BY <2>1, GoActs DEF OfficeInv
  <2>3. CallTypeOK(c)' /\ call'[c].at \notin DoorStages BY <2>2 DEF CallTypeOK, Idle, DoorStages
  <2>4. Kept(db, db', NONE) /\ SameStores(db, db') BY <2>1, NothingWritten DEF OfficeInv, Good, SameStores
  <2>5. RightDoor' BY <2>1 DEF OfficeInv, RightDoor
  <2> QED BY <1>1, <2>1, <2>2, <2>3, <2>4, <2>5, DoorStep DEF Kept, PushStages, DoorStages
<1> QED BY <1>4, <1>5

(* A key names a channel that is not built-in.                               *)
LEMMA AuthenticateKeyKeeps ==
  ASSUME OfficeInv, NEW c \in Callers, NEW ch \in DOMAIN db.channels, AuthenticateKey(c, ch)
  PROVE  OfficeInv'
<1> PICK row : row = db.channels[ch] OBVIOUS
<1>1. /\ call[c] = Idle /\ Go(c, Idle) /\ row.key # NONE
      /\ UNCHANGED <<db, builtins, mu, hits, now, untold, unsent, bare>>
      /\ admitted' = [ch |-> row, loc |-> row.loc, kind |-> row.kind, builtin |-> FALSE]
  BY DEF AuthenticateKey, Begin, Still
<1>2. c \in Doing BY DEF Doing
<1>3. Acts(c) /\ call'[c] = Idle BY <1>1, <1>2, GoActs DEF OfficeInv
<1>4. CallTypeOK(c)' /\ call'[c].at \notin DoorStages /\ call[c].at \notin PushStages
  BY <1>1, <1>3 DEF CallTypeOK, Idle, DoorStages, PushStages
<1>5. Kept(db, db', NONE) /\ SameStores(db, db') BY <1>1, NothingWritten DEF OfficeInv, Good, SameStores
<1>6. row \in ChannelRow BY DEF OfficeInv, TablesTypeOK
<1>7. row.builtin = FALSE BY <1>1, <1>6 DEF ChannelRow, OfficeInv, ChannelsOK
<1>8. RightDoor' BY <1>1, <1>7 DEF RightDoor
<1>9. HitsInOrder' BY <1>1 DEF OfficeInv, HitsInOrder, WindowsInOrder
<1> QED BY <1>1, <1>2, <1>3, <1>4, <1>5, <1>8, <1>9, AccessStep

(* Requests on /channel/v1 and of the vendor feed.                           *)
LEMMA ChannelRequestKeeps ==
  ASSUME OfficeInv, NEW c \in Callers, ChannelRequest(c)
  PROVE  OfficeInv'
<1>1. c \in Doing BY DEF Doing
<1>2. DOMAIN db.locs \subseteq Nat BY DEF OfficeInv, TablesTypeOK
<1>3. ASSUME NEW token \in DOMAIN db.tokens, NEW l \in DOMAIN db.locs, AuthenticateSession(c, token, l) PROVE OfficeInv'
  <2> DEFINE s == [at |-> "allowed", op |-> db.tokens[token].op, loc |-> l]
  <2>1. call[c] = Idle /\ Go(c, s) /\ UNCHANGED <<db, accessVars, now, untold, unsent, bare>>
    BY <1>3 DEF AuthenticateSession, Begin, Still
  <2>2. s.at = "allowed" /\ s.loc \in Nat BY <1>2
  <2>3. call[c].at \notin PushStages BY <2>1 DEF Idle, PushStages
  <2> HIDE DEF s
  <2> QED BY <1>1, <2>1, <2>2, <2>3, StillStep
<1>4. ASSUME NEW token \in DOMAIN db.tokens, ChannelLogout(c, token) PROVE OfficeInv'
  <2> PICK d : d = RevokeOperatorToken(db, token) OBVIOUS
  <2>1. d \in {CreateOperator(db, NONE), UpdateOperatorProfile(db, NONE, NONE), DeleteOperator(db, NONE),
               RevokeAllOperatorTokens(db, NONE), RevokeOperatorToken(db, token), CreateOperatorToken(db, NONE, NONE, NONE),
               AddOperatorLocations(DeleteOperatorLocations(db, NONE), NONE, NONE)} OBVIOUS
  <2>2. Kept(db, d, NONE) /\ SameStores(db, d) BY <2>1, OperatorStatements DEF OfficeInv, Good
  <2> QED BY <1>4, <2>2, ChannelEditKeeps DEF ChannelLogout
<1>5. ASSUME NEW l \in DOMAIN db.locs, BuiltinVendor(c, l) PROVE OfficeInv'
  <2> DEFINE s == [at |-> "builtin", loc |-> l, kind |-> "vendor"]
  <2>1. call[c] = Idle /\ Go(c, s) /\ UNCHANGED <<db, accessVars, now, untold, unsent, bare>>
    BY <1>5 DEF BuiltinVendor, Begin, Still
  <2>2. s \in DoorCalls /\ s.at = "builtin" BY <1>2 DEF DoorCalls
  <2>3. call[c].at \notin PushStages BY <2>1 DEF Idle, PushStages
  <2> HIDE DEF s
  <2> QED BY <1>1, <2>1, <2>2, <2>3, StillStep
<1>6. CASE CheckAllowed(c)
  <2> DEFINE s == IF AllowedHere(call[c]) THEN [at |-> "builtin", loc |-> call[c].loc, kind |-> "operator"] ELSE Idle
  <2>1. call[c].at = "allowed" /\ Go(c, s) /\ UNCHANGED <<db, accessVars, now, untold, unsent, bare>>
    BY <1>6 DEF CheckAllowed, Step, Still
  <2>2. call[c].loc \in Nat BY <1>1, <2>1 DEF OfficeInv, CallsTypeOK, CallTypeOK
  <2>3. s = Idle \/ (s \in DoorCalls /\ s.at = "builtin") BY <2>2 DEF DoorCalls
  <2>4. call[c].at \notin PushStages BY <2>1 DEF PushStages
  <2> HIDE DEF s
  <2> QED BY <1>1, <2>1, <2>3, <2>4, StillStep
<1> QED BY <1>1, <1>3, <1>4, <1>5, <1>6, AuthenticateKeyKeeps, LockKeeps, CheckCacheKeeps, LookupKeeps, CreateBuiltinKeeps
        DEF ChannelRequest

-----------------------------------------------------------------------------
(* The limiter.  A window's events are kept in order, so the young ones are  *)
(* the last ones: those after the last event that is too old.                *)
Cut(ts, t, n) ==
    /\ n \in 0..Len(ts)
    /\ \A i \in 1..n : t - ts[i] >= Window
    /\ \A i \in n + 1..Len(ts) : t - ts[i] < Window

(* Every time cuts the window in two.                                        *)
LEMMA CutExists ==
  ASSUME NEW ts, NEW u, OldestFirst(ts, u), NEW t \in Int
  PROVE  \E n \in 0..Len(ts) : Cut(ts, t, n)
<1> DEFINE young == {m \in 0..Len(ts) : \A i \in m + 1..Len(ts) : t - ts[i] < Window}
<1>1. ts \in Seq(Nat) /\ Len(ts) \in Nat /\ Window \in Nat BY WindowAssumption DEF OldestFirst
<1>2. Len(ts) \in young BY <1>1
<1>3. young \in SUBSET Nat OBVIOUS
<1>4. PICK n \in young : \A m \in young : n <= m BY <1>2, <1>3, LeastExists
<1>5. \A i \in 1..n : t - ts[i] >= Window
  <2>1. SUFFICES ASSUME NEW i \in 1..n PROVE t - ts[i] >= Window OBVIOUS
  <2>2. n \in 0..Len(ts) /\ n >= 1 BY <1>3, <2>1
  <2>3. n - 1 \notin young
    <3> HIDE DEF young
    <3> QED BY <1>1, <1>3, <1>4, <2>2
  <2>4. PICK j \in n..Len(ts) : ~(t - ts[j] < Window) BY <1>1, <2>2, <2>3
  <2>5. ts[i] <= ts[j] /\ ts[i] \in Nat /\ ts[j] \in Nat BY <1>1, <2>1, <2>2, <2>4 DEF OldestFirst
  <2> QED BY <1>1, <2>4, <2>5
<1> QED BY <1>4, <1>5 DEF Cut

(* What the loop of prune leaves.                                            *)
LEMMA KeepEquation ==
  ASSUME NEW ts, NEW t
  PROVE  Keep(ts, t) =
           (CHOOSE g : g = [n \in 0..Len(ts) |->
              IF n = 0 THEN << >> ELSE IF t - ts[n] < Window THEN Append(g[n - 1], ts[n]) ELSE g[n - 1]])[Len(ts)]
BY DEF Keep

(* The loop keeps what comes after the cut, whatever the length.             *)
LEMMA KeepIsSuffix ==
  ASSUME NEW ts, NEW u, OldestFirst(ts, u), NEW t \in Int, NEW n \in 0..Len(ts), Cut(ts, t, n)
  PROVE  Keep(ts, t) = SubSeq(ts, n + 1, Len(ts))
<1> DEFINE F(g) == [m \in 0..Len(ts) |->
              IF m = 0 THEN << >> ELSE IF t - ts[m] < Window THEN Append(g[m - 1], ts[m]) ELSE g[m - 1]]
           kept == [m \in 0..Len(ts) |-> SubSeq(ts, n + 1, m)]
           keep == CHOOSE g : g = F(g)
<1>1. ts \in Seq(Nat) /\ Len(ts) \in Nat /\ Window \in Nat BY WindowAssumption DEF OldestFirst
<1>2. kept = F(kept)
  <2>1. ASSUME NEW m \in 0..Len(ts) PROVE kept[m] = F(kept)[m]
    <3>1. CASE m = 0 BY <1>1, <3>1
    <3>2. CASE m # 0 /\ m <= n
      <4>1. ~(t - ts[m] < Window) BY <1>1, <3>2 DEF Cut
      <4>2. SubSeq(ts, n + 1, m) = << >> /\ SubSeq(ts, n + 1, m - 1) = << >> BY <1>1, <3>2
      <4>3. m \in 0..Len(ts) /\ m - 1 \in 0..Len(ts) BY <1>1, <3>2
      <4>5. kept[m] = SubSeq(ts, n + 1, m) /\ kept[m - 1] = SubSeq(ts, n + 1, m - 1) BY <4>3
      <4> HIDE DEF kept
      <4> QED BY <3>2, <4>1, <4>2, <4>5
    <3>3. CASE m > n
      <4>1. t - ts[m] < Window BY <1>1, <3>3 DEF Cut
      <4>2. SubSeq(ts, n + 1, m) = Append(SubSeq(ts, n + 1, m - 1), ts[m]) BY <1>1, <3>3
      <4>3. m \in 0..Len(ts) /\ m - 1 \in 0..Len(ts) BY <1>1, <3>3
      <4>5. kept[m] = SubSeq(ts, n + 1, m) /\ kept[m - 1] = SubSeq(ts, n + 1, m - 1) BY <4>3
      <4>4. m # 0 BY <3>3
      <4> HIDE DEF kept
      <4> QED BY <4>1, <4>2, <4>4, <4>5
    <3>4. m \in Nat /\ n \in Nat BY <1>1
    <3> HIDE DEF kept, F
    <3> QED BY <3>1, <3>2, <3>3, <3>4
  <2> QED BY <2>1
<1> HIDE DEF kept
<1>3. keep = F(keep) BY <1>2
<1>4. ASSUME NEW g, g = F(g) PROVE \A m \in 0..Len(ts) : g[m] = kept[m]
  <2> DEFINE wrong == {m \in 0..Len(ts) : g[m] # kept[m]}
  <2>1. SUFFICES ASSUME wrong # {} PROVE FALSE OBVIOUS
  <2>2. wrong \in SUBSET Nat OBVIOUS
  <2>3. PICK m \in wrong : \A k \in wrong : m <= k BY <2>1, <2>2, LeastExists
  <2>4. m \in 0..Len(ts) /\ g[m] # kept[m] BY <2>3
  <2>5. g[0] = << >> /\ kept[0] = << >>
    <3>1. 0 \in 0..Len(ts) BY <1>1
    <3> QED BY <1>2, <1>4, <3>1
  <2>6. m # 0 BY <2>4, <2>5
  <2>7. m - 1 \in 0..Len(ts) /\ m - 1 < m BY <1>1, <2>4, <2>6
  <2>8. m - 1 \notin wrong
    <3> HIDE DEF wrong
    <3> QED BY <2>3, <2>4, <2>7
  <2>9. g[m - 1] = kept[m - 1] BY <2>7, <2>8
  <2>10. /\ g[m] = IF t - ts[m] < Window THEN Append(g[m - 1], ts[m]) ELSE g[m - 1]
         /\ kept[m] = IF t - ts[m] < Window THEN Append(kept[m - 1], ts[m]) ELSE kept[m - 1]
    BY <1>2, <1>4, <2>4, <2>6
  <2> QED BY <2>4, <2>9, <2>10
<1>5. Keep(ts, t) = keep[Len(ts)] BY KeepEquation
<1> HIDE DEF keep, F
<1>6. keep[Len(ts)] = kept[Len(ts)] BY <1>1, <1>3, <1>4
<1>7. kept[Len(ts)] = SubSeq(ts, n + 1, Len(ts)) BY <1>1 DEF kept
<1> QED BY <1>5, <1>6, <1>7

(* Retry-After is exact for any window and any limit: the event it waits     *)
(* for is the last that has to go.                                           *)
LEMMA WaitIsExact ==
  ASSUME NEW h, NEW key, NEW u, OldestFirst(Events(h, key), u), NEW t \in Nat, NEW max \in Nat \ {0}
  PROVE  LET wait == RetryAfterN(h, key, max, t)
         IN  /\ AllowN(h, key, max, t + wait)
             /\ wait > 0 => ~AllowN(h, key, max, t + wait - 1)
<1> PICK ts : ts = Events(h, key) OBVIOUS
<1> PICK wait : wait = RetryAfterN(h, key, max, t) OBVIOUS
<1>1. OldestFirst(ts, u) /\ ts \in Seq(Nat) /\ Len(ts) \in Nat /\ Window \in Nat \ {0}
  BY WindowAssumption DEF OldestFirst
<1>2. PICK n \in 0..Len(ts) : Cut(ts, t, n) BY <1>1, CutExists
<1>3. Keep(ts, t) = SubSeq(ts, n + 1, Len(ts)) BY <1>1, <1>2, KeepIsSuffix
<1>4. Len(Keep(ts, t)) = Len(ts) - n BY <1>1, <1>3
<1>5. \A x \in Int : AllowN(h, key, max, x) <=> Len(Keep(ts, x)) < max BY DEF AllowN, Young
<1>6. CASE Len(ts) - n < max
  <2>1. wait = 0 BY <1>4, <1>6 DEF RetryAfterN, Young
  <2>2. t + wait = t BY <2>1
  <2> QED BY <1>4, <1>5, <1>6, <2>1, <2>2
<1>7. CASE ~(Len(ts) - n < max)
  <2> DEFINE i == Len(ts) - max + 1
  <2>1. i \in 1..Len(ts) /\ i > n /\ ts[i] \in Nat BY <1>1, <1>7
  <2>2. Keep(ts, t)[Len(Keep(ts, t)) - max + 1] = ts[i]
    <3>1. Len(ts) - n - max + 1 \in 1..Len(ts) - n BY <1>1, <1>7
    <3>2. SubSeq(ts, n + 1, Len(ts))[Len(ts) - n - max + 1] = ts[n + 1 + (Len(ts) - n - max + 1) - 1] BY <1>1, <3>1
    <3>3. n + 1 + (Len(ts) - n - max + 1) - 1 = i BY <1>1
    <3> QED BY <1>3, <1>4, <3>2, <3>3
  <2>3. wait = ts[i] + Window - t
    <3>1. wait = Keep(ts, t)[Len(Keep(ts, t)) - max + 1] + Window - t BY <1>4, <1>7 DEF RetryAfterN, Young
    <3> HIDE DEF i
    <3> QED BY <2>2, <3>1
  <2>4. t - ts[i] < Window
    <3> HIDE DEF i
    <3>1. i \in n + 1..Len(ts) BY <1>1, <2>1
    <3> QED BY <1>2, <3>1 DEF Cut
  <2>5. AllowN(h, key, max, t + wait)
    <3> PICK x : x = t + wait OBVIOUS
    <3>1. x = ts[i] + Window /\ x \in Int
      <4> HIDE DEF i
      <4>1. PICK y \in Nat : y = ts[i] BY <2>1
      <4>2. Window \in Nat BY <1>1
      <4>3. wait = y + Window - t BY <2>3, <4>1
      <4>4. x = y + Window /\ x \in Int BY <4>2, <4>3
      <4> QED BY <4>1, <4>4
    <3>2. PICK m \in 0..Len(ts) : Cut(ts, x, m) BY <1>1, <3>1, CutExists
    <3>3. m >= i
      <4>1. SUFFICES ASSUME m < i PROVE FALSE
        <5> HIDE DEF i
        <5> QED BY <2>1
      <4> HIDE DEF i
      <4>2. i \in m + 1..Len(ts) BY <2>1, <4>1
      <4>3. x - ts[i] < Window BY <3>2, <4>2 DEF Cut
      <4>4. ts[i] \in Nat /\ Window \in Nat BY <1>1, <2>1
      <4> QED BY <3>1, <4>3, <4>4
    <3>4. Keep(ts, x) = SubSeq(ts, m + 1, Len(ts)) BY <1>1, <3>1, <3>2, KeepIsSuffix
    <3>5. Len(Keep(ts, x)) = Len(ts) - m BY <1>1, <3>4
    <3>6. Len(Keep(ts, x)) < max BY <1>1, <3>3, <3>5
    <3> QED BY <1>5, <3>1, <3>6
  <2>6. ~AllowN(h, key, max, t + wait - 1)
    <3> PICK x : x = t + wait - 1 OBVIOUS
    <3>1. x = ts[i] + Window - 1 /\ x \in Int
      <4> HIDE DEF i
      <4>1. PICK y \in Nat : y = ts[i] BY <2>1
      <4>2. Window \in Nat BY <1>1
      <4>3. wait = y + Window - t BY <2>3, <4>1
      <4>4. x = y + Window - 1 /\ x \in Int BY <4>2, <4>3
      <4> QED BY <4>1, <4>4
    <3>2. PICK m \in 0..Len(ts) : Cut(ts, x, m) BY <1>1, <3>1, CutExists
    <3>3. m < i
      <4>1. SUFFICES ASSUME m >= i PROVE FALSE
        <5> HIDE DEF i
        <5> QED BY <2>1
      <4> HIDE DEF i
      <4>2. i \in 1..m BY <2>1, <4>1
      <4>3. x - ts[i] >= Window BY <3>2, <4>2 DEF Cut
      <4>4. ts[i] \in Nat /\ Window \in Nat BY <1>1, <2>1
      <4> QED BY <3>1, <4>3, <4>4
    <3>4. Keep(ts, x) = SubSeq(ts, m + 1, Len(ts)) BY <1>1, <3>1, <3>2, KeepIsSuffix
    <3>5. Len(Keep(ts, x)) = Len(ts) - m BY <1>1, <3>4
    <3>6. ~(Len(Keep(ts, x)) < max) BY <1>1, <3>3, <3>5
    <3> QED BY <1>5, <3>1, <3>6
  <2> QED BY <2>5, <2>6
<1> QED BY <1>6, <1>7

(* What the limiter's calls write stays in order.                            *)
LEMMA KeepsOrder ==
  ASSUME NEW ts, NEW u, OldestFirst(ts, u), NEW t \in Int
  PROVE  OldestFirst(Keep(ts, t), u)
<1>1. ts \in Seq(Nat) /\ Len(ts) \in Nat BY DEF OldestFirst
<1>2. PICK n \in 0..Len(ts) : Cut(ts, t, n) BY CutExists
<1> PICK ks : ks = SubSeq(ts, n + 1, Len(ts)) OBVIOUS
<1>3. Keep(ts, t) = ks BY <1>2, KeepIsSuffix
<1>4. ks \in Seq(Nat) /\ Len(ks) = Len(ts) - n /\ \A i \in 1..Len(ks) : ks[i] = ts[n + i]
  <2>1. n \in Nat /\ n + 1 \in Nat /\ n + 1 <= Len(ts) + 1 BY <1>1
  <2>2. Len(ks) = Len(ts) - n BY <1>1, <2>1
  <2>3. ks \in Seq(Nat)
    <3>1. \A i \in (n + 1)..Len(ts) : ts[i] \in Nat BY <1>1, <2>1
    <3> QED BY <1>1, <2>1, <3>1
  <2>4. ASSUME NEW i \in 1..Len(ks) PROVE ks[i] = ts[n + i]
    <3>1. i \in 1..(Len(ts) - n) BY <2>2
    <3>2. ks[i] = ts[(n + 1) + i - 1] BY <1>1, <2>1, <3>1
    <3>3. (n + 1) + i - 1 = n + i BY <1>1, <2>1
    <3> QED BY <3>2, <3>3
  <2> QED BY <2>2, <2>3, <2>4
<1>5. ASSUME NEW i \in 1..Len(ks) PROVE n + i \in 1..Len(ts) BY <1>1, <1>4
<1>6. \A i, j \in 1..Len(ks) : i <= j => ks[i] <= ks[j]
  <2>1. SUFFICES ASSUME NEW i \in 1..Len(ks), NEW j \in 1..Len(ks), i <= j PROVE ks[i] <= ks[j] OBVIOUS
  <2>2. n + i \in 1..Len(ts) /\ n + j \in 1..Len(ts) /\ n + i <= n + j BY <1>4, <1>5, <2>1
  <2>3. ts[n + i] <= ts[n + j] BY <2>2 DEF OldestFirst
  <2> QED BY <1>4, <2>3
<1>7. \A i \in 1..Len(ks) : ks[i] <= u BY <1>4, <1>5 DEF OldestFirst
<1> QED BY <1>3, <1>4, <1>6, <1>7 DEF OldestFirst

(* The present is younger than everything in the window.                     *)
LEMMA AppendsInOrder ==
  ASSUME NEW t \in Nat, NEW ts, OldestFirst(ts, t)
  PROVE  OldestFirst(Append(ts, t), t)
<1> PICK a : a = Append(ts, t) OBVIOUS
<1>1. ts \in Seq(Nat) /\ Len(ts) \in Nat BY DEF OldestFirst
<1>2. a \in Seq(Nat) /\ Len(a) = Len(ts) + 1 /\ a[Len(ts) + 1] = t /\ \A i \in 1..Len(ts) : a[i] = ts[i] BY <1>1
<1>3. \A i \in 1..Len(a) : i \in 1..Len(ts) \/ i = Len(ts) + 1 BY <1>1, <1>2
<1>4. \A i \in 1..Len(a) : a[i] <= t BY <1>2, <1>3 DEF OldestFirst
<1>5. \A i, j \in 1..Len(a) : i <= j => a[i] <= a[j]
  <2>1. SUFFICES ASSUME NEW i \in 1..Len(a), NEW j \in 1..Len(a), i <= j PROVE a[i] <= a[j] OBVIOUS
  <2>2. CASE j \in 1..Len(ts)
    <3>1. i \in 1..Len(ts) BY <1>1, <1>2, <2>1, <2>2
    <3>2. ts[i] <= ts[j] BY <2>1, <2>2, <3>1 DEF OldestFirst
    <3> QED BY <1>2, <2>2, <3>1, <3>2
  <2>3. CASE j = Len(ts) + 1 BY <1>2, <1>4, <2>3
  <2> QED BY <1>3, <2>2, <2>3
<1> QED BY <1>2, <1>4, <1>5 DEF OldestFirst

(* Each call of the limiter keeps the windows in order.                      *)
LEMMA LimiterKeepsOrder ==
  ASSUME NEW h, NEW t \in Nat, WindowsInOrder(h, t), NEW key
  PROVE  /\ WindowsInOrder(Prune(h, key, t), t)
         /\ WindowsInOrder(Add(h, key, t), t)
         /\ WindowsInOrder(Reset(h, key), t)
<1>1. ASSUME NEW g, WindowsInOrder(g, t), NEW ts, OldestFirst(ts, t) PROVE WindowsInOrder(Store(g, key, ts), t)
  BY <1>1 DEF Store, WindowsInOrder
<1>2. OldestFirst(<< >>, t) BY DEF OldestFirst
<1>3. ASSUME NEW g, WindowsInOrder(g, t), NEW k PROVE OldestFirst(Young(g, k, t), t)
  <2>1. OldestFirst(Events(g, k), t) BY <1>2, <1>3 DEF Events, WindowsInOrder
  <2> QED BY <2>1, KeepsOrder DEF Young
<1>4. WindowsInOrder(Prune(h, key, t), t) BY <1>1, <1>3 DEF Prune
<1>5. WindowsInOrder(Reset(h, key), t) BY <1>1, <1>2 DEF Reset
<1>6. WindowsInOrder(PruneAll(h, t), t) BY <1>3 DEF PruneAll, WindowsInOrder
<1>7. WindowsInOrder(Add(h, key, t), t)
  <2> DEFINE g == IF Cardinality(DOMAIN h) > MaxKeys THEN PruneAll(h, t) ELSE h
             ts == Append(Young(g, key, t), t)
  <2>1. WindowsInOrder(g, t) BY <1>6
  <2> HIDE DEF g
  <2>2. OldestFirst(ts, t) BY <1>3, <2>1, AppendsInOrder
  <2> HIDE DEF ts
  <2>3. WindowsInOrder(Store(g, key, ts), t) BY <1>1, <2>1, <2>2
  <2>4. Add(h, key, t) = Store(g, key, ts) BY DEF Add, g, ts
  <2> QED BY <2>3, <2>4
<1> QED BY <1>4, <1>5, <1>7

-----------------------------------------------------------------------------
(* Sign-ins.                                                                 *)
LEMMA LoginStep ==
  ASSUME OfficeInv, NEW c \in Callers, NEW s, Go(c, s), s.at \in {"idle", "failed", "signed"} \/ s = [at |-> "password", door |-> s.door, user |-> s.user],
         call[c].at \in {"idle", "password", "failed", "signed"},
         Kept(db, db', NONE), SameStores(db, db'),
         UNCHANGED <<untold, unsent, bare, builtins, mu, admitted, now>>, WindowsInOrder(hits', now)
  PROVE  OfficeInv'
<1>1. c \in Doing BY DEF Doing
<1>2. Acts(c) /\ call'[c] = s BY <1>1, GoActs DEF OfficeInv
<1>3. s.at \in {"idle", "failed", "signed", "password"} OBVIOUS
<1>4. CallTypeOK(c)' /\ call'[c].at \notin DoorStages /\ call[c].at \notin PushStages
  BY <1>2, <1>3 DEF CallTypeOK, DoorStages, PushStages
<1>5. RightDoor' BY DEF OfficeInv, RightDoor
<1>6. HitsInOrder' BY DEF OfficeInv, HitsInOrder, WindowsInOrder
<1> QED BY <1>1, <1>2, <1>4, <1>5, <1>6, AccessStep

(* The stages of a sign-in.                                                  *)
LEMMA LoginRequestKeeps ==
  ASSUME OfficeInv, NEW c \in Callers, LoginRequest(c)
  PROVE  OfficeInv'
<1>1. c \in Doing /\ now \in Nat /\ WindowsInOrder(hits, now) BY DEF Doing, OfficeInv, HitsInOrder
<1>2. Kept(db, db, NONE) /\ SameStores(db, db) BY NothingWritten DEF OfficeInv, Good, SameStores
<1>3. ASSUME NEW h, WindowsInOrder(h, now), NEW key
      PROVE  WindowsInOrder(Prune(h, key, now), now) /\ WindowsInOrder(Add(h, key, now), now) /\ WindowsInOrder(Reset(h, key), now)
  BY <1>1, <1>3, LimiterKeepsOrder
<1>4. ASSUME NEW x \in Logins, SignIn(c, x[1], x[2]) PROVE OfficeInv'
  <2> DEFINE pass == [at |-> "password", door |-> x[1], user |-> x[2]]
             s == IF Throttled(pass) THEN Idle ELSE pass
  <2>1. /\ call[c] = Idle /\ Go(c, s) /\ UNCHANGED <<db, untold, unsent, bare, builtins, mu, admitted, now>>
        /\ hits' = Prune(Prune(hits, UserKey(pass), now), GlobalKey(pass), now)
    BY <1>4 DEF SignIn, Begin, Still
  <2>2. s.at = "idle" \/ s = [at |-> "password", door |-> s.door, user |-> s.user] BY DEF Idle
  <2>3. call[c].at = "idle" BY <2>1 DEF Idle
  <2> HIDE DEF s, pass
  <2>4. WindowsInOrder(hits', now) BY <1>1, <1>3, <2>1
  <2> QED BY <1>2, <2>1, <2>2, <2>3, <2>4, LoginStep
<1>5. CASE WrongPassword(c)
  <2> DEFINE s == [call[c] EXCEPT !.at = "failed"]
  <2>1. /\ call[c].at = "password" /\ Go(c, s) /\ UNCHANGED <<db, untold, unsent, bare, builtins, mu, admitted, now>>
        /\ hits' = Add(hits, UserKey(call[c]), now)
    BY <1>5 DEF WrongPassword, Step, Still
  <2>2. s.at = "failed" BY <1>1, <2>1 DEF OfficeInv, CallsTypeOK, CallTypeOK
  <2> HIDE DEF s
  <2>3. WindowsInOrder(hits', now) BY <1>1, <1>3, <2>1
  <2> QED BY <1>2, <2>1, <2>2, <2>3, LoginStep
<1>6. CASE CountGlobal(c)
  <2>1. /\ call[c].at = "failed" /\ Go(c, Idle) /\ UNCHANGED <<db, untold, unsent, bare, builtins, mu, admitted, now>>
        /\ hits' = Add(hits, GlobalKey(call[c]), now)
    BY <1>6 DEF CountGlobal, Step, Still
  <2>2. WindowsInOrder(hits', now) BY <1>1, <1>3, <2>1
  <2>3. Idle.at = "idle" BY DEF Idle
  <2> QED BY <1>2, <2>1, <2>2, <2>3, LoginStep
<1>7. CASE RightPassword(c)
  <2>1. PICK id : Go(c, [at |-> "signed", door |-> call[c].door, id |-> id]) BY <1>7 DEF RightPassword, Step
  <2>2. /\ call[c].at = "password" /\ UNCHANGED <<db, untold, unsent, bare, builtins, mu, admitted, now>>
        /\ hits' = Reset(hits, UserKey(call[c]))
    BY <1>7 DEF RightPassword, Still
  <2>3. WindowsInOrder(hits', now) BY <1>1, <1>3, <2>2
  <2> DEFINE s == [at |-> "signed", door |-> call[c].door, id |-> id]
  <2>4. Go(c, s) /\ s.at = "signed" BY <2>1
  <2> HIDE DEF s
  <2> QED BY <1>2, <2>2, <2>3, <2>4, LoginStep
<1>8. CASE Mint(c)
  <2>1. \A o, v, w : Kept(db, CreateOperatorToken(db, o, v, w), NONE) /\ SameStores(db, CreateOperatorToken(db, o, v, w))
    <3>1. \A o, v, w : CreateOperatorToken(db, o, v, w) \in
            {CreateOperator(db, NONE), UpdateOperatorProfile(db, o, v), DeleteOperator(db, o),
             RevokeAllOperatorTokens(db, o), RevokeOperatorToken(db, NONE), CreateOperatorToken(db, o, v, w),
             AddOperatorLocations(DeleteOperatorLocations(db, o), o, NONE)} OBVIOUS
    <3> QED BY <3>1, OperatorStatements DEF OfficeInv, Good
  <2>2. Kept(db, db', NONE) /\ SameStores(db, db') BY <1>2, <1>8, <2>1 DEF Mint
  <2>3. /\ call[c].at = "signed" /\ Go(c, Idle)
        /\ UNCHANGED <<untold, unsent, bare, builtins, mu, admitted, hits, now>>
    BY <1>8 DEF Mint, Step, accessVars
  <2>4. WindowsInOrder(hits', now) BY <1>1, <2>3
  <2>5. Idle.at = "idle" BY DEF Idle
  <2> QED BY <2>2, <2>3, <2>4, <2>5, LoginStep
<1> QED BY <1>4, <1>5, <1>6, <1>7, <1>8 DEF LoginRequest

-----------------------------------------------------------------------------
(* A failed statement ends its call and lets go of builtinMu; what it owed   *)
(* its location is owed still.                                               *)
LEMMA RequestFailsKeeps ==
  ASSUME OfficeInv, NEW c \in Doing, RequestFails(c)
  PROVE  OfficeInv'
<1> PICK l : l = call[c].loc OBVIOUS
<1>1. Go(c, Idle) /\ EndEarly({c}) /\ Unlock(c) /\ UNCHANGED <<db, untold, builtins, admitted, hits, now>>
  BY DEF RequestFails, CallFails, Step
<1>2. Acts(c) /\ call'[c] = Idle BY <1>1, GoActs DEF OfficeInv
<1>3. CallTypeOK(c)' /\ call'[c].at \notin DoorStages BY <1>2 DEF CallTypeOK, Idle, DoorStages
<1>4. Kept(db, db', l) BY <1>1, NothingWritten DEF OfficeInv, Good
<1>5. untold' \subseteq DOMAIN db'.locs /\ untold' \subseteq untold \cup {l} BY <1>1 DEF OfficeInv, UntoldWillBePushed
<1>6. ExcusesStand(l) BY <1>1 DEF EndEarly, LeftBare, ExcusesStand
<1>7. ASSUME l \notin unsent', l \in untold' PROVE \E k \in Doing : WillPush(k, l)'
  <2>1. l \notin unsent /\ call[c].at \notin PushStages BY <1>1, <1>7 DEF EndEarly
  <2>2. ~WillPush(c, l) BY <2>1 DEF WillPush
  <2> QED BY <1>1, <1>2, <1>7, <2>1, <2>2, OtherPusherKept
<1>8. ASSUME l \notin bare', l \in DOMAIN db'.locs PROVE HandedOn(l)'
  <2>1. CASE call[c].at \in ReceiptStages
    <3>1. Flagged(db, l) BY <1>1, <1>8, <2>1 DEF EndEarly, LeftBare
    <3> QED BY <1>1, <3>1 DEF HandedOn
  <2>2. CASE call[c].at \notin ReceiptStages
    <3>1. l \notin bare BY <1>1, <1>8 DEF EndEarly, LeftBare
    <3> QED BY <1>1, <1>2, <1>8, <2>2, <3>1, HandedStill
  <2> QED BY <2>1, <2>2
<1>9. CallsTypeOK' /\ ReceiptHandedOn' /\ UntoldWillBePushed'
  BY <1>2, <1>3, <1>4, <1>5, <1>6, <1>7, <1>8, StoresKept DEF Kept
<1>10. OneAtTheDoor' /\ NoneYet' /\ CacheIsTrue' BY <1>1, <1>2, <1>3, <1>4, DoorsKept DEF Kept
<1>11. RightDoor' /\ HitsInOrder' BY <1>1 DEF OfficeInv, RightDoor, HitsInOrder, WindowsInOrder
<1> QED BY <1>4, <1>9, <1>10, <1>11 DEF OfficeInv, Kept, Good

(* The parts of the invariant do not look at the browsers' cookies.          *)
LEMMA BrowseKeeps ==
  ASSUME OfficeInv, UNCHANGED <<db, call, untold, unsent, bare, accessVars>>, now' \in {now, now + 1}
  PROVE  OfficeInv'
<1>1. UNCHANGED <<builtins, mu, admitted, hits>> BY DEF accessVars
<1>2. \A c, l : WillPush(c, l)' <=> WillPush(c, l) BY DEF WillPush
<1>3. UntoldWillBePushed' BY <1>2 DEF OfficeInv, UntoldWillBePushed
<1>4. CallsTypeOK' BY DEF OfficeInv, CallsTypeOK, CallTypeOK, PrinterAt
<1>5. OneAtTheDoor' /\ NoneYet' /\ RightDoor' BY <1>1 DEF OfficeInv, OneAtTheDoor, NoneYet, RightDoor
<1>6. CacheIsTrue' BY <1>1 DEF OfficeInv, CacheIsTrue, IsDoorOf
<1>7. ReceiptHandedOn' BY DEF OfficeInv, ReceiptHandedOn, HandedOn
<1>8. HitsInOrder'
  <2>1. now \in Nat /\ now' \in Nat /\ now <= now' BY DEF OfficeInv, HitsInOrder
  <2>2. ASSUME NEW ts, OldestFirst(ts, now) PROVE OldestFirst(ts, now')
    <3>1. \A i \in 1..Len(ts) : ts[i] \in Nat BY <2>2 DEF OldestFirst
    <3> QED BY <2>1, <2>2, <3>1 DEF OldestFirst
  <2> QED BY <1>1, <2>1, <2>2 DEF OfficeInv, HitsInOrder, WindowsInOrder
<1> QED BY <1>3, <1>4, <1>5, <1>6, <1>7, <1>8 DEF OfficeInv

(* A restart ends every call early.                                          *)
LEMMA MainRestartsKeeps ==
  ASSUME OfficeInv, MainRestarts
  PROVE  OfficeInv'
<1>1. /\ call' = [c \in DOMAIN call |-> Idle] /\ EndEarly(DOMAIN call)
      /\ builtins' = << >> /\ hits' = << >> /\ UNCHANGED <<db, now, untold, admitted>>
  BY DEF MainRestarts
<1>2. DOMAIN call = Doing BY DEF OfficeInv, CallsTypeOK
<1>3. \A c \in Doing : call'[c] = Idle BY <1>1, <1>2
<1>4. CallsTypeOK' BY <1>1, <1>2, <1>3 DEF CallsTypeOK, CallTypeOK, Idle
<1>5. OneAtTheDoor' /\ NoneYet' BY <1>3 DEF OneAtTheDoor, NoneYet, Idle
<1>6. CacheIsTrue' BY <1>1 DEF CacheIsTrue
<1>7. HitsInOrder' BY <1>1 DEF OfficeInv, HitsInOrder, WindowsInOrder
<1>8. RightDoor' BY <1>1 DEF OfficeInv, RightDoor
<1>9. ASSUME NEW l \in DOMAIN db.locs, l \notin bare' PROVE HandedOn(l)'
  <2>1. HandedOn(l) BY <1>1, <1>9 DEF EndEarly, LeftBare, OfficeInv, ReceiptHandedOn
  <2>2. ASSUME NEW c \in Callers, call[c].at \in ReceiptStages, call[c].loc = l PROVE Flagged(db, l)
    BY <1>1, <1>2, <1>9, <2>2 DEF EndEarly, LeftBare, Doing
  <2> QED BY <1>1, <2>1, <2>2 DEF HandedOn
<1>10. ReceiptHandedOn' BY <1>1, <1>9 DEF ReceiptHandedOn
<1>11. untold' \subseteq unsent'
  <2>1. SUFFICES ASSUME NEW l \in untold, l \notin unsent PROVE l \in unsent' BY <1>1 DEF EndEarly
  <2>2. PICK c \in Doing : WillPush(c, l) BY <2>1 DEF OfficeInv, UntoldWillBePushed
  <2> QED BY <1>1, <1>2, <2>2 DEF EndEarly, WillPush
<1>12. UntoldWillBePushed' BY <1>1, <1>11 DEF OfficeInv, UntoldWillBePushed
<1> QED BY <1>1, <1>4, <1>5, <1>6, <1>7, <1>8, <1>10, <1>12 DEF OfficeInv

-----------------------------------------------------------------------------
(* The invariant holds at the start and every step keeps it.                 *)
LEMMA InitMeetsInv ==
  ASSUME Init
  PROVE  OfficeInv
<1>1. /\ db = Opening /\ call = [c \in Doing |-> Idle] /\ now = 0 /\ untold = {} /\ unsent = {} /\ bare = {}
      /\ builtins = << >> /\ mu = NONE /\ admitted = NONE /\ hits = << >>
  BY DEF Init, StoreInit, AccessInit, Doing
<1>2. TablesTypeOK(db) /\ RefsOK(db) /\ ChannelsOK(db) BY <1>1, OpeningAssumption
<1>3. \A c \in Doing : call[c] = Idle BY <1>1
<1>4. CallsTypeOK BY <1>1, <1>3 DEF CallsTypeOK, CallTypeOK, Idle
<1>5. OneAtTheDoor /\ NoneYet BY <1>3 DEF OneAtTheDoor, NoneYet, Idle
<1>6. CacheIsTrue BY <1>1 DEF CacheIsTrue
<1>7. RightDoor BY <1>1 DEF RightDoor
<1>8. ReceiptHandedOn BY <1>1, OpeningAssumption DEF ReceiptHandedOn, HandedOn
<1>9. UntoldWillBePushed BY <1>1 DEF UntoldWillBePushed
<1>10. HitsInOrder BY <1>1 DEF HitsInOrder, WindowsInOrder
<1> QED BY <1>2, <1>4, <1>5, <1>6, <1>7, <1>8, <1>9, <1>10 DEF OfficeInv

(* The printer calls and the manager's, the agent's and the admin's edits.   *)
LEMMA StoreRequestKeeps ==
  ASSUME OfficeInv, NEW c \in Callers, PrinterCall(c) \/ StoreRequest(c), UNCHANGED accessVars
  PROVE  OfficeInv'
<1>1. c \in Doing BY DEF Doing
<1>2. CASE PrinterCall(c)
  BY <1>1, <1>2, LoadConfigKeeps, LoadPrintersKeeps, PushConfigKeeps, EnsureReceiptPrinterKeeps, FlagReceiptKeeps,
     UpdateRowKeeps, LogChangeKeeps, DeleteRowKeeps, MovePrinterKeeps DEF PrinterCall
<1>3. CASE StoreRequest(c)
  <2>1. ASSUME NEW l \in DOMAIN db.locs, NEW name \in Names, NEW ip \in IPs, NEW mac \in Macs, AddPrinter(c, l, name, ip, mac)
        PROVE  OfficeInv'
    BY <2>1, AddPrinterKeeps
  <2>2. ASSUME NEW p \in DOMAIN db.printers, NEW name \in Names, NEW ip \in IPs, NEW receipt \in BOOLEAN,
               MeUpdatePrinter(c, db.printers[p].loc, p, name, ip, receipt)
        PROVE  OfficeInv'
    BY <2>2, MeUpdatePrinterKeeps
  <2>3. ASSUME NEW p \in DOMAIN db.printers, MeDeletePrinter(c, db.printers[p].loc, p) PROVE OfficeInv'
    BY <2>3, MeDeletePrinterKeeps
  <2>4. ASSUME NEW p \in DOMAIN db.printers, NEW old \in IPs, NEW new \in IPs, NEW mac \in Macs,
               HandlePrinterMoved(c, db.printers[p].loc, p, old, new, mac)
        PROVE  OfficeInv'
    BY <2>4, HandlePrinterMovedKeeps
  <2> QED BY <1>3, <2>1, <2>2, <2>3, <2>4, LocationRequestsKeep DEF StoreRequest
<1> QED BY <1>2, <1>3

(* Every step keeps the invariant.                                           *)
LEMMA NextKeepsInv ==
  ASSUME OfficeInv, [Next]_officeVars
  PROVE  OfficeInv'
<1>1. CASE UNCHANGED officeVars
  BY <1>1, BrowseKeeps DEF officeVars, storeVars
<1>2. ASSUME NEW c \in Callers,
             \/ (PrinterCall(c) \/ StoreRequest(c) \/ TenantRequest(c)) /\ UNCHANGED accessVars
             \/ ChannelAdmin(c) \/ ChannelRequest(c) \/ LoginRequest(c)
             \/ RequestFails(c)
      PROVE  OfficeInv'
  <2>1. c \in Doing BY DEF Doing
  <2> QED BY <1>2, <2>1, StoreRequestKeeps, TenantRequestKeeps, ChannelAdminKeeps, ChannelRequestKeeps, LoginRequestKeeps,
             RequestFailsKeeps
<1>3. ASSUME NEW j \in Jobs,
             \/ (Geocode(j) \/ LoadConfig(j) \/ LoadPrinters(j) \/ PushConfig(j)) /\ UNCHANGED accessVars
             \/ RequestFails(j)
      PROVE  OfficeInv'
  <2>1. j \in Doing BY DEF Doing
  <2> QED BY <1>3, <2>1, GeocodeKeeps, LoadConfigKeeps, LoadPrintersKeeps, PushConfigKeeps, RequestFailsKeeps
<1>4. CASE Browse /\ UNCHANGED accessVars
  <2>1. UNCHANGED <<db, call, untold, unsent, bare, now>> BY <1>4 DEF Browse, SessionLogout, SessionWhoami
  <2> QED BY <1>4, <2>1, BrowseKeeps
<1>5. CASE Tick BY <1>5, BrowseKeeps DEF Tick
<1>6. CASE MainRestarts BY <1>6, MainRestartsKeeps
<1> QED BY <1>1, <1>2, <1>3, <1>4, <1>5, <1>6 DEF Next

(* The back office keeps its invariant: the tables are well-formed, calls    *)
(* hold what they read of rows that are still theirs, one call is past       *)
(* builtinMu, and every config to send has a call that will send it.         *)
THEOREM OfficeInvHolds == Spec => []OfficeInv
<1>1. Init => OfficeInv BY InitMeetsInv
<1>2. OfficeInv /\ [Next]_officeVars => OfficeInv' BY NextKeepsInv
<1> QED BY <1>1, <1>2, PTL DEF Spec

(* A location with printers has a receipt printer, or a call that is about   *)
(* to flag one, whatever adds, edits and deletes cross or fail: except from  *)
(* when a call leaves it bare to the next ensureReceiptPrinter there, and    *)
(* what is left bare elsewhere is no excuse (tenancy/service.go).            *)
THEOREM ReceiptStaysHandedOn == Spec => []ReceiptHandedOn
<1>1. OfficeInv => ReceiptHandedOn BY DEF OfficeInv
<1> QED BY <1>1, OfficeInvHolds, PTL

(* When nothing is going on, the present config of every location has been   *)
(* pushed since it was written, except of one that a call left before its    *)
(* push and no push has told since (StoreConfigPublisher, handler/sse.go).   *)
THEOREM EditsArePushed == Spec => []EveryEditIsPushed
<1>1. OfficeInv => EveryEditIsPushed
  <2>1. SUFFICES ASSUME OfficeInv, AtRest PROVE untold \subseteq unsent BY DEF EveryEditIsPushed
  <2>2. \A c \in Doing : call[c] = Idle BY <2>1 DEF AtRest, OfficeInv, CallsTypeOK
  <2>3. \A c \in Doing : \A l : ~WillPush(c, l) BY <2>2 DEF WillPush, PushStages, Idle
  <2> QED BY <2>1, <2>3 DEF OfficeInv, UntoldWillBePushed
<1> QED BY <1>1, OfficeInvHolds, PTL

(* A location has at most one built-in channel of a kind, however many       *)
(* requests first use it at once (builtin, channel/service.go).              *)
THEOREM BuiltinIsOne == Spec => []OneBuiltin
<1>1. ASSUME OfficeInv, NEW l \in DOMAIN db.locs, NEW kind \in {"operator", "vendor"}
      PROVE  Cardinality(BuiltinChannel(db, l, kind)) <= 1
  <2> PICK S : S = BuiltinChannel(db, l, kind) OBVIOUS
  <2>1. \A x, y \in S : x = y
    BY <1>1 DEF OfficeInv, ChannelsOK, BuiltinChannel, Select
  <2>2. CASE S = {} BY <2>2, FS_EmptySet
  <2>3. CASE S # {}
    <3>1. PICK x : S = {x} BY <2>1, <2>3
    <3>2. Cardinality({x}) = 1 BY FS_Singleton
    <3>3. Cardinality(S) = 1 BY <3>1, <3>2
    <3> QED BY <3>3
  <2> QED BY <2>2, <2>3
<1>2. OfficeInv => OneBuiltin BY <1>1 DEF OneBuiltin
<1> QED BY <1>2, OfficeInvHolds, PTL

(* A request gets a channel of the location it asked for and of its kind,    *)
(* whatever the cache of built-in channels went through.                     *)
THEOREM RequestGetsItsChannel == Spec => []RightDoor
<1>1. OfficeInv => RightDoor BY DEF OfficeInv
<1> QED BY <1>1, OfficeInvHolds, PTL

(* Retry-After of a sign-in is exact: after that long there is room, and one *)
(* tick before there is none (RetryAfterN, ratelimit.go).                    *)
THEOREM RetryAfterTellsTheTruth == Spec => []RetryAfterIsExact
<1>1. ASSUME OfficeInv, NEW x \in Limits
      PROVE  LET wait == RetryAfterN(hits, x[1], x[2], now)
             IN  /\ AllowN(hits, x[1], x[2], now + wait)
                 /\ wait > 0 => ~AllowN(hits, x[1], x[2], now + wait - 1)
  <2>1. x[1] \in DOMAIN hits /\ x[2] \in Nat \ {0} BY OfficeAssumption DEF Limits
  <2> PICK key : key = x[1] OBVIOUS
  <2> PICK max : max = x[2] OBVIOUS
  <2>2. now \in Nat /\ OldestFirst(Events(hits, key), now) BY <1>1, <2>1 DEF OfficeInv, HitsInOrder, WindowsInOrder, Events
  <2>3. key = x[1] /\ max \in Nat \ {0} BY <2>1
  <2> QED BY <2>1, <2>2, <2>3, WaitIsExact
<1>2. OfficeInv => RetryAfterIsExact BY <1>1 DEF RetryAfterIsExact
<1> QED BY <1>2, OfficeInvHolds, PTL

=============================================================================
