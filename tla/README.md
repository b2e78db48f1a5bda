# posserver in TLA+

A verification project for `posserver`'s main server (`src/backend`, Go), the
cloud half of a restaurant point-of-sale system. It takes orders from an SQS
queue and from ordering channels, sends each to the on-site agent of its store,
and mirrors back what happens to it on the store's floor. The project holds
TLA+ models of the parts that carry that flow, the TLC configurations that
check them on small instances, and TLAPS proofs of results that hold for
instances of every size.

`PROJECT.json` lists components, runs, mutants, the map from definitions to
source lines, hazards and theorems.

## The system

```
 vendor relay --SQS--> consumer --+
                                  +--> orders + outbox_events (one transaction)
 channel API --> orderport.Place -+            |
      |            |                     dispatcher (poll, handle, mark)
      |         payment gateway           |                 |
      |                               SSE handler     tracking handler
      |                                   |                 |
      |                                broker         channel_events --SSE--> channel
      |                                   |
      |          redelivery loop --> stream handler ==SSE==> store agent
      |                 ^                                      |
      +-- status <-- orders <-- floor service <--- RPC POST ---+ (ack, floor events)
```

| Part (source under `src/backend/internal`) | State | Operations | What is hard |
|---|---|---|---|
| SSE broker (`infra/sse`, `transport/handler/sse.go`) | streams per store, device per stream, one bounded channel each | subscribe, unsubscribe, cut a device, publish, the handler's loop | Go channels panic on a double close or a send after close; three parties touch one channel; buffers fill |
| Outbox dispatcher (`dispatch`, `outbox_repo.go`) | one row per event and handler, with attempts and a retry time | tick, poll, handle, mark, back off, scope reset, wake | crash between handle and mark, stale batches, one handler starving another, deletions underneath |
| Order delivery (`app/agentsync`, `dispatch/handlers/sse.go`) | `agent_ack_at`, `lastSent` in memory | dispatch over the stream, ack, redelivery every second | lost frames and acks, half-open connections, limits shared by all stores |
| Agent link, devices (`app/agentsync/link.go`, `app/tenancy`) | devices table, link mutex | mint, link, revoke, delete, authenticate | overlapping links, failure between mint and revoke, authentication long before subscription |
| Channel tracking (`app/tracking`, `transport/handler/tracking.go`) | `channel_events`, the stream's cursor | record, prune, resume, reset | replayed rows, pruning between two queries, resumption without gaps |
| Floor sync (`app/floor`, `domain/order/floor.go`, `floor_repo.go`) | order status, mirrored fields, seen events, agent status, roster | apply a batch of events, answer | overlapping POSTs, crash between two transactions, late events, the one legal step back |
| Order placement (`app/orderport`, `domain/payment`) | orders, channel links, charges | look up, check, charge, save, refund | two requests with one key, charge without order, order without charge |
| SQS intake (`infra/sqs`) | the queue, the orders' unique key | receive, cast, save, delete | at-least-once delivery, visibility timeouts during processing, unconfirmed commits |
| Agent calls (`rpc`, `app/agentsync/updates.go`, `restore.go`) | waiters by correlation id, `agent_updates` rows, who was seen offline and paged | request, deliver a reply, settle, take a report, sweep | late and repeated replies, a stream that ends in between, main's guess against the agent's report, memory that spans sweeps |
| Menu (`app/menu`, `domain/menu`) | menus, categories, items, groups, options, sizes, prices, printers | the managers' edits, CSV import, routing of kitchen tickets | cascades, references that go, an import without a transaction |
| Menu views (`app/menuview`, `domain/menuview`) | views, entries, compiled builds in memory and table | edit, compile, serve | merges and rules over items that change; a cache filled from several reads |
| Store status (`domain/storestatus`, `app/storestatus`) | hours, exceptions, pauses, stock | edit, pause, offer times, restock | midnight, pauses without end, lead times, a loop that writes what it read earlier |
| Pricing (`domain/pricing`, `app/pricing`) | settings per channel kind, deals | price a cart | integer cents through combos, deals, codes, fees, mixed tax rates; computed twice, by the engine and by `build` |
| Back office (`app/tenancy`, `app/channel`, `app/operator`, `transport/handler`) | tenants, locations, printers, channels, operators, tokens, cached built-in channels, login windows | the admins', managers', agents' and operators' calls | handlers of several statements without a transaction or a lock; pushes that cross |
| Geo, diagnostics, notifications, frontend | see `PROJECT.json` | | partly or not modelled |

What makes them correct: no order is lost between its commit and the store
having it, and none is believed delivered before it is; each store sees only
its own orders; an order is placed and charged once per key; the mirror of the
floor converges on the agent's view and never moves back by accident; a channel
is told everything or told that it missed something; nothing waits for ever on
something that failed once. A shop offers only times it can keep and charges
what the order adds up to; a menu shows what can be sold, as it was last edited,
and prints it where the store wants it; an edit of a store reaches its agent;
an answer given for an agent is the agent's own.

## Modules

| Module | Models | State and actions |
|---|---|---|
| `SseBroker` | `infra/sse/broker.go`, the loop of `transport/handler/sse.go` | `clients` and `devices` are the two maps, `chan` and `buf` the Go channel of each stream, `handler` the goroutine reading it. A close or send on a closed channel leads to the state `"panic"`. `SubscribeAs`, `Unsubscribe`, `DisconnectDevice`, `Publish` each run under `mu` and are one step; `Take`, `ChannelClosed`, `ClientGone` are the arms of the handler's select. The keepalive changes nothing. |
| `AgentLink` | `link.go`, device operations of `tenancy/service.go` and their handlers, `middleware/auth.go`, the stream request | Extends `SseBroker`. A link is six steps, one per database call, between `linkMu.Lock()` and the deferred unlock; any of them may fail (`LinkFails`). A revocation is two steps, the row and the `deviceGone` hook, as two calls in the code. A stream request is authenticated in one step and subscribed in a later one, since the store-config handshake lies between. |
| `OutboxDispatcher` | `dispatch/dispatcher.go`, `outbox_repo.go`, the outbox part of `order_repo.go` | `row[e][h]` is an `outbox_dispatches` row (`none`, `due`, `backoff`, `done`, `gone`), `batch` the rows a poll returned, `dpc` and `cur` where the single dispatcher goroutine is. Polling, handling and marking are separate steps; a handler's effect is given by the composing module. Retry times are abstracted to due or not due. |
| `ChannelTracking` | `handlers/tracking.go`, `tracking/service.go`, `handler/tracking.go` | Composes the dispatcher with the stored events of one channel, their retention, and the stream of one client: the cursor check and the read are two queries, two steps. |
| `OrderDelivery` | `handlers/sse.go`, `agentsync.go` | Composes `SseBroker` and `OutboxDispatcher` with acknowledgement and `RunRedeliver`, which works through its list row by row. The SSE handler is the only one here; how handlers share the dispatcher is in `ChannelTracking`. |
| `DeliveryContract` | (abstract) | Place, hold, confirm, nothing taken back: what order delivery promises. |
| `FloorFlow` | `floor/service.go`, `domain/order/floor.go`, `floor_repo.go` | The status machine as operators, each event applied in its own transaction, then the agent status in a second. |
| `OrderPlacement` | `orderport/service.go` `Place`, `domain/payment` | One step per database or gateway call of `Place`. |
| `SqsIngest` | `infra/sqs/consumer.go` | Receive, process, delete per consumer. |
| `AgentCalls` | `rpc/requester.go`, `agentsync/updates.go`, the pager of `restore.go` | Extends `SseBroker`; a frame is the id of its request. `waiters` and `reply` are the requester's map and one-place channels; `Request` is one step per lock, publish and select; a posted reply stays possible for ever, so it may be late or repeated. `row` is `agent_updates.state`, with a `requested` the agent reported told apart (`heard`) from the one main wrote. The pager looks at one location a step. |
| `MenuTables` | the SQL of menus and views, cascades, the version trigger | An operator per statement, from a record of tables to the next. |
| `MenuCompile` | `domain/menuview/compile.go`, `domain/menu/bank.go` | The compiler as operators over the tables. |
| `MenuCsv` | `app/menu/csvio.go` | An import as the set of its writes and their order, and one write. |
| `MenuBank` | `app/menu/service.go`, `app/menuview/service.go`, handlers | One action per operation, the import one action per write, routing as operators. |
| `MenuBuilds` | `menuview.Service.build`, `LoadBank` | Each read of a build is a step; a table is a stamp that edits raise. |
| `StoreHours` | `domain/storestatus/status.go` | Periods, status and times as operators over integer time. |
| `StoreStatus` | `app/storestatus/service.go`, its SQL | Settings, pauses, exceptions, stock and the restock loop, which reads and writes in separate steps. |
| `Pricing` | `domain/pricing/engine.go` | `Price` as operators in integer cents. |
| `Storefront` | `app/pricing`, the checks and `build` of `orderport.Place` | Composes the two: a cart is checked, priced, checked for delivery and built, each from its own read, while the manager edits. |
| `StoreTables` | the SQL of tenants, locations, printers, channels, operators | An operator per statement. |
| `StoreAdmin` | `app/tenancy`, `handler/admin.go`, `store.go`, `geo.go`, `agentsync/printers.go`, the config publisher | A call goes from one statement to the next (`call[c].at`); a config push is a read of tenant and location, a read of the printers, and a send. `untold`, `unsent` and `bare` are ghosts: whose config was written since it was last sent, and where a call ended without its push or without a receipt printer. |
| `RateLimit` | `shared/ratelimit` | The sliding window as operators on a function of hits. |
| `ChannelAccess` | `app/channel`, `app/operator`, `login_limit.go` | Extends `StoreAdmin` with channels, keys, built-in channels behind their mutex and cache, operators, sign-in. |
| `BackOffice` | | Composes the back office and states its properties. |
| `Faults` | | The budget of faults (failed calls, lost messages, restarts) the other models count against. |
| `SseBrokerProofs`, `AgentProofs` (`AgentLink` and `AgentCalls`), `OrderDeliveryProofs`, `AtLeastOnceProofs` (`SqsIngest` and `FloorFlow`), `SellingProofs` (`OrderPlacement` and `Storefront`), `ChannelTrackingProofs`, `MenuProofs` (`MenuBuilds` and `MenuBank`), `BackOfficeProofs` | | TLAPS proofs. |

External parties, modelled from how the code meets them: the network between
agent and main (connections break silently, acks are lost), the store agent
(numbers its floor events, posts until answered), the channel's client (keeps
its last event id) and SQS (at least once, visibility timeout, dead-letter
queue). They are marked external in the map.

Definitions named `X_Y` next to a definition `X` (`Replaced_None`,
`CursorKept_Unchecked`) are deliberately wrong variants used by the mutants in
`PROJECT.json`: each property is shown to fail when the code is wrong in that
way. No specification uses them.

### Abstractions that matter

- An order's outbox event, its frame and the order are one value in
  `OrderDelivery`, because the SSE handler publishes only `order.received`,
  once per order. `ChannelTracking` has several events per order.
- Time is reduced to the tests made on it: a retry is due or not, a row is older
  than `RedeliverAfter`, than the 12-hour window, than `Retention`.
- `Check` in `OrderPlacement` covers opening hours, quoting and validation by
  its outcome, accepted or refused; `Storefront` models those checks and stops
  at the charge. `Uncastable` does the same for the casters in `SqsIngest`.
- Inputs a handler refuses before its first statement change nothing and are
  left out of `StoreAdmin`; names stand for names that differ in more than case.
- `SetReceiptPrinter` is one transaction and one step. Revoking a device and
  cutting its streams is one step in `AgentCalls`, two in `AgentLink`.
- An agent's report of an update is `"heard"` if it says `requested`, else
  `"reported"`, whichever later state it names.
- Password hashes, keys and session signatures are right or wrong; a session is
  its claims.
- A day has `DayLen` instants and a week `WeekLen` days; a slot, an estimate and
  a preset are numbers of instants. Pricing keeps cents and basis points as they
  are.
- `FloorFlow` folds driver and delivery-run fields into one driver and one
  estimate.
- `AgentLink` leaves out wrong passwords and throttling, which change nothing it
  models, and devices that are not agents.
- Database failures are explicit: a call fails without effect, or (where the
  code must cope with it) takes effect and reports failure.

## Runs

Every run checks its properties on the complete state space of its instance.
What the code does against one of its comments is under Observations.

| Run | Properties | What it shows | Instance |
|---|---|---|---|
| `agent_link` | `NoPanic` `RegisteredIsLive` `ScopeIsolation` `LinkReplaces` `LinksReturn` `CutStreamEnds` | Overlapping links, revocations, deletions and streams leave one agent per store, whose key no other link revoked; the broker's channels are never closed or written twice; a cut stream ends. | two stores, two agents of one and one of the other, two links, one stream with a buffer of one, one failure or restart |
| `outbox` | `DoneWasRecorded` `HandlerDrains` `NoSilentGap` `StreamCatchesUp` | Tracking rows are consumed only by a stored state and never starved; a resumed stream has no silent gap and catches up. | two events of one order, a handler before it that always fails, batch and read limit of one, one failure or restart |
| `delivery` | `MeetsContract` `DeliveryGuarantee` | Delivery implements `DeliveryContract`: an order is confirmed only once its store holds it. Once a connection stays up, and orders of other stores no longer fill the redelivery limit, the order is settled. | buffer and redelivery limit of one, in three casts: one order, an agent with two connections (one may be half open), one fault; two orders of one store competing for buffer and limit; an order beside an older one of an offline store, competing for the limit |
| `floor` | `AppliedInOrder` `FloorConverges` | Events apply once and in order, and main ends with the agent's state. | three events, two overlapping POSTs, one fault |
| `floor_unordered` | `ForwardOnly` `FloorSyncs` | The order is moved forward only, whatever order events arrive in, and every event is answered. | three events in any order, one POST, one fault |
| `placement` | `PlacedOnce` `MoneyBack` `PaidStaysPaid` | One order per key; no money is kept for an order that was not saved; a saved card order keeps its charge, unless two calls with its key cross or a failed save had given the charge back. | three `Place` calls over a card and a cash key, two at once, two faults |
| `ingest` | `DeletedWasSaved` `SavedOnce` `QueueDrains` | Nothing is deleted unsaved or saved twice; the queue drains. | two copies of an order and an uncastable message, two consumers, two faults |
| `menu` | `RoutesHome` `NothingVanishes` `RerunCompletes` | After any two edits tickets print at home, and a view loses nothing that can be sold; an import that failed anywhere and is run again ends where an undisturbed one would. | two stores with populated menus, every pair of edits, two attempts of an import |
| `menu_builds` | `SeesEarlierEdits` | Whoever asks after an edit is served a build that has it. | two requests, two edits between any two reads, a restart |
| `selling` | `PromiseKept` `StatusIsTrue` `MoneyAddsUp` `TaxFollowsFood` `BackWhenDue` | Every time offered can be kept; the status is the truth; a cart priced without an issue builds to the total charged; tax follows the food; sold-out items come back only when due. | days of six instants, hours past midnight, exceptions, pauses; carts with sizes, options, combos, deals and codes; an edit and a fault at any point |
| `backoffice` | `ReceiptHandedOn` `EveryEditIsPushed` `OneBuiltin` `RightDoor` `RetryAfterIsExact` | The receipt flag is handed on, except at a location a call left bare, until the next `ensureReceiptPrinter` there; every edit is pushed, except at a location a call left between its write and its push, until the next push there; one built-in channel of a kind; a request gets the right channel; Retry-After is exact. | two callers and a background job over seven mixes of calls, a failed statement or restart |
| `agent_calls` | `AnswerIsTrue` `PagesAlternate` `ReportWins` `DarkStorePaged` | What a request returns is true of the agent; a report past `requested` is never replaced by main's guess; pages of an outage and of its end alternate; an agent that stays away from an open store is paged about. | an update, a ping and an update begun on the Pi, a stream with a buffer of one, two shifts (open, close, revoke, link), one fault |

Every property has a mutant that TLC refutes under the same configuration. The
type invariants are not among the checked properties: they document the
variables and serve the proofs.

### Why the bounds suffice

Every bound is a constant named in the module (`MaxFaults`, `MaxEvents`,
`MaxPlaces`, `MaxEdits`, `MaxCommits`, `MaxShifts`, `Mortal`, `Reported`, `Budgets`). Two of
each actor give every pairwise race;
limits (`Batch`, `Limit`, `BufCap`, `MaxRows`) are 1, so a full buffer, a full
batch and a page boundary all happen. One or two faults at any point reach
every crash or failure between two steps; a fault counts for a lost ack, a
failed call and a restart alike, so the runs also mix them. A third event in
`FloorFlow` is needed for out, back, and out again. In `AgentLink` a link needs
a fresh device id, so `FreshLeft` reserves one for each link under way: without
it an admin could use up the finite set of ids and block a link for a reason
the system does not have.

`MenuBank` starts from tables in which every kind of row is present and every
reference used (merge, augment, vendor name, sizes, bank prices), so two edits
reach a dangling or crossed reference. `Storefront` starts from each of several
shops, so one edit between two reads of `Place` is every edit; its day is short
enough for a stretch to cross midnight, meet an exception and a pause within the
horizon. `BackOffice` spends a budget of calls per class, because mixes of
unrelated calls do not meet in any table; each budget is a group that does.
`OfflineAfter` is two ticks, so an outage can be seen, end and begin again
before it is due. `AgentCalls` has one store; what keeps stores
apart is `ScopeIsolation`, proved for any number.

`delivery` is one run over three casts, chosen at the start (`cast` in
`MCOrderDelivery`; `InCast` says which orders, connections and faults each has),
because all of it at once is out of TLC's reach. `HalfOpen` has every loss and every
fault around one order. `OneBuffer` has two orders whose frames compete for a
stream's one place while a half-open connection swallows the other copies.
`OneLimit` has two stores under the limit the redelivery query takes over all of
them. `InCast` restricts orders, agents and faults, never a fair action.

Deadlock checking is off where the bounds themselves end every behaviour
(`FloorFlow`, `OrderPlacement`, `MenuBank`, `Storefront`, `BackOffice`).

### Fairness

- The dispatcher, the redelivery loop, stream handlers and POST handlers are
  goroutines: weakly fair.
- Retry times and `RedeliverAfter` pass: weakly fair per row. Tickers fire.
- Nothing is assumed about agents or channel clients connecting;
  `DeliveryGuarantee` is conditional on a connection that stays, and on a
  redelivery limit that orders of other stores have stopped filling. Nothing makes
  an order grow out of the 12-hour window.
- `FloorSyncs` assumes the agent keeps posting, which it does until answered.
- `LinksReturn` assumes strong fairness of taking `linkMu`: Go's mutex hands
  itself to a waiter that has waited for a millisecond, so no waiter is starved
  by a stream of others.
- `DarkStorePaged` assumes that the pager's ticker fires, that its sweep goes on
  from location to location, and that time passes. It assumes nothing of agents:
  the property is about one that stays away.
- `QueueDrains` assumes that some consumer keeps receiving and that visibility
  timeouts pass.

Faults are bounded in number, so liveness reads "after finitely many failures".

## Proofs

Thirty-five theorems, in the eight `*Proofs` modules. They hold for every value of
the constants that meets the assumption of the module that declares them: any
number of stores, devices, streams, orders, events, messages, callers, requests
and tables, any buffer, batch and read limit, and any bound on edits and faults.
The assumptions ask only that names do not clash, that a map has the domain and
range its name says, that a limit is at least one, and that the sets a proof
counts (`Messages`, the outbox's events) are finite. The back office may start
from any tables it may have written (`OpeningAssumption`: rows refer to rows, at
most one built-in channel of a kind, a receipt printer wherever there are printers);
its names are numbers, since the code sorts by them. A shop may start with any
settings and deals the validation lets through, any menu and carts whose amounts
are integers and whose lists are lists, of any length (`ShopAssumption`). The menu may
start from any tables the statements may have written (`BankAssumption`: a row is of the
store of each row it refers to, a merge has two anchors or more) and import any files. `DeliveryAssumption` ties the
composed parts together: the frames of the broker are the events of the outbox, and
the SSE handler is its only handler. Each inductive invariant
below was first checked by TLC on the run of its component.

| Module | Theorem | States |
|---|---|---|
| `SseBrokerProofs` | `BrokerSafety` | `[](BrokerTypeOK /\ NoPanic /\ RegisteredIsLive)` |
| | `BrokerIsolation` | `[]ScopeIsolation` |
| `AgentProofs` | `LinkSafety` | `[](LinkTypeOK /\ LinkReplaces)` |
| | `AgentBrokerSafety` | the broker's promises under `AgentSpec` |
| | `RequestTellsTheTruth` | `[]AnswerIsTrue` |
| | `ReportsAreKept` | the action property `ReportWins` |
| | `OwnerIsPagedInTurn` | `[]PagesAlternate` |
| `OrderDeliveryProofs` | `DeliveryImplementsContract` | `MeetsContract`, the refinement of `DeliveryContract` |
| | `DeliveryKeepsBrokerSafe` | the broker's promises under `DeliverySpec` |
| `AtLeastOnceProofs` | `NoOrderIsLost` | `[]DeletedWasSaved` |
| | `NoOrderIsSavedTwice` | `[]SavedOnce` |
| | `FloorEventsApplyOnce` | `[]AppliedInOrder`, if `Ordered` |
| | `MainMirrorsTheFloor` | `[]FloorConverges`, if `Ordered` |
| | `OrderMovesForward` | the action property `ForwardOnly` |
| `SellingProofs` | `PlaceIsIdempotent` | `[]PlacedOnce` |
| | `ChargesAreGivenBack` | `[]MoneyBack` |
| | `PaidOrdersStayPaid` | `[]PaidStaysPaid` |
| | `StatusStays` | `[]StatusInv`, the inductive invariant of a store's status |
| | `PromisesAreKept` | `[]PromiseKept` |
| | `StatusIsTold` | `[]StatusIsTrue` |
| | `ComesBackWhenDue` | the action property `BackWhenDue` |
| | `MoneyIsExact` | `[]MoneyAddsUp` |
| | `TaxIsExact` | `[]TaxFollowsFood` |
| `ChannelTrackingProofs` | `NoTrackingRowIsLost` | `[]DoneWasRecorded` |
| | `ResumeHasNoGap` | the action property `NoSilentGap` |
| `MenuProofs` | `EditsAreSeen` | `[]SeesEarlierEdits` |
| | `BankInvHolds` | `[]BankInv`, the inductive invariant of the menu tables |
| | `KitchenStaysHome` | `[]RoutesHome` |
| | `MenuShowsAll` | `[]NothingVanishes` |
| `BackOfficeProofs` | `OfficeInvHolds` | `[]OfficeInv`, the inductive invariant of the back office |
| | `ReceiptStaysHandedOn` | `[]ReceiptHandedOn` |
| | `EditsArePushed` | `[]EveryEditIsPushed` |
| | `BuiltinIsOne` | `[]OneBuiltin` |
| | `RequestGetsItsChannel` | `[]RightDoor` |
| | `RetryAfterTellsTheTruth` | `[]RetryAfterIsExact` |

**The broker.** `NoPanic` alone is not inductive: a step can only be excluded
from panicking if every channel that is still in `clients` is open. That is
`RegisteredIsLive`, and `BrokerInv` is the two with the types. The lemma
`RemoveLockedSafe` carries the argument: whatever is removed was registered, so
its channel was open; whatever stays is untouched. Isolation uses `BrokerInv` to
know that a stream found under a store is one that subscribed to it. The modules
that extend the broker (`AgentLink`, `OrderDelivery`, `AgentCalls`) each show that
every step of theirs is a broker step or leaves the broker alone
(`AgentBrokerStep`, `DeliveryBrokerStep`, `BrokerSees`), so the broker's step
lemmas apply unchanged.

**Links.** `LinkInv` adds `OneLinkAtATime` (past its lock, a link holds the mutex)
and `Listed` (after listing, each live agent of the location is the new one, one
still to be revoked, or an admin's later one). Without the first a second link
could mint between list and reply, which is what `linkMu` is for. That the key
works is the other half: `MintedKept` says that the new device is not among those
the link, or any other, is about to revoke, so that only somebody's revocation by
hand (`undone`) or the deletion of its store can end it.

**Delivery refines its contract.** The initial states map to the contract's
(the theorem's first step), and every step maps to a
contract step or to a stutter (`ContractStep`): creating an order is a Place, the
agent writing it is a Hold, the acknowledgement taking effect is a Confirm
(`CreateIsPlace`, `WriteIsHold`, `AckIsConfirm`), everything else, the redelivery
loop, failed marks, restarts, cut streams, is invisible. Hold needs that the frame
an agent receives is an order main placed, and Confirm that what is acknowledged
is held; `DeliveryInv` therefore follows an order through every place it can be:
outbox rows (`RowsArePlaced`), the batch in the dispatcher's hands
(`BatchIsPlaced`), buffers and frames (`FramesArePlaced`), acks under way
(`AcksAreHeld`). `NothingIsTakenBack` shows that no step undoes what these
parts rest on: a placed order stays placed, a held one held.

**Intake.** Deletion comes a step after the save; `CurrentWasSaved` is what
connects them, across redeliveries and restarts.

**Floor.** `FloorConverges` speaks of the moments when all is answered. What
makes it true then is that after every event main has seen, it mirrors the view
the agent had after that event (`OrderIsMirrored`, lemma `ApplyMirrors`), which
needs the events seen to be a prefix of the log (`SeenIsAPrefix`) and every POST to
be a range of it (`PostsAreRanges`), old ones included. The prefix is not something
main enforces: it comes from the agent starting each POST at its oldest unanswered
event. `Ordered` is that behaviour of the agent, and the two theorems state it as
a hypothesis. `OrderMovesForward` has no such hypothesis.

**Placement.** `ChargeIsOwed` says of a charge whose order was never saved that it
was refunded, is stranded by a failure, or that a call which will save or refund is
still running. `OneCallPerKey` and
`CalmKeys` describe a key no two calls of which have crossed: a call that has passed
the lookup finds no saved order, through faults and restarts, so its save meets no
duplicate, and a charge is only given back when a save failed. Those keys are
`spoilt`, and `PaidStaysPaid` is about the others; what can become of a spoilt one is
under Observations.

**Selling.** `StatusInv` is the types and `RestockReads`: a restock pass about to
write has the stamp of the row, because only a pass writes it, and a clock that has
only gone on. With it `ComesBackWhenDue` needs that a reset found due lies
between that stamp and now (`LastResetIs`). `PromiseKept` and `StatusIsTrue` say of
the code's stretches what `OpenInstant` says of single instants, from the
day's ranges alone. `HoldsIsOpen` joins the two: an instant is open if and only if a
stretch of its date or of the date before holds it. From there a slot is
inside its stretch (`SlotIs`, which needs that `CeilSlot` rounds up), the next opening
is the least open instant of the days looked at (`OpensNext`), and until `LastEnd`
no gap is left (`LastEndIs`: an instant in a gap would make the greatest
end before it a smaller candidate). `StatusAssumption` asks for hours that are times
of a day, a reset hour inside the day, as `tenancy/service.go:332` does, and
presets that are not negative.

**Money.** `MoneyAddsUp` compares two computations of one cart: the engine's quote
and the order `build` makes of it. `PriceAdds` says that a quote's total is its lines
less its discounts plus its fees, tax and tip, whatever the cart, and that an item's line is its
quantity times base and extras, a bundle's the deal's price and extras (`QuoteLinesAre`,
on `ResolvedIs`: what one selection costs). `ComboBalances` says that what `build`
writes for a combo, the picks' own prices, the difference to the deal's as a
discount or a fee, is what the engine charged; `MoneyIs` sums over the cart. The
inductive invariant `SaleInv` is that what is stored was validated (`ShopOK`) and
that the request in progress holds a quote whose order adds up in the context it was
priced in (`PlacingOK`), which no later edit can touch. Every sum,
selection and append is a fold over a list. `FoldExists` gives the row of its partial results;
what a fold returns follows from the row, by the least index at which a claim about
it would fail (`SumsBalance`, `SelectKeeps`, `JoinIs`).

**Tax.** `TaxFollowsFood` bounds, for each rate, what rounding can do; the bound needs no
limit on rates or prices. Every line that costs anything has a rate (`Quotable`), so the food of the
rates is all the food (`GrossesAddUp`, a double sum taken line by line). The shares
are rounded down and the last rate takes what is left, so what they leave over
cancels (`ErrorsAddUp`): at a lower rate less than a cent was moved to the last one, which
costs at most that cent at the last rate, and the tax itself is rounded by half a cent
(`RateError`). There are as many such errors as rates (`FirstsCount`).

**Tracking.** `HandledWasStored` carries a stored state from the handler's step to
the mark's. For the stream, `FreshSkipsPruned` and `ReadIsChecked` say what its
cursor stands for; `NextUnreadIsDense` shows that a read under the limit leaves
nothing out.

**Builds.** A kept build is compared by version only, so `KeptBuildsAreGood` and
`LoadsAreGood` relate the version of each kept or half-read build to the stamps it
holds: it has every edit that was in the tables when that version was read.

**Menu.** `BankInv` says that the tables fit together (`TablesOK`) and that the import
under way is one of its store's (`JobOK`). What a statement does to the tables is stated once
(`InsertIs`, `UpdateIs`, the `...Written` lemmas), then each operation keeps each
table (`MenusOK`, `ItemsOK`, `EntriesOK`, the cascades in `ItemsDropped` and
`CatsDropped`). An import's writes find rows by name and give a category the printer most
of its rows in the file name (`MostCommonIs`): `JobOK` adds that every printer the file
names is known, since a failed import checks again before it goes on. The manager makes no
edit between two writes of an import, here as in the run. `RoutesHome` follows from printers that stay in their store and from
`BestRouteIs`: routing takes a least row of an order by four keys, so
there is one whenever there is a row. `NothingVanishes` needs that a merge has at least two anchors, or the
shown entry would be the only copy (`MergeShows`).

**Agent calls.** `AnswersWerePosted` follows a reply through the waiter's channel;
`UnsentIsUnseen` says that a request that reported its store offline is in no
stream's buffer and was posted to by nobody; `ReportsComeLater` that a report comes after its request, so that main never
writes the first state of a row over one;
`PagesMatch` that the pages not yet matched are those in `offPaged`.

**Back office.** One invariant, `OfficeInv`, serves all five promises, because
the calls of admins, managers, agents and operators meet in the same tables.

- *Tables.* `RefsOK` and `ChannelsOK` say that rows refer to rows and that a
  location has one built-in channel of a kind. Both survive every statement
  (`Good`, one lemma for each); `Follows` says what a statement leaves of a row that
  another call still holds: ids are never used twice, and an id keeps its location
  and kind. Since calls hold what they read while the row may go, each step needs it.
- *Built-in channels.* `OneBuiltin` is not inductive: a call about to create must
  know that nobody else has (`NoneYet`), which holds since only the caller holding
  `builtinMu` is past the lock (`OneAtTheDoor`). `RightDoor` adds that the cache names
  a channel of its key (`CacheIsTrue`): the row may be gone, never another's.
- *The receipt flag.* `ReceiptHandedOn` carries itself, with `RefsOK` for the
  rows a tenant's or location's deletion takes along. A location is `bare` only from
  the moment a call that owed it the flag ended, or its flagged printer was deleted by a
  call that had read it without the flag, until the next `ensureReceiptPrinter` there:
  a failure elsewhere, or earlier, is no excuse (`ExcusesStand`).
- *Pushes.* `EveryEditIsPushed` speaks of the moments at rest. `UntoldWillBePushed`
  is its form at every moment: a location still to be told, and not `unsent`, has a
  call or a job that will read its config from now on and send it
  (`WillPush`). One that has read already counts only if what it read is still the
  present config: tenant and location, and, once it has read them, the printers with
  their MACs. `unsent` is cleared by a push of the present config and nothing else.
- *Sign-in.* `RetryAfterIsExact` needs that a window's hits are in the order they came
  (`HitsInOrder`), or the loop of `prune`, which drops from the front until one is
  young, would keep old ones. What the recursive function `Keep` of that loop
  returns for a window of any length is `KeepIsSuffix`; `WaitIsExact` follows from it.

A recursive function is usually shown to be what it defines by induction, which is
not available here (see below). For one that counts down a number the proofs do
without: they write down the function it should be, show that it meets the recursive
equation and that two functions that do agree, by the least number at which they
would not.

Only model-checked:

- Liveness (`LinksReturn`, `CutStreamEnds`, `HandlerDrains`, `StreamCatchesUp`,
  `DeliveryGuarantee`, `FloorSyncs`, `QueueDrains`, `DarkStorePaged`): fairness and
  `ENABLED` are outside the prover.
- `MenuBank`'s `RerunCompletes`: it compares the tables with those a whole import
  leaves, a recursive function that applies the writes of a file in order. What such
  a function does to tables of any content needs induction over the writes still to
  be made, which the installed provers cannot use.

## Observations

Behaviours met while modelling that disagree with a comment, or that a property
has to except. Each is reachable in the models as they stand.

Orders and delivery

- Two simultaneous `Place` calls with one `client_order_id` share one idempotent
  charge; the one whose save is a duplicate refunds it (`orderport/service.go:313`),
  and the saved order stays recorded as paid. `PaidStaysPaid` excepts keys in
  `crossed`.
- The redelivery query's limit counts orders of stores that are offline
  (`agentsync.go:219`), so for as long as they are in the 12-hour window they can
  keep a connected store's newer orders from being re-sent, against `agentsync.go:4`.
  `DeliveryGuarantee` excepts orders that are crowded out, for as long as they are.
- A charge that was refunded after a failed save is still remembered under its
  idempotency key (`payment.go:73`), so a later retry of the same `client_order_id`
  saves an order as captured on money that was returned.
  `PaidStaysPaid` excepts keys in `spoilt`.
- A tracking row that failed once is overtaken by a later event of the same
  order, so a channel can end on an older status; `outbox_repo.go:35` speaks of
  causal order.
- A device revoked between the authentication of its stream request and
  `SubscribeAs` keeps that stream; `cmd/api/main.go:227` speaks of a cut at once.
- `SubscribeAs` resets a store's backoff, but a dispatch that found no stream
  just before can be marked failed just after, so a reconnected agent may wait
  out a retry delay although `broker.go:104` speaks of one tick.
- `SetOrderAgentStatus` takes an equal timestamp (`query.sql:800`), while
  `domain/order/repo.go:124` describes ignoring what is not newer.
- After a tracking reset is flushed the client re-reads its orders, but the
  stream's new cursor is read only afterwards (`handler/tracking.go:107`).
- An order deleted by an admin while its SQS message is in the queue is created
  again by a redelivery. The SQS receive backoff can reach 64 s, above
  `maxBackoff` of 60 s.
- `DeleteTenant` removes the devices without running `deviceGone`, so their
  streams live until they drop. `Link` that fails after revoking leaves the store
  without a key that works until it links again.
- The late-order alert looks at the last 6 hours by placement time, so an order
  promised later than that is never alerted; a page whose `MarkAlerted` fails is
  sent again a minute later.

Agent calls

- `settleUpdate` says a report the agent already sent wins; a report of the state
  `requested` does not, since the row then still reads `requested`
  (`updates.go:144`; `printers_test.go:215` shows agents
  report it). `ReportWins` is about the later states.
- A row stays `requested` when main restarts before it is settled, until the
  agent reports.
- A page that fails is not sent again (`offPaged` is set first), and a restart
  forgets it and pages anew. `offSince` survives a time without an active agent,
  so a newly linked one can be paged about at once.

Menu

- An import gives a category without a default printer the one most of its rows
  name, so an exported item that had no printer prints there after the import,
  although `ExportCSV` speaks of reproducing the routing.
- After a mapped item is gone, a vendor's name falls back to routing by name.
- A build reads the view's rules before the version. A rule edited in between is
  missing from a build kept under the newer version, until the next edit;
  `SeesEarlierEdits` is about the tables.

Selling

- The engine ignores an option with a negative price, `build` subtracts it, and
  `Place` then refuses the order for its total (`MoneyAddsUp` excepts it).
- `Times` offers times past midnight under the day whose hours they belong to;
  `Place` looks them up under their own date and refuses them
  (`orderport/service.go:250`). Its comment has a time fall before the period
  closes; the code lets it fall on the close.
- `ClosesAt` looks a day past the end of the current period, so a store open
  without a break for longer has a close named in the middle of it.
- The restock loop writes what it read before: an item marked out between the
  reads and the write of a daily reset comes back with the rest.

Back office

- Several statements move the receipt flag without a lock, while `store.go:262`
  speaks of exactly one. Two crossings lose it: the printer to be flagged is
  deleted between the list and the update, or flagged between the read and the
  delete of its row. So does a failure between the write and
  the flag: an add whose `ensureReceiptPrinter` fails leaves a printer and no flag
  (`tenancy/service.go:519-526`), until the next add, or until a manager flags a
  printer. Two flags there never are: `idx_printers_one_receipt` (`schema.sql:57`)
  makes one of two overlapping moves fail.
- An add or delete of a printer whose `ensureReceiptPrinter` fails returns
  without a push, though the row was written. So does an add that, without any
  failure, flags *another* printer because its own was deleted meanwhile: its last read
  (`service.go:528`) finds nothing and `MeCreatePrinter` returns before the push
  (`store.go:237`), so the moved flag is not sent. A `printer.moved` that only brings
  a MAC is written and not pushed (`service.go:575-582`), although the config carries
  the MAC (`sse.go:234`) and the comment above it says such a repeat changes nothing.
  `EveryEditIsPushed` excepts these locations, until the next push there (`unsent`).
- Two pushes can reach the agent in the other order than they were read, so that it
  keeps the older config. A handshake reads the config before
  it subscribes, so an edit in between is not sent on that stream.
  `EveryEditIsPushed` says each state was sent, not that it arrived last.
- `UpdatePrinter` logs an address change against a row read earlier, and a
  geocode of an old address can overwrite the position of a newer one.

## Not modelled

Logging, metrics, traces, HTTP encodings, migrations, start-up wiring and the web
frontend keep no state of their own or only show it. Geometry, address search,
geocoding providers, their caches and quotas, and payment processors other than
the built-in ones are outside. Casters (`casting/online`) are a conversion of
vendor formats, kept by their outcome. Agent state and health reports and
backups overwrite or add a row that only the recovery of an agent and the fleet
page read back. The cache of printer
reports is advisory. Left out of modelled parts: the late-order alerts, the admin
transitions of an order, `RestockNow`, routing by name alone when the vendor mappings cannot be read, an operator's password change, devices
that are not agents, the requeueing of open deliveries after a store moved, CSV
export.

## Plan

1. The late-order alert loop with `OrderPlacement`, and the admin transitions of
   an order with `FloorFlow`.
2. The queue and caches of address checks (`app/geo`).
