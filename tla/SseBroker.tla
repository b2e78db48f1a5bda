------------------------------ MODULE SseBroker ------------------------------
(***************************************************************************)
(* The live fan-out layer of backend/internal/infra/sse/broker.go.         *)
(*                                                                         *)
(* A connection is one run of the stream handler (transport/handler/sse.go *)
(* StreamOrders): it subscribes, takes frames off its channel until the    *)
(* channel is closed or the client goes away, and runs the deferred        *)
(* unsubscribe.  Every broker operation holds Broker.mu, so each is one    *)
(* atomic action.  Go's channel rules are modelled, not assumed: closing a *)
(* closed channel and sending on a closed channel panic.                   *)
(***************************************************************************)
EXTENDS Naturals, Sequences, FiniteSets

CONSTANTS
  Scopes,      \* (tenant, location) pairs
  Conns,       \* slots for concurrently running stream handlers
  Devices,     \* agent devices
  NilDevice,   \* uuid.Nil: a stream opened by an unknown device
  Frames,      \* what can be published; the payload is opaque to the broker
  FrameScope,  \* the scope each frame is published to
  BufCap       \* subscriberBuffer (256 in the code)

ASSUME BrokerAssumption ==
  /\ BufCap \in Nat \ {0}
  /\ NilDevice \notin Devices
  /\ "idle" \notin Scopes
  /\ FrameScope \in [Frames -> Scopes]

VARIABLES
  clients,     \* Broker.clients: scope -> its registered streams
  devices,     \* Broker.devices: stream -> the device that opened it
  chan,        \* the Go channel of the connection ("closed" also before the first)
  buf,         \* the frames waiting in that channel
  handler      \* the connection's scope and device, or "idle"

brokerVars == <<clients, devices, chan, buf, handler>>

AnyDevice == Devices \cup {NilDevice}

Idle == [scope |-> "idle", device |-> NilDevice]

Running(c) == handler[c] # Idle

Registered == UNION {clients[s] : s \in Scopes}

BrokerTypeOK ==
  /\ clients \in [Scopes -> SUBSET Conns]
  /\ devices \in [Conns -> AnyDevice]
  /\ chan \in [Conns -> {"open", "closed", "panic"}]
  /\ buf \in [Conns -> Seq(Frames)]
  /\ \A c \in Conns : Len(buf[c]) <= BufCap
  /\ handler \in [Conns -> [scope : Scopes, device : AnyDevice] \cup {Idle}]

BrokerInit ==
  /\ clients = [s \in Scopes |-> {}]
  /\ devices = [c \in Conns |-> NilDevice]
  /\ chan = [c \in Conns |-> "closed"]
  /\ buf = [c \in Conns |-> <<>>]
  /\ handler = [c \in Conns |-> Idle]

-----------------------------------------------------------------------------
(* Go's close(ch) and ch <- frame on a channel in state st.                *)
CloseChan(st) == IF st = "open" THEN "closed" ELSE "panic"
SendChan(st) == IF st = "open" THEN "open" ELSE "panic"

SubscribersFor(s) == Cardinality(clients[s])

(* SubscribeAs up to the unlock: a fresh channel, registered under its     *)
(* scope and its device.                                                   *)
SubscribeAs(c, s, d) ==
  /\ ~Running(c)
  /\ clients' = [clients EXCEPT ![s] = @ \cup {c}]
  /\ devices' = [devices EXCEPT ![c] = d]
  /\ chan' = [chan EXCEPT ![c] = "open"]
  /\ buf' = [buf EXCEPT ![c] = <<>>]
  /\ handler' = [handler EXCEPT ![c] = [scope |-> s, device |-> d]]

(* removeLocked for one stream acts only while the stream is still in its  *)
(* scope's set: unsubscribe may come after DisconnectDevice.               *)
StillRegistered_Unguarded(s, c) == {c}

StillRegistered(s, c) == clients[s] \cap {c}

(* What removeLocked does for the streams it finds: out of both maps, and  *)
(* the channel closed.                                                     *)
RemoveLocked_NoClose(gone) ==
  /\ clients' = [s \in Scopes |-> clients[s] \ gone]
  /\ devices' = [c \in Conns |-> IF c \in gone THEN NilDevice ELSE devices[c]]
  /\ UNCHANGED chan

RemoveLocked(gone) ==
  /\ clients' = [s \in Scopes |-> clients[s] \ gone]
  /\ devices' = [c \in Conns |-> IF c \in gone THEN NilDevice ELSE devices[c]]
  /\ chan' = [c \in Conns |-> IF c \in gone THEN CloseChan(chan[c]) ELSE chan[c]]

(* The handler returns and runs the deferred unsub(); what is still in the *)
(* channel is garbage.                                                     *)
Unsubscribe_Leak(c) ==
  /\ Running(c)
  /\ buf' = [buf EXCEPT ![c] = <<>>]
  /\ handler' = [handler EXCEPT ![c] = Idle]
  /\ UNCHANGED <<clients, devices, chan>>

Unsubscribe(c) ==
  /\ Running(c)
  /\ RemoveLocked(StillRegistered(handler[c].scope, c))
  /\ buf' = [buf EXCEPT ![c] = <<>>]
  /\ handler' = [handler EXCEPT ![c] = Idle]

(* StreamOrders' two exits: its channel is closed and drained, or the      *)
(* client is gone (request context done, possible at any moment).          *)
ChannelClosed(c) ==
  /\ chan[c] = "closed"
  /\ buf[c] = <<>>
  /\ Unsubscribe(c)

ClientGone(c) == Unsubscribe(c)

(* DisconnectDevice of a revoked agent; the nil device is nobody's.        *)
StreamsOf(d) == IF d = NilDevice THEN {} ELSE {c \in Registered : devices[c] = d}

DisconnectDevice(d) ==
  /\ RemoveLocked(StreamsOf(d))
  /\ UNCHANGED <<buf, handler>>

Reached_AllScopes(s) == {c \in Registered : Len(buf[c]) < BufCap}

(* The streams of scope s with room for one more frame: Publish never      *)
(* blocks, a full stream misses the frame.                                 *)
Reached(s) == {c \in clients[s] : Len(buf[c]) < BufCap}

Publish(s, f) ==
  /\ buf' = [c \in Conns |-> IF c \in Reached(s) THEN Append(buf[c], f) ELSE buf[c]]
  /\ chan' = [c \in Conns |-> IF c \in Reached(s) THEN SendChan(chan[c]) ELSE chan[c]]
  /\ UNCHANGED <<clients, devices, handler>>

(* The handler's receive: a closed channel still hands out its buffer.     *)
Take(c) ==
  /\ Running(c)
  /\ buf[c] # <<>>
  /\ buf' = [buf EXCEPT ![c] = Tail(@)]
  /\ UNCHANGED <<clients, devices, chan, handler>>

(* main restarts: a new, empty broker, and every stream is gone.           *)
BrokerRestart ==
  /\ clients' = [s \in Scopes |-> {}]
  /\ devices' = [c \in Conns |-> NilDevice]
  /\ chan' = [c \in Conns |-> "closed"]
  /\ buf' = [c \in Conns |-> <<>>]
  /\ handler' = [c \in Conns |-> Idle]

-----------------------------------------------------------------------------
BrokerNext ==
  \/ \E c \in Conns, s \in Scopes, d \in AnyDevice : SubscribeAs(c, s, d)
  \/ \E c \in Conns : ChannelClosed(c)
  \/ \E c \in Conns : ClientGone(c)
  \/ \E c \in Conns : Take(c)
  \/ \E d \in AnyDevice : DisconnectDevice(d)
  \/ \E f \in Frames : Publish(FrameScope[f], f)
  \/ BrokerRestart

(* A handler goroutine keeps serving its channel.                          *)
BrokerFairness == \A c \in Conns : WF_brokerVars(Take(c) \/ ChannelClosed(c))

BrokerSpec == BrokerInit /\ [][BrokerNext]_brokerVars /\ BrokerFairness

-----------------------------------------------------------------------------
(* No handler or publisher ever closes a channel twice or sends on a       *)
(* closed one, however unsubscribe and DisconnectDevice interleave: either *)
(* is a Go panic that takes main down (broker.go removeLocked, Publish).   *)
NoPanic == \A c \in Conns : chan[c] # "panic"

(* What SubscribersFor counts is real: a registered stream has a running   *)
(* handler of that very scope and device behind it and an open channel.    *)
(* The SSE dispatch handler takes a publish to it for a delivery.          *)
RegisteredIsLive ==
  \A s \in Scopes : \A c \in clients[s] :
    /\ handler[c] = [scope |-> s, device |-> devices[c]]
    /\ chan[c] = "open"

(* An agent only ever has frames of its own (tenant, location) in its      *)
(* channel, across reconnects of the same slot (broker.go Scope).          *)
ScopeIsolation ==
  \A c \in Conns : \A i \in DOMAIN buf[c] : FrameScope[buf[c][i]] = handler[c].scope

(* A stream that was cut ends: its handler drains what the closed channel  *)
(* still holds and returns, so the agent reconnects (and is refused).      *)
CutStreamEnds ==
  \A c \in Conns : (Running(c) /\ c \notin Registered) ~> ~Running(c)

=============================================================================
