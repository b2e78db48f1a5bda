--------------------------- MODULE SseBrokerProofs ---------------------------
(* The broker's safety for any number of scopes, connections and devices.  *)
EXTENDS SseBroker, TLAPS

(* The inductive invariant.  NoPanic alone is not inductive: a close is    *)
(* safe because only registered streams are closed and a registered stream *)
(* is open, and a slot is reused only when nothing refers to it any more.  *)
BrokerInv ==
  /\ BrokerTypeOK
  /\ NoPanic
  /\ RegisteredIsLive

(* A stream in a scope's set has a running handler of that scope.          *)
LEMMA RegisteredRuns ==
  ASSUME BrokerInv, NEW s \in Scopes, NEW c \in clients[s]
  PROVE  /\ c \in Conns
         /\ Running(c)
         /\ handler[c].scope = s
         /\ chan[c] = "open"
<1>1. c \in Conns BY DEF BrokerInv, BrokerTypeOK
<1>2. handler[c] = [scope |-> s, device |-> devices[c]] /\ chan[c] = "open"
  BY DEF BrokerInv, RegisteredIsLive
<1>3. s # "idle" BY BrokerAssumption
<1>4. handler[c].scope # Idle.scope BY <1>2, <1>3 DEF Idle
<1> QED BY <1>1, <1>2, <1>4 DEF Running

(* The empty broker satisfies the invariant.                               *)
LEMMA BrokerInitInv == BrokerInit => BrokerInv
<1> SUFFICES ASSUME BrokerInit PROVE BrokerInv OBVIOUS
<1>1. BrokerTypeOK
  <2>1. NilDevice \in AnyDevice BY DEF AnyDevice
  <2>2. \A c \in Conns : Len(buf[c]) <= BufCap BY BrokerAssumption DEF BrokerInit
  <2> QED BY <2>1, <2>2 DEF BrokerInit, BrokerTypeOK
<1>2. NoPanic BY DEF BrokerInit, NoPanic
<1>3. RegisteredIsLive BY DEF BrokerInit, RegisteredIsLive
<1> QED BY <1>1, <1>2, <1>3 DEF BrokerInv

(* Removing any set of registered streams keeps the invariant's parts that *)
(* do not concern the handlers: whatever stays registered stays open, and  *)
(* only open channels are closed.                                          *)
LEMMA RemoveLockedSafe ==
  ASSUME BrokerInv, NEW gone, gone \subseteq Registered, RemoveLocked(gone)
  PROVE  /\ clients' \in [Scopes -> SUBSET Conns]
         /\ devices' \in [Conns -> AnyDevice]
         /\ chan' \in [Conns -> {"open", "closed", "panic"}]
         /\ NoPanic'
         /\ \A s \in Scopes : clients'[s] = clients[s] \ gone
         /\ \A s \in Scopes : \A c \in clients'[s] :
               devices'[c] = devices[c] /\ chan'[c] = chan[c]
<1>1. \A c \in gone : c \in Conns /\ chan[c] = "open"
  BY RegisteredRuns DEF Registered
<1>2. NilDevice \in AnyDevice BY DEF AnyDevice
<1>3. /\ clients' = [s \in Scopes |-> clients[s] \ gone]
      /\ devices' = [c \in Conns |-> IF c \in gone THEN NilDevice ELSE devices[c]]
      /\ chan' = [c \in Conns |-> IF c \in gone THEN "closed" ELSE chan[c]]
  BY <1>1 DEF RemoveLocked, CloseChan
<1>4. BrokerTypeOK /\ NoPanic BY DEF BrokerInv
<1>5. \A s \in Scopes : clients[s] \subseteq Conns BY <1>4 DEF BrokerTypeOK
<1>6. clients' \in [Scopes -> SUBSET Conns] BY <1>3, <1>5
<1>7. devices' \in [Conns -> AnyDevice] BY <1>2, <1>3, <1>4 DEF BrokerTypeOK
<1>8. chan' \in [Conns -> {"open", "closed", "panic"}]
  BY <1>3, <1>4 DEF BrokerTypeOK
<1>9. NoPanic' BY <1>3, <1>4 DEF NoPanic
<1>10. \A s \in Scopes : \A c \in clients'[s] : devices'[c] = devices[c] /\ chan'[c] = chan[c]
  BY <1>3, <1>5
<1> QED BY <1>3, <1>6, <1>7, <1>8, <1>9, <1>10

-----------------------------------------------------------------------------
(* A new stream enters its scope's set with a fresh channel.               *)
LEMMA SubscribeAsInv ==
  ASSUME BrokerInv, NEW c \in Conns, NEW s \in Scopes, NEW d \in AnyDevice, SubscribeAs(c, s, d)
  PROVE  BrokerInv'
<1>0. BrokerTypeOK /\ NoPanic /\ RegisteredIsLive BY DEF BrokerInv
<1>1. BrokerTypeOK'
  <2>1. \A x \in Conns : Len(buf'[x]) <= BufCap
    BY <1>0, BrokerAssumption DEF BrokerTypeOK, SubscribeAs
  <2> QED BY <1>0, <2>1 DEF BrokerTypeOK, SubscribeAs
<1>2. NoPanic'
  BY <1>0 DEF BrokerTypeOK, NoPanic, SubscribeAs
<1>3. RegisteredIsLive'
  <2> SUFFICES ASSUME NEW t \in Scopes, NEW x \in clients'[t]
               PROVE  handler'[x] = [scope |-> t, device |-> devices'[x]] /\ chan'[x] = "open"
    BY DEF RegisteredIsLive
  <2>1. \A u \in Scopes : c \notin clients[u]
    BY RegisteredRuns DEF SubscribeAs
  <2>2. CASE x = c
    <3>1. t = s BY <1>0, <2>1, <2>2 DEF BrokerTypeOK, SubscribeAs
    <3> QED BY <1>0, <2>2, <3>1 DEF BrokerTypeOK, SubscribeAs
  <2>3. CASE x # c
    <3>1. x \in clients[t] BY <1>0, <2>3 DEF BrokerTypeOK, SubscribeAs
    <3>2. x \in Conns BY <1>0, <3>1 DEF BrokerTypeOK
    <3>3. handler'[x] = handler[x] /\ devices'[x] = devices[x] /\ chan'[x] = chan[x]
      BY <1>0, <2>3, <3>2 DEF BrokerTypeOK, SubscribeAs
    <3> QED BY <1>0, <3>1, <3>3 DEF RegisteredIsLive
  <2> QED BY <2>2, <2>3
<1> QED BY <1>1, <1>2, <1>3 DEF BrokerInv

(* A handler that ends takes its stream out, or finds it already cut.      *)
LEMMA UnsubscribeInv ==
  ASSUME BrokerInv, NEW c \in Conns, Unsubscribe(c)
  PROVE  BrokerInv'
<1> DEFINE gone == StillRegistered(handler[c].scope, c)
<1>0. BrokerTypeOK /\ NoPanic /\ RegisteredIsLive BY DEF BrokerInv
<1>1. handler[c] \in [scope : Scopes, device : AnyDevice]
  BY <1>0 DEF BrokerTypeOK, Unsubscribe, Running
<1>2. gone \subseteq Registered BY <1>1 DEF StillRegistered, Registered
<1>3. RemoveLocked(gone) BY DEF Unsubscribe
<1> HIDE DEF gone
<1>4. /\ clients' \in [Scopes -> SUBSET Conns]
      /\ devices' \in [Conns -> AnyDevice]
      /\ chan' \in [Conns -> {"open", "closed", "panic"}]
      /\ NoPanic'
      /\ \A s \in Scopes : clients'[s] = clients[s] \ gone
      /\ \A s \in Scopes : \A x \in clients'[s] :
            devices'[x] = devices[x] /\ chan'[x] = chan[x]
  BY <1>2, <1>3, RemoveLockedSafe
<1>5. /\ buf' \in [Conns -> Seq(Frames)]
      /\ \A x \in Conns : Len(buf'[x]) <= BufCap
      /\ handler' \in [Conns -> [scope : Scopes, device : AnyDevice] \cup {Idle}]
  BY <1>0, BrokerAssumption DEF BrokerTypeOK, Unsubscribe
<1>6. \A s \in Scopes : c \notin clients'[s]
  <2> SUFFICES ASSUME NEW s \in Scopes, c \in clients'[s] PROVE FALSE OBVIOUS
  <2>1. c \in clients[s] BY <1>4
  <2>2. handler[c].scope = s BY <2>1, RegisteredRuns
  <2>3. c \in gone BY <2>1, <2>2 DEF gone, StillRegistered
  <2> QED BY <1>4, <2>3
<1>7. RegisteredIsLive'
  <2> SUFFICES ASSUME NEW t \in Scopes, NEW x \in clients'[t]
               PROVE  handler'[x] = [scope |-> t, device |-> devices'[x]] /\ chan'[x] = "open"
    BY DEF RegisteredIsLive
  <2>1. x \in clients[t] /\ x # c BY <1>4, <1>6
  <2>2. handler'[x] = handler[x]
    BY <1>0, <2>1 DEF BrokerTypeOK, Unsubscribe
  <2> QED BY <1>0, <1>4, <2>1, <2>2 DEF RegisteredIsLive
<1> QED BY <1>4, <1>5, <1>7 DEF BrokerInv, BrokerTypeOK

(* Cutting a device removes all of its streams and no other.               *)
LEMMA DisconnectDeviceInv ==
  ASSUME BrokerInv, NEW d \in AnyDevice, DisconnectDevice(d)
  PROVE  BrokerInv'
<1>0. BrokerTypeOK /\ NoPanic /\ RegisteredIsLive BY DEF BrokerInv
<1>1. StreamsOf(d) \subseteq Registered BY DEF StreamsOf
<1>2. RemoveLocked(StreamsOf(d)) BY DEF DisconnectDevice
<1>3. /\ clients' \in [Scopes -> SUBSET Conns]
      /\ devices' \in [Conns -> AnyDevice]
      /\ chan' \in [Conns -> {"open", "closed", "panic"}]
      /\ NoPanic'
      /\ \A s \in Scopes : clients'[s] = clients[s] \ StreamsOf(d)
      /\ \A s \in Scopes : \A x \in clients'[s] :
            devices'[x] = devices[x] /\ chan'[x] = chan[x]
  BY <1>1, <1>2, RemoveLockedSafe
<1>4. handler' = handler /\ buf' = buf BY DEF DisconnectDevice
<1>5. BrokerTypeOK' BY <1>0, <1>3, <1>4 DEF BrokerTypeOK
<1>6. RegisteredIsLive' BY <1>0, <1>3, <1>4 DEF RegisteredIsLive
<1> QED BY <1>3, <1>5, <1>6 DEF BrokerInv

(* A publish only writes to registered, hence open, channels with room.    *)
LEMMA PublishInv ==
  ASSUME BrokerInv, NEW s \in Scopes, NEW f \in Frames, Publish(s, f)
  PROVE  BrokerInv'
<1>0. BrokerTypeOK /\ NoPanic /\ RegisteredIsLive BY DEF BrokerInv
<1>1. \A c \in Reached(s) : c \in Conns /\ chan[c] = "open"
  BY RegisteredRuns DEF Reached
<1>2. chan' = chan
  <2>1. \A c \in Conns : chan'[c] = chan[c] BY <1>1 DEF Publish, SendChan
  <2> QED BY <1>0, <2>1 DEF BrokerTypeOK, Publish
<1>3. /\ buf' \in [Conns -> Seq(Frames)]
      /\ \A c \in Conns : Len(buf'[c]) <= BufCap
  <2>1. buf' = [c \in Conns |-> IF c \in Reached(s) THEN Append(buf[c], f) ELSE buf[c]]
    BY DEF Publish
  <2>2. \A c \in Conns : buf[c] \in Seq(Frames) /\ Len(buf[c]) <= BufCap
    BY <1>0 DEF BrokerTypeOK
  <2>3. \A c \in Reached(s) : Len(buf[c]) < BufCap BY DEF Reached
  <2>4. \A c \in Conns : /\ Append(buf[c], f) \in Seq(Frames)
                         /\ Len(Append(buf[c], f)) = Len(buf[c]) + 1
    BY <2>2
  <2>5. \A c \in Conns : Len(buf[c]) \in Nat BY <2>2
  <2> QED BY <2>1, <2>2, <2>3, <2>4, <2>5, BrokerAssumption
<1>4. clients' = clients /\ devices' = devices /\ handler' = handler BY DEF Publish
<1> QED BY <1>0, <1>2, <1>3, <1>4
     DEF BrokerInv, BrokerTypeOK, NoPanic, RegisteredIsLive

(* A handler's receive shortens its own buffer.                            *)
LEMMA TakeInv ==
  ASSUME BrokerInv, NEW c \in Conns, Take(c)
  PROVE  BrokerInv'
<1>1. /\ buf' \in [Conns -> Seq(Frames)]
      /\ \A x \in Conns : Len(buf'[x]) <= BufCap
  <2>1. buf[c] \in Seq(Frames) /\ buf[c] # <<>> BY DEF BrokerInv, BrokerTypeOK, Take
  <2>2. /\ Tail(buf[c]) \in Seq(Frames)
        /\ Len(Tail(buf[c])) = Len(buf[c]) - 1
        /\ Len(buf[c]) \in Nat
    BY <2>1
  <2> QED BY <2>2, BrokerAssumption DEF BrokerInv, BrokerTypeOK, Take
<1> QED BY <1>1 DEF BrokerInv, BrokerTypeOK, NoPanic, RegisteredIsLive, Take

(* A restarted broker is an empty one.                                     *)
LEMMA RestartInv ==
  ASSUME BrokerRestart
  PROVE  BrokerInv' /\ ScopeIsolation'
<1>1. /\ \A s \in Scopes : clients'[s] = {}
      /\ \A c \in Conns : chan'[c] = "closed" /\ buf'[c] = <<>>
  BY DEF BrokerRestart
<1>2. BrokerTypeOK'
  <2>1. clients' \in [Scopes -> SUBSET Conns] BY DEF BrokerRestart
  <2>2. devices' \in [Conns -> AnyDevice] BY DEF BrokerRestart, AnyDevice
  <2>3. chan' \in [Conns -> {"open", "closed", "panic"}] BY DEF BrokerRestart
  <2>4. buf' \in [Conns -> Seq(Frames)] /\ \A c \in Conns : Len(buf'[c]) <= BufCap
    BY BrokerAssumption DEF BrokerRestart
  <2>5. handler' \in [Conns -> [scope : Scopes, device : AnyDevice] \cup {Idle}]
    BY DEF BrokerRestart
  <2> QED BY <2>1, <2>2, <2>3, <2>4, <2>5 DEF BrokerTypeOK
<1>3. NoPanic' BY <1>1 DEF NoPanic
<1>4. RegisteredIsLive' BY <1>1 DEF RegisteredIsLive
<1>5. ScopeIsolation' BY <1>1 DEF ScopeIsolation
<1> QED BY <1>2, <1>3, <1>4, <1>5 DEF BrokerInv

(* Every step of the broker keeps the invariant, one case per operation.   *)
LEMMA BrokerNextInv == BrokerInv /\ [BrokerNext]_brokerVars => BrokerInv'
<1> SUFFICES ASSUME BrokerInv, [BrokerNext]_brokerVars PROVE BrokerInv' OBVIOUS
<1>1. CASE UNCHANGED brokerVars
  BY <1>1 DEF brokerVars, BrokerInv, BrokerTypeOK, NoPanic, RegisteredIsLive
<1>2. ASSUME NEW c \in Conns, NEW s \in Scopes, NEW d \in AnyDevice, SubscribeAs(c, s, d)
      PROVE  BrokerInv'
  BY <1>2, SubscribeAsInv
<1>3. ASSUME NEW c \in Conns, ChannelClosed(c) \/ ClientGone(c) PROVE BrokerInv'
  BY <1>3, UnsubscribeInv DEF ChannelClosed, ClientGone
<1>4. ASSUME NEW c \in Conns, Take(c) PROVE BrokerInv'
  BY <1>4, TakeInv
<1>5. ASSUME NEW d \in AnyDevice, DisconnectDevice(d) PROVE BrokerInv'
  BY <1>5, DisconnectDeviceInv
<1>6. ASSUME NEW f \in Frames, Publish(FrameScope[f], f) PROVE BrokerInv'
  <2>1. FrameScope[f] \in Scopes BY BrokerAssumption
  <2> QED BY <1>6, <2>1, PublishInv
<1>7. CASE BrokerRestart BY <1>7, RestartInv
<1> QED BY <1>1, <1>2, <1>3, <1>4, <1>5, <1>6, <1>7 DEF BrokerNext

(* No step puts a frame of another scope into a stream's buffer: a publish *)
(* reaches only streams whose handler runs for that scope.                 *)
LEMMA IsolationStep ==
  ASSUME BrokerInv, ScopeIsolation, [BrokerNext]_brokerVars
  PROVE  ScopeIsolation'
<1>0. BrokerTypeOK BY DEF BrokerInv
<1>1. CASE UNCHANGED brokerVars
  BY <1>1 DEF brokerVars, ScopeIsolation
<1>2. ASSUME NEW c \in Conns, NEW s \in Scopes, NEW d \in AnyDevice, SubscribeAs(c, s, d)
      PROVE  ScopeIsolation'
  <2>1. buf'[c] = <<>> BY <1>0, <1>2 DEF SubscribeAs, BrokerTypeOK
  <2>2. \A x \in Conns \ {c} : buf'[x] = buf[x] /\ handler'[x] = handler[x]
    BY <1>0, <1>2 DEF SubscribeAs, BrokerTypeOK
  <2> QED BY <2>1, <2>2 DEF ScopeIsolation
<1>3. ASSUME NEW c \in Conns, ChannelClosed(c) \/ ClientGone(c) PROVE ScopeIsolation'
  <2>0. Unsubscribe(c) BY <1>3 DEF ChannelClosed, ClientGone
  <2>1. buf'[c] = <<>> BY <1>0, <2>0 DEF Unsubscribe, BrokerTypeOK
  <2>2. \A x \in Conns \ {c} : buf'[x] = buf[x] /\ handler'[x] = handler[x]
    BY <1>0, <2>0 DEF Unsubscribe, BrokerTypeOK
  <2> QED BY <2>1, <2>2 DEF ScopeIsolation
<1>4. ASSUME NEW c \in Conns, Take(c) PROVE ScopeIsolation'
  <2>1. handler' = handler /\ buf'[c] = Tail(buf[c]) BY <1>0, <1>4 DEF Take, BrokerTypeOK
  <2>2. \A x \in Conns \ {c} : buf'[x] = buf[x] BY <1>0, <1>4 DEF Take, BrokerTypeOK
  <2>3. buf[c] \in Seq(Frames) /\ buf[c] # <<>> BY <1>0, <1>4 DEF Take, BrokerTypeOK
  <2>4. \A i \in DOMAIN Tail(buf[c]) : /\ i + 1 \in DOMAIN buf[c]
                                       /\ Tail(buf[c])[i] = buf[c][i + 1]
    BY <2>3
  <2> SUFFICES ASSUME NEW x \in Conns, NEW i \in DOMAIN buf'[x]
               PROVE  FrameScope[buf'[x][i]] = handler'[x].scope
    BY DEF ScopeIsolation
  <2>5. CASE x = c
    <3>1. i + 1 \in DOMAIN buf[c] /\ buf'[c][i] = buf[c][i + 1] BY <2>1, <2>4, <2>5
    <3>2. FrameScope[buf[c][i + 1]] = handler[c].scope BY <3>1 DEF ScopeIsolation
    <3> QED BY <2>1, <2>5, <3>1, <3>2
  <2>6. CASE x # c BY <2>1, <2>2, <2>6 DEF ScopeIsolation
  <2> QED BY <2>5, <2>6
<1>5. ASSUME NEW d \in AnyDevice, DisconnectDevice(d) PROVE ScopeIsolation'
  BY <1>5 DEF DisconnectDevice, ScopeIsolation
<1>6. ASSUME NEW f \in Frames, Publish(FrameScope[f], f) PROVE ScopeIsolation'
  <2> SUFFICES ASSUME NEW c \in Conns, NEW i \in DOMAIN buf'[c]
               PROVE  FrameScope[buf'[c][i]] = handler'[c].scope
    BY DEF ScopeIsolation
  <2>1. handler' = handler BY <1>6 DEF Publish
  <2>2. CASE c \in Reached(FrameScope[f])
    <3>1. FrameScope[f] \in Scopes BY BrokerAssumption
    <3>2. handler[c].scope = FrameScope[f] BY <2>2, <3>1, RegisteredRuns DEF Reached
    <3>3. buf'[c] = Append(buf[c], f) /\ buf[c] \in Seq(Frames)
      BY <1>0, <1>6, <2>2 DEF Publish, BrokerTypeOK
    <3>4. CASE i = Len(buf[c]) + 1 BY <2>1, <3>2, <3>3, <3>4
    <3>5. CASE i # Len(buf[c]) + 1
      <4>1. i \in DOMAIN buf[c] /\ buf'[c][i] = buf[c][i] BY <3>3, <3>5
      <4> QED BY <2>1, <4>1 DEF ScopeIsolation
    <3> QED BY <3>4, <3>5
  <2>3. CASE c \notin Reached(FrameScope[f])
    <3>1. buf'[c] = buf[c] BY <1>6, <2>3 DEF Publish
    <3> QED BY <2>1, <3>1 DEF ScopeIsolation
  <2> QED BY <2>2, <2>3
<1>7. CASE BrokerRestart BY <1>7, RestartInv
<1> QED BY <1>1, <1>2, <1>3, <1>4, <1>5, <1>6, <1>7 DEF BrokerNext

(* The broker never panics on a channel, and every stream SubscribersFor   *)
(* counts has a live handler behind it, in every behaviour of the broker   *)
(* (broker.go SubscribeAs, removeLocked, DisconnectDevice, Publish).       *)
THEOREM BrokerSafety == BrokerSpec => [](BrokerTypeOK /\ NoPanic /\ RegisteredIsLive)
<1>1. BrokerInv => BrokerTypeOK /\ NoPanic /\ RegisteredIsLive BY DEF BrokerInv
<1> QED BY <1>1, BrokerInitInv, BrokerNextInv, PTL DEF BrokerSpec

(* No frame of another (tenant, location) ever enters an agent's channel.  *)
THEOREM BrokerIsolation == BrokerSpec => []ScopeIsolation
<1>1. BrokerInit => ScopeIsolation BY DEF BrokerInit, ScopeIsolation
<1>2. BrokerInv /\ ScopeIsolation /\ [BrokerNext]_brokerVars => ScopeIsolation'
  BY IsolationStep
<1> QED BY <1>1, <1>2, BrokerInitInv, BrokerNextInv, PTL DEF BrokerSpec

=============================================================================
