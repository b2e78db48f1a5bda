----------------------------- MODULE AgentProofs -----------------------------
(***************************************************************************)
(* What main guarantees of the agents of its stores, for every number of   *)
(* stores, devices, streams, links and requests: a link replaces every     *)
(* other agent of its store, which rests on linkMu (AgentLink); an admin   *)
(* is told the truth about an agent, its own report stays, and the owner   *)
(* is paged in turn (AgentCalls).  Every step of both is a step of the     *)
(* broker or leaves the broker alone, so the broker's theorems carry over. *)
(***************************************************************************)
EXTENDS AgentLink, AgentCalls, SseBrokerProofs, FiniteSetTheorems

-----------------------------------------------------------------------------
(* Links.                                                                  *)

(* Only the holder of linkMu is past its Lock.                             *)
OneLinkAtATime == \A l \in Links : lpc[l] \notin {"idle", "wait"} => linkMu = l

(* Once a link has listed the devices, a live agent of its location is the *)
(* one it minted, one it still has to revoke, or an admin's later one.     *)
Pending(l) == {minted[l]} \cup late[l] \cup old[l]

Listed == \A l \in Links :
  /\ lpc[l] \in {"revoke", "cut", "reply"} => Agents(scope[l], "live") \subseteq Pending(l)
  /\ lpc[l] = "reply" => old[l] = {}

LinkInv == LinkTypeOK /\ OneLinkAtATime /\ Listed

(* The device a link minted is revoked by hand if at all: the link itself  *)
(* does not revoke it, and no other link is there to do so.                *)
Kept(l) == dev[minted[l]] \in {"live", "cascaded"} \/ l \in undone

MintedKept == \A l \in Links :
  /\ lpc[l] \in {"list", "revoke", "cut", "reply"} => Kept(l)
  /\ lpc[l] \in {"revoke", "cut", "reply"} => minted[l] \notin old[l]

-----------------------------------------------------------------------------
(* Every step of AgentLink is a step of the broker or leaves it unchanged. *)
LEMMA AgentBrokerStep ==
  ASSUME LinkTypeOK, [AgentNext]_agentVars
  PROVE  [BrokerNext]_brokerVars
<1>1. CASE UNCHANGED agentVars BY <1>1 DEF agentVars
<1>2. ASSUME NEW d \in Devices, MintAgentDevice(DeviceScope[d], d) \/ RevokeDevice(d)
      PROVE  UNCHANGED brokerVars
  BY <1>2 DEF MintAgentDevice, RevokeDevice
<1>3. ASSUME NEW d \in Devices, DeviceGone(d) PROVE BrokerNext
  BY <1>3 DEF DeviceGone, BrokerNext, AnyDevice
<1>4. ASSUME NEW s \in Scopes, DeleteTenant(s) PROVE UNCHANGED brokerVars
  BY <1>4 DEF DeleteTenant
<1>5. ASSUME NEW c \in Conns, StreamOrders(c) PROVE BrokerNext
  <2>1. request[c] \in Devices /\ DeviceScope[request[c]] \in Scopes
    BY <1>5, LinkAssumption DEF LinkTypeOK, StreamOrders, AnyDevice
  <2>2. SubscribeAs(c, DeviceScope[request[c]], request[c]) BY <1>5 DEF StreamOrders
  <2> QED BY <2>1, <2>2 DEF BrokerNext, AnyDevice
<1>6. ASSUME NEW c \in Conns, HandshakeFails(c) \/ \E d \in Devices : Authenticate(c, d)
      PROVE  UNCHANGED brokerVars
  BY <1>6 DEF HandshakeFails, Authenticate
<1>7. CASE BrokerStep BY <1>7 DEF BrokerStep, BrokerNext
<1>8. ASSUME NEW l \in Links, LinkStep(l) \/ \E s \in Scopes : LinkStart(l, s)
      PROVE  UNCHANGED brokerVars
  BY <1>8 DEF LinkStart, LinkStep, LinkLock, LinkMint, LinkList, LinkRevoke, LinkCut,
              LinkRevokedAll, LinkReply, LinkFails
<1>9. CASE MainRestarts BY <1>9 DEF MainRestarts, BrokerNext
<1> QED BY <1>1, <1>2, <1>3, <1>4, <1>5, <1>6, <1>7, <1>8, <1>9 DEF AgentNext

(* The tables and the links' local variables keep their types.             *)
LEMMA LinkTypeStep ==
  ASSUME LinkTypeOK, [AgentNext]_agentVars
  PROVE  LinkTypeOK'
<1> USE DEF LinkTypeOK
<1>1. CASE UNCHANGED agentVars
  BY <1>1 DEF agentVars, deviceVars, linkVars, AnyDevice
<1>2. ASSUME NEW d \in Devices, MintAgentDevice(DeviceScope[d], d) PROVE LinkTypeOK'
  BY <1>2 DEF MintAgentDevice, Mint
<1>3. ASSUME NEW d \in Devices, RevokeDevice(d) PROVE LinkTypeOK'
  BY <1>3 DEF RevokeDevice, Revoked
<1>4. ASSUME NEW d \in Devices, DeviceGone(d) PROVE LinkTypeOK'
  BY <1>4 DEF DeviceGone, linkVars
<1>5. ASSUME NEW s \in Scopes, DeleteTenant(s) PROVE LinkTypeOK'
  BY <1>5 DEF DeleteTenant, linkVars
<1>6. ASSUME NEW c \in Conns, StreamOrders(c) PROVE LinkTypeOK'
  BY <1>6 DEF StreamOrders, linkVars, AnyDevice
<1>7. ASSUME NEW c \in Conns, HandshakeFails(c) PROVE LinkTypeOK'
  BY <1>7, LinkAssumption, FaultsAssumption DEF HandshakeFails, linkVars, AnyDevice, Fault, NoFault
<1>8. ASSUME NEW c \in Conns, NEW d \in Devices, Authenticate(c, d) PROVE LinkTypeOK'
  BY <1>8 DEF Authenticate, linkVars, AnyDevice
<1>9. CASE BrokerStep BY <1>9 DEF BrokerStep, deviceVars, linkVars
<1>10. ASSUME NEW l \in Links, NEW s \in Scopes, LinkStart(l, s) PROVE LinkTypeOK'
  BY <1>10 DEF LinkStart, deviceVars
<1>11. ASSUME NEW l \in Links, LinkStep(l) PROVE LinkTypeOK'
  <2>1. CASE LinkLock(l) BY <2>1 DEF LinkLock, deviceVars
  <2>2. CASE LinkMint(l) BY <2>2 DEF LinkMint, Mint, AnyDevice
  <2>3. CASE LinkList(l) BY <2>3 DEF LinkList, deviceVars, Replaced, Agents
  <2>4. CASE LinkRevoke(l) BY <2>4 DEF LinkRevoke, Revoked, AnyDevice
  <2>5. CASE LinkCut(l) BY <2>5 DEF LinkCut, deviceVars, AnyDevice
  <2>6. CASE LinkRevokedAll(l) BY <2>6 DEF LinkRevokedAll, deviceVars
  <2>7. CASE LinkReply(l)
    <3>1. minted[l] \in Devices BY <2>7 DEF LinkReply
    <3> QED BY <2>7, <3>1 DEF LinkReply, Return, AnyDevice
  <2>8. CASE LinkFails(l)
    BY <2>8, LinkAssumption, FaultsAssumption DEF LinkFails, Return, deviceVars, AnyDevice, Fault, NoFault
  <2> QED BY <1>11, <2>1, <2>2, <2>3, <2>4, <2>5, <2>6, <2>7, <2>8 DEF LinkStep
<1>12. CASE MainRestarts
  BY <1>12, LinkAssumption, FaultsAssumption DEF MainRestarts, Fault, AnyDevice
<1> QED BY <1>1, <1>2, <1>3, <1>4, <1>5, <1>6, <1>7, <1>8, <1>9, <1>10, <1>11, <1>12 DEF AgentNext

(* No step lets a second link past its Lock, or gives a listing link's     *)
(* location a live agent it does not know of.                              *)
LEMMA LinkInvStep ==
  ASSUME LinkInv, [AgentNext]_agentVars
  PROVE  LinkInv'
<1>0. LinkTypeOK /\ OneLinkAtATime /\ Listed BY DEF LinkInv
<1>t. LinkTypeOK' BY <1>0, LinkTypeStep
<1> USE DEF LinkTypeOK, OneLinkAtATime, Listed, Pending, Agents
<1>1. CASE UNCHANGED <<dev, linkVars>>
  <2>1. UNCHANGED <<dev, linkMu, lpc, scope, minted, old, late>> BY <1>1 DEF linkVars
  <2> QED BY <1>0, <1>t, <2>1 DEF LinkInv
<1>2. ASSUME NEW d \in Devices, MintAgentDevice(DeviceScope[d], d) PROVE LinkInv'
  <2>1. UNCHANGED <<linkMu, lpc, scope, minted, old>> BY <1>2 DEF MintAgentDevice
  <2>2. \A x \in Devices \ {d} : dev'[x] = dev[x] BY <1>0, <1>2 DEF MintAgentDevice, Mint
  <2>3. \A l \in Links : /\ late[l] \subseteq late'[l]
                         /\ scope[l] = DeviceScope[d] /\ lpc[l] \in {"revoke", "cut", "reply"}
                              => d \in late'[l]
    BY <1>2 DEF MintAgentDevice
  <2> QED BY <1>0, <1>t, <2>1, <2>2, <2>3 DEF LinkInv
<1>3. ASSUME NEW d \in Devices, RevokeDevice(d) PROVE LinkInv'
  <2>1. UNCHANGED <<linkMu, lpc, scope, minted, old, late>> BY <1>3 DEF RevokeDevice
  <2>2. \A x \in Devices : dev'[x] = "live" => dev[x] = "live"
    BY <1>0, <1>3 DEF RevokeDevice, Revoked
  <2> QED BY <1>0, <1>t, <2>1, <2>2 DEF LinkInv
<1>4. ASSUME NEW s \in Scopes, DeleteTenant(s) PROVE LinkInv'
  <2>1. UNCHANGED <<linkMu, lpc, scope, minted, old, late>>
    BY <1>4 DEF DeleteTenant, linkVars
  <2>2. \A x \in Devices : dev'[x] = "live" => dev[x] = "live"
    BY <1>0, <1>4 DEF DeleteTenant
  <2> QED BY <1>0, <1>t, <2>1, <2>2 DEF LinkInv
<1>5. ASSUME NEW l \in Links, NEW s \in Scopes, LinkStart(l, s) PROVE LinkInv'
  <2>1. UNCHANGED <<dev, linkMu, minted, old, late>> /\ lpc'[l] = "wait"
    BY <1>0, <1>5 DEF LinkStart, deviceVars
  <2>2. \A k \in Links \ {l} : lpc'[k] = lpc[k] /\ scope'[k] = scope[k]
    BY <1>0, <1>5 DEF LinkStart
  <2> QED BY <1>0, <1>t, <2>1, <2>2 DEF LinkInv
<1>6. ASSUME NEW l \in Links, LinkLock(l) PROVE LinkInv'
  <2>1. linkMu = NoLink /\ linkMu' = l /\ lpc'[l] = "mint" /\ UNCHANGED <<dev, scope, minted, old, late>>
    BY <1>0, <1>6 DEF LinkLock, MutexFree, deviceVars
  <2>2. \A k \in Links \ {l} : lpc'[k] = lpc[k] BY <1>0, <1>6 DEF LinkLock
  <2>3. \A k \in Links : lpc[k] \in {"idle", "wait"} BY <1>0, <2>1, LinkAssumption
  <2> QED BY <1>0, <1>t, <2>1, <2>2, <2>3 DEF LinkInv
<1>7. ASSUME NEW l \in Links, LinkMint(l) PROVE LinkInv'
  <2>1. UNCHANGED <<linkMu, scope, old, late>> /\ lpc[l] = "mint" /\ lpc'[l] = "list"
    BY <1>0, <1>7 DEF LinkMint
  <2>2. \A k \in Links \ {l} : lpc'[k] = lpc[k] /\ lpc[k] \in {"idle", "wait"}
    BY <1>0, <1>7, <2>1 DEF LinkMint
  <2> QED BY <1>0, <1>t, <2>1, <2>2 DEF LinkInv
<1>8. ASSUME NEW l \in Links, LinkList(l) PROVE LinkInv'
  <2>1. /\ UNCHANGED <<dev, linkMu, scope, minted>> /\ lpc[l] = "list" /\ lpc'[l] = "revoke"
        /\ old'[l] = Agents(scope[l], "live") \ {minted[l]}
    BY <1>0, <1>8 DEF LinkList, Replaced, deviceVars
  <2>2. \A k \in Links \ {l} : lpc'[k] = lpc[k] /\ lpc[k] \in {"idle", "wait"}
    BY <1>0, <1>8, <2>1 DEF LinkList
  <2> QED BY <1>0, <1>t, <2>1, <2>2 DEF LinkInv
<1>9. ASSUME NEW l \in Links, LinkRevoke(l) PROVE LinkInv'
  <2>1. UNCHANGED <<linkMu, scope, minted, late>> /\ lpc[l] = "revoke" /\ lpc'[l] = "cut"
    BY <1>0, <1>9 DEF LinkRevoke
  <2>2. PICK d \in old[l] : Revoked(d) /\ old' = [old EXCEPT ![l] = @ \ {d}]
    BY <1>9 DEF LinkRevoke
  <2>3. d \in Devices /\ old'[l] = old[l] \ {d} BY <1>0, <2>2
  <2>4. dev'[d] # "live" /\ \A x \in Devices : dev'[x] = "live" => dev[x] = "live"
    BY <1>0, <2>2, <2>3 DEF Revoked
  <2>5. \A k \in Links \ {l} : lpc'[k] = lpc[k] /\ lpc[k] \in {"idle", "wait"}
    BY <1>0, <1>9, <2>1 DEF LinkRevoke
  <2> QED BY <1>0, <1>t, <2>1, <2>3, <2>4, <2>5 DEF LinkInv
<1>10. ASSUME NEW l \in Links, LinkCut(l) \/ LinkRevokedAll(l) PROVE LinkInv'
  <2>1. /\ UNCHANGED <<dev, linkMu, scope, minted, old, late>>
        /\ \/ lpc[l] = "cut" /\ lpc'[l] = "revoke"
           \/ lpc[l] = "revoke" /\ lpc'[l] = "reply" /\ old[l] = {}
    BY <1>0, <1>10 DEF LinkCut, LinkRevokedAll, deviceVars
  <2>2. \A k \in Links \ {l} : lpc'[k] = lpc[k] BY <1>0, <1>10 DEF LinkCut, LinkRevokedAll
  <2> QED BY <1>0, <1>t, <2>1, <2>2 DEF LinkInv
<1>11. ASSUME NEW l \in Links, LinkReply(l) \/ LinkFails(l) PROVE LinkInv'
  <2>1. lpc[l] \notin {"idle", "wait"} /\ lpc'[l] = "idle" /\ UNCHANGED <<dev, scope>>
    BY <1>0, <1>11 DEF LinkReply, LinkFails, Return, deviceVars
  <2>2. \A k \in Links \ {l} : lpc'[k] = lpc[k] /\ lpc[k] \in {"idle", "wait"}
    BY <1>0, <1>11, <2>1 DEF LinkReply, LinkFails, Return
  <2> QED BY <1>0, <1>t, <2>1, <2>2 DEF LinkInv
<1>12. CASE MainRestarts
  <2>1. \A l \in Links : lpc'[l] = "idle" BY <1>12 DEF MainRestarts
  <2> QED BY <1>t, <2>1 DEF LinkInv
<1>13. CASE UNCHANGED agentVars BY <1>1, <1>13 DEF agentVars, deviceVars
<1>14. ASSUME NEW d \in Devices, DeviceGone(d) PROVE LinkInv'
  BY <1>1, <1>14 DEF DeviceGone
<1>15. ASSUME NEW c \in Conns, StreamOrders(c) \/ HandshakeFails(c) \/ \E d \in Devices : Authenticate(c, d)
       PROVE  LinkInv'
  BY <1>1, <1>15 DEF StreamOrders, HandshakeFails, Authenticate
<1>16. CASE BrokerStep BY <1>1, <1>16 DEF BrokerStep, deviceVars
<1> QED BY <1>2, <1>3, <1>4, <1>5, <1>6, <1>7, <1>8, <1>9, <1>10, <1>11, <1>12, <1>13, <1>14,
           <1>15, <1>16 DEF AgentNext, LinkStep

(* A key is kept by a step that leaves the link where it is and revokes,   *)
(* if anything, by hand.                                                   *)
LEMMA KeptByOthers ==
  ASSUME LinkTypeOK, MintedKept, UNCHANGED <<lpc, minted, old>>,
         \A l \in Links : Kept(l) /\ minted[l] \in Devices => Kept(l)'
  PROVE  MintedKept'
BY DEF LinkTypeOK, MintedKept

LEMMA MintedKeptStep ==
  ASSUME LinkInv, MintedKept, [AgentNext]_agentVars
  PROVE  MintedKept'
<1>0. LinkTypeOK /\ OneLinkAtATime BY DEF LinkInv
<1>1. CASE UNCHANGED <<dev, linkVars>>
  BY <1>0, <1>1, KeptByOthers DEF linkVars, Kept
<1>2. ASSUME NEW d \in Devices, MintAgentDevice(DeviceScope[d], d) PROVE MintedKept'
  <2>1. UNCHANGED <<undone, lpc, minted, old>> BY <1>2 DEF MintAgentDevice
  <2>2. \A x \in Devices : dev'[x] = dev[x] \/ dev'[x] = "live"
    BY <1>0, <1>2 DEF MintAgentDevice, Mint, LinkTypeOK
  <2> QED BY <1>0, <2>1, <2>2, KeptByOthers DEF Kept
<1>3. ASSUME NEW d \in Devices, RevokeDevice(d) PROVE MintedKept'
  <2>1. UNCHANGED <<lpc, minted, old>> /\ undone' = undone \cup {l \in Links : minted[l] = d}
    BY <1>3 DEF RevokeDevice
  <2>2. \A x \in Devices \ {d} : dev'[x] = dev[x]
    BY <1>0, <1>3 DEF RevokeDevice, Revoked, LinkTypeOK
  <2> QED BY <1>0, <2>1, <2>2, KeptByOthers DEF Kept
<1>4. ASSUME NEW s \in Scopes, DeleteTenant(s) PROVE MintedKept'
  <2>1. UNCHANGED <<undone, lpc, minted, old>> BY <1>4 DEF DeleteTenant, linkVars
  <2>2. \A x \in Devices : dev'[x] = dev[x] \/ dev'[x] = "cascaded"
    BY <1>0, <1>4 DEF DeleteTenant, LinkTypeOK
  <2> QED BY <1>0, <2>1, <2>2, KeptByOthers DEF Kept
<1>5. ASSUME NEW l \in Links, NEW s \in Scopes, LinkStart(l, s) PROVE MintedKept'
  <2>1. UNCHANGED <<dev, undone, minted, old>> BY <1>5 DEF LinkStart, deviceVars
  <2>2. \A k \in Links : lpc'[k] = lpc[k] \/ lpc'[k] = "wait"
    BY <1>0, <1>5 DEF LinkStart, LinkTypeOK
  <2> QED BY <2>1, <2>2 DEF MintedKept, Kept
<1>6. ASSUME NEW l \in Links, LinkLock(l) PROVE MintedKept'
  <2>1. UNCHANGED <<dev, undone, minted, old>> BY <1>6 DEF LinkLock, deviceVars
  <2>2. \A k \in Links : lpc'[k] = lpc[k] \/ lpc'[k] = "mint"
    BY <1>0, <1>6 DEF LinkLock, LinkTypeOK
  <2> QED BY <2>1, <2>2 DEF MintedKept, Kept
<1>7. ASSUME NEW l \in Links, LinkMint(l) PROVE MintedKept'
  <2>1. \A k \in Links \ {l} : lpc'[k] = lpc[k] /\ lpc[k] \in {"idle", "wait"}
    BY <1>0, <1>7 DEF LinkMint, LinkTypeOK, OneLinkAtATime
  <2>2. lpc'[l] = "list" /\ dev'[minted'[l]] = "live"
    BY <1>0, <1>7 DEF LinkMint, Mint, Agents, LinkTypeOK
  <2> QED BY <2>1, <2>2 DEF MintedKept, Kept
<1>8. ASSUME NEW l \in Links, LinkList(l) PROVE MintedKept'
  <2>1. \A k \in Links \ {l} : lpc'[k] = lpc[k] /\ lpc[k] \in {"idle", "wait"}
    BY <1>0, <1>8 DEF LinkList, LinkTypeOK, OneLinkAtATime
  <2>2. /\ lpc[l] = "list" /\ UNCHANGED <<dev, undone, minted>>
        /\ old'[l] = Agents(scope[l], "live") \ {minted[l]}
    BY <1>0, <1>8 DEF LinkList, Replaced, LinkTypeOK, deviceVars
  <2> QED BY <2>1, <2>2 DEF MintedKept, Kept
<1>9. ASSUME NEW l \in Links, LinkRevoke(l) PROVE MintedKept'
  <2>1. \A k \in Links \ {l} : lpc'[k] = lpc[k] /\ lpc[k] \in {"idle", "wait"}
    BY <1>0, <1>9 DEF LinkRevoke, LinkTypeOK, OneLinkAtATime
  <2>2. PICK d \in old[l] : Revoked(d) /\ old' = [old EXCEPT ![l] = @ \ {d}]
    BY <1>9 DEF LinkRevoke
  <2>3. lpc[l] = "revoke" /\ UNCHANGED <<undone, minted>> /\ old'[l] \subseteq old[l]
    BY <1>0, <1>9, <2>2 DEF LinkRevoke, LinkTypeOK
  <2>4. minted[l] \in Devices /\ minted[l] # d BY <1>0, <2>2, <2>3 DEF MintedKept, LinkTypeOK
  <2>5. dev'[minted[l]] = dev[minted[l]] BY <1>0, <2>2, <2>4 DEF Revoked, LinkTypeOK
  <2> QED BY <2>1, <2>3, <2>5 DEF MintedKept, Kept
<1>10. ASSUME NEW l \in Links, LinkCut(l) \/ LinkRevokedAll(l) PROVE MintedKept'
  <2>1. UNCHANGED <<dev, undone, minted, old>> /\ lpc[l] \in {"cut", "revoke"}
    BY <1>10 DEF LinkCut, LinkRevokedAll, deviceVars
  <2>2. \A k \in Links \ {l} : lpc'[k] = lpc[k]
    BY <1>0, <1>10 DEF LinkCut, LinkRevokedAll, LinkTypeOK
  <2> QED BY <2>1, <2>2 DEF MintedKept, Kept
<1>11. ASSUME NEW l \in Links, LinkReply(l) \/ LinkFails(l) PROVE MintedKept'
  <2>1. \A k \in Links : lpc'[k] \in {"idle", "wait"}
    BY <1>0, <1>11 DEF LinkReply, LinkFails, Return, LinkTypeOK, OneLinkAtATime
  <2> QED BY <2>1 DEF MintedKept
<1>12. CASE MainRestarts
  <2>1. \A l \in Links : lpc'[l] = "idle" BY <1>12 DEF MainRestarts
  <2> QED BY <2>1 DEF MintedKept
<1>13. CASE UNCHANGED agentVars BY <1>1, <1>13 DEF agentVars, deviceVars
<1>14. ASSUME NEW d \in Devices, DeviceGone(d) PROVE MintedKept'
  BY <1>1, <1>14 DEF DeviceGone
<1>15. ASSUME NEW c \in Conns, StreamOrders(c) \/ HandshakeFails(c) \/ \E d \in Devices : Authenticate(c, d)
       PROVE  MintedKept'
  BY <1>1, <1>15 DEF StreamOrders, HandshakeFails, Authenticate
<1>16. CASE BrokerStep BY <1>1, <1>16 DEF BrokerStep, deviceVars
<1> QED BY <1>2, <1>3, <1>4, <1>5, <1>6, <1>7, <1>8, <1>9, <1>10, <1>11, <1>12, <1>13, <1>14,
           <1>15, <1>16 DEF AgentNext, LinkStep

(* The first state satisfies the invariant: nothing is linked.             *)
LEMMA LinkInitInv == AgentInit => LinkInv /\ MintedKept
<1> SUFFICES ASSUME AgentInit PROVE LinkInv /\ MintedKept OBVIOUS
<1>1. \A l \in Links : lpc[l] = "idle" BY DEF AgentInit
<1>2. LinkTypeOK BY <1>1, LinkAssumption, FaultsAssumption DEF AgentInit, LinkTypeOK, AnyDevice
<1> QED BY <1>1, <1>2 DEF LinkInv, OneLinkAtATime, Listed, MintedKept

-----------------------------------------------------------------------------
(* A link that is about to answer has left its location no live agent but  *)
(* the one it minted and those an admin minted since it listed them, and   *)
(* the key it hands out is good: no overlapping link revoked it (link.go   *)
(* Link, agentsync.go linkMu), for any number of links at once.            *)
THEOREM LinkSafety == AgentSpec => [](LinkTypeOK /\ LinkReplaces)
<1>1. LinkInv /\ MintedKept /\ [AgentNext]_agentVars => LinkInv' /\ MintedKept'
  BY LinkInvStep, MintedKeptStep
<1>2. LinkInv /\ MintedKept => LinkTypeOK /\ LinkReplaces
  BY DEF LinkInv, Listed, Pending, MintedKept, Kept, LinkReplaces
<1> QED BY <1>1, <1>2, LinkInitInv, PTL DEF AgentSpec

(* With devices minted, linked, revoked and deleted around it, the broker  *)
(* keeps its promises: no panic on a channel, registered streams are live, *)
(* and no frame reaches a stream of another store.                         *)
THEOREM AgentBrokerSafety == AgentSpec => [](AgentTypeOK /\ NoPanic /\ RegisteredIsLive /\ ScopeIsolation)
<1> DEFINE I == BrokerInv /\ ScopeIsolation /\ LinkTypeOK
<1>1. AgentInit => I
  <2> SUFFICES ASSUME AgentInit PROVE I OBVIOUS
  <2>1. BrokerInit BY DEF AgentInit
  <2>2. ScopeIsolation BY <2>1 DEF BrokerInit, ScopeIsolation
  <2> QED BY <2>1, <2>2, BrokerInitInv, LinkInitInv DEF LinkInv
<1>2. I /\ [AgentNext]_agentVars => I'
  <2> SUFFICES ASSUME I, [AgentNext]_agentVars PROVE I' OBVIOUS
  <2>1. [BrokerNext]_brokerVars BY AgentBrokerStep
  <2>2. BrokerInv' BY <2>1, BrokerNextInv
  <2>3. ScopeIsolation' BY <2>1, IsolationStep
  <2>4. LinkTypeOK' BY LinkTypeStep
  <2> QED BY <2>2, <2>3, <2>4
<1>3. I => AgentTypeOK /\ NoPanic /\ RegisteredIsLive /\ ScopeIsolation
  BY DEF BrokerInv, AgentTypeOK
<1> QED BY <1>1, <1>2, <1>3, PTL DEF AgentSpec

-----------------------------------------------------------------------------
(* Calls to an agent.                                                        *)

AskSteps == {"new", "check", "publish", "wait", "leave", "settle", "done"}
Unsent == {"new", "check", "publish"}
Outcomes == {"none", "offline", "timeout"} \cup Answers
RowStates == {"none", "requested", "waiting_for_idle", "rejected", "unreachable", "heard", "reported"}

CallsTypes ==
  /\ active \in SUBSET Devices
  /\ asked \in [Frames -> AskSteps]
  /\ outcome \in [Frames -> Outcomes]
  /\ waiters \in SUBSET Frames
  /\ reply \in [Frames -> {NoReply} \cup Answers]
  /\ posts \in SUBSET [id : Frames, scope : Scopes, answer : Answers]
  /\ taken \in SUBSET Frames
  /\ row \in [Frames -> RowStates]
  /\ offPaged \in SUBSET Scopes
  /\ sweep \in SUBSET Scopes
  /\ balance \in [Scopes -> Int]

(* SubscribersFor counts a finite set, whatever the number of slots.         *)
ClientsFinite == \A s \in Scopes : IsFiniteSet(clients[s])

(* No agent has seen the command, and none will.                             *)
NoAgentHas(i) ==
  /\ \A m \in posts : m.id # i
  /\ \A c \in Conns : \A n \in DOMAIN buf[c] : buf[c][n] # i

(* A request has an outcome only from its select on.                         *)
NoOutcomeYet == \A i \in Frames : asked[i] \in Unsent \cup {"wait"} => outcome[i] = "none"

(* What was not published, or to nobody, no agent has.                       *)
UnsentIsUnseen ==
  \A i \in Frames : asked[i] \in Unsent \/ outcome[i] = "offline" => NoAgentHas(i)

(* Replies and answers are the agent's own posts to this request.            *)
AnswersWerePosted ==
  \A i \in Frames :
    /\ outcome[i] \in Answers => [id |-> i, scope |-> FrameScope[i], answer |-> outcome[i]] \in posts
    /\ reply[i] # NoReply => [id |-> i, scope |-> FrameScope[i], answer |-> reply[i]] \in posts

(* Only an update an agent has taken on is reported, and one main asks for   *)
(* is taken on only after it was published: the insert of Ask comes before   *)
(* every report.                                                             *)
ReportsComeLater ==
  \A i \in Frames :
    /\ row[i] \in {"heard", "reported"} => i \in taken
    /\ i \in taken /\ Kind[i] # "own" => asked[i] \notin Unsent

(* The pages of a location that are not matched by its return.               *)
PagesMatch == \A s \in Scopes : balance[s] = IF s \in offPaged THEN 1 ELSE 0

CallsInv ==
  /\ BrokerInv
  /\ ClientsFinite
  /\ CallsTypes
  /\ NoOutcomeYet
  /\ UnsentIsUnseen
  /\ AnswersWerePosted
  /\ ReportsComeLater
  /\ PagesMatch

-----------------------------------------------------------------------------
(* Every step of the agent's calls is a step of the broker, or leaves it     *)
(* alone.                                                                    *)
LEMMA BrokerSees ==
  ASSUME CallsInv, [Next]_vars
  PROVE  [BrokerNext]_brokerVars
<1>0. CallsTypes BY DEF CallsInv
<1>1. ASSUME NEW i \in Frames, PublishCommand(i) PROVE BrokerNext
  BY <1>1 DEF PublishCommand, BrokerNext
<1>2. ASSUME NEW c \in Conns, NEW d \in Devices, AgentConnects(c, d) PROVE BrokerNext
  BY <1>2, CallsAssumption DEF AgentConnects, BrokerNext, AnyDevice
<1>3. ASSUME NEW c \in Conns, StreamEnds(c) \/ AgentReads(c) PROVE BrokerNext
  BY <1>3 DEF StreamEnds, AgentReads, BrokerNext
<1>4. ASSUME NEW d \in Devices, RevokeAgent(d) PROVE BrokerNext
  BY <1>4 DEF RevokeAgent, BrokerNext, AnyDevice
<1>5. ASSUME RestartForgets PROVE BrokerNext BY <1>5 DEF RestartForgets, BrokerNext
<1>6. ASSUME UNCHANGED vars PROVE UNCHANGED brokerVars BY <1>6 DEF vars
<1>7. ASSUME NEW i \in Frames,
             Ask(i) \/ CheckOnline(i) \/ Select(i) \/ Leave(i) \/ SettleUpdate(i) \/ AgentBegins(i) \/ HandleUpdateStatus(i)
      PROVE  UNCHANGED brokerVars
  BY <1>7 DEF Ask, CheckOnline, Select, Leave, SettleUpdate, AgentBegins, HandleUpdateStatus
<1>8. ASSUME NEW m \in posts, Deliver(m) PROVE UNCHANGED brokerVars BY <1>8 DEF Deliver
<1>9. ASSUME NEW s \in Scopes, CheckOffline(s) \/ CheckFails(s) \/ OpenOrClose(s)
      PROVE  UNCHANGED brokerVars
  BY <1>9 DEF CheckOffline, CheckFails, OpenOrClose
<1>10. ASSUME SweepStarts \/ Tick PROVE UNCHANGED brokerVars BY <1>10 DEF SweepStarts, Tick
<1>11. ASSUME NEW d \in Devices, LinkAgent(d) PROVE UNCHANGED brokerVars BY <1>11 DEF LinkAgent
<1> QED BY <1>1, <1>2, <1>3, <1>4, <1>5, <1>6, <1>7, <1>8, <1>9, <1>10, <1>11 DEF Next, RequestStep

(* One stream more, or some less: a scope's set stays finite.                *)
LEMMA ClientsStayFinite ==
  ASSUME BrokerInv, ClientsFinite, [BrokerNext]_brokerVars
  PROVE  ClientsFinite'
<1>0. BrokerTypeOK BY DEF BrokerInv
<1>1. ASSUME NEW c \in Conns, NEW s \in Scopes, NEW d \in AnyDevice, SubscribeAs(c, s, d)
      PROVE  ClientsFinite'
  <2>1. IsFiniteSet(clients[s] \cup {c}) BY FS_AddElement DEF ClientsFinite
  <2> QED BY <1>0, <1>1, <2>1 DEF SubscribeAs, ClientsFinite, BrokerTypeOK
<1>2. ASSUME NEW gone, RemoveLocked(gone) PROVE ClientsFinite'
  <2>1. \A s \in Scopes : clients'[s] \in SUBSET clients[s] BY <1>2 DEF RemoveLocked
  <2> QED BY <2>1, FS_Subset DEF ClientsFinite
<1>3. ASSUME NEW c \in Conns, ChannelClosed(c) \/ ClientGone(c) PROVE ClientsFinite'
  BY <1>2, <1>3 DEF ChannelClosed, ClientGone, Unsubscribe
<1>4. ASSUME NEW d \in AnyDevice, DisconnectDevice(d) PROVE ClientsFinite'
  BY <1>2, <1>4 DEF DisconnectDevice
<1>5. ASSUME UNCHANGED clients PROVE ClientsFinite' BY <1>5 DEF ClientsFinite
<1>6. CASE BrokerRestart BY <1>6, FS_EmptySet DEF BrokerRestart, ClientsFinite
<1>7. ASSUME NEW c \in Conns, Take(c) PROVE ClientsFinite' BY <1>5, <1>7 DEF Take
<1>8. ASSUME NEW f \in Frames, Publish(FrameScope[f], f) PROVE ClientsFinite'
  BY <1>5, <1>8 DEF Publish
<1>9. CASE UNCHANGED brokerVars BY <1>5, <1>9 DEF brokerVars
<1> QED BY <1>1, <1>3, <1>4, <1>6, <1>7, <1>8, <1>9 DEF BrokerNext

(* At the start nothing is asked, posted or paged.                         *)
LEMMA CallsInitInv == Init => CallsInv
<1> SUFFICES ASSUME Init PROVE CallsInv OBVIOUS
<1>1. BrokerInv BY BrokerInitInv DEF Init
<1>2. ClientsFinite BY FS_EmptySet DEF Init, BrokerInit, ClientsFinite
<1>3. CallsTypes
  BY DEF Init, CallsTypes, AskSteps, Outcomes, RowStates
<1>4. NoOutcomeYet BY DEF Init, NoOutcomeYet
<1>5. UnsentIsUnseen BY DEF Init, BrokerInit, UnsentIsUnseen, NoAgentHas
<1>6. AnswersWerePosted BY DEF Init, AnswersWerePosted, Answers
<1>7. ReportsComeLater BY DEF Init, ReportsComeLater
<1>8. PagesMatch BY DEF Init, PagesMatch
<1> QED BY <1>1, <1>2, <1>3, <1>4, <1>5, <1>6, <1>7, <1>8 DEF CallsInv

-----------------------------------------------------------------------------
(* What main makes of an answer is a state of the row, and never that of an  *)
(* agent's own report.                                                       *)
LEMMA OwnOutcomeType ==
  ASSUME NEW result
  PROVE  result # "accepted" => OwnOutcome(result) \in RowStates \ {"heard", "reported"}
BY DEF OwnOutcome, Answers, RowStates

(* What the steps of a request do to it, and what all others leave alone.    *)
LEMMA TypesStep ==
  ASSUME CallsInv, [Next]_vars
  PROVE  CallsTypes'
<1>0. CallsTypes /\ BrokerTypeOK BY DEF CallsInv, BrokerInv
<1>1. CASE UNCHANGED vars
  BY <1>0, <1>1 DEF CallsTypes, vars, callVars, postVars, pagerVars, worldVars
<1>2. ASSUME NEW i \in Frames, Ask(i) PROVE CallsTypes'
  BY <1>0, <1>2 DEF CallsTypes, Ask, Goto, AskSteps, RowStates, postVars, pagerVars, worldVars
<1>3. ASSUME NEW i \in Frames, CheckOnline(i) PROVE CallsTypes'
  BY <1>0, <1>3 DEF CallsTypes, CheckOnline, Ends, Goto, AskSteps, Outcomes, postVars, pagerVars, worldVars
<1>4. ASSUME NEW i \in Frames, PublishCommand(i) PROVE CallsTypes'
  BY <1>0, <1>4 DEF CallsTypes, PublishCommand, Ends, Goto, AskSteps, Outcomes, postVars, pagerVars, worldVars
<1>5. ASSUME NEW i \in Frames, Select(i) PROVE CallsTypes'
  BY <1>0, <1>5 DEF CallsTypes, Select, Ends, Goto, AskSteps, Outcomes, postVars, pagerVars, worldVars
<1>6. ASSUME NEW i \in Frames, Leave(i) PROVE CallsTypes'
  BY <1>0, <1>6 DEF CallsTypes, Leave, Goto, AskSteps, postVars, pagerVars, worldVars
<1>7. ASSUME NEW i \in Frames, SettleUpdate(i) PROVE CallsTypes'
  <2>1. outcome[i] # "accepted" => OwnOutcome(outcome[i]) \in RowStates BY OwnOutcomeType
  <2>2. row' \in [Frames -> RowStates] BY <1>0, <1>7, <2>1 DEF SettleUpdate, SettleRow, CallsTypes
  <2> QED BY <1>0, <1>7, <2>2 DEF CallsTypes, SettleUpdate, Goto, AskSteps, postVars, pagerVars, worldVars
<1>8. ASSUME NEW i \in Frames, AgentBegins(i) \/ HandleUpdateStatus(i) PROVE CallsTypes'
  BY <1>0, <1>8 DEF CallsTypes, AgentBegins, HandleUpdateStatus, RowStates, callVars, postVars, pagerVars, worldVars
<1>9. ASSUME NEW c \in Conns, StreamEnds(c) PROVE CallsTypes'
  BY <1>0, <1>9 DEF CallsTypes, StreamEnds, callVars, postVars, pagerVars, worldVars
<1>10. ASSUME NEW c \in Conns, AgentReads(c) PROVE CallsTypes'
  <2>1. handler[c].scope \in Scopes
    BY <1>0, <1>10 DEF AgentReads, Take, Running, BrokerTypeOK
  <2>2. Head(buf[c]) \in Frames
    BY <1>0, <1>10 DEF AgentReads, Take, BrokerTypeOK
  <2>3. \A a \in Answers : [id |-> Head(buf[c]), scope |-> handler[c].scope, answer |-> a]
                             \in [id : Frames, scope : Scopes, answer : Answers]
    BY <2>1, <2>2
  <2>4. posts' \in SUBSET [id : Frames, scope : Scopes, answer : Answers]
    BY <1>0, <1>10, <2>3 DEF AgentReads, CallsTypes, Answers
  <2>5. taken' \in SUBSET Frames BY <1>0, <1>10, <2>2 DEF AgentReads, CallsTypes
  <2> QED BY <1>0, <1>10, <2>4, <2>5 DEF CallsTypes, AgentReads, callVars, pagerVars, worldVars
<1>11. ASSUME NEW c \in Conns, NEW d \in Devices, AgentConnects(c, d) PROVE CallsTypes'
  BY <1>0, <1>11 DEF CallsTypes, AgentConnects, callVars, postVars, pagerVars, worldVars
<1>12. ASSUME NEW m \in posts, Deliver(m) PROVE CallsTypes'
  BY <1>0, <1>12 DEF CallsTypes, Deliver, postVars, pagerVars, worldVars
<1>13. ASSUME SweepStarts \/ Tick PROVE CallsTypes'
  BY <1>0, <1>13 DEF CallsTypes, SweepStarts, Tick, callVars, postVars, worldVars
<1>14. ASSUME NEW s \in Scopes, CheckOffline(s) PROVE CallsTypes'
  <2>1. offPaged' \in SUBSET Scopes BY <1>0, <1>14 DEF CallsTypes, CheckOffline, PagedAfter
  <2>2. balance' \in [Scopes -> Int] BY <1>0, <1>14 DEF CallsTypes, CheckOffline
  <2>3. sweep' \in SUBSET Scopes BY <1>0, <1>14 DEF CallsTypes, CheckOffline
  <2> QED BY <1>0, <1>14, <2>1, <2>2, <2>3 DEF CallsTypes, CheckOffline, callVars, postVars, worldVars
<1>15. ASSUME NEW s \in Scopes, CheckFails(s) \/ OpenOrClose(s) PROVE CallsTypes'
  BY <1>0, <1>15 DEF CallsTypes, CheckFails, OpenOrClose, callVars, postVars, pagerVars, worldVars
<1>16. ASSUME NEW d \in Devices, RevokeAgent(d) \/ LinkAgent(d) PROVE CallsTypes'
  BY <1>0, <1>16 DEF CallsTypes, RevokeAgent, LinkAgent, callVars, postVars, pagerVars
<1>17. ASSUME RestartForgets PROVE CallsTypes'
  BY <1>0, <1>17 DEF CallsTypes, RestartForgets, AskSteps, postVars, worldVars
<1> QED BY <1>1, <1>2, <1>3, <1>4, <1>5, <1>6, <1>7, <1>8, <1>9, <1>10, <1>11, <1>12, <1>13,
           <1>14, <1>15, <1>16, <1>17 DEF Next, RequestStep

-----------------------------------------------------------------------------
(* Only a request's own steps and a restart move it or give it an outcome.   *)
LEMMA OthersKeepRequests ==
  ASSUME [Next]_vars
  PROVE  \/ \E i \in Frames : Ask(i) \/ RequestStep(i)
         \/ RestartForgets
         \/ UNCHANGED <<asked, outcome>>
<1>1. ASSUME NEW i \in Frames, AgentBegins(i) \/ HandleUpdateStatus(i) PROVE UNCHANGED <<asked, outcome>>
  BY <1>1 DEF AgentBegins, HandleUpdateStatus, callVars
<1>2. ASSUME NEW c \in Conns, StreamEnds(c) \/ AgentReads(c) PROVE UNCHANGED <<asked, outcome>>
  BY <1>2 DEF StreamEnds, AgentReads, callVars
<1>3. ASSUME NEW c \in Conns, NEW d \in Devices, AgentConnects(c, d) PROVE UNCHANGED <<asked, outcome>>
  BY <1>3 DEF AgentConnects, callVars
<1>4. ASSUME NEW m \in posts, Deliver(m) PROVE UNCHANGED <<asked, outcome>> BY <1>4 DEF Deliver
<1>5. ASSUME SweepStarts \/ Tick PROVE UNCHANGED <<asked, outcome>>
  BY <1>5 DEF SweepStarts, Tick, callVars
<1>6. ASSUME NEW s \in Scopes, CheckOffline(s) \/ CheckFails(s) \/ OpenOrClose(s)
      PROVE  UNCHANGED <<asked, outcome>>
  BY <1>6 DEF CheckOffline, CheckFails, OpenOrClose, callVars
<1>7. ASSUME NEW d \in Devices, RevokeAgent(d) \/ LinkAgent(d) PROVE UNCHANGED <<asked, outcome>>
  BY <1>7 DEF RevokeAgent, LinkAgent, callVars
<1>8. CASE UNCHANGED vars BY <1>8 DEF vars, callVars
<1> QED BY <1>1, <1>2, <1>3, <1>4, <1>5, <1>6, <1>7, <1>8 DEF Next

(* Only an agent's own steps write what it posts and takes on, and only a    *)
(* publish, a read and the end or the start of a stream change a buffer.     *)
LEMMA OthersKeepAgents ==
  ASSUME [Next]_vars
  PROVE  \/ \E c \in Conns : AgentReads(c)
         \/ UNCHANGED posts
<1>1. ASSUME NEW i \in Frames, Ask(i) \/ RequestStep(i) \/ AgentBegins(i) \/ HandleUpdateStatus(i) PROVE UNCHANGED posts
  BY <1>1 DEF RequestStep, Ask, CheckOnline, PublishCommand, Select, Leave, SettleUpdate,
              AgentBegins, HandleUpdateStatus, postVars
<1>2. ASSUME NEW c \in Conns, StreamEnds(c) PROVE UNCHANGED posts BY <1>2 DEF StreamEnds, postVars
<1>3. ASSUME NEW c \in Conns, NEW d \in Devices, AgentConnects(c, d) PROVE UNCHANGED posts
  BY <1>3 DEF AgentConnects, postVars
<1>4. ASSUME NEW m \in posts, Deliver(m) PROVE UNCHANGED posts BY <1>4 DEF Deliver, postVars
<1>5. ASSUME SweepStarts \/ Tick \/ RestartForgets PROVE UNCHANGED posts
  BY <1>5 DEF SweepStarts, Tick, RestartForgets, postVars
<1>6. ASSUME NEW s \in Scopes, CheckOffline(s) \/ CheckFails(s) \/ OpenOrClose(s) PROVE UNCHANGED posts
  BY <1>6 DEF CheckOffline, CheckFails, OpenOrClose, postVars
<1>7. ASSUME NEW d \in Devices, RevokeAgent(d) \/ LinkAgent(d) PROVE UNCHANGED posts
  BY <1>7 DEF RevokeAgent, LinkAgent, postVars
<1>8. CASE UNCHANGED vars BY <1>8 DEF vars, postVars
<1> QED BY <1>1, <1>2, <1>3, <1>4, <1>5, <1>6, <1>7, <1>8 DEF Next

(* A request has no outcome before its select.                             *)
LEMMA NoOutcomeYetStep ==
  ASSUME CallsInv, [Next]_vars
  PROVE  NoOutcomeYet'
<1>0. CallsTypes /\ NoOutcomeYet BY DEF CallsInv
<1>1. ASSUME NEW i \in Frames, Ask(i) PROVE NoOutcomeYet'
  BY <1>0, <1>1 DEF Ask, Goto, CallsTypes, NoOutcomeYet, Unsent
<1>2. ASSUME NEW i \in Frames, CheckOnline(i) PROVE NoOutcomeYet'
  BY <1>0, <1>2 DEF CheckOnline, Ends, Goto, CallsTypes, NoOutcomeYet, Unsent
<1>3. ASSUME NEW i \in Frames, PublishCommand(i) PROVE NoOutcomeYet'
  BY <1>0, <1>3 DEF PublishCommand, Ends, Goto, CallsTypes, NoOutcomeYet, Unsent
<1>4. ASSUME NEW i \in Frames, Select(i) PROVE NoOutcomeYet'
  BY <1>0, <1>4 DEF Select, Ends, Goto, CallsTypes, NoOutcomeYet, Unsent
<1>5. ASSUME NEW i \in Frames, Leave(i) \/ SettleUpdate(i) PROVE NoOutcomeYet'
  BY <1>0, <1>5 DEF Leave, SettleUpdate, Goto, CallsTypes, NoOutcomeYet, Unsent
<1>6. ASSUME RestartForgets PROVE NoOutcomeYet'
  BY <1>0, <1>6 DEF RestartForgets, CallsTypes, NoOutcomeYet, Unsent
<1>7. CASE UNCHANGED <<asked, outcome>> BY <1>0, <1>7 DEF NoOutcomeYet
<1> QED BY <1>1, <1>2, <1>3, <1>4, <1>5, <1>6, <1>7, OthersKeepRequests DEF RequestStep

(* A frame enters a buffer only when it is published.                        *)
LEMMA BufferStep ==
  ASSUME CallsInv, [Next]_vars, NEW i \in Frames,
         \A c \in Conns : \A n \in DOMAIN buf[c] : buf[c][n] # i,
         ~ (PublishCommand(i) /\ Reached(FrameScope[i]) # {})
  PROVE  \A c \in Conns : \A n \in DOMAIN buf'[c] : buf'[c][n] # i
<1>0. BrokerTypeOK BY DEF CallsInv, BrokerInv
<1>1. ASSUME NEW j \in Frames, PublishCommand(j)
      PROVE  \A c \in Conns : \A n \in DOMAIN buf'[c] : buf'[c][n] # i
  <2>1. buf' = [c \in Conns |-> IF c \in Reached(FrameScope[j]) THEN Append(buf[c], j) ELSE buf[c]]
    BY <1>1 DEF PublishCommand, Publish
  <2>2. i # j \/ Reached(FrameScope[j]) = {} BY <1>1
  <2>3. \A c \in Conns : buf[c] \in Seq(Frames) BY <1>0 DEF BrokerTypeOK
  <2>4. \A c \in Conns : \A n \in DOMAIN Append(buf[c], j) :
          Append(buf[c], j)[n] = j \/ (n \in DOMAIN buf[c] /\ Append(buf[c], j)[n] = buf[c][n])
    BY <2>3
  <2> QED BY <2>1, <2>2, <2>4
<1>2. ASSUME NEW c \in Conns, Take(c)
      PROVE  \A x \in Conns : \A n \in DOMAIN buf'[x] : buf'[x][n] # i
  <2>1. buf[c] \in Seq(Frames) /\ buf[c] # <<>> BY <1>0, <1>2 DEF Take, BrokerTypeOK
  <2>2. \A n \in DOMAIN Tail(buf[c]) : n + 1 \in DOMAIN buf[c] /\ Tail(buf[c])[n] = buf[c][n + 1]
    BY <2>1
  <2>3. \A x \in Conns : buf'[x] = IF x = c THEN Tail(buf[c]) ELSE buf[x]
    BY <1>0, <1>2 DEF Take, BrokerTypeOK
  <2> QED BY <2>2, <2>3
<1>3. ASSUME NEW c \in Conns, buf' = [buf EXCEPT ![c] = <<>>]
      PROVE  \A x \in Conns : \A n \in DOMAIN buf'[x] : buf'[x][n] # i
  <2>1. \A x \in Conns : buf'[x] = IF x = c THEN <<>> ELSE buf[x] BY <1>0, <1>3 DEF BrokerTypeOK
  <2> QED BY <2>1
<1>4. ASSUME RestartForgets
      PROVE  \A x \in Conns : \A n \in DOMAIN buf'[x] : buf'[x][n] # i
  BY <1>4 DEF RestartForgets, BrokerRestart
<1>5. ASSUME UNCHANGED buf
      PROVE  \A x \in Conns : \A n \in DOMAIN buf'[x] : buf'[x][n] # i
  BY <1>5
<1>6. ASSUME NEW c \in Conns, NEW d \in Devices, AgentConnects(c, d) PROVE buf' = [buf EXCEPT ![c] = <<>>]
  BY <1>6 DEF AgentConnects, SubscribeAs
<1>7. ASSUME NEW c \in Conns, StreamEnds(c) PROVE buf' = [buf EXCEPT ![c] = <<>>]
  BY <1>7 DEF StreamEnds, ClientGone, Unsubscribe
<1>8. ASSUME NEW c \in Conns, AgentReads(c) PROVE Take(c) BY <1>8 DEF AgentReads
<1>9. ASSUME NEW j \in Frames,
             Ask(j) \/ CheckOnline(j) \/ Select(j) \/ Leave(j) \/ SettleUpdate(j) \/ AgentBegins(j) \/ HandleUpdateStatus(j)
      PROVE  UNCHANGED buf
  BY <1>9 DEF Ask, CheckOnline, Select, Leave, SettleUpdate, AgentBegins, HandleUpdateStatus, brokerVars
<1>10. ASSUME NEW m \in posts, Deliver(m) PROVE UNCHANGED buf BY <1>10 DEF Deliver, brokerVars
<1>11. ASSUME SweepStarts \/ Tick PROVE UNCHANGED buf BY <1>11 DEF SweepStarts, Tick, brokerVars
<1>12. ASSUME NEW s \in Scopes, CheckOffline(s) \/ CheckFails(s) \/ OpenOrClose(s) PROVE UNCHANGED buf
  BY <1>12 DEF CheckOffline, CheckFails, OpenOrClose, brokerVars
<1>13. ASSUME NEW d \in Devices, RevokeAgent(d) \/ LinkAgent(d) PROVE UNCHANGED buf
  BY <1>13 DEF RevokeAgent, LinkAgent, DisconnectDevice, brokerVars
<1>14. CASE UNCHANGED vars BY <1>5, <1>14 DEF vars, brokerVars
<1> QED BY <1>1, <1>2, <1>3, <1>4, <1>5, <1>6, <1>7, <1>8, <1>9, <1>10, <1>11, <1>12, <1>13, <1>14
        DEF Next, RequestStep

(* A request that is unsent, or offline, was so before, and is not the one   *)
(* being published to someone.                                               *)
LEMMA UnsentWasUnsent ==
  ASSUME CallsInv, [Next]_vars, NEW i \in Frames,
         asked'[i] \in Unsent \/ outcome'[i] = "offline"
  PROVE  /\ asked[i] \in Unsent \/ outcome[i] = "offline"
         /\ ~ (PublishCommand(i) /\ Reached(FrameScope[i]) # {})
<1>0. CallsTypes /\ NoOutcomeYet BY DEF CallsInv
<1>1. ~ (PublishCommand(i) /\ Reached(FrameScope[i]) # {})
  <2> SUFFICES ASSUME PublishCommand(i), Reached(FrameScope[i]) # {} PROVE FALSE OBVIOUS
  <2>1. asked[i] = "publish" /\ asked'[i] = "wait" /\ outcome' = outcome
    BY <1>0 DEF PublishCommand, Goto, CallsTypes
  <2>2. outcome[i] = "none" BY <1>0, <2>1 DEF NoOutcomeYet, Unsent
  <2> QED BY <2>1, <2>2 DEF Unsent
<1>2. ASSUME NEW j \in Frames, Ask(j) PROVE asked[i] \in Unsent \/ outcome[i] = "offline"
  BY <1>0, <1>2 DEF Ask, Goto, CallsTypes, Unsent
<1>3. ASSUME NEW j \in Frames, CheckOnline(j) PROVE asked[i] \in Unsent \/ outcome[i] = "offline"
  BY <1>0, <1>3 DEF CheckOnline, Ends, Goto, CallsTypes, Unsent
<1>4. ASSUME NEW j \in Frames, PublishCommand(j) PROVE asked[i] \in Unsent \/ outcome[i] = "offline"
  BY <1>0, <1>4 DEF PublishCommand, Ends, Goto, CallsTypes, Unsent
<1>5. ASSUME NEW j \in Frames, Select(j) PROVE asked[i] \in Unsent \/ outcome[i] = "offline"
  <2>1. reply[j] # "offline" BY <1>0 DEF CallsTypes, NoReply, Answers
  <2> QED BY <1>0, <1>5, <2>1 DEF Select, Ends, Goto, CallsTypes, Unsent
<1>6. ASSUME NEW j \in Frames, Leave(j) \/ SettleUpdate(j) PROVE asked[i] \in Unsent \/ outcome[i] = "offline"
  BY <1>0, <1>6 DEF Leave, SettleUpdate, Goto, CallsTypes, Unsent
<1>7. ASSUME RestartForgets PROVE asked[i] \in Unsent \/ outcome[i] = "offline"
  BY <1>0, <1>7 DEF RestartForgets, CallsTypes, Unsent
<1> QED BY <1>1, <1>2, <1>3, <1>4, <1>5, <1>6, <1>7, OthersKeepRequests DEF RequestStep

(* No agent holds, has read or has answered a frame that was not sent, or  *)
(* whose call found the store offline.                                     *)
LEMMA UnsentStep ==
  ASSUME CallsInv, [Next]_vars
  PROVE  UnsentIsUnseen'
<1>0. BrokerTypeOK /\ UnsentIsUnseen BY DEF CallsInv, BrokerInv
<1> SUFFICES ASSUME NEW i \in Frames, asked'[i] \in Unsent \/ outcome'[i] = "offline"
             PROVE  NoAgentHas(i)'
  BY DEF UnsentIsUnseen
<1>1. NoAgentHas(i) BY <1>0, UnsentWasUnsent DEF UnsentIsUnseen
<1>2. \A c \in Conns : \A n \in DOMAIN buf'[c] : buf'[c][n] # i
  BY <1>1, UnsentWasUnsent, BufferStep DEF NoAgentHas
<1>3. \A m \in posts' : m.id # i
  <2>1. ASSUME NEW c \in Conns, AgentReads(c) PROVE \A m \in posts' : m.id # i
    <3>1. buf[c] \in Seq(Frames) /\ buf[c] # <<>> BY <1>0, <2>1 DEF AgentReads, Take, BrokerTypeOK
    <3>2. Head(buf[c]) # i BY <1>1, <3>1 DEF NoAgentHas
    <3>3. PICK a : posts' = posts \cup {[id |-> Head(buf[c]), scope |-> handler[c].scope, answer |-> a]}
      BY <2>1 DEF AgentReads
    <3> QED BY <1>1, <3>2, <3>3 DEF NoAgentHas
  <2> QED BY <1>1, <2>1, OthersKeepAgents DEF NoAgentHas
<1> QED BY <1>2, <1>3 DEF NoAgentHas

(* A post is never taken back; a reply is one that was delivered, and an     *)
(* answer is a reply.                                                        *)
LEMMA PostedStep ==
  ASSUME CallsInv, [Next]_vars
  PROVE  AnswersWerePosted'
<1> DEFINE Post(i, a) == [id |-> i, scope |-> FrameScope[i], answer |-> a]
<1>0. CallsTypes /\ AnswersWerePosted BY DEF CallsInv
<1>1. posts \subseteq posts' BY OthersKeepAgents DEF AgentReads
<1>2. ASSUME NEW i \in Frames PROVE outcome'[i] \in Answers => Post(i, outcome'[i]) \in posts'
  <2>1. ASSUME outcome'[i] = outcome[i] PROVE outcome'[i] \in Answers => Post(i, outcome'[i]) \in posts'
    BY <1>0, <1>1, <2>1 DEF AnswersWerePosted
  <2>2. ASSUME NEW j \in Frames, Select(j) PROVE outcome'[i] \in Answers => Post(i, outcome'[i]) \in posts'
    <3>1. CASE i # j BY <1>0, <2>1, <2>2, <3>1 DEF Select, Ends, CallsTypes
    <3>2. CASE i = j
      <4>1. outcome'[i] = "timeout" \/ (reply[i] # NoReply /\ outcome'[i] = reply[i])
        BY <1>0, <2>2, <3>2 DEF Select, Ends, CallsTypes
      <4>2. "timeout" \notin Answers BY DEF Answers
      <4> QED BY <1>0, <1>1, <4>1, <4>2 DEF AnswersWerePosted
    <3> QED BY <3>1, <3>2
  <2>3. ASSUME NEW j \in Frames, CheckOnline(j) \/ PublishCommand(j)
        PROVE  outcome'[i] \in Answers => Post(i, outcome'[i]) \in posts'
    <3>1. outcome'[i] = outcome[i] \/ outcome'[i] = "offline"
      BY <1>0, <2>3 DEF CheckOnline, PublishCommand, Ends, CallsTypes
    <3>2. "offline" \notin Answers BY DEF Answers
    <3> QED BY <2>1, <3>1, <3>2
  <2>4. ASSUME NEW j \in Frames, Ask(j) \/ Leave(j) \/ SettleUpdate(j) PROVE outcome' = outcome
    BY <2>4 DEF Ask, Leave, SettleUpdate
  <2>5. ASSUME RestartForgets PROVE outcome' = outcome BY <2>5 DEF RestartForgets
  <2> QED BY <2>1, <2>2, <2>3, <2>4, <2>5, OthersKeepRequests DEF RequestStep
<1>3. ASSUME NEW i \in Frames, reply'[i] = reply[i] PROVE reply'[i] # NoReply => Post(i, reply'[i]) \in posts'
  BY <1>0, <1>1, <1>3 DEF AnswersWerePosted
<1>4. ASSUME NEW m \in posts, Deliver(m), NEW i \in Frames
      PROVE  reply'[i] # NoReply => Post(i, reply'[i]) \in posts'
  <2>1. PICK j \in WaiterOf(m) : reply[j] = NoReply /\ reply' = [reply EXCEPT ![j] = m.answer]
    BY <1>4 DEF Deliver
  <2>2. j \in Frames /\ m.id = j /\ m.scope = FrameScope[j] BY <1>0, <2>1 DEF WaiterOf, CallsTypes
  <2>3. m \in [id : Frames, scope : Scopes, answer : Answers] BY <1>0 DEF CallsTypes
  <2>4. m = Post(j, m.answer) BY <2>2, <2>3
  <2>5. CASE i = j
    <3>1. reply'[i] = m.answer BY <1>0, <2>1, <2>2, <2>5 DEF CallsTypes
    <3> QED BY <1>1, <2>4, <2>5, <3>1
  <2>6. CASE i # j BY <1>0, <1>3, <2>1, <2>6 DEF CallsTypes
  <2> QED BY <2>5, <2>6
<1>5. ASSUME RestartForgets, NEW i \in Frames PROVE reply'[i] = NoReply BY <1>5 DEF RestartForgets
<1>6. \/ \E m \in posts : Deliver(m)
      \/ RestartForgets
      \/ UNCHANGED reply
  <2>1. ASSUME NEW i \in Frames, Ask(i) \/ RequestStep(i) \/ AgentBegins(i) \/ HandleUpdateStatus(i) PROVE UNCHANGED reply
    BY <2>1 DEF RequestStep, Ask, CheckOnline, PublishCommand, Select, Leave, SettleUpdate,
                AgentBegins, HandleUpdateStatus, callVars
  <2>2. ASSUME NEW c \in Conns, StreamEnds(c) \/ AgentReads(c) PROVE UNCHANGED reply
    BY <2>2 DEF StreamEnds, AgentReads, callVars
  <2>3. ASSUME NEW c \in Conns, NEW d \in Devices, AgentConnects(c, d) PROVE UNCHANGED reply
    BY <2>3 DEF AgentConnects, callVars
  <2>4. ASSUME SweepStarts \/ Tick PROVE UNCHANGED reply BY <2>4 DEF SweepStarts, Tick, callVars
  <2>5. ASSUME NEW s \in Scopes, CheckOffline(s) \/ CheckFails(s) \/ OpenOrClose(s) PROVE UNCHANGED reply
    BY <2>5 DEF CheckOffline, CheckFails, OpenOrClose, callVars
  <2>6. ASSUME NEW d \in Devices, RevokeAgent(d) \/ LinkAgent(d) PROVE UNCHANGED reply
    BY <2>6 DEF RevokeAgent, LinkAgent, callVars
  <2>7. CASE UNCHANGED vars BY <2>7 DEF vars, callVars
  <2> QED BY <2>1, <2>2, <2>3, <2>4, <2>5, <2>6, <2>7 DEF Next
<1>7. ASSUME NEW i \in Frames PROVE reply'[i] # NoReply => Post(i, reply'[i]) \in posts'
  BY <1>3, <1>4, <1>5, <1>6
<1> QED BY <1>2, <1>7 DEF AnswersWerePosted

-----------------------------------------------------------------------------
(* The steps that write the row of an update, or the set of updates taken    *)
(* on.                                                                       *)
LEMMA OthersKeepRows ==
  ASSUME [Next]_vars
  PROVE  \/ \E i \in Frames : Ask(i) \/ SettleUpdate(i) \/ AgentBegins(i) \/ HandleUpdateStatus(i)
         \/ \E c \in Conns : AgentReads(c)
         \/ UNCHANGED <<row, taken>>
<1>1. ASSUME NEW i \in Frames, CheckOnline(i) \/ PublishCommand(i) \/ Select(i) \/ Leave(i)
      PROVE  UNCHANGED <<row, taken>>
  BY <1>1 DEF CheckOnline, PublishCommand, Select, Leave, postVars
<1>2. ASSUME NEW c \in Conns, StreamEnds(c) PROVE UNCHANGED <<row, taken>> BY <1>2 DEF StreamEnds, postVars
<1>3. ASSUME NEW c \in Conns, NEW d \in Devices, AgentConnects(c, d) PROVE UNCHANGED <<row, taken>>
  BY <1>3 DEF AgentConnects, postVars
<1>4. ASSUME NEW m \in posts, Deliver(m) PROVE UNCHANGED <<row, taken>> BY <1>4 DEF Deliver, postVars
<1>5. ASSUME SweepStarts \/ Tick \/ RestartForgets PROVE UNCHANGED <<row, taken>>
  BY <1>5 DEF SweepStarts, Tick, RestartForgets, postVars
<1>6. ASSUME NEW s \in Scopes, CheckOffline(s) \/ CheckFails(s) \/ OpenOrClose(s) PROVE UNCHANGED <<row, taken>>
  BY <1>6 DEF CheckOffline, CheckFails, OpenOrClose, postVars
<1>7. ASSUME NEW d \in Devices, RevokeAgent(d) \/ LinkAgent(d) PROVE UNCHANGED <<row, taken>>
  BY <1>7 DEF RevokeAgent, LinkAgent, postVars
<1>8. CASE UNCHANGED vars BY <1>8 DEF vars, postVars
<1> QED BY <1>1, <1>2, <1>3, <1>4, <1>5, <1>6, <1>7, <1>8 DEF Next, RequestStep

(* A reported update was taken on by the agent, and one that main asked    *)
(* for was published before that.                                          *)
LEMMA ReportsStep ==
  ASSUME CallsInv, [Next]_vars
  PROVE  ReportsComeLater'
<1>0. CallsTypes /\ BrokerTypeOK /\ UnsentIsUnseen /\ NoOutcomeYet /\ ReportsComeLater
  BY DEF CallsInv, BrokerInv
<1>1. \A i \in Frames : asked[i] \notin Unsent => asked'[i] \notin Unsent
  <2>1. ASSUME NEW j \in Frames, Ask(j) PROVE \A i \in Frames : asked[i] \notin Unsent => asked'[i] \notin Unsent
    BY <1>0, <2>1 DEF Ask, Goto, CallsTypes, Unsent
  <2>2. ASSUME NEW j \in Frames, RequestStep(j)
        PROVE  \A i \in Frames : asked[i] \notin Unsent => asked'[i] \notin Unsent
    BY <1>0, <2>2 DEF RequestStep, CheckOnline, PublishCommand, Select, Leave, SettleUpdate, Ends,
                      Goto, CallsTypes, Unsent
  <2>3. ASSUME RestartForgets PROVE \A i \in Frames : asked[i] \notin Unsent => asked'[i] \notin Unsent
    BY <1>0, <2>3 DEF RestartForgets, CallsTypes, Unsent
  <2> QED BY <2>1, <2>2, <2>3, OthersKeepRequests
<1>2. CASE UNCHANGED <<row, taken>> BY <1>0, <1>1, <1>2 DEF ReportsComeLater
<1>3. ASSUME NEW j \in Frames, Ask(j) PROVE ReportsComeLater'
  <2>1. taken' = taken /\ \A i \in Frames : row'[i] \in {"heard", "reported"} => row[i] \in {"heard", "reported"}
    BY <1>0, <1>3 DEF Ask, CallsTypes, postVars
  <2> QED BY <1>0, <1>1, <2>1 DEF ReportsComeLater
<1>4. ASSUME NEW j \in Frames, SettleUpdate(j) PROVE ReportsComeLater'
  <2>1. outcome[j] # "accepted" => OwnOutcome(outcome[j]) \notin {"heard", "reported"} BY OwnOutcomeType
  <2>2. taken' = taken /\ \A i \in Frames : row'[i] \in {"heard", "reported"} => row[i] \in {"heard", "reported"}
    BY <1>0, <1>4, <2>1 DEF SettleUpdate, SettleRow, CallsTypes, postVars
  <2> QED BY <1>0, <1>1, <2>2 DEF ReportsComeLater
<1>5. ASSUME NEW j \in Frames, AgentBegins(j) PROVE ReportsComeLater'
  BY <1>0, <1>1, <1>5 DEF AgentBegins, ReportsComeLater
<1>6. ASSUME NEW j \in Frames, HandleUpdateStatus(j) PROVE ReportsComeLater'
  BY <1>0, <1>1, <1>6 DEF HandleUpdateStatus, ReportsComeLater, CallsTypes, postVars
<1>7. ASSUME NEW c \in Conns, AgentReads(c) PROVE ReportsComeLater'
  <2>1. buf[c] \in Seq(Frames) /\ buf[c] # <<>> BY <1>0, <1>7 DEF AgentReads, Take, BrokerTypeOK
  <2>2. Head(buf[c]) \in Frames /\ Head(buf[c]) = buf[c][1] /\ 1 \in DOMAIN buf[c] BY <2>1
  <2>3. asked[Head(buf[c])] \notin Unsent BY <1>0, <2>2 DEF UnsentIsUnseen, NoAgentHas
  <2>4. row' = row /\ (taken' = taken \/ taken' = taken \cup {Head(buf[c])}) BY <1>7 DEF AgentReads
  <2> QED BY <1>0, <1>1, <2>3, <2>4 DEF ReportsComeLater
<1> QED BY <1>2, <1>3, <1>4, <1>5, <1>6, <1>7, OthersKeepRows

(* A page goes out with the location's entry in offPaged and the return's    *)
(* page with its removal.                                                    *)
LEMMA PagesStep ==
  ASSUME CallsInv, [Next]_vars
  PROVE  PagesMatch'
<1>0. CallsTypes /\ ClientsFinite /\ PagesMatch BY DEF CallsInv
<1>1. ASSUME NEW s \in Scopes, CheckOffline(s) PROVE PagesMatch'
  <2>1. SubscribersFor(s) > 0 <=> clients[s] # {}
    <3>1. IsFiniteSet(clients[s]) BY <1>0 DEF ClientsFinite
    <3>2. Cardinality(clients[s]) \in Nat BY <3>1, FS_CardinalityType
    <3>3. Cardinality(clients[s]) = 0 <=> clients[s] = {} BY <3>1, FS_EmptySet
    <3> QED BY <3>2, <3>3 DEF SubscribersFor
  <2>2. CASE ~HasAgent(s) BY <1>0, <1>1, <2>2 DEF CheckOffline, PagesMatch
  <2>3. CASE HasAgent(s) /\ clients[s] # {}
    <3>1. /\ offPaged' = offPaged \ {s}
          /\ balance' = [balance EXCEPT ![s] = IF s \in offPaged THEN @ - 1 ELSE @]
      BY <1>1, <2>1, <2>3 DEF CheckOffline, PagedAfter
    <3> QED BY <1>0, <3>1 DEF PagesMatch, CallsTypes
  <2>4. CASE HasAgent(s) /\ clients[s] = {}
    <3>1. \/ /\ s \notin offPaged
             /\ offPaged' = offPaged \cup {s}
             /\ balance' = [balance EXCEPT ![s] = @ + 1]
          \/ offPaged' = offPaged /\ balance' = [balance EXCEPT ![s] = @]
      BY <1>1, <2>1, <2>4 DEF CheckOffline, PagedAfter
    <3> QED BY <1>0, <3>1 DEF PagesMatch, CallsTypes
  <2> QED BY <2>2, <2>3, <2>4
<1>2. ASSUME RestartForgets PROVE PagesMatch' BY <1>2 DEF RestartForgets, PagesMatch
<1>3. CASE UNCHANGED <<offPaged, balance>> BY <1>0, <1>3 DEF PagesMatch
<1>4. ASSUME NEW i \in Frames, Ask(i) \/ RequestStep(i) \/ AgentBegins(i) \/ HandleUpdateStatus(i)
      PROVE  UNCHANGED <<offPaged, balance>>
  BY <1>4 DEF RequestStep, Ask, CheckOnline, PublishCommand, Select, Leave, SettleUpdate,
              AgentBegins, HandleUpdateStatus, pagerVars
<1>5. ASSUME NEW c \in Conns, StreamEnds(c) \/ AgentReads(c) PROVE UNCHANGED <<offPaged, balance>>
  BY <1>5 DEF StreamEnds, AgentReads, pagerVars
<1>6. ASSUME NEW c \in Conns, NEW d \in Devices, AgentConnects(c, d) PROVE UNCHANGED <<offPaged, balance>>
  BY <1>6 DEF AgentConnects, pagerVars
<1>7. ASSUME NEW m \in posts, Deliver(m) PROVE UNCHANGED <<offPaged, balance>> BY <1>7 DEF Deliver, pagerVars
<1>8. ASSUME SweepStarts \/ Tick PROVE UNCHANGED <<offPaged, balance>> BY <1>8 DEF SweepStarts, Tick
<1>9. ASSUME NEW s \in Scopes, CheckFails(s) \/ OpenOrClose(s) PROVE UNCHANGED <<offPaged, balance>>
  BY <1>9 DEF CheckFails, OpenOrClose, pagerVars
<1>10. ASSUME NEW d \in Devices, RevokeAgent(d) \/ LinkAgent(d) PROVE UNCHANGED <<offPaged, balance>>
  BY <1>10 DEF RevokeAgent, LinkAgent, pagerVars
<1>11. CASE UNCHANGED vars BY <1>3, <1>11 DEF vars, pagerVars
<1> QED BY <1>1, <1>2, <1>3, <1>4, <1>5, <1>6, <1>7, <1>8, <1>9, <1>10, <1>11 DEF Next

-----------------------------------------------------------------------------
(* CallsInv holds in every behaviour.                                      *)
LEMMA CallsInvariant == Spec => []CallsInv
<1>1. Init => CallsInv BY CallsInitInv
<1>2. CallsInv /\ [Next]_vars => CallsInv'
  <2> SUFFICES ASSUME CallsInv, [Next]_vars PROVE CallsInv' OBVIOUS
  <2>1. [BrokerNext]_brokerVars BY BrokerSees
  <2>2. BrokerInv' BY <2>1, BrokerNextInv DEF CallsInv
  <2>3. ClientsFinite' BY <2>1, ClientsStayFinite DEF CallsInv
  <2>4. CallsTypes' BY TypesStep
  <2>5. NoOutcomeYet' BY NoOutcomeYetStep
  <2>6. UnsentIsUnseen' BY UnsentStep
  <2>7. AnswersWerePosted' BY PostedStep
  <2>8. ReportsComeLater' BY ReportsStep
  <2>9. PagesMatch' BY PagesStep
  <2> QED BY <2>2, <2>3, <2>4, <2>5, <2>6, <2>7, <2>8, <2>9 DEF CallsInv
<1> QED BY <1>1, <1>2, PTL DEF Spec

(* requester.go Request tells the truth about the agent: "offline" means no  *)
(* agent has the command, and an answer is the agent's own to this request.  *)
THEOREM RequestTellsTheTruth == Spec => []AnswerIsTrue
<1>1. CallsInv => AnswerIsTrue
  BY DEF CallsInv, AnswerIsTrue, UnsentIsUnseen, NoAgentHas, AnswersWerePosted
<1> QED BY CallsInvariant, <1>1, PTL

(* updates.go settleUpdate never overwrites a state past 'requested' that    *)
(* the agent reported itself; only its own reports do.                       *)
THEOREM ReportsAreKept == Spec => ReportWins
<1>1. CallsInv /\ [Next]_vars => [\A i \in Frames : row[i] = "reported" => row'[i] \in {"reported", "heard"}]_vars
  <2> SUFFICES ASSUME CallsInv, [Next]_vars, NEW i \in Frames, row[i] = "reported" PROVE row'[i] \in {"reported", "heard"}
    OBVIOUS
  <2>0. CallsTypes /\ ReportsComeLater BY DEF CallsInv
  <2>1. ASSUME NEW j \in Frames, Ask(j) PROVE row'[i] \in {"reported", "heard"}
    <3>1. asked[j] \in Unsent /\ Kind[j] # "own" BY <2>1 DEF Ask, Unsent
    <3>2. i # j BY <2>0, <3>1 DEF ReportsComeLater
    <3> QED BY <2>0, <2>1, <3>2 DEF Ask, CallsTypes
  <2>2. ASSUME NEW j \in Frames, SettleUpdate(j) PROVE row'[i] \in {"reported", "heard"}
    BY <2>0, <2>2 DEF SettleUpdate, SettleRow, CallsTypes
  <2>3. ASSUME NEW j \in Frames, AgentBegins(j) \/ HandleUpdateStatus(j) PROVE row'[i] \in {"reported", "heard"}
    BY <2>0, <2>3 DEF AgentBegins, HandleUpdateStatus, CallsTypes
  <2>4. ASSUME NEW c \in Conns, AgentReads(c) PROVE row'[i] \in {"reported", "heard"} BY <2>4 DEF AgentReads
  <2> QED BY <2>1, <2>2, <2>3, <2>4, OthersKeepRows
<1> QED BY CallsInvariant, <1>1, PTL DEF Spec, ReportWins

(* restore.go checkOffline pages about an outage and its end in turn, never  *)
(* twice about the same.                                                     *)
THEOREM OwnerIsPagedInTurn == Spec => []PagesAlternate
<1>1. CallsInv => PagesAlternate BY DEF CallsInv, PagesMatch, PagesAlternate
<1> QED BY CallsInvariant, <1>1, PTL

=============================================================================
