------------------------------ MODULE AgentLink ------------------------------
(***************************************************************************)
(* Which agent may serve a store: device keys, the tablet's link           *)
(* (app/agentsync/link.go), revocation and deletion                        *)
(* (app/tenancy/service.go, the admin and store handlers) and the stream   *)
(* request's way from its authentication (transport/middleware/auth.go) to *)
(* the broker (transport/handler/sse.go), over SseBroker.                  *)
(*                                                                         *)
(* Device ids are minted fresh, so the store an id is minted for is a      *)
(* constant.  Only devices of kind agent are followed.  A bad login or a   *)
(* throttled one changes nothing here and is left out.                     *)
(*                                                                         *)
(* Faults: failing database calls and restarts of main.                    *)
(***************************************************************************)
EXTENDS SseBroker, Faults

CONSTANTS
  DeviceScope,   \* the store each device id is minted for
  Links,         \* concurrent calls of Link
  NoLink         \* linkMu is free

ASSUME LinkAssumption ==
  /\ DeviceScope \in [Devices -> Scopes]
  /\ NoLink \notin Links

VARIABLES
  stores,    \* tenants that exist, each with its one location
  dev,       \* the devices table: no row, live, revoked, deleted
  keys,      \* devices whose clear key was handed out
  request,   \* stream requests past their authentication, not yet subscribed
  cutting,   \* devices whose row is gone and whose deviceGone hook is still to run
  linkMu,    \* the link that holds the mutex
  lpc,       \* where each call of Link is
  scope,     \* the store its login belongs to
  minted,    \* the device it minted
  old,       \* the agents it still has to revoke
  revoking,  \* the agent whose deviceGone hook it is running
  late,      \* ghost: agents an admin minted after the link listed the devices
  undone     \* ghost: links whose new device was revoked by hand since

deviceVars == <<stores, dev, keys, request, cutting>>
linkVars == <<linkMu, lpc, scope, minted, old, revoking, late, undone>>
agentVars == <<brokerVars, deviceVars, linkVars, faults>>

LinkTypeOK ==
  /\ stores \subseteq Scopes
  /\ dev \in [Devices -> {"none", "live", "gone", "cascaded"}]
  /\ keys \subseteq Devices
  /\ request \in [Conns -> AnyDevice]
  /\ cutting \subseteq Devices
  /\ linkMu \in Links \cup {NoLink}
  /\ lpc \in [Links -> {"idle", "wait", "mint", "list", "revoke", "cut", "reply"}]
  /\ scope \in [Links -> Scopes]
  /\ minted \in [Links -> AnyDevice]
  /\ \A l \in Links : lpc[l] \in {"list", "revoke", "cut", "reply"} => minted[l] \in Devices
  /\ old \in [Links -> SUBSET Devices]
  /\ revoking \in [Links -> AnyDevice]
  /\ late \in [Links -> SUBSET Devices]
  /\ undone \subseteq Links
  /\ faults \in 0..MaxFaults

AgentTypeOK == BrokerTypeOK /\ LinkTypeOK

AgentInit ==
  /\ BrokerInit
  /\ stores = Scopes
  /\ dev = [d \in Devices |-> "none"]
  /\ keys = {}
  /\ request = [c \in Conns |-> NilDevice]
  /\ cutting = {}
  /\ linkMu = NoLink
  /\ lpc = [l \in Links |-> "idle"]
  /\ \E s \in Scopes : scope = [l \in Links |-> s]
  /\ minted = [l \in Links |-> NilDevice]
  /\ old = [l \in Links |-> {}]
  /\ revoking = [l \in Links |-> NilDevice]
  /\ late = [l \in Links |-> {}]
  /\ undone = {}
  /\ faults = 0

Agents(s, st) == {d \in Devices : DeviceScope[d] = s /\ dev[d] = st}

(* Bound: a link that starts finds a fresh device id.                      *)
FreshLeft(s) ==
  Cardinality(Agents(s, "none")) > Cardinality({l \in Links : scope[l] = s /\ lpc[l] \in {"wait", "mint"}})

-----------------------------------------------------------------------------
(* Devices                                                                 *)

(* MintDevice for a store that still exists.                               *)
Mint(s, d) ==
  /\ s \in stores
  /\ d \in Agents(s, "none")
  /\ dev' = [dev EXCEPT ![d] = "live"]

MintAgentDevice(s, d) ==
  /\ FreshLeft(s)
  /\ Mint(s, d)
  /\ keys' = keys \cup {d}
  /\ late' = [l \in Links |-> IF scope[l] = s /\ lpc[l] \in {"revoke", "cut", "reply"}
                              THEN late[l] \cup {d} ELSE late[l]]
  /\ UNCHANGED <<brokerVars, stores, request, cutting, linkMu, lpc, scope, minted, old, revoking, undone, faults>>

(* RevokeDevice and DeleteDevice up to the database's answer; an agent's   *)
(* own revoke, the manager's and the admin's are the same call.            *)
Revoked(d) ==
  /\ dev' = [dev EXCEPT ![d] = IF @ = "live" THEN "gone" ELSE @]
  /\ cutting' = cutting \cup {d}

RevokeDevice(d) ==
  /\ dev[d] = "live"
  /\ Revoked(d)
  /\ undone' = undone \cup {l \in Links : minted[l] = d}
  /\ UNCHANGED <<brokerVars, stores, keys, request, linkMu, lpc, scope, minted, old, revoking, late, faults>>

(* Their second half: the deviceGone hook.                                 *)
DeviceGone(d) ==
  /\ d \in cutting
  /\ cutting' = cutting \ {d}
  /\ DisconnectDevice(d)
  /\ UNCHANGED <<stores, dev, keys, request, linkVars, faults>>

(* DeleteTenantCascade deletes the store's devices with it; no hook runs.  *)
DeleteTenant(s) ==
  /\ s \in stores
  /\ stores' = stores \ {s}
  /\ dev' = [d \in Devices |-> IF DeviceScope[d] = s /\ dev[d] # "none" THEN "cascaded" ELSE dev[d]]
  /\ UNCHANGED <<brokerVars, keys, request, cutting, linkVars, faults>>

-----------------------------------------------------------------------------
(* Streams                                                                 *)

(* APIKeyAuth lets the request of a live device through.                   *)
Authenticate(c, d) ==
  /\ ~Running(c)
  /\ request[c] = NilDevice
  /\ d \in keys
  /\ dev[d] = "live"
  /\ request' = [request EXCEPT ![c] = d]
  /\ UNCHANGED <<brokerVars, stores, dev, keys, cutting, linkVars, faults>>

(* The handshake is written and the stream subscribed.                     *)
StreamOrders(c) ==
  /\ request[c] # NilDevice
  /\ SubscribeAs(c, DeviceScope[request[c]], request[c])
  /\ request' = [request EXCEPT ![c] = NilDevice]
  /\ UNCHANGED <<stores, dev, keys, cutting, linkVars, faults>>

(* The store's config cannot be loaded: the request ends.                  *)
HandshakeFails(c) ==
  /\ request[c] # NilDevice
  /\ IF DeviceScope[request[c]] \in stores THEN Fault ELSE NoFault
  /\ request' = [request EXCEPT ![c] = NilDevice]
  /\ UNCHANGED <<brokerVars, stores, dev, keys, cutting, linkVars>>

(* The rest of the handler, and whoever publishes.                         *)
BrokerStep ==
  /\ \/ \E c \in Conns : Take(c) \/ ChannelClosed(c) \/ ClientGone(c)
     \/ \E f \in Frames : Publish(FrameScope[f], f)
  /\ UNCHANGED <<deviceVars, linkVars, faults>>

-----------------------------------------------------------------------------
(* Link                                                                    *)

LinkStart(l, s) ==
  /\ lpc[l] = "idle"
  /\ FreshLeft(s)
  /\ scope' = [scope EXCEPT ![l] = s]
  /\ lpc' = [lpc EXCEPT ![l] = "wait"]
  /\ UNCHANGED <<brokerVars, deviceVars, linkMu, minted, old, revoking, late, undone, faults>>

(* linkMu.Lock(), then the login.                                          *)
MutexFree_Always == TRUE

MutexFree == linkMu = NoLink

LinkLock(l) ==
  /\ lpc[l] = "wait"
  /\ MutexFree
  /\ linkMu' = l
  /\ lpc' = [lpc EXCEPT ![l] = "mint"]
  /\ UNCHANGED <<brokerVars, deviceVars, scope, minted, old, revoking, late, undone, faults>>

LinkMint(l) ==
  /\ lpc[l] = "mint"
  /\ \E d \in Devices : Mint(scope[l], d) /\ minted' = [minted EXCEPT ![l] = d]
  /\ lpc' = [lpc EXCEPT ![l] = "list"]
  /\ UNCHANGED <<brokerVars, stores, keys, request, cutting, linkMu, scope, old, revoking, late, undone, faults>>

(* Every other live agent of the location.                                 *)
Replaced_None(l) == {}

Replaced(l) == Agents(scope[l], "live") \ {minted[l]}

LinkList(l) ==
  /\ lpc[l] = "list"
  /\ old' = [old EXCEPT ![l] = Replaced(l)]
  /\ late' = [late EXCEPT ![l] = {}]
  /\ lpc' = [lpc EXCEPT ![l] = "revoke"]
  /\ UNCHANGED <<brokerVars, deviceVars, linkMu, scope, minted, revoking, undone, faults>>

(* The loop: revoke one, cut its streams, go on.                           *)
LinkRevoke(l) ==
  /\ lpc[l] = "revoke"
  /\ \E d \in old[l] :
       /\ Revoked(d)
       /\ old' = [old EXCEPT ![l] = @ \ {d}]
       /\ revoking' = [revoking EXCEPT ![l] = d]
  /\ lpc' = [lpc EXCEPT ![l] = "cut"]
  /\ UNCHANGED <<brokerVars, stores, keys, request, linkMu, scope, minted, late, undone, faults>>

LinkCut(l) ==
  /\ lpc[l] = "cut"
  /\ revoking[l] \notin cutting
  /\ revoking' = [revoking EXCEPT ![l] = NilDevice]
  /\ lpc' = [lpc EXCEPT ![l] = "revoke"]
  /\ UNCHANGED <<brokerVars, deviceVars, linkMu, scope, minted, old, late, undone, faults>>

LinkRevokedAll(l) ==
  /\ lpc[l] = "revoke"
  /\ old[l] = {}
  /\ lpc' = [lpc EXCEPT ![l] = "reply"]
  /\ UNCHANGED <<brokerVars, deviceVars, linkMu, scope, minted, old, revoking, late, undone, faults>>

(* Link returns and its deferred Unlock runs.                              *)
Return_KeepsLock(l) ==
  /\ lpc' = [lpc EXCEPT ![l] = "idle"]
  /\ minted' = [minted EXCEPT ![l] = NilDevice]
  /\ old' = [old EXCEPT ![l] = {}]
  /\ late' = [late EXCEPT ![l] = {}]
  /\ undone' = undone \ {l}
  /\ UNCHANGED <<linkMu, scope, revoking>>

Return(l) ==
  /\ lpc' = [lpc EXCEPT ![l] = "idle"]
  /\ minted' = [minted EXCEPT ![l] = NilDevice]
  /\ old' = [old EXCEPT ![l] = {}]
  /\ late' = [late EXCEPT ![l] = {}]
  /\ undone' = undone \ {l}
  /\ linkMu' = IF linkMu = l THEN NoLink ELSE linkMu
  /\ UNCHANGED <<scope, revoking>>

(* The manager credential is read and the key handed out.                  *)
LinkReply(l) ==
  /\ lpc[l] = "reply"
  /\ scope[l] \in stores
  /\ keys' = keys \cup {minted[l]}
  /\ Return(l)
  /\ UNCHANGED <<brokerVars, stores, dev, request, cutting, faults>>

(* Any of its calls fails, or the login or the store is gone.  What was    *)
(* minted stays, with a key nobody has; what was revoked stays revoked.    *)
LinkFails(l) ==
  /\ lpc[l] \in {"mint", "list", "revoke", "reply"}
  /\ IF scope[l] \in stores THEN Fault ELSE NoFault
  /\ Return(l)
  /\ UNCHANGED <<brokerVars, deviceVars>>

LinkStep(l) ==
  \/ LinkLock(l) \/ LinkMint(l) \/ LinkList(l)
  \/ LinkRevoke(l) \/ LinkCut(l) \/ LinkRevokedAll(l)
  \/ LinkReply(l) \/ LinkFails(l)

-----------------------------------------------------------------------------
(* main restarts: the tables survive, streams, calls and the mutex do not. *)
MainRestarts ==
  /\ Fault
  /\ BrokerRestart
  /\ request' = [c \in Conns |-> NilDevice]
  /\ cutting' = {}
  /\ linkMu' = NoLink
  /\ lpc' = [l \in Links |-> "idle"]
  /\ minted' = [l \in Links |-> NilDevice]
  /\ old' = [l \in Links |-> {}]
  /\ revoking' = [l \in Links |-> NilDevice]
  /\ late' = [l \in Links |-> {}]
  /\ undone' = {}
  /\ UNCHANGED <<stores, dev, keys, scope>>

AgentNext ==
  \/ \E d \in Devices : MintAgentDevice(DeviceScope[d], d) \/ RevokeDevice(d) \/ DeviceGone(d)
  \/ \E s \in Scopes : DeleteTenant(s)
  \/ \E c \in Conns : StreamOrders(c) \/ HandshakeFails(c) \/ \E d \in Devices : Authenticate(c, d)
  \/ BrokerStep
  \/ \E l \in Links : LinkStep(l) \/ \E s \in Scopes : LinkStart(l, s)
  \/ MainRestarts

(* Requests, handlers and hooks in progress run on; the Go mutex is not    *)
(* starved.                                                                *)
AgentFairness ==
  /\ \A d \in Devices : WF_agentVars(DeviceGone(d))
  /\ \A c \in Conns : WF_agentVars((Take(c) \/ ChannelClosed(c)) /\ UNCHANGED <<deviceVars, linkVars, faults>>)
  /\ \A l \in Links : WF_agentVars(LinkStep(l)) /\ SF_agentVars(LinkLock(l))

AgentSpec == AgentInit /\ [][AgentNext]_agentVars /\ AgentFairness

-----------------------------------------------------------------------------
(* When a link is about to answer, every other agent of the location that  *)
(* an admin did not mint meanwhile is revoked (link.go: "one live agent    *)
(* per restaurant"), and the key it hands out works: its device is live,   *)
(* unless somebody revoked it by hand or deleted the store meanwhile.  No  *)
(* link that overlaps it revoked it (agentsync.go on linkMu: "two          *)
(* overlapping links would revoke each other's new key").                  *)
LinkReplaces ==
  \A l \in Links : lpc[l] = "reply" =>
    /\ Agents(scope[l], "live") \subseteq {minted[l]} \cup late[l]
    /\ dev[minted[l]] \in {"live", "cascaded"} \/ l \in undone

(* Every call of Link returns: no failure leaves the mutex locked.         *)
LinksReturn == \A l \in Links : lpc[l] = "wait" ~> lpc[l] = "idle"

=============================================================================
