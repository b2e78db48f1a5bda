----------------------------- MODULE AgentCalls -----------------------------
(* main asks a store's agent something and waits: the duplex channel         *)
(* (rpc/requester.go, handler/agent_rpc.go), the updates an admin asks for   *)
(* over it (agentsync/updates.go), and the pager that watches whether an     *)
(* agent is there at all (agentsync/restore.go).  Commands go down the       *)
(* streams of SseBroker, a frame being the id of its request; replies and    *)
(* reports come back as POSTs, which may be late, repeated or lost.          *)
(*                                                                           *)
(* A ping and a printer report are asked for in the same way and only their  *)
(* answer differs; the cache of printer reports is advisory and left out.    *)
EXTENDS SseBroker, Faults

CONSTANTS
  Kind,          \* of each id: "ask" (ping, printers), "update", "own" (begun on the Pi)
  StoreOf,       \* the location of each agent device
  OfflineAfter,  \* ticks an agent may be away before the owner is paged
  MaxShifts      \* bound: times the stores open or close, agents are linked or revoked

ASSUME CallsAssumption ==
  /\ StoreOf \in [Devices -> Scopes]
  /\ Kind \in [Frames -> {"ask", "update", "own"}]
  /\ OfflineAfter \in Nat \ {0}

VARIABLES
  active,     \* agent devices that are not revoked
  asked,      \* where each request is: "new", "check", "publish", "wait", "leave", "settle", "done"
  outcome,    \* what Request returned: "none", "offline", "timeout", or the agent's answer
  waiters,    \* Requester.waiters: the ids waited for
  reply,      \* the one-place channel of each waiter
  posts,      \* replies on their way, each with the scope of the device that sends it
  taken,      \* the updates an agent has taken on
  row,        \* the state column of agent_updates, "none" where there is no row; a 'requested'
              \* that the agent itself reported is told apart, as "heard"
  offSince,   \* for how long the pager has seen a location offline, Present when it has not
  offPaged,   \* the locations it has paged about
  sweep,      \* the locations checkOffline has still to look at
  open,       \* the locations within their opening hours
  balance,    \* ghost: "offline" pages less "back online" pages of this run of main
  shifts

callVars == <<asked, outcome, waiters, reply>>
postVars == <<posts, taken>>
pagerVars == <<offSince, offPaged, sweep, balance>>
worldVars == <<active, open, shifts>>
vars == <<brokerVars, callVars, postVars, pagerVars, worldVars, row, faults>>

Present == OfflineAfter + 1
Answers == {"accepted", "waiting_for_idle", "rejected"}
NoReply == "none"

Init ==
  /\ BrokerInit
  /\ active = Devices
  /\ asked = [i \in Frames |-> "new"]
  /\ outcome = [i \in Frames |-> "none"]
  /\ waiters = {}
  /\ reply = [i \in Frames |-> NoReply]
  /\ posts = {}
  /\ taken = {}
  /\ row = [i \in Frames |-> "none"]
  /\ offSince = [s \in Scopes |-> Present]
  /\ offPaged = {}
  /\ sweep = {}
  /\ open = Scopes
  /\ balance = [s \in Scopes |-> 0]
  /\ shifts = MaxShifts
  /\ faults = 0

Goto(i, step) == asked' = [asked EXCEPT ![i] = step]

-----------------------------------------------------------------------------
(* Request.                                                                  *)

(* RequestUpdate records the row first; a failed insert ends it there.       *)
Ask(i) ==
  /\ asked[i] = "new"
  /\ Kind[i] # "own"
  /\ \/ /\ Goto(i, "check") /\ NoFault
        /\ row' = IF Kind[i] = "update" THEN [row EXCEPT ![i] = "requested"] ELSE row
     \/ Kind[i] = "update" /\ Goto(i, "done") /\ Fault /\ UNCHANGED row
  /\ UNCHANGED <<brokerVars, outcome, waiters, reply, postVars, pagerVars, worldVars>>

Ends(i, result) ==
  /\ outcome' = [outcome EXCEPT ![i] = result]
  /\ Goto(i, "leave")

CheckOnline(i) ==
  /\ asked[i] = "check"
  /\ IF SubscribersFor(FrameScope[i]) = 0
     THEN Ends(i, "offline") /\ UNCHANGED waiters
     ELSE Goto(i, "publish") /\ waiters' = waiters \cup {i} /\ UNCHANGED outcome
  /\ UNCHANGED <<brokerVars, reply, postVars, pagerVars, worldVars, row, faults>>

(* The waiter is there before the command is out.                            *)
PublishCommand(i) ==
  /\ asked[i] = "publish"
  /\ Publish(FrameScope[i], i)
  /\ IF Reached(FrameScope[i]) = {} THEN Ends(i, "offline") ELSE Goto(i, "wait") /\ UNCHANGED outcome
  /\ UNCHANGED <<waiters, reply, postVars, pagerVars, worldVars, row, faults>>

(* The select: a reply, or the timeout or the caller hanging up, also when a *)
(* reply is there.                                                           *)
Select(i) ==
  /\ asked[i] = "wait"
  /\ \/ reply[i] # NoReply /\ Ends(i, reply[i])
     \/ Ends(i, "timeout")
  /\ UNCHANGED <<brokerVars, waiters, reply, postVars, pagerVars, worldVars, row, faults>>

(* The deferred delete.  Only an update has something to store.              *)
Leave(i) ==
  /\ asked[i] = "leave"
  /\ waiters' = waiters \ {i}
  /\ Goto(i, IF Kind[i] = "update" THEN "settle" ELSE "done")
  /\ UNCHANGED <<brokerVars, outcome, reply, postVars, pagerVars, worldVars, row, faults>>

(* What main stores when it does not hear "requested": an agent that accepts *)
(* may say that it waits; a reply that cannot be read counts as rejected.    *)
OwnOutcome(result) == IF result \in Answers THEN result ELSE "unreachable"

SettleRow_Always(i) ==
  IF outcome[i] # "accepted" THEN [row EXCEPT ![i] = OwnOutcome(outcome[i])] ELSE row

(* SettleAgentUpdateRequest: only while the column is 'requested', whoever   *)
(* wrote that.                                                               *)
SettleRow(i) ==
  IF outcome[i] # "accepted" /\ row[i] \in {"requested", "heard"}
  THEN [row EXCEPT ![i] = OwnOutcome(outcome[i])] ELSE row

SettleUpdate(i) ==
  /\ asked[i] = "settle"
  /\ Goto(i, "done")
  /\ \/ row' = SettleRow(i) /\ NoFault
     \/ Fault /\ UNCHANGED row
  /\ UNCHANGED <<brokerVars, outcome, waiters, reply, postVars, pagerVars, worldVars>>

-----------------------------------------------------------------------------
(* The agent, and what it sends.                                             *)

AgentConnects(c, d) ==
  /\ d \in active
  /\ SubscribeAs(c, StoreOf[d], d)
  /\ UNCHANGED <<callVars, postVars, pagerVars, worldVars, row, faults>>

StreamEnds(c) ==
  /\ ClientGone(c)
  /\ UNCHANGED <<callVars, postVars, pagerVars, worldVars, row, faults>>

(* A command is written to the stream.  The agent answers it, and takes on   *)
(* an update it accepts.                                                     *)
AgentReads(c) ==
  /\ Take(c)
  /\ LET i == Head(buf[c])
     IN  \E a \in IF Kind[i] = "update" THEN Answers ELSE {"accepted"} :
           /\ posts' = posts \cup {[id |-> i, scope |-> handler[c].scope, answer |-> a]}
           /\ taken' = IF Kind[i] = "update" /\ a # "rejected" THEN taken \cup {i} ELSE taken
  /\ UNCHANGED <<callVars, pagerVars, worldVars, row, faults>>

(* An update begun on the Pi itself.                                         *)
AgentBegins(i) ==
  /\ Kind[i] = "own" /\ i \notin taken
  /\ taken' = taken \cup {i}
  /\ UNCHANGED <<brokerVars, callVars, posts, pagerVars, worldVars, row, faults>>

(* A device that may still post (APIKeyAuth).                                *)
HasAgent(s) == \E d \in active : StoreOf[d] = s

(* Mutant: the reply is for whoever waits at that location.                  *)
WaiterOf_Scope(m) == {i \in waiters : FrameScope[i] = m.scope}

WaiterOf(m) == {i \in waiters : i = m.id /\ FrameScope[i] = m.scope}

(* Deliver: to the waiter of that id, if it asked that location; the first   *)
(* reply fills the channel, later ones are dropped.                          *)
Deliver(m) ==
  /\ HasAgent(m.scope)
  /\ \E i \in WaiterOf(m) : reply[i] = NoReply /\ reply' = [reply EXCEPT ![i] = m.answer]
  /\ UNCHANGED <<brokerVars, asked, outcome, waiters, postVars, pagerVars, worldVars, row, faults>>

(* HandleUpdateStatus: the agent's word on its update, 'requested' or a later *)
(* state, of which no two are told apart; reports may overtake each other.   *)
(* The row of an update main did not ask for is inserted.                    *)
HandleUpdateStatus(i) ==
  /\ i \in taken /\ HasAgent(FrameScope[i])
  /\ \E state \in {"heard", "reported"} : row' = [row EXCEPT ![i] = state]
  /\ UNCHANGED <<brokerVars, callVars, postVars, pagerVars, worldVars, faults>>

-----------------------------------------------------------------------------
(* RunOfflinePager.                                                          *)

(* A tick of the pager's clock lists the locations.                          *)
SweepStarts ==
  /\ sweep = {}
  /\ sweep' = Scopes
  /\ UNCHANGED <<brokerVars, callVars, postVars, offSince, offPaged, balance, worldVars, row, faults>>

Overdue(s) == offSince[s] = OfflineAfter

(* Mutant: a location that is seen again stays paged about.                  *)
PagedAfter_Kept(s, paging) == IF paging THEN offPaged \cup {s} ELSE offPaged

PagedAfter(s, paging) ==
  IF clients[s] # {} THEN offPaged \ {s} ELSE IF paging THEN offPaged \cup {s} ELSE offPaged

(* Mutant: the moment a location was first seen offline is taken anew.       *)
SinceAfter_Anew(s) == IF clients[s] # {} THEN Present ELSE 0

SinceAfter(s) ==
  IF clients[s] # {} THEN Present ELSE IF offSince[s] = Present THEN 0 ELSE offSince[s]

(* checkOffline for one location; one without an active agent is skipped.    *)
CheckOffline(s) ==
  LET connected == SubscribersFor(s) > 0
      paging == ~connected /\ s \notin offPaged /\ s \in open /\ Overdue(s)
      back == connected /\ s \in offPaged
  IN  /\ s \in sweep
      /\ sweep' = sweep \ {s}
      /\ IF HasAgent(s)
         THEN /\ offSince' = [offSince EXCEPT ![s] = SinceAfter(s)]
              /\ offPaged' = PagedAfter(s, paging)
              /\ balance' = [balance EXCEPT ![s] = IF paging THEN @ + 1 ELSE IF back THEN @ - 1 ELSE @]
         ELSE UNCHANGED <<offSince, offPaged, balance>>
      /\ UNCHANGED <<brokerVars, callVars, postVars, worldVars, row, faults>>

(* The location's devices cannot be read: it is skipped this time.           *)
CheckFails(s) ==
  /\ s \in sweep
  /\ sweep' = sweep \ {s}
  /\ Fault
  /\ UNCHANGED <<brokerVars, callVars, postVars, offSince, offPaged, balance, worldVars, row>>

(* Time passes for the locations seen offline, up to OfflineAfter.           *)
Tick ==
  /\ offSince' = [s \in Scopes |-> IF offSince[s] < OfflineAfter THEN offSince[s] + 1 ELSE offSince[s]]
  /\ offSince' # offSince
  /\ UNCHANGED <<brokerVars, callVars, postVars, offPaged, sweep, balance, worldVars, row, faults>>

-----------------------------------------------------------------------------
(* The world around it.                                                      *)

Shift == shifts > 0 /\ shifts' = shifts - 1

OpenOrClose(s) ==
  /\ Shift
  /\ open' = IF s \in open THEN open \ {s} ELSE open \cup {s}
  /\ UNCHANGED <<brokerVars, callVars, postVars, pagerVars, active, row, faults>>

RevokeAgent(d) ==
  /\ Shift
  /\ d \in active
  /\ active' = active \ {d}
  /\ DisconnectDevice(d)
  /\ UNCHANGED <<callVars, postVars, pagerVars, open, row, faults>>

LinkAgent(d) ==
  /\ Shift
  /\ d \notin active
  /\ active' = active \cup {d}
  /\ UNCHANGED <<brokerVars, callVars, postVars, pagerVars, open, row, faults>>

(* main restarts: streams, waiters and the pager's memory are gone.          *)
RestartForgets ==
  /\ Fault
  /\ BrokerRestart
  /\ asked' = [i \in Frames |-> IF asked[i] = "new" THEN "new" ELSE "done"]
  /\ waiters' = {} /\ reply' = [i \in Frames |-> NoReply]
  /\ offSince' = [s \in Scopes |-> Present] /\ offPaged' = {} /\ sweep' = {}
  /\ balance' = [s \in Scopes |-> 0]
  /\ UNCHANGED <<outcome, postVars, worldVars, row>>

-----------------------------------------------------------------------------
RequestStep(i) == CheckOnline(i) \/ PublishCommand(i) \/ Select(i) \/ Leave(i) \/ SettleUpdate(i)

Next ==
  \/ \E i \in Frames : Ask(i) \/ RequestStep(i) \/ AgentBegins(i) \/ HandleUpdateStatus(i)
  \/ \E c \in Conns : StreamEnds(c) \/ AgentReads(c) \/ \E d \in Devices : AgentConnects(c, d)
  \/ \E m \in posts : Deliver(m)
  \/ SweepStarts \/ Tick
  \/ \E s \in Scopes : CheckOffline(s) \/ CheckFails(s) \/ OpenOrClose(s)
  \/ \E d \in Devices : RevokeAgent(d) \/ LinkAgent(d)
  \/ RestartForgets

(* The pager's ticker fires and its sweep goes on; time passes.              *)
Fairness ==
  /\ WF_vars(SweepStarts) /\ WF_vars(Tick)
  /\ \A s \in Scopes : WF_vars(CheckOffline(s))

Spec == Init /\ [][Next]_vars /\ Fairness

-----------------------------------------------------------------------------
(* What Request returns is the truth about the agent: after ErrAgentOffline  *)
(* no agent has the command or will get it, and an answer is the agent's own *)
(* to this very request, however streams drop and replies of earlier         *)
(* requests come late (the admin is told 503 agent_offline, and asks again). *)
AnswerIsTrue ==
  \A i \in Frames :
    /\ outcome[i] = "offline" => /\ \A m \in posts : m.id # i
                                 /\ \A c \in Conns : \A n \in DOMAIN buf[c] : buf[c][n] # i
    /\ outcome[i] \in Answers => [id |-> i, scope |-> FrameScope[i], answer |-> outcome[i]] \in posts

(* A report the agent made of a state past 'requested' is replaced by its    *)
(* own reports only, never by main's outcome of the request, however late    *)
(* that is stored (settleUpdate).  Of a 'requested' the agent reports itself *)
(* this is not so: the statement cannot tell it from main's own.             *)
ReportWins ==
  [][\A i \in Frames : row[i] = "reported" => row'[i] \in {"reported", "heard"}]_vars

(* The owner is paged "once, and again when it is back": within a run of     *)
(* main, pages of an outage and of its end alternate, whatever opens,        *)
(* closes, connects, is revoked or linked in between (checkOffline).         *)
PagesAlternate == \A s \in Scopes : balance[s] \in {0, 1}

(* An agent that stays away from an open store is paged about, whenever the  *)
(* outage began and however often it was seen in between.                    *)
DarkStorePaged ==
  \A s \in Scopes : <>[](clients[s] = {} /\ s \in open /\ HasAgent(s)) => <>[](s \in offPaged)

=============================================================================
