--------------------------- MODULE ChannelAccess ----------------------------
(* Who may use /channel/v1: a location's channels and their keys             *)
(* (app/channel), the operators who sign in instead (app/operator), the      *)
(* built-in channels made on first use, and the password sign-ins with their *)
(* limiter (handler/login_limit.go).  Requests are calls of StoreAdmin, one  *)
(* statement, lock or window at a time.                                      *)
EXTENDS StoreAdmin, RateLimit

CONSTANTS
    Kinds,            \* bound: kinds of channels a key may be made for
    Logins,           \* bound: who signs in where
    LoginFailMax,     \* failures per username, and
    LoginGlobalMax    \* of everyone, in the window

VARIABLES
    builtins,    \* the service's cache: built-in channel of <<location, kind>>
    mu,          \* who holds builtinMu
    admitted,    \* the last request let in as an operator or linked to the vendor channel
    hits         \* the login limiters' windows, of "store" and "operator" sign-ins

accessVars == <<builtins, mu, admitted, hits>>

Still == UNCHANGED <<cookies, now, untold, unsent, bare, faults>>

-----------------------------------------------------------------------------
(* Channels.  A built-in one has no key to rotate and cannot be revoked or   *)
(* deleted.                                                                  *)

ChannelEdit(c, d) == Begin(c, "access", Idle) /\ db' = d /\ UNCHANGED accessVars /\ Still

AdminCreateChannel(c, l, kind) == GetLocationByID(db, l) /\ ChannelEdit(c, CreateChannel(db, l, kind, FALSE))

EditChannel(c, ch, name, view) == ChannelEdit(c, SetChannelView(UpdateChannel(db, ch, name), ch, view))

Keyed(ch) == ~db.channels[ch].builtin

Rotate(c, ch) == Keyed(ch) /\ ChannelEdit(c, SetChannelKey(db, ch))

Revoke(c, ch) == Keyed(ch) /\ ChannelEdit(c, RevokeChannel(db, ch))

RemoveChannel(c, ch) == Keyed(ch) /\ ChannelEdit(c, DeleteChannel(db, ch))

(* Authenticate: the key of a channel that is not revoked.                   *)
AuthenticateKey(c, ch) ==
    /\ db.channels[ch].key # NONE
    /\ Begin(c, "ask", Idle)
    /\ ch \in AuthenticateChannel(db, db.channels[ch].key)
    /\ admitted' = [ch |-> db.channels[ch], loc |-> db.channels[ch].loc, kind |-> db.channels[ch].kind, builtin |-> FALSE]
    /\ UNCHANGED <<db, builtins, mu, hits>> /\ Still

-----------------------------------------------------------------------------
(* Operators.                                                                *)

AdminCreateOperator(c, user) ==
    /\ user # NONE /\ GetOperatorAuthByUsername(db, user) = {}
    /\ ChannelEdit(c, CreateOperator(db, user))

AdminUpdateOperator(c, o, shown) == ChannelEdit(c, UpdateOperatorProfile(db, o, shown))

AdminDeleteOperator(c, o) == ChannelEdit(c, DeleteOperator(db, o))

AdminRevokeTokens(c, o) == ChannelEdit(c, RevokeAllOperatorTokens(db, o))

ChannelLogout(c, token) == db.tokens[token].session /\ ChannelEdit(c, RevokeOperatorToken(db, token))

(* SetAllowedLocations looks every location up, then replaces the set in one *)
(* transaction, which a location deleted since makes fail.                   *)
SetAllowedLocations(c, o, locs) ==
    /\ locs \subseteq DOMAIN db.locs
    /\ Begin(c, "access", [at |-> "allow", op |-> o, locs |-> locs])
    /\ UNCHANGED <<db, accessVars>> /\ Still

ReplaceLocations(c) ==
    /\ call[c].at = "allow"
    /\ LET s == call[c]
           known == s.locs \subseteq DOMAIN db.locs /\ (s.locs # {} => GetOperatorByID(db, s.op))
       IN  db' = IF known THEN AddOperatorLocations(DeleteOperatorLocations(db, s.op), s.op, s.locs) ELSE db
    /\ Step(c, Idle)
    /\ UNCHANGED accessVars /\ Still

(* AuthenticateOperator: the sign-in first, then the operator's stores.      *)
AuthenticateSession(c, token, l) ==
    /\ GetActiveOperatorTokenByHash(db, token, now) # {} /\ db.tokens[token].session
    /\ Begin(c, "ask", [at |-> "allowed", op |-> db.tokens[token].op, loc |-> l])
    /\ UNCHANGED <<db, accessVars>> /\ Still

AllowedHere(s) == s.loc \in ListOperatorLocations(db, s.op)

CheckAllowed(c) ==
    /\ call[c].at = "allowed"
    /\ Step(c, IF AllowedHere(call[c]) THEN [at |-> "builtin", loc |-> call[c].loc, kind |-> "operator"] ELSE Idle)
    /\ UNCHANGED <<db, accessVars>> /\ Still

(* The vendor feed's orders are linked to the built-in vendor channel.       *)
BuiltinVendor(c, l) ==
    /\ Begin(c, "ask", [at |-> "builtin", loc |-> l, kind |-> "vendor"])
    /\ UNCHANGED <<db, accessVars>> /\ Still

-----------------------------------------------------------------------------
(* builtin, under builtinMu from the lock to the answer.                     *)

CacheKey_Place(s) == <<s.loc, "operator">>

CacheKey(s) == <<s.loc, s.kind>>

MayLock_Always(c) == TRUE

MayLock(c) == mu = NONE

Unlock(c) == mu' = IF mu = c THEN NONE ELSE mu

Lock(c) ==
    /\ call[c].at = "builtin"
    /\ MayLock(c)
    /\ mu' = c
    /\ Step(c, [call[c] EXCEPT !.at = "cached"])
    /\ UNCHANGED <<db, builtins, admitted, hits>> /\ Still

Answer(c, ch, row) ==
    /\ builtins' = [k \in DOMAIN builtins \cup {CacheKey(call[c])} |-> IF k = CacheKey(call[c]) THEN ch ELSE builtins[k]]
    /\ admitted' = [ch |-> row, loc |-> call[c].loc, kind |-> call[c].kind, builtin |-> TRUE]
    /\ Unlock(c)
    /\ Step(c, Idle)

Forget(key) == [k \in DOMAIN builtins \ {key} |-> builtins[k]]

CheckCache(c) ==
    /\ call[c].at = "cached"
    /\ LET key == CacheKey(call[c])
           hit == key \in DOMAIN builtins /\ GetChannel(db, builtins[key])
       IN  IF hit THEN Answer(c, builtins[key], db.channels[builtins[key]])
           ELSE builtins' = Forget(key) /\ Step(c, [call[c] EXCEPT !.at = "lookup"]) /\ UNCHANGED <<mu, admitted>>
    /\ UNCHANGED <<db, hits>> /\ Still

Lookup(c) ==
    /\ call[c].at = "lookup"
    /\ LET rows == BuiltinChannel(db, call[c].loc, call[c].kind)
       IN  IF rows # {} THEN Answer(c, Min(rows), db.channels[Min(rows)])
           ELSE Step(c, [call[c] EXCEPT !.at = "create"]) /\ UNCHANGED <<builtins, mu, admitted>>
    /\ UNCHANGED <<db, hits>> /\ Still

CreateBuiltin(c) ==
    /\ call[c].at = "create"
    /\ LET s == call[c]
           d == CreateChannel(db, s.loc, s.kind, TRUE)
       IN  IF GetLocationByID(db, s.loc) THEN db' = d /\ Answer(c, db.next, d.channels[db.next])
           ELSE Step(c, Idle) /\ Unlock(c) /\ UNCHANGED <<db, builtins, admitted>>
    /\ UNCHANGED hits /\ Still

-----------------------------------------------------------------------------
(* Password sign-ins: a manager's (SessionLogin), an operator's read-only    *)
(* token (Login) and his channel sign-in (ChannelLogin).                     *)

LimiterOf(door) == IF door = "store" THEN "store" ELSE "operator"

UserKey(s) == <<LimiterOf(s.door), s.user>>

GlobalKey(s) == <<LimiterOf(s.door), "*">>

(* throttled: both windows are looked at before the password is.             *)
Throttled(s) ==
    \/ ~AllowN(hits, UserKey(s), LoginFailMax, now)
    \/ ~AllowN(hits, GlobalKey(s), LoginGlobalMax, now)

SignIn(c, door, user) ==
    LET s == [at |-> "password", door |-> door, user |-> user]
    IN  /\ Begin(c, "login", IF Throttled(s) THEN Idle ELSE s)
        /\ hits' = Prune(Prune(hits, UserKey(s), now), GlobalKey(s), now)
        /\ UNCHANGED <<db, builtins, mu, admitted>> /\ Still

Accounts(s) ==
    IF s.door = "store" THEN GetTenantAuthByUsername(db, s.user) ELSE GetOperatorAuthByUsername(db, s.user)

(* A wrong password, or nobody of that name: failed counts it twice.         *)
WrongPassword(c) ==
    /\ call[c].at = "password"
    /\ hits' = Add(hits, UserKey(call[c]), now)
    /\ Step(c, [call[c] EXCEPT !.at = "failed"])
    /\ UNCHANGED <<db, builtins, mu, admitted>> /\ Still

CountGlobal(c) ==
    /\ call[c].at = "failed"
    /\ hits' = Add(hits, GlobalKey(call[c]), now)
    /\ Step(c, Idle)
    /\ UNCHANGED <<db, builtins, mu, admitted>> /\ Still

RightPassword(c) ==
    /\ call[c].at = "password"
    /\ \E id \in Accounts(call[c]) : Step(c, [at |-> "signed", door |-> call[c].door, id |-> id])
    /\ hits' = Reset(hits, UserKey(call[c]))
    /\ UNCHANGED <<db, builtins, mu, admitted>> /\ Still

(* The cookie or the token; a store or an operator deleted since gets none.  *)
Mint(c) ==
    /\ call[c].at = "signed"
    /\ LET s == call[c]
           l == PrimaryLocation(db, s.id)
       IN  /\ cookies' = IF s.door = "store" /\ l # NONE THEN cookies \cup {Claims(s.id, l, SessionTTL, NONE)} ELSE cookies
           /\ db' = IF s.door # "store" /\ GetOperatorByID(db, s.id)
                    THEN CreateOperatorToken(db, s.id, s.door = "channel",
                                             IF s.door = "channel" THEN now + SessionTTL ELSE NONE)
                    ELSE db
    /\ Step(c, Idle)
    /\ UNCHANGED <<accessVars, now, untold, unsent, bare, faults>>

(* A failed statement releases builtinMu (defer).                            *)
RequestFails(c) ==
    /\ CallFails(c)
    /\ Unlock(c)
    /\ UNCHANGED <<builtins, admitted, hits>>

(* main restarts: calls end where they are; the cache, the lock and the      *)
(* windows were in memory.                                                   *)
MainRestarts ==
    /\ faults > 0
    /\ faults' = faults - 1
    /\ EndEarly(DOMAIN call)
    /\ call' = [c \in DOMAIN call |-> Idle]
    /\ builtins' = << >> /\ mu' = NONE /\ hits' = << >>
    /\ UNCHANGED <<db, cookies, now, untold, left, admitted>>

Tick ==
    /\ left.tick > 0
    /\ left' = [left EXCEPT !.tick = @ - 1]
    /\ now' = now + 1
    /\ UNCHANGED <<db, call, cookies, untold, unsent, bare, faults, accessVars>>

-----------------------------------------------------------------------------
ChannelAdmin(c) ==
    \/ \E l \in DOMAIN db.locs, kind \in Kinds : AdminCreateChannel(c, l, kind)
    \/ \E ch \in DOMAIN db.channels :
         \/ \E v \in Values : EditChannel(c, ch, v, v)
         \/ Rotate(c, ch) \/ Revoke(c, ch) \/ RemoveChannel(c, ch)
    \/ \E user \in Users : AdminCreateOperator(c, user)
    \/ \E o \in DOMAIN db.ops :
         \/ \E v \in Values : AdminUpdateOperator(c, o, v)
         \/ AdminDeleteOperator(c, o) \/ AdminRevokeTokens(c, o)
         \/ \E locs \in SUBSET DOMAIN db.locs : SetAllowedLocations(c, o, locs)
    \/ ReplaceLocations(c)

ChannelRequest(c) ==
    \/ \E ch \in DOMAIN db.channels : AuthenticateKey(c, ch)
    \/ \E token \in DOMAIN db.tokens :
         \/ \E l \in DOMAIN db.locs : AuthenticateSession(c, token, l)
         \/ ChannelLogout(c, token)
    \/ \E l \in DOMAIN db.locs : BuiltinVendor(c, l)
    \/ CheckAllowed(c) \/ Lock(c) \/ CheckCache(c) \/ Lookup(c) \/ CreateBuiltin(c)

LoginRequest(c) ==
    \/ \E s \in Logins : SignIn(c, s[1], s[2])
    \/ WrongPassword(c) \/ CountGlobal(c) \/ RightPassword(c) \/ Mint(c)

AccessInit ==
    /\ builtins = << >>
    /\ mu = NONE
    /\ admitted = NONE
    /\ hits = << >>

=============================================================================
