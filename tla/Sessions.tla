------------------------------- MODULE Sessions -------------------------------
(* Sessions, tokens and keys of one account: the SDK clients and the CLI that *)
(* hold a token pair (sdk/go, sdk/javascript, sdk/python, internal/cli), the  *)
(* gateway that authenticates requests (services/gateway), the auth service   *)
(* that mints, rotates and revokes (services/auth, internal/auth), the users  *)
(* service that creates and deletes the account (services/users), and the     *)
(* rotation of JWT_SECRET (scripts/rotate-jwt-secret.sh).                     *)
(*                                                                            *)
(* A session is the number of its row; it stands for its refresh token and    *)
(* for the access token minted with it.  Time is counted in ticks: what an    *)
(* access token or a cached validation has left, how long a call has been     *)
(* under way, and for how long a credential has been bad.                     *)
EXTENDS Naturals, FiniteSets

CONSTANTS
    Threads,        \* goroutines, async calls or processes that use a client
    Clients,
    ClientOf,       \* Threads -> Clients
    Pods,           \* replicas of the auth service
    Modes,          \* scenarios: kind (Clients -> "go", "js", "python" or "cli"), threads and
                    \* pods in use, ops (a set of operations), how many calls, ticks and
                    \* rotations there are, and how many faults of kinds
    MaxSessions,    \* bound: rows of sessions
    MaxSecrets,     \* bound: values JWT_SECRET has
    AccessTokenTTL, RefreshSkew, authCacheTTL, upstreamCallTimeout   \* in ticks

ASSUME TimesAssumption ==
    /\ {AccessTokenTTL, RefreshSkew, authCacheTTL, upstreamCallTimeout} \subseteq Nat \ {0}
    /\ RefreshSkew < AccessTokenTTL

ASSUME BoundsAssumption == {MaxSessions, MaxSecrets} \subseteq Nat

None    == 0
Session == 1 .. MaxSessions
Secret  == 1 .. MaxSecrets

ASSUME ClientsAssumption == ClientOf \in [Threads -> Clients] /\ None \notin Threads

(* "Not thread-safe around token rotation ... use one client per thread"     *)
(* (sdk/python).                                                             *)
ASSUME ModesAssumption ==
    \A md \in Modes :
        /\ md.holds \in [Clients -> Session \cup {None}] /\ md.threads \subseteq Threads /\ md.pods \subseteq Pods
        /\ md.calls \in Nat /\ md.ticks \in Nat /\ md.rotations \in Nat /\ md.rotations + 1 \in Secret
        /\ \A t, u \in md.threads :
              md.kind[ClientOf[t]] = "python" /\ ClientOf[t] = ClientOf[u] => t = u

VARIABLES
    mode,
    account,    \* the users row: "none", "active", "deleted"
    session,    \* Session -> state of the row; "none" is no (committed) row
    root,       \* Session -> the session of the login it descends from
    life,       \* Session -> ticks its access token has left
    signed,     \* Session -> the secret its access token is signed with
    denylist,   \* access tokens in Redis under revokedJTIKey
    redis,      \* "up", "down", or "back" after an outage
    cache,      \* Session -> ticks authCache keeps its validation
    apiKey,     \* the api_keys row: "none", "active", "revoked"
    bad,        \* ticks since a token, the key or the account became bad
    tokens,     \* Clients -> the pair it holds
    refreshing, \* Clients -> the thread in refreshNow
    th,         \* Threads -> its operation
    out,        \* Clients -> root of the session its last logout() was about, if no
                \* refresh of the client ran meanwhile
    alarm,      \* whether refresh_token_reused fired, and the logins it ended, see below
    secrets,    \* the Kubernetes Secret: JWT_SECRET and JWT_SECRET_PREVIOUS
    pod,        \* Pods -> the secrets it started with
    script,     \* where rotate-jwt-secret.sh is, and since when the window is open
    calls,      \* operations started
    ticks,      \* time passed
    faults      \* the faults that happened

database == <<account, session, root, apiKey>>
token    == <<life, signed, bad>>
gateway  == <<denylist, redis, cache>>
client   == <<tokens, refreshing, out>>
rotation == <<secrets, pod, script>>
vars     == <<mode, database, token, gateway, client, th, alarm, rotation, calls, ticks, faults>>

Ops    == {"login", "api", "refresh", "logout", "key", "mkkey"}
InTx   == {"tx", "mint"}                     \* the auth service is about to commit a new pair
Timed  == InTx \cup {"validated", "resolved"}
OnWire == {"rotated", "paired", "loggedout"}
Thread == [pc : {"idle", "begin", "want", "join", "refresh", "reuse", "denied", "build", "send",
                 "serve", "refused"} \cup Timed \cup OnWire,
           op : Ops \cup {"none"}, tok : Session \cup {None}, ref : Session \cup {None},
           body : Session \cup {None}, new : Session \cup {None}, snap : SUBSET Session,
           retried : BOOLEAN, then : {"none", "build", "begin", "idle"}, age : 0 .. upstreamCallTimeout]

(* How long after it went bad a credential may still be served: a validation *)
(* that was under way when it went bad is cached when it arrives; a session  *)
(* that was being minted when the account was deleted lives a token's life.  *)
TokenGrace   == authCacheTTL + upstreamCallTimeout
AccountGrace == upstreamCallTimeout + AccessTokenTTL + TokenGrace
BadCap       == AccountGrace + 1

TypeOK ==
    /\ mode \in Modes
    /\ account \in {"none", "active", "deleted"}
    /\ session \in [Session -> {"none", "live", "expired", "revoked"}]
    /\ root \in [Session -> Session \cup {None}]
    /\ life \in [Session -> 0 .. AccessTokenTTL]
    /\ signed \in [Session -> Secret \cup {None}]
    /\ denylist \subseteq Session
    /\ redis \in {"up", "down", "back"}
    /\ cache \in [Session -> 0 .. authCacheTTL]
    /\ apiKey \in {"none", "active", "revoked"}
    /\ bad \in [token : [Session -> 0 .. BadCap], key : 0 .. BadCap, account : 0 .. BadCap]
    /\ tokens \in [Clients -> Session \cup {None}]
    /\ refreshing \in [Clients -> Threads \cup {None}]
    /\ th \in [Threads -> Thread]
    /\ out \in [Clients -> Session \cup {None}]
    /\ alarm \in [fired : BOOLEAN, ended : SUBSET Session]
    /\ secrets \in [primary : Secret, previous : Secret \cup {None}]
    /\ pod \in [Pods -> [primary : Secret, previous : Secret \cup {None}]]
    /\ script \in [at : {"idle", "opening", "open", "closing"}, age : 0 .. AccessTokenTTL]
    /\ calls \in 0 .. mode.calls /\ ticks \in 0 .. mode.ticks
    /\ faults \in SUBSET mode.kinds

Resting == [pc |-> "idle", op |-> "none", tok |-> None, ref |-> None, body |-> None, new |-> None,
            snap |-> {}, retried |-> FALSE, then |-> "none", age |-> 0]

(* Every client of the scenario has logged in; the sessions are the first.   *)
Init ==
    /\ mode \in Modes
    /\ account = IF {"register", "create"} \cap mode.ops # {} THEN "none" ELSE "active"
    /\ session = [s \in Session |-> IF \E c \in Clients : mode.holds[c] = s THEN "live" ELSE "none"]
    /\ root = [s \in Session |-> IF session[s] = "live" THEN s ELSE None]
    /\ life = [s \in Session |-> IF session[s] = "live" THEN AccessTokenTTL ELSE 0]
    /\ signed = [s \in Session |-> IF session[s] = "live" THEN 1 ELSE None]
    /\ denylist = {} /\ redis = "up"
    /\ cache = [s \in Session |-> 0]
    /\ apiKey = "none"
    /\ bad = [token |-> [s \in Session |-> 0], key |-> 0, account |-> 0]
    /\ tokens = mode.holds
    /\ refreshing = [c \in Clients |-> None]
    /\ th = [t \in Threads |-> Resting]
    /\ out = [c \in Clients |-> None]
    /\ alarm = [fired |-> FALSE, ended |-> {}]
    /\ secrets = [primary |-> 1, previous |-> None]
    /\ pod = [p \in Pods |-> secrets]
    /\ script = [at |-> "idle", age |-> 0]
    /\ calls = 0 /\ ticks = 0 /\ faults = {}

Fault(k) ==
    /\ k \in mode.kinds \ faults
    /\ Cardinality(faults) < mode.faults
    /\ faults' = faults \cup {k}

kind(t) == mode.kind[ClientOf[t]]
sdk(t)  == kind(t) # "cli"
held(t) == tokens[ClientOf[t]]

Goto(t, where) == th' = [th EXCEPT ![t].pc = where]

-------------------------------------------------------------------------------
(* The clients.                                                              *)

(* A caller starts an operation.  logout() takes the refresh token it will   *)
(* send before the request looks at the age of the access token; the CLI     *)
(* never refreshes.                                                          *)
Call(t, op) ==
    /\ th[t].pc = "idle" /\ t \in mode.threads
    /\ op \in mode.ops /\ calls < mode.calls
    /\ op \in {"login", "key"} \/ held(t) # None
    /\ op = "refresh" => sdk(t)
    /\ calls' = calls + 1
    /\ th' = [th EXCEPT ![t] = [Resting EXCEPT
                !.op   = op,
                !.body = IF op = "logout" THEN held(t) ELSE None,
                !.then = IF op = "refresh" THEN "idle" ELSE "none",
                !.pc   = CASE op = "refresh" -> "want"
                           [] op = "key"     -> "send"
                           [] sdk(t)         -> "begin"
                           [] OTHER          -> "build"]]
    /\ UNCHANGED <<mode, database, token, gateway, client, alarm, rotation, ticks, faults>>

(* The access token is expired or within the skew of expiring.               *)
stale(t) == held(t) # None /\ life[held(t)] <= RefreshSkew

ensureFreshToken(t) ==
    /\ th[t].pc = "begin"
    /\ th' = [th EXCEPT ![t].pc = IF stale(t) THEN "want" ELSE "build", ![t].then = "build"]
    /\ UNCHANGED <<mode, database, token, gateway, client, alarm, rotation, calls, ticks, faults>>

Forget(t) == tokens' = [tokens EXCEPT ![ClientOf[t]] = None]

(* How an operation fails.  The CLI's logout drops the local pair all the    *)
(* same: a half-dead session does not trap the user.                         *)
Throw(t) ==
    /\ th' = [th EXCEPT ![t] = Resting]
    /\ IF th[t].op = "logout" /\ ~sdk(t) THEN Forget(t) ELSE UNCHANGED tokens
    /\ UNCHANGED <<refreshing, out>>

(* A refresh is over for t and for the calls that joined it: they go on with *)
(* what they were about to do, or fail with it.                              *)
Finished(r, ok) == IF ok /\ r.then # "idle" THEN [r EXCEPT !.pc = r.then, !.ref = None, !.new = None]
                   ELSE Resting

(* Mutant: when the refresh fails, the calls that joined it are not told.    *)
RefreshedAlone(t, ok) ==
    /\ refreshing' = [refreshing EXCEPT ![ClientOf[t]] = None]
    /\ th' = [u \in Threads |->
                IF u = t \/ (ok /\ ClientOf[u] = ClientOf[t] /\ th[u].pc = "join")
                THEN Finished(th[u], ok) ELSE th[u]]

Refreshed(t, ok) ==
    /\ refreshing' = [refreshing EXCEPT ![ClientOf[t]] = None]
    /\ th' = [u \in Threads |->
                IF u = t \/ (ClientOf[u] = ClientOf[t] /\ th[u].pc = "join")
                THEN Finished(th[u], ok) ELSE th[u]]

StartRefresh(t) ==
    /\ th' = [th EXCEPT ![t].pc = "refresh", ![t].ref = held(t)]
    /\ refreshing' = [refreshing EXCEPT ![ClientOf[t]] = t]

(* sdk/go refreshNow: one goroutine at a time, and whoever waited for the    *)
(* mutex looks again before it spends the token.                             *)
refreshNowGo(t) ==
    /\ th[t].pc = "want" /\ kind(t) = "go"
    /\ refreshing[ClientOf[t]] = None
    /\ IF stale(t) THEN StartRefresh(t)
       ELSE th' = [th EXCEPT ![t] = Finished(@, TRUE)] /\ UNCHANGED refreshing
    /\ UNCHANGED <<mode, database, token, gateway, tokens, out, alarm, rotation, calls, ticks, faults>>

(* Mutant: every caller starts a refresh of its own.                         *)
refreshNowJSUnshared(t) ==
    /\ th[t].pc = "want" /\ kind(t) = "js"
    /\ IF held(t) = None THEN th' = [th EXCEPT ![t] = Resting] /\ UNCHANGED refreshing
       ELSE StartRefresh(t)
    /\ UNCHANGED <<mode, database, token, gateway, tokens, out, alarm, rotation, calls, ticks, faults>>

(* sdk/javascript _refreshNow: concurrent callers share the promise under    *)
(* way.                                                                      *)
refreshNowJS(t) ==
    /\ th[t].pc = "want" /\ kind(t) = "js"
    /\ CASE held(t) = None                       -> th' = [th EXCEPT ![t] = Resting] /\ UNCHANGED refreshing
         [] held(t) # None /\ refreshing[ClientOf[t]] # None -> Goto(t, "join") /\ UNCHANGED refreshing
         [] OTHER                                -> StartRefresh(t)
    /\ UNCHANGED <<mode, database, token, gateway, tokens, out, alarm, rotation, calls, ticks, faults>>

(* sdk/python _refresh_now: no guard; the class documents that a client      *)
(* serves one thread at a time.                                              *)
refreshNowPython(t) ==
    /\ th[t].pc = "want" /\ kind(t) = "python"
    /\ IF held(t) = None THEN th' = [th EXCEPT ![t] = Resting] /\ UNCHANGED refreshing
       ELSE StartRefresh(t)
    /\ UNCHANGED <<mode, database, token, gateway, tokens, out, alarm, rotation, calls, ticks, faults>>

refreshNow(t) == refreshNowGo(t) \/ refreshNowJS(t) \/ refreshNowPython(t)

setTokens(t) ==
    /\ th[t].pc = "rotated"
    /\ tokens' = [tokens EXCEPT ![ClientOf[t]] = th[t].new]
    /\ Refreshed(t, TRUE)
    /\ UNCHANGED <<mode, database, token, gateway, out, alarm, rotation, calls, ticks, faults>>

refreshFailed(t) ==
    /\ th[t].pc = "denied"
    /\ Refreshed(t, FALSE)
    /\ UNCHANGED <<mode, database, token, gateway, tokens, out, alarm, rotation, calls, ticks, faults>>

(* The request leaves with the access token the client holds now.            *)
newRequest(t) ==
    /\ th[t].pc = "build"
    /\ th' = [th EXCEPT ![t].pc = "send", ![t].tok = held(t)]
    /\ UNCHANGED <<mode, database, token, gateway, client, alarm, rotation, calls, ticks, faults>>

canRefresh(t) == held(t) # None

(* One silent retry: a 401 is answered by one refresh, and the request is    *)
(* built again.  sdk/go do, sdk/javascript and sdk/python _request; the      *)
(* CLI's do reports the 401.                                                 *)
doGo(t)          == kind(t) = "go" /\ ~th[t].retried /\ canRefresh(t)
requestJS(t)     == kind(t) = "js" /\ ~th[t].retried /\ canRefresh(t)
requestPython(t) == kind(t) = "python" /\ ~th[t].retried /\ canRefresh(t)

unauthorized(t) ==
    /\ th[t].pc = "refused"
    /\ IF th[t].op # "key" /\ (doGo(t) \/ requestJS(t) \/ requestPython(t))
       THEN /\ th' = [th EXCEPT ![t].pc = "want", ![t].then = "begin", ![t].retried = TRUE]
            /\ UNCHANGED client
       ELSE Throw(t)
    /\ UNCHANGED <<mode, database, token, gateway, alarm, rotation, calls, ticks, faults>>

(* login() stores the pair on the client; the CLI saves it in its config.    *)
StorePair(t) ==
    /\ th[t].pc = "paired"
    /\ tokens' = [tokens EXCEPT ![ClientOf[t]] = th[t].new]
    /\ out' = [out EXCEPT ![ClientOf[t]] = None]
    /\ th' = [th EXCEPT ![t] = Resting]
    /\ UNCHANGED <<mode, database, token, gateway, refreshing, alarm, rotation, calls, ticks, faults>>

loggedIn(t) == sdk(t) /\ StorePair(t)
cmdLogin(t) == ~sdk(t) /\ StorePair(t)

DropPair(t) ==
    /\ th[t].pc = "loggedout"
    /\ Forget(t)
    /\ out' = [out EXCEPT ![ClientOf[t]] =
                 IF held(t) = th[t].body /\ refreshing[ClientOf[t]] = None THEN root[th[t].body] ELSE None]
    /\ th' = [th EXCEPT ![t] = Resting]
    /\ UNCHANGED <<mode, database, token, gateway, refreshing, alarm, rotation, calls, ticks, faults>>

loggedOut(t) == sdk(t) /\ DropPair(t)
cmdLogout(t) == ~sdk(t) /\ DropPair(t)

(* The answer never arrives: the connection broke or the client's timeout    *)
(* was shorter.  What the server committed stays committed.                  *)
Lose(t) ==
    /\ Fault("lost")
    /\ \/ /\ th[t].pc = "rotated"
          /\ Refreshed(t, FALSE)
          /\ UNCHANGED <<tokens, out>>
       \/ /\ th[t].pc \in {"paired", "loggedout", "refused"}
          /\ Throw(t)
    /\ UNCHANGED <<mode, database, token, gateway, alarm, rotation, calls, ticks>>

-------------------------------------------------------------------------------
(* The auth service.                                                         *)

verifies(p) == {pod[p].primary, pod[p].previous} \ {None}

(* NewVerifier: the same value in both slots is no window.                   *)
NewVerifier(primary, previous) ==
    [primary |-> primary, previous |-> IF previous = primary THEN None ELSE previous]

(* A JWT is good for one secret until it expires.                            *)
goodFor(secret, s) == secret # None /\ signed[s] = secret /\ life[s] > 0

ParseAccessToken(p, s) == goodFor(pod[p].primary, s) \/ goodFor(pod[p].previous, s)

(* The denylist fails open.                                                  *)
isRevoked(s) == redis # "down" /\ s \in denylist

Unused(s)  == session[s] = "none" /\ \A t \in Threads : th[t].new # s
NewSession == CHOOSE s \in Session : Unused(s)

MintAccessToken(s, p) ==
    /\ life' = [life EXCEPT ![s] = AccessTokenTTL]
    /\ signed' = [signed EXCEPT ![s] = pod[p].primary]

insertSession(s, from) == root' = [root EXCEPT ![s] = IF from = None THEN s ELSE root[from]]

revokeSession(row, s) == [row EXCEPT ![s] = "revoked"]

(* mintTokenPair: the access token is signed with the primary secret of the  *)
(* replica, and the session row is committed with what the transaction made  *)
(* of the others.                                                            *)
mintTokenPair(s, from, rows, p) ==
    /\ MintAccessToken(s, p)
    /\ insertSession(s, from)
    /\ session' = [rows EXCEPT ![s] = "live"]
    /\ UNCHANGED <<account, apiKey, bad>>

(* A row another transaction has locked.                                     *)
Locked(s, t) == \E u \in Threads \ {t} : th[u].pc \in {"tx", "reuse"} /\ th[u].ref = s

(* The gateway's handlers pass these requests on as they are; login and      *)
(* refresh need no token.                                                    *)
loginRequest(t)   == th[t].pc = "send" /\ th[t].op = "login"
refreshRequest(t) == th[t].pc = "refresh"
logoutRequest(t)  == th[t].pc = "serve" /\ th[t].op = "logout"

(* The password is the account's; a deleted account has no row here.         *)
userByEmail == account = "active"

(* Login reads the user and checks the password, then mints.                 *)
Login(t) ==
    /\ loginRequest(t)
    /\ \/ userByEmail /\ (\E s \in Session : Unused(s))
          /\ th' = [th EXCEPT ![t].pc = "mint", ![t].new = NewSession, ![t].age = 0]
       \/ ~userByEmail /\ Goto(t, "refused")
    /\ UNCHANGED <<mode, database, token, gateway, client, alarm, rotation, calls, ticks, faults>>

LoginCommit(t, p) ==
    /\ th[t].pc = "mint" /\ p \in mode.pods
    /\ mintTokenPair(th[t].new, None, session, p)
    /\ Goto(t, "paired")
    /\ UNCHANGED <<mode, gateway, client, alarm, rotation, calls, ticks, faults>>

(* Mutant: the row is read without FOR UPDATE.                               *)
sessionByHash(t) ==
    LET r == th[t].ref IN
    /\ refreshRequest(t)
    /\ CASE session[r] = "revoked" ->
              th' = [th EXCEPT ![t].pc = "reuse",
                               ![t].snap = {s \in Session : session[s] \in {"live", "expired"}}]
         [] session[r] = "expired" \/ (session[r] = "live" /\ account # "active") -> Goto(t, "denied")
         [] OTHER ->
              /\ \E s \in Session : Unused(s)
              /\ th' = [th EXCEPT ![t].pc = "tx", ![t].new = NewSession, ![t].age = 0]
    /\ UNCHANGED <<mode, database, token, gateway, client, alarm, rotation, calls, ticks, faults>>

(* Refresh, up to its locking read: FOR UPDATE waits for a transaction that  *)
(* holds the row.  A revoked session is a reuse; revokeAllSessions sees the  *)
(* rows that are committed when its statement starts.                        *)
sessionByHashForUpdate(t) ==
    LET r == th[t].ref IN
    /\ refreshRequest(t)
    /\ ~Locked(r, t)
    /\ CASE session[r] = "revoked" ->
              th' = [th EXCEPT ![t].pc = "reuse",
                               ![t].snap = {s \in Session : session[s] \in {"live", "expired"}}]
         [] session[r] = "expired" \/ (session[r] = "live" /\ account # "active") -> Goto(t, "denied")
         [] OTHER ->
              /\ \E s \in Session : Unused(s)
              /\ th' = [th EXCEPT ![t].pc = "tx", ![t].new = NewSession, ![t].age = 0]
    /\ UNCHANGED <<mode, database, token, gateway, client, alarm, rotation, calls, ticks, faults>>

(* The rest of the transaction: the presented session is revoked, the next   *)
(* one inserted.                                                             *)
RefreshCommit(t, p) ==
    /\ th[t].pc = "tx" /\ p \in mode.pods
    /\ mintTokenPair(th[t].new, th[t].ref, revokeSession(session, th[t].ref), p)
    /\ Goto(t, "rotated")
    /\ UNCHANGED <<mode, gateway, client, alarm, rotation, calls, ticks, faults>>

(* A transaction that fails leaves the rows as they were; so does the one of *)
(* a reuse, whose revocations and audit row are rolled back.                 *)
TxFails(t) ==
    /\ th[t].pc \in InTx \cup {"reuse"}
    /\ Fault("tx")
    /\ th' = [th EXCEPT ![t].pc = IF @ = "mint" THEN "refused" ELSE "denied", ![t].new = None,
                        ![t].snap = {}]
    /\ UNCHANGED <<mode, database, token, gateway, client, alarm, rotation, calls, ticks>>

(* The alarm is raised.  It ends the login of the token that came back if    *)
(* the statement saw the live session of that login: a rotation that         *)
(* overlaps the statement puts the next one out of its sight.                *)
refreshTokenReused(t) ==
    LET login == root[th[t].ref] IN
    alarm' = [fired |-> TRUE,
              ended |-> IF \A s \in Session : root[s] = login /\ session[s] = "live" => s \in th[t].snap
                        THEN alarm.ended \cup {login} ELSE alarm.ended]

(* Mutant: the error of the call rolls the revocations back.                 *)
revokeAllRolledBack(t) ==
    /\ th[t].pc = "reuse"
    /\ \A s \in th[t].snap : ~Locked(s, t)
    /\ refreshTokenReused(t)
    /\ th' = [th EXCEPT ![t].pc = "denied", ![t].snap = {}]
    /\ UNCHANGED <<mode, database, token, gateway, client, rotation, calls, ticks, faults>>

(* The reuse is committed although the call fails: every session the         *)
(* statement saw is revoked, once the rows it waits for are free.            *)
revokeAllSessions(t) ==
    /\ th[t].pc = "reuse"
    /\ \A s \in th[t].snap : ~Locked(s, t)
    /\ session' = [s \in Session |-> IF s \in th[t].snap THEN "revoked" ELSE session[s]]
    /\ refreshTokenReused(t)
    /\ th' = [th EXCEPT ![t].pc = "denied", ![t].snap = {}]
    /\ UNCHANGED <<mode, account, root, apiKey, token, gateway, client, rotation, calls, ticks, faults>>

(* Logout revokes the session of the refresh token in the body and reports   *)
(* success for any.                                                          *)
Logout(t) ==
    /\ logoutRequest(t)
    /\ ~Locked(th[t].body, t)
    /\ session' = revokeSession(session, th[t].body)
    /\ Goto(t, "loggedout")
    /\ UNCHANGED <<mode, account, root, apiKey, token, gateway, client, alarm, rotation, calls, ticks, faults>>

RevokeToken(s, p) ==
    /\ "revoke" \in mode.ops /\ p \in mode.pods
    /\ ParseAccessToken(p, s) /\ redis # "down" /\ s \notin denylist
    /\ denylist' = denylist \cup {s}
    /\ UNCHANGED <<mode, database, token, redis, cache, client, th, alarm, rotation, calls, ticks, faults>>

(* Seven days pass for a session nobody used.                               *)
RefreshTokenExpires(s) ==
    /\ session[s] = "live" /\ life[s] = 0 /\ ~Locked(s, None)
    /\ Fault("expiry")
    /\ session' = [session EXCEPT ![s] = "expired"]
    /\ UNCHANGED <<mode, account, root, apiKey, token, gateway, client, th, alarm, rotation, calls, ticks>>

(* While Redis is down a token on the denylist counts as good.               *)
RedisFails ==
    \/ /\ redis = "up" /\ Fault("redis")
       /\ redis' = "down"
       /\ bad' = [bad EXCEPT !.token = [s \in Session |-> IF life[s] > 0 THEN 0 ELSE @[s]]]
       /\ UNCHANGED <<mode, database, life, signed, denylist, cache, client, th, alarm, rotation, calls, ticks>>
    \/ /\ redis = "down"
       /\ redis' = "back"
       /\ UNCHANGED <<mode, database, token, denylist, cache, client, th, alarm, rotation, calls, ticks, faults>>

-------------------------------------------------------------------------------
(* The gateway's authentication, and its keys.                               *)

(* The request comes to the authentication middleware, with a bearer token   *)
(* or with none.                                                             *)
middleware(t)  == th[t].pc = "send" /\ th[t].op \in {"api", "logout", "mkkey"}
bearerToken(t) == th[t].tok

(* A validation still cached is taken without asking.                        *)
get(t) ==
    /\ middleware(t)
    /\ bearerToken(t) # None /\ cache[bearerToken(t)] > 0
    /\ Goto(t, "serve")
    /\ UNCHANGED <<mode, database, token, gateway, client, alarm, rotation, calls, ticks, faults>>

(* Mutant: only the signature is checked.                                    *)
ValidateTokenUnlisted(t, p) ==
    LET s == bearerToken(t) IN
    /\ middleware(t) /\ p \in mode.pods
    /\ s # None => cache[s] = 0
    /\ th' = [th EXCEPT ![t].age = 0,
                        ![t].pc = IF s # None /\ signed[s] \in verifies(p) THEN "validated" ELSE "refused"]
    /\ UNCHANGED <<mode, database, token, gateway, client, alarm, rotation, calls, ticks, faults>>

ValidateToken(t, p) ==
    LET s == bearerToken(t) IN
    /\ middleware(t) /\ p \in mode.pods
    /\ s # None => cache[s] = 0
    /\ th' = [th EXCEPT ![t].age = 0,
                        ![t].pc = IF s # None /\ ParseAccessToken(p, s) /\ ~isRevoked(s) THEN "validated"
                                  ELSE "refused"]
    /\ UNCHANGED <<mode, database, token, gateway, client, alarm, rotation, calls, ticks, faults>>

(* The answer is cached for authCacheTTL from its arrival on.                *)
put(t) ==
    /\ th[t].pc = "validated"
    /\ cache' = [cache EXCEPT ![th[t].tok] = authCacheTTL]
    /\ Goto(t, "serve")
    /\ UNCHANGED <<mode, database, token, denylist, redis, client, alarm, rotation, calls, ticks, faults>>

(* serveAPIKey: the row is read for every request, nothing is cached.        *)
Resolve(t) ==
    /\ th[t].pc = "send" /\ th[t].op = "key"
    /\ th' = [th EXCEPT ![t].pc = IF apiKey = "active" THEN "resolved" ELSE "refused", ![t].age = 0]
    /\ UNCHANGED <<mode, database, token, gateway, client, alarm, rotation, calls, ticks, faults>>

serveAPIKey(t) ==
    /\ th[t].pc = "resolved"
    /\ Goto(t, "serve")
    /\ UNCHANGED <<mode, database, token, gateway, client, alarm, rotation, calls, ticks, faults>>

(* The handler behind the middleware.                                        *)
Served(t) ==
    /\ th[t].pc = "serve" /\ th[t].op \in {"api", "key"}
    /\ th' = [th EXCEPT ![t] = Resting]
    /\ UNCHANGED <<mode, database, token, gateway, client, alarm, rotation, calls, ticks, faults>>

(* POST /api/keys: the row is committed before the key is shown.             *)
CreateKey(t) ==
    /\ th[t].pc = "serve" /\ th[t].op = "mkkey"
    /\ apiKey' = IF apiKey = "none" THEN "active" ELSE apiKey
    /\ th' = [th EXCEPT ![t] = Resting]
    /\ UNCHANGED <<mode, account, session, root, token, gateway, client, alarm, rotation, calls, ticks, faults>>

(* DELETE /api/keys/{id}, by the owner or an admin.                          *)
RevokeKey ==
    /\ apiKey = "active"
    /\ apiKey' = "revoked"
    /\ UNCHANGED <<mode, account, session, root, token, gateway, client, th, alarm, rotation, calls, ticks, faults>>

-------------------------------------------------------------------------------
(* The account, the secret, and time.                                        *)

(* The user, its role and its profile are inserted in one transaction; the   *)
(* e-mail of a deleted account stays taken.                                  *)
insertUser ==
    /\ account = "none"
    /\ account' = "active"
    /\ UNCHANGED <<mode, session, root, apiKey, token, gateway, client, th, alarm, rotation, calls, ticks, faults>>

Register   == "register" \in mode.ops /\ insertUser
CreateUser == "create" \in mode.ops /\ insertUser

(* softDeleteUser: sessions, tokens and keys stay as they are.               *)
DeleteUser ==
    /\ "delete" \in mode.ops
    /\ account = "active"
    /\ account' = "deleted"
    /\ UNCHANGED <<mode, session, root, apiKey, token, gateway, client, th, alarm, rotation, calls, ticks, faults>>

(* rotate-jwt-secret.sh: one patch sets both values; then the deployments    *)
(* restart, and the script waits for the rollout.  --finish is run when the  *)
(* window has been open for AccessTokenTTL.                                  *)
StartRotation ==
    /\ script.at = "idle" /\ secrets.primary < mode.rotations + 1
    /\ secrets' = [primary |-> secrets.primary + 1, previous |-> secrets.primary]
    /\ script' = [at |-> "opening", age |-> 0]
    /\ UNCHANGED <<mode, database, token, gateway, client, th, alarm, pod, calls, ticks, faults>>

RestartPod(p) ==
    /\ p \in mode.pods
    /\ pod[p] # NewVerifier(secrets.primary, secrets.previous)
    /\ pod' = [pod EXCEPT ![p] = NewVerifier(secrets.primary, secrets.previous)]
    /\ UNCHANGED <<mode, database, token, gateway, client, th, alarm, secrets, script, calls, ticks, faults>>

RolloutDone ==
    /\ script.at \in {"opening", "closing"}
    /\ \A p \in mode.pods : pod[p] = NewVerifier(secrets.primary, secrets.previous)
    /\ script' = [at |-> IF script.at = "opening" THEN "open" ELSE "idle", age |-> 0]
    /\ UNCHANGED <<mode, database, token, gateway, client, th, alarm, secrets, pod, calls, ticks, faults>>

FinishRotation ==
    /\ script.at = "open" /\ script.age = AccessTokenTTL
    /\ secrets' = [secrets EXCEPT !.previous = None]
    /\ script' = [at |-> "closing", age |-> 0]
    /\ UNCHANGED <<mode, database, token, gateway, client, th, alarm, pod, calls, ticks, faults>>

Min(a, b) == IF a < b THEN a ELSE b
Less(n)   == IF n = 0 THEN 0 ELSE n - 1

Since(isBad, n) == IF isBad THEN Min(n + 1, BadCap) ELSE 0

badToken(s) == root[s] # None /\ (life[s] = 0 \/ (s \in denylist /\ redis # "down"))

(* A tick.  A call that has taken its timeout ends before time goes on, and  *)
(* a handler that has been entered is let through.                           *)
Tick ==
    /\ \A t \in Threads : /\ th[t].pc \in Timed => th[t].age < upstreamCallTimeout
                          /\ th[t].pc # "serve"
    /\ life' = [s \in Session |-> Less(life[s])]
    /\ cache' = [s \in Session |-> Less(cache[s])]
    /\ bad' = [token   |-> [s \in Session |-> Since(badToken(s), bad.token[s])],
               key     |-> Since(apiKey = "revoked", bad.key),
               account |-> Since(account = "deleted", bad.account)]
    /\ th' = [t \in Threads |-> IF th[t].pc \in Timed THEN [th[t] EXCEPT !.age = @ + 1] ELSE th[t]]
    /\ script' = IF script.at = "open" THEN [script EXCEPT !.age = Min(@ + 1, AccessTokenTTL)] ELSE script
    /\ ticks < mode.ticks /\ ticks' = ticks + 1
    /\ UNCHANGED <<mode, database, signed, denylist, redis, client, alarm, secrets, pod, calls, faults>>

-------------------------------------------------------------------------------
ClientStep(t) ==
    \/ ensureFreshToken(t) \/ refreshNow(t) \/ setTokens(t) \/ refreshFailed(t)
    \/ newRequest(t) \/ unauthorized(t) \/ loggedIn(t) \/ cmdLogin(t) \/ loggedOut(t) \/ cmdLogout(t)

ServerStep(t) ==
    \/ Login(t) \/ sessionByHashForUpdate(t) \/ revokeAllSessions(t) \/ Logout(t)
    \/ get(t) \/ put(t) \/ Resolve(t) \/ serveAPIKey(t) \/ Served(t) \/ CreateKey(t)
    \/ \E p \in Pods : LoginCommit(t, p) \/ RefreshCommit(t, p) \/ ValidateToken(t, p)

Progress == \E t \in Threads : ClientStep(t) \/ ServerStep(t)

Next ==
    \/ Progress
    \/ \E t \in Threads : (\E op \in Ops : Call(t, op)) \/ Lose(t) \/ TxFails(t)
    \/ \E s \in Session : RefreshTokenExpires(s) \/ (\E p \in Pods : RevokeToken(s, p))
    \/ RedisFails \/ RevokeKey \/ Register \/ CreateUser \/ DeleteUser
    \/ StartRotation \/ (\E p \in Pods : RestartPod(p)) \/ RolloutDone \/ FinishRotation
    \/ Tick

Spec == Init /\ [][Next]_vars

(* Whoever is running a call runs on: goroutines and event loops are         *)
(* scheduled, and a database or gRPC call ends at its deadline at the latest. *)
FairSpec == Spec /\ WF_vars(Progress)

-------------------------------------------------------------------------------
(* Two clients were started with the same token pair.                        *)
SharedPair == \E c, d \in Clients : c # d /\ mode.holds[c] = mode.holds[d] /\ mode.holds[c] # None

(* Refresh-token rotation leaves one live session per login, whichever calls *)
(* present the same refresh token at once (services/auth/server.go Refresh   *)
(* and its SELECT ... FOR UPDATE).  After a logout() that no refresh of the  *)
(* same client overlapped the client holds no pair, and no session of the    *)
(* login is left, unless the answer to a refresh was lost or another client  *)
(* has the pair: then the token that logout() sends is not the last one      *)
(* (Logout of the SDKs and of services/auth).                                *)
OneLivePerLogin ==
    /\ \A s, q \in Session : session[s] = "live" /\ session[q] = "live" /\ root[s] = root[q] => s = q
    /\ \A c \in Clients : out[c] # None =>
          /\ tokens[c] = None
          /\ \/ "lost" \in faults \/ SharedPair
             \/ \A s \in Session : root[s] = out[c] => session[s] # "live"

(* A client whose pair nobody else holds, that loses no answer and does not  *)
(* log out meanwhile never presents a spent refresh token, however many of   *)
(* its calls refresh at once: the alarm of Refresh means what it says        *)
(* (sdk/go refreshNow, sdk/javascript _refreshNow, sdk/python _refresh_now). *)
NoFalseAlarm == alarm.fired => "lost" \in faults \/ "logout" \in mode.ops \/ SharedPair

(* A refresh token that is presented twice ends its login for good: once     *)
(* Refresh has committed the alarm, no session of that login is live and no  *)
(* refresh under way brings one back, although the call itself fails.  The   *)
(* one way out is a rotation of the same login that overlaps the statement   *)
(* of revokeAllSessions: its new session is left ("presenting a rotated-out  *)
(* token revokes all sessions of the user", docs/security/auth.md).          *)
AlarmEndsLogin ==
    \A s \in Session : root[s] \in alarm.ended => session[s] # "live"

(* A credential is not served for longer after it went bad than the caches   *)
(* and calls on its way allow: an expired or revoked access token, a revoked *)
(* API key, and any access token of a deleted account (authn.go, the         *)
(* denylist of ValidateToken unless Redis is down, Refresh and Login).       *)
BadCredentialsFade ==
    \A t \in Threads : th[t].pc = "serve" =>
        IF th[t].op = "key" THEN bad.key <= upstreamCallTimeout
        ELSE bad.token[th[t].tok] <= TokenGrace /\ bad.account <= AccountGrace

(* Outside a rollout every replica accepts every access token that has not   *)
(* expired, whichever replica minted it and whenever: the window opened and  *)
(* closed by rotate-jwt-secret.sh drops no token (internal/auth/rotation.go). *)
WindowKeepsTokens ==
    script.at \in {"idle", "open"} =>
        \A p \in mode.pods, s \in Session : life[s] > 0 => signed[s] \in verifies(p)

(* A credential is accepted for as long as it should be, and no longer.      *)
CredentialsHonoured == BadCredentialsFade /\ WindowKeepsTokens

(* Every operation of a client ends: callers that wait for the refresh of    *)
(* another are released when it succeeds and when it fails.                  *)
EveryOpReturns == <>[](\A t \in Threads : th[t].pc = "idle")
===============================================================================
