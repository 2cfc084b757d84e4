------------------------------ MODULE Sessions ------------------------------
(***************************************************************************)
(* Logins: the login server's gRPC handlers                                *)
(* (src/internal/server/login_server.go), the login and logout handlers of *)
(* the gateways (src/internal/server/gateway_server.go), and the Redis     *)
(* keys they share (src/internal/cache/session.go, user.go, redis.go):     *)
(* "session:<token>" and "online:<user>".                                  *)
(*                                                                         *)
(* A Redis command is atomic, and a handler that issues two of them is two *)
(* actions: anything may happen between.  A command may fail; every caller *)
(* here ignores that.  A gateway gives up on a login after three seconds,  *)
(* while the login server's handler goes on.                               *)
(*                                                                         *)
(* Time is in seconds, for a token is a hash of the user and the second.   *)
(***************************************************************************)
EXTENDS Naturals, FiniteSets

CONSTANTS
    Users,
    Banned,      \* users whose status in the users collection is not 0
    Conns,       \* client connections; a client has one, and one token
    Gateway,     \* the gateway each connection leads to
    Calls,       \* bound: logins the login server handles at a time
    SessionTTL,  \* seconds a session lasts (7200 in session.go)
    OnlineTTL,   \* seconds an online key lasts (1800 in user.go)
    MaxTime,     \* bound: seconds
    MaxFaults,   \* bound: failed Redis commands
    MaxLogins,   \* bound: login messages
    NoUser, NoToken, NoCall

\* A token is a hash of its user and of the second it was made in.
Tokens == [user : Users, second : 0 .. MaxTime]

ASSUME SessionsAssumption ==
    /\ Banned \subseteq Users
    /\ NoUser \notin Users /\ NoCall \notin Calls /\ NoToken \notin Tokens
    /\ SessionTTL \in Nat \ {0} /\ OnlineTTL \in Nat \ {0}
    /\ MaxTime \in Nat /\ MaxFaults \in Nat /\ MaxLogins \in Nat

VARIABLES
    now,
    faults,    \* Redis commands that failed so far
    logins,    \* login messages so far
    session,   \* Redis: token -> [user, expires]
    online,    \* Redis: user -> [node, expires]
    rpc,       \* the login server: each Login call
    conn,      \* each connection: open or not, and the user it is bound to
    handler,   \* each connection's handler on its gateway
    client,    \* each client: the user it logged in as and the token it was given
    api,       \* the gRPC call each client makes to the login server itself
    ghosts     \* history: users whose online key may outlive their connections

redis == <<session, online>>
gatewayVars == <<conn, handler>>
vars == <<now, faults, logins, redis, rpc, gatewayVars, client, api, ghosts>>

Closed == [open |-> FALSE, user |-> NoUser]
Stranger == [user |-> NoUser, token |-> NoToken]
Idle == [pc |-> "idle", user |-> NoUser, token |-> NoToken, call |-> NoCall]
NoApi == [pc |-> "idle", user |-> NoUser, token |-> NoToken]
NoLogin == [pc |-> "free", user |-> NoUser, token |-> NoToken]

Init ==
    /\ now = 0 /\ faults = 0 /\ logins = 0
    /\ session = [t \in {} |-> 0] /\ online = [u \in {} |-> 0]
    /\ rpc = [r \in Calls |-> NoLogin]
    /\ conn = [c \in Conns |-> Closed]
    /\ handler = [c \in Conns |-> Idle]
    /\ client = [c \in Conns |-> Stranger]
    /\ api = [c \in Conns |-> NoApi]
    /\ ghosts = {}

-----------------------------------------------------------------------------
(* Redis commands.  A failed one leaves the keys as they are. *)

With(f, k, v) == [j \in DOMAIN f \cup {k} |-> IF j = k THEN v ELSE f[j]]
Without(f, k) == [j \in DOMAIN f \ {k} |-> f[j]]

Fault == faults < MaxFaults /\ faults' = faults + 1

SetSession(t, u) ==
    \/ /\ session' = With(session, t, [user |-> u, expires |-> now + SessionTTL])
       /\ UNCHANGED faults
    \/ Fault /\ UNCHANGED session

DeleteSession(t) ==
    \/ session' = Without(session, t) /\ UNCHANGED faults
    \/ Fault /\ UNCHANGED session

\* Mutation: the session is written again instead of extended.
RefreshSessionBySet(t) == SetSession(t, t.user)

\* Mutation: the expiry is counted from the old one.
RefreshSessionAddsUp(t) ==
    \/ /\ t \in DOMAIN session
       /\ session' = [session EXCEPT ![t].expires = @ + SessionTTL]
       /\ UNCHANGED faults
    \/ t \notin DOMAIN session /\ UNCHANGED <<faults, session>>
    \/ Fault /\ UNCHANGED session

\* EXPIRE: a key that has gone meanwhile stays gone.
RefreshSession(t) ==
    \/ /\ t \in DOMAIN session
       /\ session' = [session EXCEPT ![t].expires = now + SessionTTL]
       /\ UNCHANGED faults
    \/ t \notin DOMAIN session /\ UNCHANGED <<faults, session>>
    \/ Fault /\ UNCHANGED session

SetUserOnline(c, u) ==
    \/ /\ online' = With(online, u, [node |-> Gateway[c], expires |-> now + OnlineTTL])
       /\ ghosts' = IF conn[c].open THEN ghosts ELSE ghosts \cup {u}
       /\ UNCHANGED faults
    \/ Fault /\ UNCHANGED <<online, ghosts>>

SetUserOffline(u) ==
    \/ online' = Without(online, u) /\ ghosts' = ghosts \ {u} /\ UNCHANGED faults
    \/ Fault /\ ghosts' = ghosts \cup {u} /\ UNCHANGED online

\* Seconds pass and keys expire.
Tick ==
    /\ now < MaxTime
    /\ now' = now + 1
    /\ session' = [t \in {s \in DOMAIN session : session[s].expires > now'} |-> session[t]]
    /\ online' = [u \in {w \in DOMAIN online : online[w].expires > now'} |-> online[u]]
    /\ ghosts' = ghosts \cap DOMAIN online'
    /\ UNCHANGED <<faults, logins, rpc, gatewayVars, client, api>>

-----------------------------------------------------------------------------
(* The login server: Login *)

\* Mutation: the hash leaves the user out.
TokenOfSecond(u) == [user |-> CHOOSE w \in Users : TRUE, second |-> now]

generateToken(u) == [user |-> u, second |-> now]

LoginStep(r, from, next) == rpc[r].pc = from /\ rpc' = [rpc EXCEPT ![r] = next]

Awaited(r) == \E c \in Conns : handler[c].call = r

\* GetByUsername fails, the password is wrong, or the user is banned; a handler
\* that is through and no longer awaited is gone.
LoginRefused(r) ==
    /\ LoginStep(r, "check", IF Awaited(r) THEN [rpc[r] EXCEPT !.pc = "refused"] ELSE NoLogin)
    /\ UNCHANGED <<now, logins, faults, redis, gatewayVars, client, api, ghosts>>

\* The user is found, the password verified: the token is made.  Whether
\* UpdateFields of the login time and SetUserInfo of the profile succeed makes no
\* difference: nobody reads either.
LoginVerified(r) ==
    /\ rpc[r].user \notin Banned
    /\ LoginStep(r, "check", [rpc[r] EXCEPT !.pc = "session",
                                            !.token = generateToken(rpc[r].user)])
    /\ UNCHANGED <<now, logins, faults, redis, gatewayVars, client, api, ghosts>>

\* sessionCache.SetSession, and Login returns.
LoginSetSession(r) ==
    /\ LoginStep(r, "session", IF Awaited(r) THEN [rpc[r] EXCEPT !.pc = "done"] ELSE NoLogin)
    /\ SetSession(rpc[r].token, rpc[r].user)
    /\ UNCHANGED <<now, logins, online, gatewayVars, client, api, ghosts>>

-----------------------------------------------------------------------------
(* A gateway: handleLogin and handleLogout, one message of a connection at *)
(* a time.  A client waits for the answer to what it sent.                 *)
AtRest(c) == handler[c].pc = "idle" /\ api[c].pc = "idle"

\* A new connection is bound to nobody.
Connect(c) ==
    /\ ~conn[c].open /\ AtRest(c)
    /\ conn' = [conn EXCEPT ![c] = [open |-> TRUE, user |-> NoUser]]
    /\ client' = [client EXCEPT ![c] = Stranger]
    /\ UNCHANGED <<now, logins, faults, redis, rpc, handler, api, ghosts>>

\* The client is gone: no online key is deleted.
Disconnect(c) ==
    /\ conn[c].open
    /\ conn' = [conn EXCEPT ![c] = Closed]
    /\ ghosts' = ghosts \cup ({conn[c].user} \cap DOMAIN online)
    /\ UNCHANGED <<now, logins, faults, redis, rpc, handler, client, api>>

\* A login message; discovery knows a login server (without one the answer is
\* an error and nothing happens).
HandleLogin(c, u) ==
    /\ conn[c].open /\ AtRest(c) /\ logins < MaxLogins
    /\ \E r \in Calls :
          /\ rpc[r].pc = "free"
          /\ rpc' = [rpc EXCEPT ![r] = [pc |-> "check", user |-> u, token |-> NoToken]]
          /\ handler' = [handler EXCEPT ![c] = [Idle EXCEPT !.pc = "waiting", !.call = r]]
    /\ logins' = logins + 1
    /\ UNCHANGED <<now, faults, redis, conn, client, api, ghosts>>

\* Login returned an error, or three seconds are over: the call goes on, or its
\* answer is lost.
LoginFailed(c) ==
    LET r == handler[c].call IN
    /\ handler[c].pc = "waiting"
    /\ rpc' = [rpc EXCEPT ![r] = IF @.pc \in {"refused", "done"} THEN NoLogin ELSE @]
    /\ handler' = [handler EXCEPT ![c] = Idle]
    /\ UNCHANGED <<now, logins, faults, redis, conn, client, api, ghosts>>

\* Login returned: the connection is bound, whoever it was bound to before.
LoginBinds(c) ==
    LET r == handler[c].call IN
    /\ handler[c].pc = "waiting" /\ rpc[r].pc = "done"
    /\ conn' = IF conn[c].open THEN [conn EXCEPT ![c].user = rpc[r].user] ELSE conn
    /\ handler' = [handler EXCEPT ![c] = [pc |-> "online", user |-> rpc[r].user,
                                          token |-> rpc[r].token, call |-> NoCall]]
    /\ rpc' = [rpc EXCEPT ![r] = NoLogin]
    /\ ghosts' = ghosts \cup (({conn[c].user} \ {rpc[r].user}) \cap DOMAIN online)
    /\ UNCHANGED <<now, logins, faults, redis, client, api>>

\* SetUserOnline and the answer, which a client that is gone never sees.
LoginAnswered(c) ==
    /\ handler[c].pc = "online"
    /\ SetUserOnline(c, handler[c].user)
    /\ client' = IF conn[c].open
                 THEN [client EXCEPT ![c] = [user |-> handler[c].user, token |-> handler[c].token]]
                 ELSE client
    /\ handler' = [handler EXCEPT ![c] = Idle]
    /\ UNCHANGED <<now, logins, session, rpc, conn, api>>

\* Mutation: the connection is closed before the user is looked at.
HandleLogoutClosesFirst(c) ==
    /\ conn[c].open /\ AtRest(c)
    /\ conn' = [conn EXCEPT ![c] = Closed]
    /\ UNCHANGED <<now, logins, faults, redis, rpc, handler, client, api, ghosts>>

\* A logout message: SetUserOffline for the user of this connection, whatever
\* other connections the user has, then conn.Close().
HandleLogout(c) ==
    /\ conn[c].open /\ AtRest(c)
    /\ IF conn[c].user # NoUser THEN SetUserOffline(conn[c].user)
                                ELSE UNCHANGED <<faults, online, ghosts>>
    /\ conn' = [conn EXCEPT ![c] = Closed]
    /\ UNCHANGED <<now, logins, session, rpc, handler, client, api>>

-----------------------------------------------------------------------------
(* The login server: ValidateToken, RefreshToken and Logout, called by a   *)
(* client with its own user and token                                      *)

\* The call of c goes on to pc with this token, or starts with the client's own.
Calling(c, pc, t) == api' = [api EXCEPT ![c] = [pc |-> pc, user |-> client[c].user, token |-> t]]

Asks(c) == AtRest(c) /\ client[c].token # NoToken

Returns(c) == api' = [api EXCEPT ![c] = NoApi]

\* GetSession: an unknown token is invalid and the call is over.
ValidateToken(c) ==
    /\ Asks(c)
    /\ client[c].token \in DOMAIN session
    /\ Calling(c, "extend", client[c].token)
    /\ UNCHANGED <<now, logins, faults, redis, rpc, gatewayVars, client, ghosts>>

\* RefreshSession, a second command; the answer is "token valid".
ValidateTokenExtends(c) ==
    /\ api[c].pc = "extend"
    /\ RefreshSession(api[c].token)
    /\ Returns(c)
    /\ UNCHANGED <<now, logins, online, rpc, gatewayVars, client, ghosts>>

\* The new token is made, then the old session is deleted unseen.
RefreshToken(c) ==
    /\ Asks(c)
    /\ DeleteSession(client[c].token)
    /\ Calling(c, "issue", generateToken(client[c].user))
    /\ UNCHANGED <<now, logins, online, rpc, gatewayVars, client, ghosts>>

\* Mutation: the old session is deleted after the new one is set.
RefreshTokenDeletesLast(c) ==
    /\ api[c].pc = "issue"
    /\ session' = Without(With(session, api[c].token,
                               [user |-> api[c].user, expires |-> now + SessionTTL]),
                          client[c].token)
    /\ client' = [client EXCEPT ![c].token = api[c].token]
    /\ Returns(c)
    /\ UNCHANGED <<now, logins, faults, online, rpc, gatewayVars, ghosts>>

\* SetSession of the new token, which is the old one within the same second.
RefreshTokenIssues(c) ==
    /\ api[c].pc = "issue"
    /\ SetSession(api[c].token, api[c].user)
    /\ client' = [client EXCEPT ![c].token = api[c].token]
    /\ Returns(c)
    /\ UNCHANGED <<now, logins, online, rpc, gatewayVars, ghosts>>

\* DeleteSession ...
Logout(c) ==
    /\ Asks(c)
    /\ DeleteSession(client[c].token)
    /\ Calling(c, "offline", NoToken)
    /\ UNCHANGED <<now, logins, online, rpc, gatewayVars, client, ghosts>>

\* ... and SetUserOffline; the client forgets its token.
LogoutSetsOffline(c) ==
    /\ api[c].pc = "offline"
    /\ SetUserOffline(api[c].user)
    /\ client' = [client EXCEPT ![c] = Stranger]
    /\ Returns(c)
    /\ UNCHANGED <<now, logins, session, rpc, gatewayVars>>

-----------------------------------------------------------------------------
LoginServerStep(r) ==
    LoginRefused(r) \/ LoginVerified(r) \/ LoginSetSession(r)

GatewayStep(c) ==
    \/ Connect(c) \/ Disconnect(c) \/ HandleLogout(c)
    \/ \E u \in Users : HandleLogin(c, u)
    \/ LoginFailed(c) \/ LoginBinds(c) \/ LoginAnswered(c)

ApiCall(c) ==
    \/ ValidateToken(c) \/ ValidateTokenExtends(c)
    \/ RefreshToken(c) \/ RefreshTokenIssues(c)
    \/ Logout(c) \/ LogoutSetsOffline(c)

Next ==
    \/ Tick
    \/ \E r \in Calls : LoginServerStep(r)
    \/ \E c \in Conns : GatewayStep(c) \/ ApiCall(c)

Spec == Init /\ [][Next]_vars

-----------------------------------------------------------------------------
(* Properties *)

\* Counters, and the history.
CounterTypes ==
    /\ now \in 0 .. MaxTime /\ faults \in 0 .. MaxFaults /\ logins \in 0 .. MaxLogins
    /\ ghosts \subseteq Users

\* Redis: no key has expired.
SessionTypes ==
    /\ DOMAIN session \subseteq Tokens
    /\ session \in [DOMAIN session -> [user : Users, expires : now + 1 .. now + SessionTTL]]

OnlineTypes ==
    /\ DOMAIN online \subseteq Users
    /\ online \in [DOMAIN online -> [node    : {Gateway[c] : c \in Conns},
                                     expires : now + 1 .. now + OnlineTTL]]

\* The login server: a login it is through with is awaited by a gateway.
LoginTypes ==
    /\ rpc \in [Calls -> [pc : {"free", "check", "refused", "session", "done"},
                          user : Users \cup {NoUser}, token : Tokens \cup {NoToken}]]
    /\ \A r \in Calls : rpc[r].pc \in {"refused", "done"} => Awaited(r)

\* The gateways, and the clients.
GatewayTypes ==
    /\ conn \in [Conns -> [open : BOOLEAN, user : Users \cup {NoUser}]]
    /\ handler \in [Conns -> [pc : {"idle", "waiting", "online"}, user : Users \cup {NoUser},
                              token : Tokens \cup {NoToken}, call : Calls \cup {NoCall}]]

ClientTypes ==
    /\ client \in [Conns -> [user : Users \cup {NoUser}, token : Tokens \cup {NoToken}]]
    /\ api \in [Conns -> [pc : {"idle", "extend", "issue", "offline"},
                          user : Users \cup {NoUser}, token : Tokens \cup {NoToken}]]

\* The type invariant.
TypeOK ==
    /\ CounterTypes
    /\ SessionTypes
    /\ OnlineTypes
    /\ LoginTypes
    /\ GatewayTypes
    /\ ClientTypes

\* Only a login or a refresh makes a session.  Whatever ValidateToken does
\* after a logout has deleted the session it found, that session stays gone.
OnlyIssueCreates ==
    [][\A t \in DOMAIN session' \ DOMAIN session :
          \/ \E r \in Calls : rpc[r].pc = "session" /\ rpc[r].token = t
          \/ \E c \in Conns : api[c].pc = "issue" /\ api[c].token = t]_vars

\* A session ends when it expires or when a client that holds its token asks for
\* a refresh or a logout, at no other time; and a refresh leaves the client with
\* a token that works, unless the Redis command failed.  A refresh within the
\* second of the login must not delete the session it makes.
HeldTokenWorks ==
    [][/\ \A t \in DOMAIN session \ DOMAIN session' :
             \/ now' # now
             \/ \E c \in Conns : AtRest(c) /\ client[c].token = t /\ api'[c].pc # "idle"
       /\ \A c \in Conns :
             api[c].pc = "issue" /\ api'[c].pc = "idle" /\ faults' = faults
                 => client'[c].token \in DOMAIN session']_vars

\* A client's token never opens the session of another user, and a banned user
\* has none to open.
TokenOpensOwnSession ==
    /\ \A c \in Conns :
          client[c].token \in DOMAIN session => session[client[c].token].user = client[c].user
    /\ \A t \in DOMAIN session : session[t].user \notin Banned

\* A user who is shown online on a gateway has an open connection there, unless
\* it broke off without a logout, went on as another user, or Redis failed: a
\* logout leaves no presence behind, on whichever connection it comes and
\* however late a login is answered.
PresenceHasReason ==
    \A u \in DOMAIN online :
        \/ u \in ghosts
        \/ \E c \in Conns : conn[c].open /\ conn[c].user = u /\ Gateway[c] = online[u].node

=============================================================================
