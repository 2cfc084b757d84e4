--------------------------- MODULE SessionsProofs ---------------------------
(***************************************************************************)
(* Theorems about Sessions, for any users, connections, gateways, calls,   *)
(* lifetimes and bounds: a token opens its own user's session only, every  *)
(* presence in Redis has a reason, and sessions begin and end as the       *)
(* handlers of login_server.go and gateway_server.go mean them to.         *)
(***************************************************************************)
EXTENDS Sessions, TLAPS

-----------------------------------------------------------------------------
(* The inductive invariant *)

\* A token that was made for a user, who is not banned.
Issued(t, u) == t \in Tokens /\ t.user = u /\ u \in Users \ Banned

\* A login works for a user, and once it is verified for one that is not banned.
LoginsKnown ==
    \A r \in Calls :
        /\ rpc[r].pc # "free" => rpc[r].user \in Users
        /\ rpc[r].pc \in {"session", "done"} => Issued(rpc[r].token, rpc[r].user)

\* A handler waits for a login that is under way, and announces the user its
\* connection is bound to.
HandlersKnown ==
    \A c \in Conns :
        /\ IF handler[c].pc = "waiting"
           THEN handler[c].call \in Calls /\ rpc[handler[c].call].pc # "free"
           ELSE handler[c].call = NoCall
        /\ handler[c].pc = "online" =>
              /\ Issued(handler[c].token, handler[c].user)
              /\ conn[c].open => conn[c].user = handler[c].user

\* No two handlers wait for the same login.
OneWaits ==
    \A c, d \in Conns : c # d /\ handler[c].call = handler[d].call => handler[c].call = NoCall

\* A client holds its own user's token, and calls with it while no login is being
\* handled on its connection.
ClientsKnown ==
    \A c \in Conns :
        /\ client[c].token # NoToken => Issued(client[c].token, client[c].user)
        /\ api[c].pc # "idle" =>
              /\ handler[c].pc = "idle"
              /\ client[c].token # NoToken /\ api[c].user = client[c].user
              /\ api[c].token # NoToken => Issued(api[c].token, api[c].user)
        /\ api[c].pc \in {"issue", "extend"} => api[c].token # NoToken

\* A session is its token's user's.
SessionsOwn == \A t \in DOMAIN session : Issued(t, session[t].user)

IndInv ==
    /\ TypeOK
    /\ LoginsKnown
    /\ HandlersKnown
    /\ OneWaits
    /\ ClientsKnown
    /\ SessionsOwn
    /\ PresenceHasReason

-----------------------------------------------------------------------------
(* Redis commands *)

\* What a command does to the sessions: their users stay who they were, but for one
\* that is set.
SessionsOf(t, u) ==
    /\ SessionTypes'
    /\ \A s \in DOMAIN session' :
          \/ s \in DOMAIN session /\ session'[s].user = session[s].user
          \/ s = t /\ session'[s].user = u

\* SetSession: the session keys before and after.
LEMMA SetSessionFacts ==
    ASSUME SessionsAssumption, TypeOK, now' = now,
           NEW t \in Tokens, NEW u \in Users, SetSession(t, u)
    PROVE  /\ SessionsOf(t, u) /\ DOMAIN session \subseteq DOMAIN session'
           /\ faults' \in 0 .. MaxFaults
           /\ faults' = faults => t \in DOMAIN session'
<1> DEFINE S == [user : Users, expires : now + 1 .. now + SessionTTL]
           new == [user |-> u, expires |-> now + SessionTTL]
<1>1. /\ now \in Nat /\ SessionTTL \in Nat \ {0} /\ faults \in 0 .. MaxFaults /\ MaxFaults \in Nat
      /\ DOMAIN session \subseteq Tokens /\ session \in [DOMAIN session -> S]
  BY DEF SessionsAssumption, TypeOK, CounterTypes, SessionTypes
<1>2. CASE session' = With(session, t, new) /\ faults' = faults
  <2>1. new \in S
    BY <1>1
  <2>2. new.user = u
    OBVIOUS
  <2> HIDE DEF S, new
  <2>3. /\ session' \in [DOMAIN session' -> S] /\ DOMAIN session' \subseteq Tokens
        /\ DOMAIN session' = DOMAIN session \cup {t} /\ session'[t] = new
        /\ \A s \in DOMAIN session : s # t => session'[s] = session[s]
    BY <1>1, <1>2, <2>1 DEF With
  <2>4. SessionTypes'
    BY <2>3 DEF SessionTypes, S, Tokens
  <2> QED
    BY <1>1, <1>2, <2>2, <2>3, <2>4 DEF SessionsOf
<1>3. CASE Fault /\ UNCHANGED session
  BY <1>1, <1>3 DEF Fault, SessionsOf, SessionTypes, Tokens
<1> QED
  BY <1>2, <1>3 DEF SetSession

\* DeleteSession: the session keys before and after.
LEMMA DeleteSessionFacts ==
    ASSUME SessionsAssumption, TypeOK, now' = now, NEW t, DeleteSession(t)
    PROVE  /\ SessionsOf(NoToken, NoUser) /\ DOMAIN session \ {t} \subseteq DOMAIN session'
           /\ DOMAIN session' \subseteq DOMAIN session
           /\ faults' \in 0 .. MaxFaults
<1> DEFINE S == [user : Users, expires : now + 1 .. now + SessionTTL]
<1>1. /\ faults \in 0 .. MaxFaults /\ MaxFaults \in Nat
      /\ DOMAIN session \subseteq Tokens /\ session \in [DOMAIN session -> S]
  BY DEF SessionsAssumption, TypeOK, CounterTypes, SessionTypes
<1>2. CASE session' = Without(session, t) /\ faults' = faults
  <2> HIDE DEF S
  <2>1. /\ session' \in [DOMAIN session' -> S] /\ DOMAIN session' \subseteq Tokens
        /\ DOMAIN session' = DOMAIN session \ {t}
        /\ \A s \in DOMAIN session' : session'[s] = session[s]
    BY <1>1, <1>2 DEF Without
  <2>2. SessionTypes'
    BY <2>1 DEF SessionTypes, S, Tokens
  <2> QED
    BY <1>1, <1>2, <2>1, <2>2 DEF SessionsOf
<1>3. CASE Fault /\ UNCHANGED session
  BY <1>1, <1>3 DEF Fault, SessionsOf, SessionTypes, Tokens
<1> QED
  BY <1>2, <1>3 DEF DeleteSession

\* RefreshSession: the session keys before and after; EXPIRE of a missing key does nothing.
LEMMA RefreshSessionFacts ==
    ASSUME SessionsAssumption, TypeOK, now' = now, NEW t, RefreshSession(t)
    PROVE  /\ SessionsOf(NoToken, NoUser) /\ DOMAIN session' = DOMAIN session
           /\ faults' \in 0 .. MaxFaults
<1> DEFINE S == [user : Users, expires : now + 1 .. now + SessionTTL]
<1>1. /\ now \in Nat /\ SessionTTL \in Nat \ {0} /\ faults \in 0 .. MaxFaults /\ MaxFaults \in Nat
      /\ DOMAIN session \subseteq Tokens /\ session \in [DOMAIN session -> S]
  BY DEF SessionsAssumption, TypeOK, CounterTypes, SessionTypes
<1>2. CASE /\ t \in DOMAIN session /\ faults' = faults
           /\ session' = [session EXCEPT ![t].expires = now + SessionTTL]
  <2> DEFINE new == [session[t] EXCEPT !.expires = now + SessionTTL]
  <2>1. session[t] \in S
    BY <1>1, <1>2
  <2>2. new \in S /\ new.user = session[t].user
    BY <1>1, <2>1
  <2>3. session' = [session EXCEPT ![t] = new]
    BY <1>2
  <2> HIDE DEF new, S
  <2>4. /\ DOMAIN session' = DOMAIN session /\ session' \in [DOMAIN session -> S]
        /\ \A s \in DOMAIN session : session'[s] = IF s = t THEN new ELSE session[s]
    BY <1>1, <2>2, <2>3
  <2>5. SessionTypes'
    BY <1>1, <2>4 DEF SessionTypes, S, Tokens
  <2> QED
    BY <1>1, <1>2, <2>2, <2>4, <2>5 DEF SessionsOf
<1>3. CASE UNCHANGED session /\ (Fault \/ faults' = faults)
  BY <1>1, <1>3 DEF Fault, SessionsOf, SessionTypes, Tokens
<1> QED
  BY <1>2, <1>3 DEF RefreshSession

\* SetUserOnline: the online keys before and after.
LEMMA SetUserOnlineFacts ==
    ASSUME SessionsAssumption, TypeOK, now' = now, NEW c \in Conns, NEW u \in Users,
           SetUserOnline(c, u)
    PROVE  /\ OnlineTypes' /\ faults' \in 0 .. MaxFaults
           /\ \/ UNCHANGED <<online, ghosts>>
              \/ /\ DOMAIN online' = DOMAIN online \cup {u} /\ online'[u].node = Gateway[c]
                 /\ \A v \in DOMAIN online : v # u => online'[v] = online[v]
                 /\ ghosts' = IF conn[c].open THEN ghosts ELSE ghosts \cup {u}
<1> DEFINE S == [node : {Gateway[d] : d \in Conns}, expires : now + 1 .. now + OnlineTTL]
           new == [node |-> Gateway[c], expires |-> now + OnlineTTL]
<1>1. /\ now \in Nat /\ OnlineTTL \in Nat \ {0} /\ faults \in 0 .. MaxFaults /\ MaxFaults \in Nat
      /\ DOMAIN online \subseteq Users /\ online \in [DOMAIN online -> S]
  BY DEF SessionsAssumption, TypeOK, CounterTypes, OnlineTypes
<1>2. CASE /\ online' = With(online, u, new) /\ faults' = faults
           /\ ghosts' = IF conn[c].open THEN ghosts ELSE ghosts \cup {u}
  <2>1. new \in S
    BY <1>1
  <2>2. new.node = Gateway[c]
    OBVIOUS
  <2> HIDE DEF S, new
  <2>3. /\ online' \in [DOMAIN online' -> S] /\ DOMAIN online' \subseteq Users
        /\ DOMAIN online' = DOMAIN online \cup {u} /\ online'[u] = new
        /\ \A v \in DOMAIN online : v # u => online'[v] = online[v]
    BY <1>1, <1>2, <2>1 DEF With
  <2>4. OnlineTypes'
    BY <2>3 DEF OnlineTypes, S
  <2> QED
    BY <1>1, <1>2, <2>2, <2>3, <2>4
<1>3. CASE Fault /\ UNCHANGED <<online, ghosts>>
  BY <1>1, <1>3 DEF Fault, OnlineTypes
<1> QED
  BY <1>2, <1>3 DEF SetUserOnline

\* SetUserOffline: the online keys before and after.
LEMMA SetUserOfflineFacts ==
    ASSUME SessionsAssumption, TypeOK, now' = now, NEW u, SetUserOffline(u)
    PROVE  /\ OnlineTypes' /\ faults' \in 0 .. MaxFaults
           /\ DOMAIN online \ {u} \subseteq DOMAIN online'
           /\ DOMAIN online' \subseteq DOMAIN online
           /\ \A v \in DOMAIN online' : online'[v] = online[v]
           /\ \/ u \notin DOMAIN online' /\ ghosts' = ghosts \ {u}
              \/ ghosts' = ghosts \cup {u}
<1> DEFINE S == [node : {Gateway[d] : d \in Conns}, expires : now + 1 .. now + OnlineTTL]
<1>1. /\ faults \in 0 .. MaxFaults /\ MaxFaults \in Nat
      /\ DOMAIN online \subseteq Users /\ online \in [DOMAIN online -> S]
  BY DEF SessionsAssumption, TypeOK, CounterTypes, OnlineTypes
<1>2. CASE online' = Without(online, u) /\ faults' = faults /\ ghosts' = ghosts \ {u}
  <2> HIDE DEF S
  <2>1. /\ online' \in [DOMAIN online' -> S] /\ DOMAIN online' \subseteq Users
        /\ DOMAIN online' = DOMAIN online \ {u}
        /\ \A v \in DOMAIN online' : online'[v] = online[v]
    BY <1>1, <1>2 DEF Without
  <2>2. OnlineTypes'
    BY <2>1 DEF OnlineTypes, S
  <2> QED
    BY <1>1, <1>2, <2>1, <2>2
<1>3. CASE Fault /\ ghosts' = ghosts \cup {u} /\ UNCHANGED online
  BY <1>1, <1>3 DEF Fault, OnlineTypes
<1> QED
  BY <1>2, <1>3 DEF SetUserOffline

-----------------------------------------------------------------------------
(* The actions, by the variables they change *)

\* Every step, as what it does to one connection, one call or the keys.
LEMMA StepIs ==
    ASSUME Next
    PROVE  \/ Tick
           \/ \E r \in Calls : LoginRefused(r) \/ LoginVerified(r) \/ LoginSetSession(r)
           \/ \E c \in Conns :
                 \/ Connect(c) \/ Disconnect(c) \/ HandleLogout(c)
                 \/ \E u \in Users : HandleLogin(c, u)
                 \/ LoginFailed(c) \/ LoginBinds(c) \/ LoginAnswered(c)
                 \/ ValidateToken(c) \/ ValidateTokenExtends(c)
                 \/ RefreshToken(c) \/ RefreshTokenIssues(c)
                 \/ Logout(c) \/ LogoutSetsOffline(c)
BY DEF Next, LoginServerStep, GatewayStep, ApiCall

\* Who touches the logins and the handlers.
LEMMA LoginsChange ==
    ASSUME Next
    PROVE  \/ UNCHANGED <<rpc, handler>>
           \/ \E r \in Calls : LoginRefused(r) \/ LoginVerified(r) \/ LoginSetSession(r)
           \/ \E c \in Conns : \/ \E u \in Users : HandleLogin(c, u)
                               \/ LoginFailed(c) \/ LoginBinds(c) \/ LoginAnswered(c)
BY StepIs DEF Tick, Connect, Disconnect, HandleLogout, ValidateToken, ValidateTokenExtends,
              RefreshToken, RefreshTokenIssues, Logout, LogoutSetsOffline, gatewayVars

\* Who touches the connections.
LEMMA ConnectionsChange ==
    ASSUME Next
    PROVE  \/ UNCHANGED conn
           \/ \E c \in Conns : Connect(c) \/ Disconnect(c) \/ HandleLogout(c) \/ LoginBinds(c)
BY StepIs DEF Tick, LoginRefused, LoginVerified, LoginSetSession, HandleLogin, LoginFailed,
              LoginAnswered, ValidateToken, ValidateTokenExtends, RefreshToken,
              RefreshTokenIssues, Logout, LogoutSetsOffline, gatewayVars

\* Who touches the clients and the calls they make.
LEMMA ClientsChange ==
    ASSUME Next
    PROVE  \/ UNCHANGED <<client, api>>
           \/ \E c \in Conns :
                 \/ Connect(c) \/ LoginAnswered(c)
                 \/ ValidateToken(c) \/ ValidateTokenExtends(c)
                 \/ RefreshToken(c) \/ RefreshTokenIssues(c)
                 \/ Logout(c) \/ LogoutSetsOffline(c)
BY StepIs DEF Tick, LoginRefused, LoginVerified, LoginSetSession, Disconnect, HandleLogout,
              HandleLogin, LoginFailed, LoginBinds

\* Who touches the sessions.
LEMMA SessionsChange ==
    ASSUME Next
    PROVE  \/ UNCHANGED <<now, session>>
           \/ Tick
           \/ \E r \in Calls : LoginSetSession(r)
           \/ \E c \in Conns : \/ ValidateTokenExtends(c) \/ RefreshToken(c)
                               \/ RefreshTokenIssues(c) \/ Logout(c)
BY StepIs DEF LoginRefused, LoginVerified, Connect, Disconnect, HandleLogout, HandleLogin,
              LoginFailed, LoginBinds, LoginAnswered, ValidateToken, LogoutSetsOffline, redis

\* Who touches the online keys.
LEMMA PresenceChanges ==
    ASSUME Next
    PROVE  \/ UNCHANGED <<now, online, ghosts>>
           \/ Tick
           \/ \E c \in Conns : \/ Disconnect(c) \/ HandleLogout(c) \/ LoginBinds(c)
                               \/ LoginAnswered(c) \/ LogoutSetsOffline(c)
BY StepIs DEF LoginRefused, LoginVerified, LoginSetSession, Connect, HandleLogin, LoginFailed,
              ValidateToken, ValidateTokenExtends, RefreshToken, RefreshTokenIssues, Logout, redis

-----------------------------------------------------------------------------
(* Type correctness *)

LoginRecords == [pc : {"free", "check", "refused", "session", "done"},
                 user : Users \cup {NoUser}, token : Tokens \cup {NoToken}]

HandlerRecords == [pc : {"idle", "waiting", "online"}, user : Users \cup {NoUser},
                   token : Tokens \cup {NoToken}, call : Calls \cup {NoCall}]

\* The token made for a user now.
LEMMA TokenIsIssued ==
    ASSUME SessionsAssumption, CounterTypes, NEW u \in Users
    PROVE  /\ generateToken(u) \in Tokens /\ generateToken(u) # NoToken
           /\ generateToken(u).user = u
<1>1. generateToken(u) \in Tokens
  BY DEF generateToken, Tokens, CounterTypes
<1> QED
  BY <1>1 DEF generateToken, SessionsAssumption

\* A handler waits for a login, and no other handler for the same.
LEMMA WaitsAlone ==
    ASSUME SessionsAssumption, IndInv, NEW c \in Conns, handler[c].pc = "waiting"
    PROVE  /\ handler[c].call \in Calls
           /\ rpc[handler[c].call].pc # "free"
           /\ \A d \in Conns : d # c => handler[d].call # handler[c].call
BY DEF SessionsAssumption, IndInv, HandlersKnown, OneWaits

\* Login calls keep their type.
LEMMA LoginTypesKept ==
    ASSUME SessionsAssumption, IndInv, Next
    PROVE  LoginTypes'
<1>1. /\ rpc \in [Calls -> LoginRecords] /\ handler \in [Conns -> HandlerRecords]
      /\ \A x \in Calls : rpc[x].pc \in {"refused", "done"} => Awaited(x)
  BY DEF IndInv, TypeOK, LoginTypes, GatewayTypes, LoginRecords, HandlerRecords
<1>2. NoLogin \in LoginRecords /\ NoLogin.pc = "free"
  BY DEF NoLogin, LoginRecords
<1>3. SUFFICES /\ rpc' \in [Calls -> LoginRecords]
               /\ \A x \in Calls : rpc'[x].pc \in {"refused", "done"} => Awaited(x)'
  BY DEF LoginTypes, LoginRecords, Tokens
<1>4. CASE UNCHANGED <<rpc, handler>>
  BY <1>1, <1>4 DEF Awaited
<1>5. ASSUME NEW r \in Calls, NEW new \in LoginRecords, handler' = handler,
             \/ rpc' = [rpc EXCEPT ![r] = IF Awaited(r) THEN new ELSE NoLogin]
             \/ new.pc = "session" /\ rpc' = [rpc EXCEPT ![r] = new]
      PROVE  /\ rpc' \in [Calls -> LoginRecords]
             /\ \A x \in Calls : rpc'[x].pc \in {"refused", "done"} => Awaited(x)'
  <2>1. \A x \in Calls : Awaited(x)' <=> Awaited(x)
    BY <1>5 DEF Awaited
  <2> QED
    BY <1>1, <1>2, <1>5, <2>1
<1>6. ASSUME NEW r \in Calls, LoginRefused(r) \/ LoginVerified(r) \/ LoginSetSession(r)
      PROVE  /\ rpc' \in [Calls -> LoginRecords]
             /\ \A x \in Calls : rpc'[x].pc \in {"refused", "done"} => Awaited(x)'
  <2> DEFINE L == rpc[r]
  <2>1. L \in LoginRecords
    BY <1>1
  <2>2. handler' = handler
    BY <1>6 DEF LoginRefused, LoginVerified, LoginSetSession, gatewayVars
  <2>3. CASE LoginRefused(r)
    <3>1. [L EXCEPT !.pc = "refused"] \in LoginRecords
      BY <2>1 DEF LoginRecords
    <3>2. rpc' = [rpc EXCEPT ![r] = IF Awaited(r) THEN [L EXCEPT !.pc = "refused"] ELSE NoLogin]
      BY <2>3 DEF LoginRefused, LoginStep
    <3> QED
      BY <1>5, <2>2, <3>1, <3>2
  <2>4. CASE LoginVerified(r)
    <3>1. L.user \in Users
      BY <2>4 DEF IndInv, LoginsKnown, LoginVerified, LoginStep
    <3>2. generateToken(L.user) \in Tokens \cup {NoToken}
      BY <3>1, TokenIsIssued DEF IndInv, TypeOK
    <3>3. /\ [L EXCEPT !.pc = "session", !.token = generateToken(L.user)] \in LoginRecords
          /\ [L EXCEPT !.pc = "session", !.token = generateToken(L.user)].pc = "session"
      BY <2>1, <3>2 DEF LoginRecords
    <3>4. rpc' = [rpc EXCEPT ![r] = [L EXCEPT !.pc = "session", !.token = generateToken(L.user)]]
      BY <2>4 DEF LoginVerified, LoginStep
    <3> QED
      BY <1>5, <2>2, <3>3, <3>4
  <2>5. CASE LoginSetSession(r)
    <3>1. [L EXCEPT !.pc = "done"] \in LoginRecords
      BY <2>1 DEF LoginRecords
    <3>2. rpc' = [rpc EXCEPT ![r] = IF Awaited(r) THEN [L EXCEPT !.pc = "done"] ELSE NoLogin]
      BY <2>5 DEF LoginSetSession, LoginStep
    <3> QED
      BY <1>5, <2>2, <3>1, <3>2
  <2> QED
    BY <1>6, <2>3, <2>4, <2>5
<1>7. ASSUME NEW c \in Conns, NEW u \in Users, HandleLogin(c, u)
      PROVE  /\ rpc' \in [Calls -> LoginRecords]
             /\ \A x \in Calls : rpc'[x].pc \in {"refused", "done"} => Awaited(x)'
  <2> DEFINE new == [pc |-> "check", user |-> u, token |-> NoToken]
  <2>1. PICK r \in Calls : /\ rpc' = [rpc EXCEPT ![r] = new]
                           /\ handler' = [handler EXCEPT ![c] = [Idle EXCEPT !.pc = "waiting", !.call = r]]
    BY <1>7 DEF HandleLogin
  <2>2. new \in LoginRecords /\ new.pc = "check"
    BY DEF LoginRecords
  <2> HIDE DEF new
  <2>3. handler[c].call \notin Calls
    BY <1>7 DEF HandleLogin, AtRest, IndInv, HandlersKnown, SessionsAssumption
  <2>4. \A x \in Calls : Awaited(x) => Awaited(x)'
    BY <1>1, <2>1, <2>3 DEF Awaited
  <2> QED
    BY <1>1, <2>1, <2>2, <2>4
<1>8. ASSUME NEW c \in Conns, LoginFailed(c) \/ LoginBinds(c)
      PROVE  /\ rpc' \in [Calls -> LoginRecords]
             /\ \A x \in Calls : rpc'[x].pc \in {"refused", "done"} => Awaited(x)'
  <2> DEFINE r == handler[c].call
  <2>1. r \in Calls
    BY <1>8, WaitsAlone DEF LoginFailed, LoginBinds
  <2>2. \A d \in Conns : d # c => handler'[d] = handler[d]
    BY <1>1, <1>8 DEF LoginFailed, LoginBinds
  <2>3. \A x \in Calls : x # r /\ Awaited(x) => Awaited(x)'
    BY <2>2 DEF Awaited
  <2>4. \/ rpc' = [rpc EXCEPT ![r] = NoLogin]
        \/ rpc' = [rpc EXCEPT ![r] = rpc[r]] /\ rpc[r].pc \notin {"refused", "done"}
    BY <1>8 DEF LoginFailed, LoginBinds
  <2> HIDE DEF r
  <2> QED
    BY <1>1, <1>2, <2>1, <2>3, <2>4
<1>9. ASSUME NEW c \in Conns, LoginAnswered(c)
      PROVE  /\ rpc' \in [Calls -> LoginRecords]
             /\ \A x \in Calls : rpc'[x].pc \in {"refused", "done"} => Awaited(x)'
  <2>1. handler[c].call \notin Calls
    BY <1>9 DEF LoginAnswered, IndInv, HandlersKnown, SessionsAssumption
  <2>2. \A d \in Conns : d # c => handler'[d] = handler[d]
    BY <1>1, <1>9 DEF LoginAnswered
  <2>3. \A x \in Calls : Awaited(x) => Awaited(x)'
    BY <2>1, <2>2 DEF Awaited
  <2> QED
    BY <1>1, <1>9, <2>3 DEF LoginAnswered
<1> QED
  BY <1>4, <1>6, <1>7, <1>8, <1>9, LoginsChange

\* The gateways' connections keep their type.
LEMMA GatewayTypesKept ==
    ASSUME SessionsAssumption, IndInv, Next
    PROVE  GatewayTypes'
<1> DEFINE CR == [open : BOOLEAN, user : Users \cup {NoUser}]
<1>1. /\ rpc \in [Calls -> LoginRecords] /\ handler \in [Conns -> HandlerRecords]
      /\ conn \in [Conns -> CR]
  BY DEF IndInv, TypeOK, LoginTypes, GatewayTypes, LoginRecords, HandlerRecords
<1>2. Idle \in HandlerRecords
  BY DEF Idle, HandlerRecords
<1>3. conn' \in [Conns -> CR]
  <2>1. CASE UNCHANGED conn
    BY <1>1, <2>1
  <2>2. ASSUME NEW c \in Conns, Connect(c) \/ Disconnect(c) \/ HandleLogout(c)
        PROVE  conn' \in [Conns -> CR]
    <3>1. conn' = [conn EXCEPT ![c] = [open |-> TRUE, user |-> NoUser]]
          \/ conn' = [conn EXCEPT ![c] = Closed]
      BY <2>2 DEF Connect, Disconnect, HandleLogout
    <3>2. Closed \in CR /\ [open |-> TRUE, user |-> NoUser] \in CR
      BY DEF Closed
    <3> HIDE DEF CR
    <3> QED
      BY <1>1, <3>1, <3>2
  <2>3. ASSUME NEW c \in Conns, LoginBinds(c)
        PROVE  conn' \in [Conns -> CR]
    <3> DEFINE r == handler[c].call
               K == conn[c]
    <3>1. r \in Calls
      BY <2>3, WaitsAlone DEF LoginBinds
    <3>2. rpc[r].user \in Users \cup {NoUser}
      BY <1>1, <3>1 DEF LoginRecords
    <3>3. conn' = conn \/ conn' = [conn EXCEPT ![c] = [K EXCEPT !.user = rpc[r].user]]
      BY <2>3 DEF LoginBinds
    <3>4. K \in CR
      BY <1>1
    <3> HIDE DEF r, K
    <3>5. [K EXCEPT !.user = rpc[r].user] \in CR
      BY <3>2, <3>4
    <3> HIDE DEF CR
    <3> QED
      BY <1>1, <3>3, <3>5
  <2> QED
    BY <2>1, <2>2, <2>3, ConnectionsChange
<1>4. handler' \in [Conns -> HandlerRecords]
  <2>1. CASE UNCHANGED handler
    BY <1>1, <2>1
  <2>2. ASSUME NEW c \in Conns, NEW new \in HandlerRecords, handler' = [handler EXCEPT ![c] = new]
        PROVE  handler' \in [Conns -> HandlerRecords]
    BY <1>1, <2>2
  <2>3. ASSUME NEW r \in Calls, LoginRefused(r) \/ LoginVerified(r) \/ LoginSetSession(r)
        PROVE  UNCHANGED handler
    BY <2>3 DEF LoginRefused, LoginVerified, LoginSetSession, gatewayVars
  <2>4. ASSUME NEW c \in Conns, NEW u \in Users, HandleLogin(c, u)
        PROVE  handler' \in [Conns -> HandlerRecords]
    <3>1. PICK r \in Calls :
             handler' = [handler EXCEPT ![c] = [Idle EXCEPT !.pc = "waiting", !.call = r]]
      BY <2>4 DEF HandleLogin
    <3>2. [Idle EXCEPT !.pc = "waiting", !.call = r] \in HandlerRecords
      BY DEF Idle, HandlerRecords
    <3> QED
      BY <2>2, <3>1, <3>2
  <2>5. ASSUME NEW c \in Conns, LoginFailed(c) \/ LoginAnswered(c)
        PROVE  handler' \in [Conns -> HandlerRecords]
    BY <1>2, <2>2, <2>5 DEF LoginFailed, LoginAnswered
  <2>6. ASSUME NEW c \in Conns, LoginBinds(c)
        PROVE  handler' \in [Conns -> HandlerRecords]
    <3> DEFINE r == handler[c].call
               new == [pc |-> "online", user |-> rpc[r].user, token |-> rpc[r].token, call |-> NoCall]
    <3>1. r \in Calls
      BY <2>6, WaitsAlone DEF LoginBinds
    <3>2. rpc[r] \in LoginRecords
      BY <1>1, <3>1
    <3>3. handler' = [handler EXCEPT ![c] = new]
      BY <2>6 DEF LoginBinds
    <3> HIDE DEF r
    <3>4. new \in HandlerRecords
      BY <3>2 DEF LoginRecords, HandlerRecords
    <3> QED
      BY <2>2, <3>3, <3>4
  <2> QED
    BY <2>1, <2>3, <2>4, <2>5, <2>6, LoginsChange
<1> QED
  BY <1>3, <1>4 DEF GatewayTypes, HandlerRecords, Tokens

\* The clients keep their type.
LEMMA ClientTypesKept ==
    ASSUME SessionsAssumption, IndInv, Next
    PROVE  ClientTypes'
<1> DEFINE CR == [user : Users \cup {NoUser}, token : Tokens \cup {NoToken}]
           AR == [pc : {"idle", "extend", "issue", "offline"},
                  user : Users \cup {NoUser}, token : Tokens \cup {NoToken}]
<1>1. client \in [Conns -> CR] /\ api \in [Conns -> AR]
  BY DEF IndInv, TypeOK, ClientTypes
<1>2. SUFFICES client' \in [Conns -> CR] /\ api' \in [Conns -> AR]
  BY DEF ClientTypes, Tokens
<1>3. CASE UNCHANGED <<client, api>>
  BY <1>1, <1>3
<1>4. ASSUME NEW c \in Conns, NEW cl \in CR, NEW ap \in AR,
             client' = [client EXCEPT ![c] = cl] \/ client' = client,
             api' = [api EXCEPT ![c] = ap] \/ api' = api
      PROVE  client' \in [Conns -> CR] /\ api' \in [Conns -> AR]
  <2> HIDE DEF CR, AR
  <2> QED
    BY <1>1, <1>4
<1>5. Stranger \in CR /\ NoApi \in AR
  BY DEF Stranger, NoApi
<1>6. ASSUME NEW c \in Conns, Connect(c) \/ LoginAnswered(c)
      PROVE  client' \in [Conns -> CR] /\ api' \in [Conns -> AR]
  <2> DEFINE new == [user |-> handler[c].user, token |-> handler[c].token]
  <2>1. handler[c] \in HandlerRecords
    BY DEF IndInv, TypeOK, GatewayTypes, HandlerRecords
  <2>2. new \in CR
    BY <2>1 DEF HandlerRecords
  <2>3. /\ api' = api
        /\ \/ client' = [client EXCEPT ![c] = Stranger]
           \/ client' = [client EXCEPT ![c] = new]
           \/ client' = client
    BY <1>6 DEF Connect, LoginAnswered
  <2> HIDE DEF CR, AR, new
  <2> QED
    BY <1>4, <1>5, <2>2, <2>3
<1>7. ASSUME NEW c \in Conns, ValidateToken(c) \/ RefreshToken(c) \/ Logout(c)
      PROVE  client' \in [Conns -> CR] /\ api' \in [Conns -> AR]
  <2>1. client[c] \in CR /\ client[c].token # NoToken
    BY <1>1, <1>7 DEF ValidateToken, RefreshToken, Logout, Asks
  <2>2. client[c].user \in Users
    BY <2>1 DEF IndInv, ClientsKnown, Issued
  <2>3. generateToken(client[c].user) \in Tokens
    BY <2>2, TokenIsIssued DEF IndInv, TypeOK
  <2>4. PICK pc \in {"extend", "issue", "offline"},
             t \in {client[c].token, generateToken(client[c].user), NoToken} :
               api' = [api EXCEPT ![c] = [pc |-> pc, user |-> client[c].user, token |-> t]]
    BY <1>7 DEF ValidateToken, RefreshToken, Logout, Calling
  <2>5. t \in Tokens \cup {NoToken}
    BY <2>1, <2>3
  <2>6. [pc |-> pc, user |-> client[c].user, token |-> t] \in AR
    BY <2>2, <2>5
  <2>7. client' = client
    BY <1>7 DEF ValidateToken, RefreshToken, Logout
  <2> HIDE DEF CR, AR
  <2> QED
    BY <1>4, <1>5, <2>4, <2>6, <2>7
<1>8. ASSUME NEW c \in Conns,
             ValidateTokenExtends(c) \/ RefreshTokenIssues(c) \/ LogoutSetsOffline(c)
      PROVE  client' \in [Conns -> CR] /\ api' \in [Conns -> AR]
  <2> DEFINE K == client[c]
  <2>1. /\ api' = [api EXCEPT ![c] = NoApi]
        /\ \/ client' = client
           \/ client' = [client EXCEPT ![c] = Stranger]
           \/ client' = [client EXCEPT ![c] = [K EXCEPT !.token = api[c].token]]
    BY <1>8 DEF ValidateTokenExtends, RefreshTokenIssues, LogoutSetsOffline, Returns
  <2>2. K \in CR /\ api[c].token \in Tokens \cup {NoToken}
    BY <1>1
  <2>3. [K EXCEPT !.token = api[c].token] \in CR
    BY <2>2
  <2> HIDE DEF CR, AR, K
  <2> QED
    BY <1>4, <1>5, <2>1, <2>3
<1> HIDE DEF CR, AR
<1> QED
  BY <1>3, <1>6, <1>7, <1>8, ClientsChange

\* Who issues sessions, and for whom.
LEMMA SetSessionCalls ==
    ASSUME SessionsAssumption, IndInv
    PROVE  /\ \A r \in Calls : LoginSetSession(r) =>
                 /\ rpc[r].pc = "session" /\ Issued(rpc[r].token, rpc[r].user)
                 /\ SetSession(rpc[r].token, rpc[r].user) /\ now' = now
           /\ \A c \in Conns : RefreshTokenIssues(c) =>
                 /\ api[c].pc = "issue" /\ Issued(api[c].token, api[c].user)
                 /\ SetSession(api[c].token, api[c].user) /\ now' = now
BY DEF LoginSetSession, LoginStep, RefreshTokenIssues, IndInv, LoginsKnown, ClientsKnown

\* The online keys a handler writes are users', those it announces and those it removes.
LEMMA PresenceCalls ==
    ASSUME SessionsAssumption, IndInv
    PROVE  \A c \in Conns :
              /\ LoginAnswered(c) =>
                    /\ handler[c].user \in Users /\ SetUserOnline(c, handler[c].user)
                    /\ conn[c].open => conn[c].user = handler[c].user
                    /\ UNCHANGED <<now, logins, conn>>
              /\ HandleLogout(c) =>
                    /\ conn' = [conn EXCEPT ![c] = Closed] /\ UNCHANGED <<now, logins>>
                    /\ \/ conn[c].user = NoUser /\ UNCHANGED <<faults, online, ghosts>>
                       \/ conn[c].user \in Users /\ SetUserOffline(conn[c].user)
              /\ LogoutSetsOffline(c) =>
                    /\ api[c].user \in Users /\ SetUserOffline(api[c].user)
                    /\ UNCHANGED <<now, logins, conn>>
<1> SUFFICES ASSUME NEW c \in Conns
             PROVE  /\ LoginAnswered(c) =>
                          /\ handler[c].user \in Users /\ SetUserOnline(c, handler[c].user)
                          /\ conn[c].open => conn[c].user = handler[c].user
                          /\ UNCHANGED <<now, logins, conn>>
                    /\ HandleLogout(c) =>
                          /\ conn' = [conn EXCEPT ![c] = Closed] /\ UNCHANGED <<now, logins>>
                          /\ \/ conn[c].user = NoUser /\ UNCHANGED <<faults, online, ghosts>>
                             \/ conn[c].user \in Users /\ SetUserOffline(conn[c].user)
                    /\ LogoutSetsOffline(c) =>
                          /\ api[c].user \in Users /\ SetUserOffline(api[c].user)
                          /\ UNCHANGED <<now, logins, conn>>
  OBVIOUS
<1>1. conn[c].user \in Users \cup {NoUser}
  BY DEF IndInv, TypeOK, GatewayTypes
<1>2. handler[c].pc = "online" => /\ handler[c].user \in Users
                                  /\ conn[c].open => conn[c].user = handler[c].user
  BY DEF IndInv, HandlersKnown, Issued
<1>3. api[c].pc = "offline" => api[c].user \in Users
  BY DEF IndInv, ClientsKnown, Issued
<1> QED
  BY <1>1, <1>2, <1>3 DEF LoginAnswered, HandleLogout, LogoutSetsOffline, gatewayVars

\* The sessions stay typed, and each its token's user's.
LEMMA SessionsOwnKept ==
    ASSUME SessionsAssumption, IndInv, Next
    PROVE  SessionTypes' /\ SessionsOwn'
<1>1. TypeOK /\ SessionTypes /\ SessionsOwn
  BY DEF IndInv, TypeOK
<1>2. CASE UNCHANGED <<now, session>>
  BY <1>1, <1>2 DEF SessionTypes, SessionsOwn, Tokens
<1>3. CASE Tick
  <2>1. /\ now \in Nat /\ now' = now + 1 /\ SessionTTL \in Nat
        /\ session' = [t \in {s \in DOMAIN session : session[s].expires > now'} |-> session[t]]
    BY <1>1, <1>3 DEF Tick, TypeOK, CounterTypes, SessionsAssumption
  <2>2. /\ DOMAIN session' \subseteq DOMAIN session
        /\ \A t \in DOMAIN session' : session'[t] = session[t] /\ session[t].expires > now'
        /\ session' = [t \in DOMAIN session' |-> session'[t]]
    BY <2>1
  <2>3. \A t \in DOMAIN session' :
           session'[t] \in [user : Users, expires : now' + 1 .. now' + SessionTTL]
    <3> SUFFICES ASSUME NEW t \in DOMAIN session'
                 PROVE  session[t] \in [user : Users, expires : now' + 1 .. now' + SessionTTL]
      BY <2>2
    <3>1. /\ session[t] \in [user : Users, expires : now + 1 .. now + SessionTTL]
          /\ session[t].expires > now'
      BY <1>1, <2>2 DEF SessionTypes
    <3> QED
      BY <2>1, <3>1
  <2>4. session' \in [DOMAIN session' -> [user : Users, expires : now' + 1 .. now' + SessionTTL]]
    <3> DEFINE S == [user : Users, expires : now' + 1 .. now' + SessionTTL]
    <3> HIDE DEF S
    <3> SUFFICES session' \in [DOMAIN session' -> S]
      BY DEF S
    <3>1. \A t \in DOMAIN session' : session'[t] \in S
      BY <2>3 DEF S
    <3> QED
      BY <2>2, <3>1
  <2>5. SessionTypes'
    BY <1>1, <2>2, <2>4 DEF SessionTypes, Tokens
  <2> QED
    BY <1>1, <2>2, <2>5 DEF SessionsOwn
<1>4. ASSUME NEW t, NEW u, SessionsOf(t, u), Issued(t, u) \/ t \notin Tokens
      PROVE  SessionTypes' /\ SessionsOwn'
  <2>1. DOMAIN session' \subseteq Tokens
    BY <1>4 DEF SessionsOf, SessionTypes, Tokens
  <2> QED
    BY <1>1, <1>4, <2>1 DEF SessionsOf, SessionsOwn
<1>5. ASSUME NEW r \in Calls, LoginSetSession(r)
      PROVE  SessionTypes' /\ SessionsOwn'
  <2>1. Issued(rpc[r].token, rpc[r].user) /\ SetSession(rpc[r].token, rpc[r].user) /\ now' = now
    BY <1>5, SetSessionCalls
  <2>2. SessionsOf(rpc[r].token, rpc[r].user)
    BY <1>1, <2>1, SetSessionFacts DEF Issued
  <2> QED
    BY <1>4, <2>1, <2>2
<1>6. ASSUME NEW c \in Conns, RefreshTokenIssues(c)
      PROVE  SessionTypes' /\ SessionsOwn'
  <2>1. Issued(api[c].token, api[c].user) /\ SetSession(api[c].token, api[c].user) /\ now' = now
    BY <1>6, SetSessionCalls
  <2>2. SessionsOf(api[c].token, api[c].user)
    BY <1>1, <2>1, SetSessionFacts DEF Issued
  <2> QED
    BY <1>4, <2>1, <2>2
<1>7. ASSUME NEW c \in Conns, ValidateTokenExtends(c) \/ RefreshToken(c) \/ Logout(c)
      PROVE  SessionTypes' /\ SessionsOwn'
  <2>1. PICK t : now' = now /\ (RefreshSession(t) \/ DeleteSession(t))
    BY <1>7 DEF ValidateTokenExtends, RefreshToken, Logout
  <2>2. SessionsOf(NoToken, NoUser)
    BY <1>1, <2>1, RefreshSessionFacts, DeleteSessionFacts
  <2> QED
    BY <1>4, <2>2 DEF SessionsAssumption
<1> QED
  BY <1>2, <1>3, <1>5, <1>6, <1>7, SessionsChange

\* The online keys stay typed.
LEMMA OnlineTypesKept ==
    ASSUME SessionsAssumption, IndInv, Next
    PROVE  OnlineTypes'
<1> DEFINE S == [node : {Gateway[c] : c \in Conns}, expires : now' + 1 .. now' + OnlineTTL]
<1>1. TypeOK /\ OnlineTypes
  BY DEF IndInv, TypeOK
<1>2. CASE UNCHANGED <<now, online>>
  BY <1>1, <1>2 DEF OnlineTypes
<1>3. CASE Tick
  <2>1. /\ now \in Nat /\ now' = now + 1 /\ OnlineTTL \in Nat
        /\ online' = [u \in {w \in DOMAIN online : online[w].expires > now'} |-> online[u]]
    BY <1>1, <1>3 DEF Tick, TypeOK, CounterTypes, SessionsAssumption
  <2>2. /\ DOMAIN online' \subseteq DOMAIN online
        /\ \A u \in DOMAIN online' : online'[u] = online[u] /\ online[u].expires > now'
        /\ online' = [u \in DOMAIN online' |-> online'[u]]
    BY <2>1
  <2>3. \A u \in DOMAIN online' : online'[u] \in S
    <3> SUFFICES ASSUME NEW u \in DOMAIN online'
                 PROVE  online[u] \in S
      BY <2>2
    <3>1. /\ online[u] \in [node : {Gateway[c] : c \in Conns}, expires : now + 1 .. now + OnlineTTL]
          /\ online[u].expires > now'
      BY <1>1, <2>2 DEF OnlineTypes
    <3> QED
      BY <2>1, <3>1
  <2> HIDE DEF S
  <2>4. online' \in [DOMAIN online' -> S]
    BY <2>2, <2>3
  <2> QED
    BY <1>1, <2>2, <2>4 DEF OnlineTypes, S
<1>4. ASSUME NEW c \in Conns, LoginAnswered(c)
      PROVE  OnlineTypes'
  BY <1>1, <1>4, PresenceCalls, SetUserOnlineFacts
<1>5. ASSUME NEW c \in Conns, HandleLogout(c) \/ LogoutSetsOffline(c)
      PROVE  OnlineTypes'
  <2>1. now' = now /\ (online' = online \/ \E u \in Users : SetUserOffline(u))
    BY <1>5, PresenceCalls
  <2> QED
    BY <1>1, <1>2, <2>1, SetUserOfflineFacts
<1>6. ASSUME NEW c \in Conns, Disconnect(c) \/ LoginBinds(c)
      PROVE  UNCHANGED <<now, online>>
  BY <1>6 DEF Disconnect, LoginBinds, redis
<1> QED
  BY <1>2, <1>3, <1>4, <1>5, <1>6, PresenceChanges

\* The counters stay within their bounds, and the ghosts are users.
LEMMA CounterTypesKept ==
    ASSUME SessionsAssumption, IndInv, Next
    PROVE  CounterTypes'
<1>1. /\ now \in 0 .. MaxTime /\ faults \in 0 .. MaxFaults /\ logins \in 0 .. MaxLogins
      /\ ghosts \subseteq Users /\ DOMAIN online \subseteq Users /\ TypeOK
      /\ MaxTime \in Nat /\ MaxFaults \in Nat /\ MaxLogins \in Nat
  BY DEF IndInv, TypeOK, CounterTypes, OnlineTypes, SessionsAssumption
<1>2. now' \in 0 .. MaxTime
  <2>1. now' = now \/ (now < MaxTime /\ now' = now + 1)
    BY StepIs DEF Tick, LoginRefused, LoginVerified, LoginSetSession, Connect, Disconnect,
                  HandleLogout, HandleLogin, LoginFailed, LoginBinds, LoginAnswered, ValidateToken,
                  ValidateTokenExtends, RefreshToken, RefreshTokenIssues, Logout, LogoutSetsOffline
  <2> QED
    BY <1>1, <2>1
<1>3. logins' \in 0 .. MaxLogins
  <2>1. logins' = logins \/ (logins < MaxLogins /\ logins' = logins + 1)
    BY StepIs DEF Tick, LoginRefused, LoginVerified, LoginSetSession, Connect, Disconnect,
                  HandleLogout, HandleLogin, LoginFailed, LoginBinds, LoginAnswered, ValidateToken,
                  ValidateTokenExtends, RefreshToken, RefreshTokenIssues, Logout, LogoutSetsOffline
  <2> QED
    BY <1>1, <2>1
<1>4. faults' \in 0 .. MaxFaults
  <2>1. CASE faults' = faults
    BY <1>1, <2>1
  <2>2. CASE Fault
    BY <1>1, <2>2 DEF Fault
  <2>3. \A r \in Calls : LoginRefused(r) \/ LoginVerified(r) \/ LoginSetSession(r) =>
           faults' = faults \/ Fault
    BY DEF LoginRefused, LoginVerified, LoginSetSession, SetSession
  <2>4. \A c \in Conns, u \in Users : HandleLogin(c, u) => faults' = faults
    BY DEF HandleLogin
  <2>5. \A c \in Conns : Connect(c) \/ Disconnect(c) \/ LoginFailed(c) \/ LoginBinds(c) =>
              faults' = faults
    BY DEF Connect, Disconnect, LoginFailed, LoginBinds
  <2>6. \A c \in Conns : HandleLogout(c) \/ LoginAnswered(c) \/ LogoutSetsOffline(c) =>
              faults' = faults \/ Fault
    BY DEF HandleLogout, LoginAnswered, LogoutSetsOffline, SetUserOnline, SetUserOffline
  <2>7. \A c \in Conns : ValidateToken(c) \/ ValidateTokenExtends(c) \/ RefreshToken(c)
                            \/ RefreshTokenIssues(c) \/ Logout(c) =>
              faults' = faults \/ Fault
    BY DEF ValidateToken, ValidateTokenExtends, RefreshToken, RefreshTokenIssues, Logout,
           SetSession, DeleteSession, RefreshSession
  <2>8. Tick => faults' = faults
    BY DEF Tick
  <2> QED
    BY <2>1, <2>2, <2>3, <2>4, <2>5, <2>6, <2>7, <2>8, StepIs
<1>5. ghosts' \subseteq Users
  <2>1. CASE UNCHANGED ghosts
    BY <1>1, <2>1
  <2>2. CASE Tick
    BY <1>1, <2>2 DEF Tick
  <2>3. ASSUME NEW c \in Conns, Disconnect(c) \/ LoginBinds(c)
        PROVE  ghosts' \subseteq Users
    BY <1>1, <2>3 DEF Disconnect, LoginBinds
  <2>4. ASSUME NEW u \in Users, SetUserOffline(u)
        PROVE  ghosts' \subseteq Users
    BY <1>1, <2>4 DEF SetUserOffline
  <2>5. ASSUME NEW c \in Conns, HandleLogout(c) \/ LogoutSetsOffline(c)
        PROVE  ghosts' \subseteq Users
    BY <1>1, <2>4, <2>5, PresenceCalls
  <2>6. ASSUME NEW c \in Conns, LoginAnswered(c)
        PROVE  ghosts' \subseteq Users
    <3>1. handler[c].user \in Users /\ SetUserOnline(c, handler[c].user)
      BY <2>6, PresenceCalls
    <3> QED
      BY <1>1, <3>1 DEF SetUserOnline
  <2> QED
    BY <2>1, <2>2, <2>3, <2>5, <2>6, PresenceChanges
<1> QED
  BY <1>2, <1>3, <1>4, <1>5 DEF CounterTypes

\* Every step keeps the types.
LEMMA TypesKept ==
    ASSUME SessionsAssumption, IndInv, Next
    PROVE  TypeOK'
BY CounterTypesKept, SessionsOwnKept, OnlineTypesKept, LoginTypesKept, GatewayTypesKept,
   ClientTypesKept DEF TypeOK

-----------------------------------------------------------------------------
(* The other conjuncts *)

\* A login keeps its user, and its token is made for that user, who is not banned.
LEMMA LoginsKnownKept ==
    ASSUME SessionsAssumption, IndInv, Next
    PROVE  LoginsKnown'
<1>1. /\ rpc \in [Calls -> LoginRecords] /\ LoginsKnown /\ CounterTypes
  BY DEF IndInv, TypeOK, LoginTypes, LoginRecords
<1>2. ASSUME NEW r \in Calls, NEW new, rpc' = [rpc EXCEPT ![r] = new],
             new.pc # "free" => new.user \in Users,
             new.pc \in {"session", "done"} => Issued(new.token, new.user)
      PROVE  LoginsKnown'
  BY <1>1, <1>2 DEF LoginsKnown, Issued, Tokens
<1>3. CASE UNCHANGED rpc
  BY <1>1, <1>3 DEF LoginsKnown, Issued, Tokens
<1>4. NoLogin.pc = "free"
  BY DEF NoLogin
<1>5. ASSUME NEW r \in Calls, LoginRefused(r) \/ LoginVerified(r) \/ LoginSetSession(r)
      PROVE  LoginsKnown'
  <2> DEFINE L == rpc[r]
  <2>1. L \in LoginRecords
    BY <1>1
  <2>2. /\ L.pc # "free" => L.user \in Users
        /\ L.pc \in {"session", "done"} => Issued(L.token, L.user)
    BY <1>1 DEF LoginsKnown
  <2>3. CASE LoginRefused(r)
    <3> DEFINE new == IF Awaited(r) THEN [L EXCEPT !.pc = "refused"] ELSE NoLogin
    <3>1. rpc' = [rpc EXCEPT ![r] = new] /\ L.pc = "check"
      BY <2>3 DEF LoginRefused, LoginStep
    <3>2. /\ new.pc # "free" => new.user \in Users
          /\ new.pc \notin {"session", "done"}
      BY <1>4, <2>1, <2>2, <3>1 DEF LoginRecords
    <3> HIDE DEF new
    <3> QED
      BY <1>2, <3>1, <3>2
  <2>4. CASE LoginVerified(r)
    <3> DEFINE new == [L EXCEPT !.pc = "session", !.token = generateToken(L.user)]
    <3>1. rpc' = [rpc EXCEPT ![r] = new] /\ L.pc = "check" /\ L.user \notin Banned
      BY <2>4 DEF LoginVerified, LoginStep
    <3>2. L.user \in Users
      BY <2>2, <3>1
    <3>3. new.user = L.user /\ new.token = generateToken(L.user)
      BY <2>1 DEF LoginRecords
    <3>4. Issued(new.token, new.user)
      BY <1>1, <3>1, <3>2, <3>3, TokenIsIssued DEF Issued
    <3> HIDE DEF new
    <3> QED
      BY <1>2, <3>1, <3>2, <3>3, <3>4
  <2>5. CASE LoginSetSession(r)
    <3> DEFINE new == IF Awaited(r) THEN [L EXCEPT !.pc = "done"] ELSE NoLogin
    <3>1. rpc' = [rpc EXCEPT ![r] = new] /\ L.pc = "session"
      BY <2>5 DEF LoginSetSession, LoginStep
    <3>2. \/ new.pc = "free"
          \/ new.user = L.user /\ new.token = L.token
      BY <1>4, <2>1 DEF LoginRecords
    <3> HIDE DEF new
    <3> QED
      BY <1>2, <2>2, <3>1, <3>2
  <2> QED
    BY <1>5, <2>3, <2>4, <2>5
<1>6. ASSUME NEW c \in Conns, NEW u \in Users, HandleLogin(c, u)
      PROVE  LoginsKnown'
  <2>1. PICK r \in Calls : rpc' = [rpc EXCEPT ![r] = [pc |-> "check", user |-> u, token |-> NoToken]]
    BY <1>6 DEF HandleLogin
  <2> QED
    BY <1>2, <2>1
<1>7. ASSUME NEW c \in Conns, LoginFailed(c) \/ LoginBinds(c)
      PROVE  LoginsKnown'
  <2>1. handler[c].call \in Calls
    BY <1>7, WaitsAlone DEF LoginFailed, LoginBinds
  <2>2. \/ rpc' = [rpc EXCEPT ![handler[c].call] = NoLogin]
        \/ rpc' = [rpc EXCEPT ![handler[c].call] = rpc[handler[c].call]]
    BY <1>7 DEF LoginFailed, LoginBinds
  <2>3. /\ rpc[handler[c].call].pc # "free" => rpc[handler[c].call].user \in Users
        /\ rpc[handler[c].call].pc \in {"session", "done"} =>
              Issued(rpc[handler[c].call].token, rpc[handler[c].call].user)
    BY <1>1, <2>1 DEF LoginsKnown
  <2> QED
    BY <1>2, <1>4, <2>1, <2>2, <2>3
<1>8. ASSUME NEW c \in Conns, LoginAnswered(c)
      PROVE  UNCHANGED rpc
  BY <1>8 DEF LoginAnswered
<1> QED
  BY <1>3, <1>5, <1>6, <1>7, <1>8, LoginsChange

\* What happens to a login that a handler waits for: it stays under way until the
\* handler is through with it.
LEMMA AwaitedGoesOn ==
    ASSUME SessionsAssumption, IndInv, Next,
           NEW c \in Conns, handler[c].pc = "waiting", handler'[c] = handler[c]
    PROVE  rpc'[handler[c].call].pc # "free"
<1> DEFINE x == handler[c].call
<1>1. /\ rpc \in [Calls -> LoginRecords] /\ handler \in [Conns -> HandlerRecords]
      /\ x \in Calls /\ rpc[x].pc # "free" /\ Awaited(x)
      /\ \A d \in Conns : d # c => handler[d].call # x
  BY WaitsAlone DEF IndInv, TypeOK, LoginTypes, GatewayTypes, LoginRecords, HandlerRecords, Awaited
<1>2. ASSUME NEW r \in Calls, NEW new, rpc' = [rpc EXCEPT ![r] = new],
             r = x => new.pc # "free"
      PROVE  rpc'[x].pc # "free"
  BY <1>1, <1>2
<1> HIDE DEF x
<1>3. ASSUME NEW r \in Calls, LoginRefused(r) \/ LoginVerified(r) \/ LoginSetSession(r)
      PROVE  rpc'[x].pc # "free"
  <2> DEFINE L == rpc[r]
  <2>1. PICK pc \in {"refused", "session", "done"}, t \in {L.token, generateToken(L.user)} :
           \/ rpc' = [rpc EXCEPT ![r] = [L EXCEPT !.pc = pc, !.token = t]]
           \/ ~Awaited(r) /\ rpc' = [rpc EXCEPT ![r] = NoLogin]
    <3>1. L \in LoginRecords
      BY <1>1
    <3>2. \A pc \in {"refused", "done"} :
             [L EXCEPT !.pc = pc] = [L EXCEPT !.pc = pc, !.token = L.token]
      BY <3>1 DEF LoginRecords
    <3>3. /\ LoginRefused(r) => \/ rpc' = [rpc EXCEPT ![r] = [L EXCEPT !.pc = "refused"]]
                                \/ ~Awaited(r) /\ rpc' = [rpc EXCEPT ![r] = NoLogin]
          /\ LoginVerified(r) => rpc' = [rpc EXCEPT ![r] = [L EXCEPT !.pc = "session", !.token = generateToken(L.user)]]
          /\ LoginSetSession(r) => \/ rpc' = [rpc EXCEPT ![r] = [L EXCEPT !.pc = "done"]]
                                   \/ ~Awaited(r) /\ rpc' = [rpc EXCEPT ![r] = NoLogin]
      BY DEF LoginRefused, LoginVerified, LoginSetSession, LoginStep
    <3> HIDE DEF L
    <3> QED
      BY <1>3, <3>2, <3>3
  <2>2. [L EXCEPT !.pc = pc, !.token = t].pc = pc
    BY <1>1 DEF LoginRecords
  <2> HIDE DEF L
  <2> QED
    BY <1>1, <1>2, <2>1, <2>2
<1>4. ASSUME NEW d \in Conns, NEW u \in Users, HandleLogin(d, u)
      PROVE  rpc'[x].pc # "free"
  <2>1. PICK r \in Calls : rpc' = [rpc EXCEPT ![r] = [pc |-> "check", user |-> u, token |-> NoToken]]
    BY <1>4 DEF HandleLogin
  <2> QED
    BY <1>2, <2>1
<1>5. ASSUME NEW d \in Conns, LoginFailed(d) \/ LoginBinds(d)
      PROVE  rpc'[x].pc # "free"
  <2>1. d # c
    <3>1. handler'[d].pc # "waiting"
      BY <1>1, <1>5 DEF LoginFailed, LoginBinds, Idle, HandlerRecords
    <3> QED
      BY <3>1
  <2>2. handler[d].call \in Calls /\ handler[d].call # x
    BY <1>1, <1>5, <2>1, WaitsAlone DEF LoginFailed, LoginBinds
  <2>3. \/ rpc' = [rpc EXCEPT ![handler[d].call] = NoLogin]
        \/ rpc' = [rpc EXCEPT ![handler[d].call] = rpc[handler[d].call]]
    BY <1>5 DEF LoginFailed, LoginBinds
  <2> QED
    BY <1>2, <2>2, <2>3
<1>6. ASSUME NEW d \in Conns, LoginAnswered(d)
      PROVE  UNCHANGED rpc
  BY <1>6 DEF LoginAnswered
<1>7. rpc'[x].pc # "free"
  BY <1>1, <1>3, <1>4, <1>5, <1>6, LoginsChange
<1> QED
  BY <1>7 DEF x

\* A connection's user only changes while its handler binds a login, or when it
\* opens or closes with no login being announced.
LEMMA BoundUserStays ==
    ASSUME SessionsAssumption, IndInv, Next,
           NEW c \in Conns, handler[c].pc = "online", conn'[c].open
    PROVE  conn'[c] = conn[c]
<1>1. conn \in [Conns -> [open : BOOLEAN, user : Users \cup {NoUser}]]
  BY DEF IndInv, TypeOK, GatewayTypes
<1>2. ASSUME NEW d \in Conns, Connect(d) \/ LoginBinds(d)
      PROVE  conn'[c] = conn[c]
  <2>1. d # c
    BY <1>2 DEF Connect, LoginBinds, AtRest
  <2> QED
    BY <1>1, <1>2, <2>1 DEF Connect, LoginBinds
<1>3. ASSUME NEW d \in Conns, Disconnect(d) \/ HandleLogout(d)
      PROVE  conn'[c] = conn[c]
  <2>1. conn' = [conn EXCEPT ![d] = Closed]
    BY <1>3 DEF Disconnect, HandleLogout
  <2> QED
    BY <1>1, <2>1 DEF Closed
<1> QED
  BY <1>2, <1>3, ConnectionsChange

\* What a step does to the handler of one connection.
LEMMA HandlerSteps ==
    ASSUME SessionsAssumption, IndInv, Next, NEW c \in Conns
    PROVE  \/ handler'[c] = handler[c]
           \/ handler'[c] = Idle
           \/ \E u \in Users : HandleLogin(c, u)
           \/ LoginBinds(c)
<1>1. handler \in [Conns -> HandlerRecords]
  BY DEF IndInv, TypeOK, GatewayTypes, HandlerRecords
<1>2. ASSUME NEW r \in Calls, LoginRefused(r) \/ LoginVerified(r) \/ LoginSetSession(r)
      PROVE  UNCHANGED handler
  BY <1>2 DEF LoginRefused, LoginVerified, LoginSetSession, gatewayVars
<1>3. ASSUME NEW d \in Conns, NEW u \in Users, HandleLogin(d, u), d # c
      PROVE  handler'[c] = handler[c]
  BY <1>1, <1>3 DEF HandleLogin
<1>4. ASSUME NEW d \in Conns, LoginBinds(d), d # c
      PROVE  handler'[c] = handler[c]
  BY <1>1, <1>4 DEF LoginBinds
<1>5. ASSUME NEW d \in Conns, LoginFailed(d) \/ LoginAnswered(d)
      PROVE  handler'[c] = handler[c] \/ handler'[c] = Idle
  BY <1>1, <1>5 DEF LoginFailed, LoginAnswered
<1> QED
  BY <1>2, <1>3, <1>4, <1>5, LoginsChange

\* A handler waits for a login under way, and what it announces is what it bound.
LEMMA HandlersKnownKept ==
    ASSUME SessionsAssumption, IndInv, Next
    PROVE  HandlersKnown'
<1>1. /\ rpc \in [Calls -> LoginRecords] /\ handler \in [Conns -> HandlerRecords]
      /\ conn \in [Conns -> [open : BOOLEAN, user : Users \cup {NoUser}]]
      /\ HandlersKnown
  BY DEF IndInv, TypeOK, LoginTypes, GatewayTypes, LoginRecords, HandlerRecords
<1> SUFFICES ASSUME NEW c \in Conns
             PROVE  /\ IF handler'[c].pc = "waiting"
                       THEN handler'[c].call \in Calls /\ rpc'[handler'[c].call].pc # "free"
                       ELSE handler'[c].call = NoCall
                    /\ handler'[c].pc = "online" =>
                          /\ Issued(handler'[c].token, handler'[c].user)
                          /\ conn'[c].open => conn'[c].user = handler'[c].user
  BY DEF HandlersKnown, Issued, Tokens
<1>2. CASE handler'[c] = handler[c]
  BY <1>1, <1>2, AwaitedGoesOn, BoundUserStays DEF HandlersKnown
<1>3. CASE handler'[c] = Idle
  BY <1>3 DEF Idle
<1>4. ASSUME NEW u \in Users, HandleLogin(c, u)
      PROVE  /\ handler'[c].pc = "waiting" /\ handler'[c].call \in Calls
             /\ rpc'[handler'[c].call].pc # "free"
  <2>1. PICK r \in Calls :
           /\ rpc' = [rpc EXCEPT ![r] = [pc |-> "check", user |-> u, token |-> NoToken]]
           /\ handler' = [handler EXCEPT ![c] = [Idle EXCEPT !.pc = "waiting", !.call = r]]
    BY <1>4 DEF HandleLogin
  <2>2. handler'[c].pc = "waiting" /\ handler'[c].call = r
    BY <1>1, <2>1 DEF Idle
  <2> QED
    BY <1>1, <2>1, <2>2
<1>5. CASE LoginBinds(c)
  <2> DEFINE r == handler[c].call
  <2>1. r \in Calls /\ rpc[r].pc = "done"
    BY <1>5, WaitsAlone DEF LoginBinds
  <2>2. Issued(rpc[r].token, rpc[r].user)
    BY <2>1 DEF IndInv, LoginsKnown
  <2>3. handler'[c] = [pc |-> "online", user |-> rpc[r].user, token |-> rpc[r].token, call |-> NoCall]
    BY <1>1, <1>5 DEF LoginBinds
  <2>4. conn' = IF conn[c].open THEN [conn EXCEPT ![c].user = rpc[r].user] ELSE conn
    BY <1>5 DEF LoginBinds
  <2> HIDE DEF r
  <2>5. conn'[c].open => conn'[c].user = rpc[r].user
    BY <1>1, <2>4
  <2> QED
    BY <2>2, <2>3, <2>5
<1> QED
  BY <1>2, <1>3, <1>4, <1>5, HandlerSteps

\* A login has one handler.
LEMMA OneWaitsKept ==
    ASSUME SessionsAssumption, IndInv, Next
    PROVE  OneWaits'
<1>1. /\ handler \in [Conns -> HandlerRecords] /\ OneWaits /\ HandlersKnown
      /\ NoCall \notin Calls
  BY DEF IndInv, TypeOK, GatewayTypes, HandlerRecords, SessionsAssumption
<1> SUFFICES ASSUME NEW c \in Conns, NEW d \in Conns, c # d,
                    handler'[c].call = handler'[d].call
             PROVE  handler'[c].call = NoCall
  BY DEF OneWaits
<1>2. ASSUME NEW e \in Conns, handler'[e] = Idle \/ LoginBinds(e)
      PROVE  handler'[e].call = NoCall
  BY <1>1, <1>2 DEF Idle, LoginBinds
<1>3. ASSUME NEW e \in Conns, NEW f \in Conns, e # f, NEW u \in Users, HandleLogin(e, u)
      PROVE  handler'[e].call # handler'[f].call
  <2>1. PICK r \in Calls :
           /\ rpc[r].pc = "free"
           /\ handler' = [handler EXCEPT ![e] = [Idle EXCEPT !.pc = "waiting", !.call = r]]
    BY <1>3 DEF HandleLogin
  <2>2. handler'[e].call = r /\ handler'[f] = handler[f]
    BY <1>1, <1>3, <2>1 DEF Idle
  <2>3. handler[f].call # r
    BY <1>1, <2>1 DEF HandlersKnown
  <2> QED
    BY <2>2, <2>3
<1>4. CASE handler'[c] = handler[c] /\ handler'[d] = handler[d]
  BY <1>1, <1>4 DEF OneWaits
<1> QED
  BY <1>2, <1>3, <1>4, HandlerSteps

\* A client holds its own token, and calls with it while its handler rests.
LEMMA ClientsKnownKept ==
    ASSUME SessionsAssumption, IndInv, Next
    PROVE  ClientsKnown'
<1> DEFINE CR == [user : Users \cup {NoUser}, token : Tokens \cup {NoToken}]
           AR == [pc : {"idle", "extend", "issue", "offline"},
                  user : Users \cup {NoUser}, token : Tokens \cup {NoToken}]
           Known(h, cl, ap) ==
              /\ cl.token # NoToken => Issued(cl.token, cl.user)
              /\ ap.pc # "idle" =>
                    /\ h.pc = "idle"
                    /\ cl.token # NoToken /\ ap.user = cl.user
                    /\ ap.token # NoToken => Issued(ap.token, ap.user)
              /\ ap.pc \in {"issue", "extend"} => ap.token # NoToken
<1>1. /\ client \in [Conns -> CR] /\ api \in [Conns -> AR] /\ handler \in [Conns -> HandlerRecords]
      /\ TypeOK /\ CounterTypes
      /\ \A c \in Conns : Known(handler[c], client[c], api[c])
  BY DEF IndInv, TypeOK, ClientTypes, GatewayTypes, HandlerRecords, ClientsKnown
<1> SUFFICES ASSUME NEW c \in Conns
             PROVE  Known(handler'[c], client'[c], api'[c])
  BY DEF ClientsKnown, Issued, Tokens
<1>2. CASE client'[c] = client[c] /\ api'[c] = api[c]
  <2>1. CASE handler'[c] = handler[c]
    BY <1>1, <1>2, <2>1
  <2>2. CASE handler'[c] = Idle
    BY <1>1, <1>2, <2>2 DEF Idle
  <2>3. ASSUME NEW u \in Users, HandleLogin(c, u)
        PROVE  Known(handler'[c], client'[c], api'[c])
    BY <1>1, <1>2, <2>3 DEF HandleLogin, AtRest
  <2>4. CASE LoginBinds(c)
    BY <1>1, <1>2, <2>4 DEF LoginBinds
  <2> QED
    BY <2>1, <2>2, <2>3, <2>4, HandlerSteps
<1>3. ASSUME NEW d \in Conns, d # c,
             \/ Connect(d) \/ LoginAnswered(d)
             \/ ValidateToken(d) \/ ValidateTokenExtends(d)
             \/ RefreshToken(d) \/ RefreshTokenIssues(d)
             \/ Logout(d) \/ LogoutSetsOffline(d)
      PROVE  client'[c] = client[c] /\ api'[c] = api[c]
  BY <1>1, <1>3 DEF Connect, LoginAnswered, ValidateToken, ValidateTokenExtends, RefreshToken,
                    RefreshTokenIssues, Logout, LogoutSetsOffline, Calling, Returns
<1>4. CASE Connect(c)
  <2>1. client'[c] = Stranger /\ api'[c].pc = "idle"
    BY <1>1, <1>4 DEF Connect, AtRest
  <2> QED
    BY <2>1 DEF Stranger
<1>5. CASE LoginAnswered(c)
  <2>1. Issued(handler[c].token, handler[c].user)
    BY <1>5 DEF LoginAnswered, IndInv, HandlersKnown
  <2>2. /\ \/ client'[c] = client[c]
           \/ client'[c] = [user |-> handler[c].user, token |-> handler[c].token]
        /\ api'[c] = api[c] /\ api[c].pc = "idle"
    BY <1>1, <1>5 DEF LoginAnswered
  <2> QED
    BY <1>1, <2>1, <2>2
<1>6. CASE ValidateToken(c) \/ RefreshToken(c) \/ Logout(c)
  <2>1. /\ client[c].token # NoToken /\ handler[c].pc = "idle"
        /\ Issued(client[c].token, client[c].user)
    BY <1>1, <1>6 DEF ValidateToken, RefreshToken, Logout, Asks, AtRest
  <2>2. /\ generateToken(client[c].user) \in Tokens /\ generateToken(client[c].user) # NoToken
        /\ Issued(generateToken(client[c].user), client[c].user)
    BY <1>1, <2>1, TokenIsIssued DEF Issued
  <2>3. PICK pc \in {"extend", "issue", "offline"},
             t \in {client[c].token, generateToken(client[c].user), NoToken} :
           /\ api' = [api EXCEPT ![c] = [pc |-> pc, user |-> client[c].user, token |-> t]]
           /\ t = NoToken => pc = "offline"
    BY <1>6, <2>1, <2>2 DEF ValidateToken, RefreshToken, Logout, Calling
  <2>4. client' = client /\ handler' = handler
    BY <1>6 DEF ValidateToken, RefreshToken, Logout, gatewayVars
  <2>5. api'[c] = [pc |-> pc, user |-> client[c].user, token |-> t]
    BY <1>1, <2>3
  <2> QED
    BY <2>1, <2>2, <2>3, <2>4, <2>5
<1>7. CASE ValidateTokenExtends(c) \/ RefreshTokenIssues(c) \/ LogoutSetsOffline(c)
  <2>1. api'[c].pc = "idle"
    BY <1>1, <1>7 DEF ValidateTokenExtends, RefreshTokenIssues, LogoutSetsOffline, Returns, NoApi
  <2>2. CASE client' = client
    BY <1>1, <2>1, <2>2
  <2>3. CASE client' = [client EXCEPT ![c] = Stranger]
    BY <1>1, <2>1, <2>3 DEF Stranger
  <2>4. CASE RefreshTokenIssues(c)
    <3>1. Issued(api[c].token, api[c].user) /\ api[c].user = client[c].user
      BY <1>1, <2>4 DEF RefreshTokenIssues
    <3>2. client'[c].token = api[c].token /\ client'[c].user = client[c].user
      BY <1>1, <2>4 DEF RefreshTokenIssues
    <3> QED
      BY <2>1, <3>1, <3>2
  <2> QED
    BY <1>7, <2>2, <2>3, <2>4 DEF ValidateTokenExtends, LogoutSetsOffline
<1> HIDE DEF Known, CR, AR
<1> QED
  BY <1>2, <1>3, <1>4, <1>5, <1>6, <1>7, ClientsChange

\* A presence keeps its reason or becomes a ghost: a user's connection that closes
\* or goes on as another leaves a ghost unless the online key goes with it, and a
\* key is only written for the user its connection is bound to.
LEMMA PresenceKept ==
    ASSUME SessionsAssumption, IndInv, Next
    PROVE  PresenceHasReason'
<1> DEFINE Bound(u, c) == conn[c].open /\ conn[c].user = u /\ Gateway[c] = online[u].node
<1>1. /\ conn \in [Conns -> [open : BOOLEAN, user : Users \cup {NoUser}]]
      /\ DOMAIN online \subseteq Users /\ NoUser \notin Users /\ TypeOK
      /\ \A u \in DOMAIN online : u \in ghosts \/ \E c \in Conns : Bound(u, c)
  BY DEF IndInv, TypeOK, GatewayTypes, OnlineTypes, SessionsAssumption, PresenceHasReason
<1> SUFFICES ASSUME NEW u \in DOMAIN online'
             PROVE  u \in ghosts' \/ \E c \in Conns : Bound(u, c)'
  BY DEF PresenceHasReason
<1>2. ASSUME u \in DOMAIN online, online'[u] = online[u],
             u \in ghosts => u \in ghosts',
             \A c \in Conns : Bound(u, c) => conn'[c] = conn[c] \/ u \in ghosts'
      PROVE  u \in ghosts' \/ \E c \in Conns : Bound(u, c)'
  BY <1>1, <1>2
<1>3. CASE Tick
  <2>1. u \in DOMAIN online /\ online'[u] = online[u] /\ conn' = conn
    BY <1>3 DEF Tick, gatewayVars
  <2>2. u \in ghosts => u \in ghosts'
    BY <1>3 DEF Tick
  <2> QED
    BY <1>2, <2>1, <2>2
<1>4. ASSUME NEW c \in Conns, Disconnect(c)
      PROVE  u \in ghosts' \/ \E d \in Conns : Bound(u, d)'
  <2>1. /\ u \in DOMAIN online /\ online' = online /\ (u \in ghosts => u \in ghosts')
        /\ \A d \in Conns : d # c => conn'[d] = conn[d]
        /\ conn[c].user = u => u \in ghosts'
    BY <1>1, <1>4 DEF Disconnect, redis
  <2> QED
    BY <1>2, <2>1
<1>5. ASSUME NEW c \in Conns, LoginBinds(c)
      PROVE  u \in ghosts' \/ \E d \in Conns : Bound(u, d)'
  <2> DEFINE v == rpc[handler[c].call].user
  <2>1. /\ online' = online
        /\ ghosts' = ghosts \cup (({conn[c].user} \ {v}) \cap DOMAIN online)
        /\ conn' = IF conn[c].open THEN [conn EXCEPT ![c].user = v] ELSE conn
    BY <1>5 DEF LoginBinds, redis
  <2> HIDE DEF v
  <2>2. \A d \in Conns : d # c => conn'[d] = conn[d]
    BY <1>1, <2>1
  <2>3. conn[c].user = u /\ u # v => u \in ghosts'
    BY <2>1
  <2>4. conn[c].open /\ conn[c].user = v => conn'[c] = conn[c]
    BY <1>1, <2>1
  <2> QED
    BY <1>2, <2>1, <2>2, <2>3, <2>4
<1>6. ASSUME NEW c \in Conns, LoginAnswered(c)
      PROVE  u \in ghosts' \/ \E d \in Conns : Bound(u, d)'
  <2> DEFINE v == handler[c].user
  <2>1. /\ v \in Users /\ SetUserOnline(c, v) /\ now' = now /\ conn' = conn
        /\ conn[c].open => conn[c].user = v
    BY <1>6, PresenceCalls
  <2> HIDE DEF v
  <2>2. \/ UNCHANGED <<online, ghosts>>
        \/ /\ DOMAIN online' = DOMAIN online \cup {v} /\ online'[v].node = Gateway[c]
           /\ \A w \in DOMAIN online : w # v => online'[w] = online[w]
           /\ ghosts' = IF conn[c].open THEN ghosts ELSE ghosts \cup {v}
    BY <1>1, <2>1, SetUserOnlineFacts, ZenonT(60)
  <2>3. CASE UNCHANGED <<online, ghosts>>
    BY <1>2, <2>1, <2>3
  <2>4. CASE /\ DOMAIN online' = DOMAIN online \cup {v} /\ online'[v].node = Gateway[c]
             /\ \A w \in DOMAIN online : w # v => online'[w] = online[w]
             /\ ghosts' = IF conn[c].open THEN ghosts ELSE ghosts \cup {v}
    <3>1. CASE u = v
      BY <2>1, <2>4, <3>1
    <3>2. CASE u # v
      BY <1>2, <2>1, <2>4, <3>2
    <3> QED
      BY <3>1, <3>2
  <2> QED
    BY <2>2, <2>3, <2>4
<1>7. ASSUME NEW v \in Users, SetUserOffline(v), now' = now,
             \A c \in Conns : conn[c].user # v => conn'[c] = conn[c]
      PROVE  u \in ghosts' \/ \E d \in Conns : Bound(u, d)'
  <2>1. /\ u \in DOMAIN online /\ online'[u] = online[u]
        /\ \/ u # v /\ (u \in ghosts => u \in ghosts')
           \/ u \in ghosts'
    BY <1>1, <1>7, SetUserOfflineFacts
  <2> QED
    BY <1>2, <1>7, <2>1
<1>8. ASSUME NEW c \in Conns, HandleLogout(c)
      PROVE  u \in ghosts' \/ \E d \in Conns : Bound(u, d)'
  <2>1. /\ conn' = [conn EXCEPT ![c] = Closed] /\ now' = now
        /\ \/ conn[c].user = NoUser /\ UNCHANGED <<faults, online, ghosts>>
           \/ conn[c].user \in Users /\ SetUserOffline(conn[c].user)
    BY <1>8, PresenceCalls
  <2>2. \A d \in Conns : conn[d].user # conn[c].user => conn'[d] = conn[d]
    BY <1>1, <2>1
  <2>3. CASE conn[c].user = NoUser /\ UNCHANGED <<faults, online, ghosts>>
    <3>1. u # NoUser
      BY <1>1, <2>3
    <3> QED
      BY <1>2, <2>2, <2>3, <3>1
  <2> QED
    BY <1>7, <2>1, <2>2, <2>3
<1>9. ASSUME NEW c \in Conns, LogoutSetsOffline(c)
      PROVE  u \in ghosts' \/ \E d \in Conns : Bound(u, d)'
  BY <1>7, <1>9, PresenceCalls
<1>10. CASE UNCHANGED <<now, online, ghosts>>
  <2>1. CASE UNCHANGED conn
    BY <1>2, <1>10, <2>1
  <2>2. ASSUME NEW c \in Conns, Connect(c)
        PROVE  \A d \in Conns : Bound(u, d) => conn'[d] = conn[d]
    BY <1>1, <2>2 DEF Connect
  <2> QED
    BY <1>2, <1>4, <1>5, <1>8, <1>10, <2>1, <2>2, ConnectionsChange
<1> HIDE DEF Bound
<1> QED
  BY <1>3, <1>4, <1>5, <1>6, <1>8, <1>9, <1>10, PresenceChanges

-----------------------------------------------------------------------------
(* The theorems *)

\* Everything starts empty, so the invariant holds before the first message.
THEOREM InitEstablishes ==
    ASSUME SessionsAssumption, Init
    PROVE  IndInv
<1>1. TypeOK
  <2>1. CounterTypes
    BY DEF SessionsAssumption, Init, CounterTypes
  <2>2. SessionTypes /\ OnlineTypes
    BY DEF Init, SessionTypes, OnlineTypes
  <2>3. LoginTypes
    BY DEF Init, LoginTypes, NoLogin
  <2>4. GatewayTypes
    BY DEF Init, GatewayTypes, Closed, Idle
  <2>5. ClientTypes
    BY DEF Init, ClientTypes, Stranger, NoApi
  <2> QED
    BY <2>1, <2>2, <2>3, <2>4, <2>5 DEF TypeOK
<1>2. LoginsKnown
  BY DEF Init, LoginsKnown, NoLogin
<1>3. HandlersKnown /\ OneWaits
  BY DEF Init, HandlersKnown, OneWaits, Idle
<1>4. ClientsKnown
  BY DEF Init, ClientsKnown, Stranger, NoApi
<1>5. SessionsOwn /\ PresenceHasReason
  BY DEF Init, SessionsOwn, PresenceHasReason
<1> QED
  BY <1>1, <1>2, <1>3, <1>4, <1>5 DEF IndInv

\* Every Redis command and every step of a handler keeps the invariant.
THEOREM IndInvInductive ==
    ASSUME SessionsAssumption, IndInv, [Next]_vars
    PROVE  IndInv'
<1>1. CASE Next
  BY <1>1, TypesKept, LoginsKnownKept, HandlersKnownKept, OneWaitsKept, ClientsKnownKept,
     SessionsOwnKept, PresenceKept DEF IndInv
<1>2. CASE UNCHANGED vars
  <2>1. UNCHANGED <<now, faults, logins, session, online, rpc, conn, handler, client, api, ghosts>>
    BY <1>2 DEF vars, redis, gatewayVars
  <2>2. TypeOK'
    BY <2>1 DEF IndInv, TypeOK, CounterTypes, SessionTypes, OnlineTypes, LoginTypes, Awaited,
                GatewayTypes, ClientTypes, Tokens
  <2>3. LoginsKnown' /\ HandlersKnown' /\ OneWaits'
    BY <2>1 DEF IndInv, LoginsKnown, HandlersKnown, OneWaits, Issued, Tokens
  <2>4. ClientsKnown' /\ SessionsOwn' /\ PresenceHasReason'
    BY <2>1 DEF IndInv, ClientsKnown, SessionsOwn, PresenceHasReason, Issued, Tokens
  <2> QED
    BY <2>2, <2>3, <2>4 DEF IndInv
<1> QED
  BY <1>1, <1>2

\* The inductive invariant holds in every reachable state.
THEOREM Invariance == Spec => []IndInv
<1>1. Init => IndInv
  BY SessionsAssumption, InitEstablishes
<1>2. IndInv /\ [Next]_vars => IndInv'
  BY SessionsAssumption, IndInvInductive
<1> QED
  BY <1>1, <1>2, PTL DEF Spec

\* Type correctness of the login server, the gateways and their Redis keys: no key
\* outlives its lifetime, and a call that is over is one a gateway still awaits.
THEOREM TypeCorrect == Spec => []TypeOK
<1>1. IndInv => TypeOK
  BY DEF IndInv
<1> QED
  BY <1>1, Invariance, PTL

\* A client's token opens its own user's session or none, whoever else logs in, and
\* no session is a banned user's: generateToken, Login and RefreshToken.
THEOREM TokensOpenOwn == Spec => []TokenOpensOwnSession
<1>1. IndInv => TokenOpensOwnSession
  <2> SUFFICES ASSUME IndInv
               PROVE  TokenOpensOwnSession
    OBVIOUS
  <2>1. /\ DOMAIN session \subseteq Tokens /\ NoToken \notin Tokens
        /\ SessionsOwn /\ ClientsKnown
    BY SessionsAssumption DEF IndInv, TypeOK, SessionTypes, SessionsAssumption
  <2>2. \A t \in DOMAIN session : session[t].user = t.user /\ session[t].user \notin Banned
    BY <2>1 DEF SessionsOwn, Issued
  <2>3. \A c \in Conns : client[c].token \in DOMAIN session => client[c].token.user = client[c].user
    BY <2>1 DEF ClientsKnown, Issued
  <2> QED
    BY <2>2, <2>3 DEF TokenOpensOwnSession
<1> QED
  BY <1>1, Invariance, PTL

\* Every online key has a connection to show for it, or a ghost's excuse: handleLogin
\* and handleLogout, however the two, the connections and the expiries interleave.
THEOREM PresenceReasoned == Spec => []PresenceHasReason
<1>1. IndInv => PresenceHasReason
  BY DEF IndInv
<1> QED
  BY <1>1, Invariance, PTL

\* Only Login and RefreshToken make sessions; ValidateToken's EXPIRE never revives one.
THEOREM OnlyIssueMakes == Spec => OnlyIssueCreates
<1> DEFINE Step == \A t \in DOMAIN session' \ DOMAIN session :
                      \/ \E r \in Calls : rpc[r].pc = "session" /\ rpc[r].token = t
                      \/ \E c \in Conns : api[c].pc = "issue" /\ api[c].token = t
<1>1. ASSUME SessionsAssumption, IndInv, Next
      PROVE  Step
  <2>1. TypeOK
    BY <1>1 DEF IndInv
  <2>2. CASE DOMAIN session' \subseteq DOMAIN session
    BY <2>2
  <2>3. CASE Tick
    BY <2>2, <2>3 DEF Tick
  <2>4. ASSUME NEW r \in Calls, LoginSetSession(r)
        PROVE  Step
    <3>1. /\ rpc[r].pc = "session" /\ Issued(rpc[r].token, rpc[r].user) /\ now' = now
          /\ SetSession(rpc[r].token, rpc[r].user)
      BY <1>1, <2>4, SetSessionCalls
    <3>2. SessionsOf(rpc[r].token, rpc[r].user)
      BY <1>1, <2>1, <3>1, SetSessionFacts DEF Issued
    <3> QED
      BY <3>1, <3>2 DEF SessionsOf
  <2>5. ASSUME NEW c \in Conns, RefreshTokenIssues(c)
        PROVE  Step
    <3>1. /\ api[c].pc = "issue" /\ Issued(api[c].token, api[c].user) /\ now' = now
          /\ SetSession(api[c].token, api[c].user)
      BY <1>1, <2>5, SetSessionCalls
    <3>2. SessionsOf(api[c].token, api[c].user)
      BY <1>1, <2>1, <3>1, SetSessionFacts DEF Issued
    <3> QED
      BY <3>1, <3>2 DEF SessionsOf
  <2>6. ASSUME NEW c \in Conns, ValidateTokenExtends(c) \/ RefreshToken(c) \/ Logout(c)
        PROVE  DOMAIN session' \subseteq DOMAIN session
    <3>1. PICK t : now' = now /\ (RefreshSession(t) \/ DeleteSession(t))
      BY <2>6 DEF ValidateTokenExtends, RefreshToken, Logout
    <3> QED
      BY <1>1, <2>1, <3>1, RefreshSessionFacts, DeleteSessionFacts
  <2> HIDE DEF Step
  <2> QED
    BY <1>1, <2>2, <2>3, <2>4, <2>5, <2>6, SessionsChange
<1>2. UNCHANGED vars => Step
  BY DEF vars, redis
<1> HIDE DEF Step
<1>3. IndInv /\ [Next]_vars => Step
  BY <1>1, <1>2, SessionsAssumption
<1>4. Spec => [][Step]_vars
  BY <1>3, Invariance, PTL DEF Spec
<1> QED
  BY <1>4 DEF OnlyIssueCreates, Step

\* A session ends by expiry or at the request of a client that holds its token, and
\* RefreshToken leaves a token that works, unless Redis failed.
THEOREM TokensWork == Spec => HeldTokenWorks
<1> DEFINE Ends == \A t \in DOMAIN session \ DOMAIN session' :
                      \/ now' # now
                      \/ \E c \in Conns : AtRest(c) /\ client[c].token = t /\ api'[c].pc # "idle"
           Works == \A c \in Conns :
                      api[c].pc = "issue" /\ api'[c].pc = "idle" /\ faults' = faults
                          => client'[c].token \in DOMAIN session'
           Step == /\ Ends
                   /\ Works
<1>1. ASSUME SessionsAssumption, IndInv, Next
      PROVE  Ends
  <2>1. TypeOK /\ now \in Nat
    BY <1>1 DEF IndInv, TypeOK, CounterTypes, SessionsAssumption
  <2>2. CASE DOMAIN session \subseteq DOMAIN session'
    BY <2>2
  <2>3. CASE Tick
    BY <2>1, <2>3 DEF Tick
  <2>4. ASSUME NEW r \in Calls, LoginSetSession(r)
        PROVE  DOMAIN session \subseteq DOMAIN session'
    BY <1>1, <2>1, <2>4, SetSessionCalls, SetSessionFacts DEF Issued
  <2>5. ASSUME NEW c \in Conns, RefreshTokenIssues(c)
        PROVE  DOMAIN session \subseteq DOMAIN session'
    BY <1>1, <2>1, <2>5, SetSessionCalls, SetSessionFacts DEF Issued
  <2>6. ASSUME NEW c \in Conns, ValidateTokenExtends(c)
        PROVE  DOMAIN session \subseteq DOMAIN session'
    <3>1. now' = now /\ RefreshSession(api[c].token)
      BY <2>6 DEF ValidateTokenExtends
    <3> QED
      BY <1>1, <2>1, <3>1, RefreshSessionFacts
  <2>7. ASSUME NEW c \in Conns, RefreshToken(c) \/ Logout(c)
        PROVE  Ends
    <3>1. now' = now /\ DeleteSession(client[c].token) /\ AtRest(c)
      BY <2>7 DEF RefreshToken, Logout, Asks
    <3>2. DOMAIN session \ {client[c].token} \subseteq DOMAIN session'
      BY <1>1, <2>1, <3>1, DeleteSessionFacts
    <3>3. api'[c].pc # "idle"
      <4>1. DOMAIN api = Conns
        BY <2>1 DEF TypeOK, ClientTypes
      <4> QED
        BY <2>7, <4>1 DEF RefreshToken, Logout, Calling
    <3> QED
      BY <3>1, <3>2, <3>3
  <2> HIDE DEF Ends
  <2> QED
    BY <1>1, <2>2, <2>3, <2>4, <2>5, <2>6, <2>7, SessionsChange
<1>2. ASSUME SessionsAssumption, IndInv, Next
      PROVE  Works
  <2> SUFFICES ASSUME NEW c \in Conns, api[c].pc = "issue", api'[c].pc = "idle", faults' = faults
               PROVE  client'[c].token \in DOMAIN session'
    OBVIOUS
  <2>1. /\ TypeOK /\ DOMAIN api = Conns /\ DOMAIN client = Conns
        /\ client[c] \in [user : Users \cup {NoUser}, token : Tokens \cup {NoToken}]
    BY <1>2 DEF IndInv, TypeOK, ClientTypes
  <2>2. RefreshTokenIssues(c)
    <3>1. ASSUME NEW d \in Conns, d # c,
                 \/ Connect(d) \/ LoginAnswered(d)
                 \/ ValidateToken(d) \/ ValidateTokenExtends(d)
                 \/ RefreshToken(d) \/ RefreshTokenIssues(d)
                 \/ Logout(d) \/ LogoutSetsOffline(d)
          PROVE  api'[c] = api[c]
      BY <2>1, <3>1 DEF Connect, LoginAnswered, ValidateToken, ValidateTokenExtends, RefreshToken,
                        RefreshTokenIssues, Logout, LogoutSetsOffline, Calling, Returns
    <3>2. /\ Connect(c) \/ LoginAnswered(c) => api'[c] = api[c]
          /\ ValidateToken(c) \/ RefreshToken(c) \/ Logout(c) => api[c].pc = "idle"
          /\ ValidateTokenExtends(c) => api[c].pc = "extend"
          /\ LogoutSetsOffline(c) => api[c].pc = "offline"
      BY DEF Connect, LoginAnswered, ValidateToken, RefreshToken, Logout, Asks, AtRest,
             ValidateTokenExtends, LogoutSetsOffline
    <3> QED
      BY <1>2, <3>1, <3>2, ClientsChange
  <2>3. Issued(api[c].token, api[c].user) /\ SetSession(api[c].token, api[c].user) /\ now' = now
    BY <1>2, <2>2, SetSessionCalls
  <2>4. api[c].token \in DOMAIN session'
    BY <1>2, <2>1, <2>3, SetSessionFacts DEF Issued
  <2>5. client'[c].token = api[c].token
    BY <2>1, <2>2 DEF RefreshTokenIssues
  <2> QED
    BY <2>4, <2>5
<1>3. UNCHANGED vars => Step
  BY DEF vars, redis
<1> HIDE DEF Ends, Works
<1>4. IndInv /\ [Next]_vars => Step
  BY <1>1, <1>2, <1>3, SessionsAssumption
<1> HIDE DEF Step
<1>5. Spec => [][Step]_vars
  BY <1>4, Invariance, PTL DEF Spec
<1> QED
  BY <1>5 DEF HeldTokenWorks, Step, Ends, Works

=============================================================================
