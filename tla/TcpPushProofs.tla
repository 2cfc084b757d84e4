---------------------------- MODULE TcpPushProofs ----------------------------
(***************************************************************************)
(* Theorems about TcpPush, for any sockets, objects, users, pushers and    *)
(* connection limit: the server keeps the invariant of TcpServerProofs     *)
(* while goroutines write through the pointers they hold, no recycled      *)
(* Connection carries a login over, and no held pointer loses its Conn.    *)
(***************************************************************************)
EXTENDS TcpPush, TcpServerProofs

-----------------------------------------------------------------------------
(* The inductive invariant: the server's, with the pushers' and the history's types *)

PushTypes ==
    /\ target \in [Pushers -> Users \cup {NoUser}]
    /\ held \in [Pushers -> Objects \cup {NoObject}]
    /\ audience \in [Sockets -> SUBSET Users]
    /\ delivered \in [Sockets -> SUBSET (Users \cup {NoUser})]

PushInv ==
    /\ IndInv
    /\ PushTypes
    /\ LoginNotInherited
    /\ HeldIsBound

-----------------------------------------------------------------------------
(* Objects, and who is bound to them *)

\* Every entry of the connections map is bound to a client.
LEMMA MapIsBound ==
    ASSUME IndInv, NEW i \in DOMAIN connections
    PROVE  connections[i] \in Objects /\ obj[connections[i]].sock # NoSocket
<1>1. connections[i] \in Objects
    BY DEF IndInv, TypeOK
<1>2. CASE \E s \in Serving : own[s] = connections[i]
    BY <1>1, <1>2, NoneAssumption DEF IndInv, ObjectExclusive, Serving, Active
<1>3. CASE acceptPC = "spawn" /\ acceptObj = connections[i]
    BY <1>1, <1>3, NoneAssumption DEF IndInv, AcceptHolds, Admitting
<1> QED
    BY <1>2, <1>3 DEF IndInv, MapMatchesHandlers

\* The steps that leave every object alone.
LEMMA ObjectsAlone ==
    ASSUME \/ AcceptHead \/ AcceptError \/ AcceptCount \/ GetWait \/ AcceptStore \/ AcceptSpawn
           \/ \E s \in Sockets : AcceptConn(s) \/ AcceptLimited(s)
    PROVE  UNCHANGED <<obj, beatVars, stopVars>>
BY DEF AcceptHead, AcceptError, AcceptCount, GetWait, AcceptStore, AcceptSpawn, AcceptConn,
       AcceptLimited, acceptFrame, backgroundFrame

\* What a handler does to the objects: only its own changes, and whose login it
\* carries changes to the user of the login message or, in the pool, to nobody.
LEMMA HandlerObjects ==
    ASSUME IndInv, NEW s \in Sockets, HandlerStep(s) \/ HandleSlowly(s)
    PROVE  /\ \A o \in Objects : o # own[s] => obj'[o] = obj[o]
           /\ \/ obj'[own[s]].user = obj[own[s]].user
              \/ /\ handlerPC[s] = "handle" /\ handlerPC'[s] = "loop"
                 /\ obj'[own[s]].user \in Users
              \/ handlerPC'[s] = "done"
<1>1. obj \in [Objects -> Connection] /\ own[s] \in Objects /\ DOMAIN handlerPC = Sockets
    BY HandlerFrame, OwnType DEF HandlerEffect, IndInv, TypeOK, Active, HandlerStep, HandleSlowly,
        HandlerLoop, ReadFrame, ReadFail, HandleRequest, HandleLogin, HandleLogout, HandlerClose,
        HandlerDelete, HandlerPut, At
<1>2. CASE UNCHANGED obj
    BY <1>2
<1>3. ASSUME NEW b \in BOOLEAN, obj' = [obj EXCEPT ![own[s]].stale = b]
      PROVE  /\ \A o \in Objects : o # own[s] => obj'[o] = obj[o]
             /\ obj'[own[s]].user = obj[own[s]].user
    BY <1>1, <1>3 DEF Connection
<1>4. ASSUME NEW u \in Users, HandleLogin(s, u)
      PROVE  /\ \A o \in Objects : o # own[s] => obj'[o] = obj[o]
             /\ handlerPC[s] = "handle" /\ handlerPC'[s] = "loop"
             /\ obj'[own[s]].user \in Users
    BY <1>1, <1>4 DEF HandleLogin, At, Connection
<1>5. CASE HandlerPut(s)
    BY <1>1, <1>5 DEF HandlerPut
<1>6. \/ UNCHANGED obj
      \/ \E b \in BOOLEAN : obj' = [obj EXCEPT ![own[s]].stale = b]
      \/ \E u \in Users : HandleLogin(s, u)
      \/ HandlerPut(s)
    BY DEF HandlerStep, HandleSlowly, HandlerLoop, ReadFrame, ReadFail, HandleRequest,
        HandleLogout, HandlerClose, HandlerDelete
<1> QED
    BY <1>2, <1>3, <1>4, <1>5, <1>6

\* An object that has been bound to a client stays bound to one.
LEMMA BoundStays ==
    ASSUME IndInv, ServerStep, NEW o \in Objects, obj[o].sock # NoSocket
    PROVE  obj'[o].sock # NoSocket
<1>1. CASE GetIdle \/ GetCreate \/ GetTimeout
    <2>1. ObtainEffect
        BY <1>1, ObtainFrame
    <2>2. acceptSock \in Sockets
        BY <2>1 DEF ObtainEffect, IndInv, AcceptHolds
    <2> QED
        BY <2>1, <2>2, NoneAssumption DEF ObtainEffect
<1>2. ASSUME NEW s \in Sockets, HandlerStep(s) \/ HandleSlowly(s)
      PROVE  obj'[o].sock # NoSocket
    BY <1>2, HandlerFrame DEF HandlerEffect
<1>3. CASE BackgroundStep
    BY <1>3, BackgroundFrame DEF BackgroundEffect
<1> QED
    BY <1>1, <1>2, <1>3, StepCases, ObjectsAlone

-----------------------------------------------------------------------------
(* The server's steps *)

\* A login joins the audience of its own socket, and nobody leaves one.
LEMMA AudienceGrows ==
    ASSUME PushTypes, RecordLogin, NEW s \in Sockets
    PROVE  /\ audience[s] \subseteq audience'[s]
           /\ handlerPC[s] = "handle" /\ handlerPC'[s] = "loop" =>
                 obj'[own[s]].user \in audience'[s] \cup {obj[own[s]].user}
BY DEF PushTypes, RecordLogin

\* No step of the server or of a login hands one client's login to the next.
LEMMA LoginNotInheritedStep ==
    ASSUME PushInv, ServerStep, RecordLogin
    PROVE  LoginNotInherited'
<1>1. /\ IndInv /\ ObjectExclusive /\ LoginNotInherited /\ PushTypes
      /\ \A s \in Active : own[s] \in Objects
    BY OwnType DEF PushInv, IndInv
<1>2. \A s \in Sockets : audience[s] \subseteq audience'[s]
    BY <1>1, AudienceGrows
<1>3. CASE \/ AcceptHead \/ AcceptError \/ AcceptCount \/ GetWait \/ AcceptStore
           \/ \E s \in Sockets : AcceptConn(s) \/ AcceptLimited(s)
    <2>1. UNCHANGED <<obj, handlerPC, own, acceptObj>> /\ (Admitting' => Admitting)
        BY <1>3 DEF AcceptHead, AcceptError, AcceptCount, GetWait, AcceptStore, AcceptConn,
            AcceptLimited, acceptFrame, backgroundFrame, handlerVars, acceptVars, Admitting, At
    <2> QED
        BY <1>1, <1>2, <2>1 DEF LoginNotInherited, Active
<1>4. CASE AcceptSpawn
    <2>1. Admitting /\ ~Admitting' /\ obj' = obj
        BY <1>4 DEF AcceptSpawn, At, Admitting
    <2>2. \A s \in Active' : \/ s \in Active /\ own'[s] = own[s]
                             \/ own'[s] = acceptObj
        BY <1>1, <1>4 DEF AcceptSpawn, Active, IndInv, TypeOK
    <2>3. Active' \subseteq Sockets
        BY DEF Active
    <2> QED
        BY <1>1, <1>2, <2>1, <2>2, <2>3 DEF LoginNotInherited
<1>5. CASE GetIdle \/ GetCreate \/ GetTimeout
    <2>1. ObtainEffect
        BY <1>1, <1>5, ObtainFrame
    <2>2. obj'[acceptObj'].user = NoUser
        <3>1. PICK o \in Objects : Obtain(o)
            BY <1>1, <1>5 DEF GetIdle, GetCreate, GetTimeout, IndInv, TypeOK
        <3>2. obj'[o].user = NoUser
            BY <1>1, <3>1 DEF Obtain, Bind, Reset, IndInv, TypeOK, Connection
        <3> QED
            BY <3>1, <3>2 DEF Obtain
    <2>3. Active' = Active /\ own' = own
        BY <2>1 DEF ObtainEffect, handlerVars, Active
    <2>4. \A s \in Active : obj'[own[s]] = obj[own[s]]
        BY <1>1, <2>1 DEF ObtainEffect
    <2> QED
        BY <1>1, <1>2, <2>2, <2>3, <2>4 DEF LoginNotInherited, Active
<1>6. ASSUME NEW t \in Sockets, HandlerStep(t) \/ HandleSlowly(t)
      PROVE  LoginNotInherited'
    <2>1. /\ UNCHANGED <<own, acceptPC, acceptObj>> /\ t \in Active
          /\ \A s \in Sockets \ {t} : handlerPC'[s] = handlerPC[s]
        BY <1>1, <1>6, HandlerFrame DEF HandlerEffect, acceptVars, Active, HandlerStep,
            HandleSlowly, HandlerLoop, ReadFrame, ReadFail, HandleRequest, HandleLogin,
            HandleLogout, HandlerClose, HandlerDelete, HandlerPut, At
    <2>2. /\ \A o \in Objects : o # own[t] => obj'[o] = obj[o]
          /\ \/ obj'[own[t]].user = obj[own[t]].user
             \/ /\ handlerPC[t] = "handle" /\ handlerPC'[t] = "loop"
                /\ obj'[own[t]].user \in Users
             \/ handlerPC'[t] = "done"
        BY <1>1, <1>6, HandlerObjects
    <2>3. ASSUME NEW s \in Active'
          PROVE  obj'[own'[s]].user \in audience'[s] \cup {NoUser}
        <3>1. CASE s # t
            <4>1. s \in Active /\ own[s] # own[t] /\ s \in Sockets
                BY <1>1, <2>1, <3>1 DEF Active, ObjectExclusive
            <4> QED
                BY <1>1, <1>2, <2>1, <2>2, <4>1 DEF LoginNotInherited
        <3>2. CASE s = t
            <4>1. handlerPC'[t] # "done"
                BY <3>2 DEF Active
            <4>2. obj[own[t]].user \in audience[t] \cup {NoUser}
                BY <1>1, <2>1 DEF LoginNotInherited
            <4> QED
                BY <1>1, <1>2, <2>1, <2>2, <3>2, <4>1, <4>2, AudienceGrows
        <3> QED
            BY <3>1, <3>2
    <2>4. Admitting' => obj'[acceptObj'].user = NoUser
        <3>1. Admitting' => Admitting /\ acceptObj # own[t] /\ acceptObj \in Objects
            BY <1>1, <2>1 DEF Admitting, ObjectExclusive, IndInv, AcceptHolds, TypeOK
        <3> QED
            BY <1>1, <2>1, <2>2, <3>1 DEF LoginNotInherited
    <2> QED
        BY <2>3, <2>4 DEF LoginNotInherited
<1>7. CASE BackgroundStep
    <2>1. UNCHANGED <<obj, handlerPC, own, acceptPC, acceptObj>>
        BY <1>1, <1>7, BackgroundFrame DEF BackgroundEffect, handlerVars, acceptVars
    <2> QED
        BY <1>1, <1>2, <2>1 DEF LoginNotInherited, Active, Admitting
<1> QED
    BY <1>3, <1>4, <1>5, <1>6, <1>7, StepCases

\* The heartbeat and Stop take their pointers from the map.
LEMMA HeldIsBoundStep ==
    ASSUME PushInv, ServerStep, UNCHANGED held
    PROVE  HeldIsBound'
<1>1. /\ IndInv /\ HeldIsBound /\ held \in [Pushers -> Objects \cup {NoObject}]
      /\ beatObj \in Objects \cup {NoObject} /\ stopObj \in Objects \cup {NoObject}
    BY DEF PushInv, PushTypes, IndInv, TypeOK
<1>2. \A p \in Pushers : held'[p] # NoObject => obj'[held'[p]].sock # NoSocket
    BY <1>1, BoundStays DEF HeldIsBound
<1>3. /\ beatObj' \in {beatObj, NoObject} \cup {connections[i] : i \in DOMAIN connections}
      /\ stopObj' \in {stopObj, NoObject} \cup {connections[i] : i \in DOMAIN connections}
    <2>1. CASE BackgroundStep
        BY <2>1 DEF BackgroundStep, HeartbeatStep, StopStep, HeartbeatScan, HeartbeatLoad,
            HeartbeatClose, HeartbeatExit, StopCall, StopListener, StopVisit, StopClose,
            StopRangeEnd, StopReturn, beatVars, stopVars
    <2>2. CASE GetIdle \/ GetCreate \/ GetTimeout
        BY <1>1, <2>2, ObtainFrame DEF ObtainEffect, beatVars, stopVars
    <2>3. ASSUME NEW s \in Sockets, HandlerStep(s) \/ HandleSlowly(s)
          PROVE  UNCHANGED <<beatObj, stopObj>>
        BY <2>3 DEF HandlerStep, HandleSlowly, HandlerLoop, ReadFrame, ReadFail, HandleRequest,
            HandleLogin, HandleLogout, HandlerClose, HandlerDelete, HandlerPut, handlerFrame,
            beatVars, stopVars
    <2> QED
        BY <2>1, <2>2, <2>3, StepCases, ObjectsAlone DEF beatVars, stopVars
<1>4. \A o \in {beatObj, stopObj, NoObject} \cup {connections[i] : i \in DOMAIN connections} :
         o # NoObject => obj'[o].sock # NoSocket
    BY <1>1, MapIsBound, BoundStays DEF HeldIsBound
<1> QED
    BY <1>2, <1>3, <1>4 DEF HeldIsBound

\* The pushers and the history variables keep their types.
LEMMA PushTypesStep ==
    ASSUME PushInv, ServerStep, RecordLogin, UNCHANGED <<target, held, delivered>>
    PROVE  PushTypes'
<1>1. PushTypes /\ IndInv
    BY DEF PushInv
<1>2. ASSUME NEW s \in Sockets, handlerPC[s] = "handle", handlerPC'[s] = "loop"
      PROVE  obj'[own[s]].user \in Users \cup {obj[own[s]].user}
    <2>1. CASE GetIdle \/ GetCreate \/ GetTimeout
        BY <1>1, <1>2, <2>1, ObtainFrame DEF ObtainEffect, handlerVars
    <2>2. ASSUME NEW t \in Sockets, HandlerStep(t) \/ HandleSlowly(t)
          PROVE  obj'[own[s]].user \in Users \cup {obj[own[s]].user}
        BY <1>1, <1>2, <2>2, HandlerFrame, HandlerObjects DEF HandlerEffect
    <2>3. CASE BackgroundStep
        BY <1>1, <1>2, <2>3, BackgroundFrame DEF BackgroundEffect, handlerVars
    <2> QED
        BY <2>1, <2>2, <2>3, StepCases, ObjectsAlone
<1>3. audience' \in [Sockets -> SUBSET Users]
    BY <1>1, <1>2 DEF RecordLogin, PushTypes
<1> QED
    BY <1>1, <1>3 DEF PushTypes

-----------------------------------------------------------------------------
(* The pushers' steps *)

\* A write through a held pointer refreshes LastActivity, which nothing of the
\* server's invariant reads.
LEMMA WriteKeepsIndInv ==
    ASSUME PushInv, NEW p \in Pushers, Write(p)
    PROVE  /\ IndInv'
           /\ \A o \in Objects : obj'[o].user = obj[o].user /\ obj'[o].sock = obj[o].sock
<1>1. /\ UNCHANGED <<statusVars, sock, connections, connCounter, poolVars, acceptVars,
                     handlerVars, beatVars, stopVars>>
      /\ held[p] \in Objects /\ obj \in [Objects -> Connection]
    BY DEF Write, acceptFrame, PushInv, PushTypes, IndInv, TypeOK
<1>2. /\ obj' \in [Objects -> Connection]
      /\ \A o \in Objects : /\ obj'[o].id = obj[o].id /\ obj'[o].sock = obj[o].sock
                            /\ obj'[o].user = obj[o].user /\ obj'[o].closed = obj[o].closed
    <2>1. CASE UNCHANGED obj
        BY <1>1, <2>1
    <2>2. CASE obj' = [obj EXCEPT ![held[p]].stale = FALSE]
        <3>1. obj' \in [Objects -> Connection]
            BY <1>1, <2>2, StaleType
        <3>2. \A o \in Objects : /\ obj'[o].id = obj[o].id /\ obj'[o].sock = obj[o].sock
                                 /\ obj'[o].user = obj[o].user /\ obj'[o].closed = obj[o].closed
            BY <1>1, <2>2 DEF Connection
        <3> QED
            BY <3>1, <3>2
    <2> QED
        BY <2>1, <2>2 DEF Write
<1>3. /\ TypeOK /\ AcceptHolds /\ NewUnused /\ MadeObjects /\ ObjectExclusive
      /\ MapMatchesHandlers /\ FreshID /\ RoomForAdmitted /\ NoLeakedSocket /\ StopOrder
      /\ (stopPC = "done" => WaitGroupZero)
      /\ \A s \in Active : own[s] \in Objects
    BY OwnType DEF PushInv, IndInv
<1>4. TypeOK'
    BY <1>1, <1>2, <1>3 DEF TypeOK, statusVars, poolVars, acceptVars, handlerVars, beatVars, stopVars
<1>5. AcceptHolds' /\ NewUnused' /\ MadeObjects'
    BY <1>1, <1>2, <1>3 DEF TypeOK, AcceptHolds, NewUnused, MadeObjects, Active, Admitting,
        poolVars, acceptVars, handlerVars
<1>6. ObjectExclusive'
    BY <1>1, <1>2, <1>3 DEF ObjectExclusive, Active, Admitting, poolVars, acceptVars, handlerVars
<1>7. MapMatchesHandlers'
    BY <1>1, <1>2, <1>3 DEF TypeOK, MapMatchesHandlers, Active, Serving, acceptVars, handlerVars
<1>8. FreshID' /\ RoomForAdmitted' /\ NoLeakedSocket' /\ StopOrder' /\ (stopPC = "done" => WaitGroupZero)'
    BY <1>1, <1>3 DEF FreshID, RoomForAdmitted, ConnectionCount, NoLeakedSocket, StopOrder,
        WaitGroupZero, statusVars, acceptVars, handlerVars, beatVars, stopVars
<1> QED
    BY <1>2, <1>4, <1>5, <1>6, <1>7, <1>8 DEF IndInv

\* A pusher's own steps keep the invariant.
LEMMA PushStepKeeps ==
    ASSUME PushInv, NEW p \in Pushers, PushStep(p)
    PROVE  PushInv'
<1>1. /\ IndInv /\ PushTypes /\ LoginNotInherited /\ HeldIsBound
      /\ \A s \in Active : own[s] \in Objects
      /\ beatObj \in Objects \cup {NoObject} /\ stopObj \in Objects \cup {NoObject}
      /\ Admitting => acceptObj \in Objects
    BY OwnType DEF PushInv, IndInv, TypeOK, AcceptHolds
<1>2. ASSUME \/ \E u \in Users : SendToUser(p, u)
             \/ Broadcast(p)
      PROVE  PushInv'
    <2>1. PICK i \in DOMAIN connections, u \in Users \cup {NoUser} :
             held' = [held EXCEPT ![p] = connections[i]] /\ target' = [target EXCEPT ![p] = u]
        BY <1>2 DEF SendToUser, Broadcast
    <2>2. UNCHANGED <<vars, audience, delivered>>
        BY <1>2 DEF SendToUser, Broadcast
    <2>3. IndInv'
        BY <1>1, <2>2, StutterStep
    <2>4. PushTypes'
        BY <1>1, <2>1, <2>2, MapIsBound DEF PushTypes
    <2>5. UNCHANGED <<obj, handlerPC, own, acceptPC, acceptObj, beatObj, stopObj>>
        BY <2>2 DEF vars, acceptVars, handlerVars, beatVars, stopVars
    <2>6. LoginNotInherited'
        BY <1>1, <2>2, <2>5 DEF LoginNotInherited, Active, Admitting
    <2>7. HeldIsBound'
        BY <1>1, <2>1, <2>5, MapIsBound DEF HeldIsBound, PushTypes
    <2> QED
        BY <2>3, <2>4, <2>6, <2>7 DEF PushInv
<1>3. CASE Write(p)
    <2>1. /\ IndInv'
          /\ \A o \in Objects : obj'[o].user = obj[o].user /\ obj'[o].sock = obj[o].sock
        BY <1>3, WriteKeepsIndInv
    <2>2. /\ UNCHANGED <<handlerPC, own, acceptPC, acceptObj, beatObj, stopObj, audience>>
          /\ held' = [held EXCEPT ![p] = NoObject] /\ target' = [target EXCEPT ![p] = NoUser]
        BY <1>3 DEF Write, acceptFrame, acceptVars, handlerVars, beatVars, stopVars
    <2>3. PushTypes'
        <3>1. \/ delivered' = delivered
              \/ \E s : delivered' = [delivered EXCEPT ![s] = @ \cup {target[p]}]
            BY <1>3 DEF Write
        <3>2. delivered' \in [Sockets -> SUBSET (Users \cup {NoUser})]
            BY <1>1, <3>1 DEF PushTypes
        <3> QED
            BY <1>1, <2>2, <3>2 DEF PushTypes
    <2>4. LoginNotInherited'
        BY <1>1, <2>1, <2>2 DEF LoginNotInherited, Active, Admitting
    <2>5. HeldIsBound'
        BY <1>1, <2>1, <2>2 DEF HeldIsBound, PushTypes
    <2> QED
        BY <2>1, <2>3, <2>4, <2>5 DEF PushInv
<1> QED
    BY <1>2, <1>3 DEF PushStep

-----------------------------------------------------------------------------
(* The theorems *)

\* Nobody has logged in and nobody holds a pointer before the first client comes.
THEOREM PushInitEstablishes == PushInit => PushInv
<1> SUFFICES ASSUME PushInit PROVE PushInv
    OBVIOUS
<1>1. IndInv
    BY InitEstablishes DEF PushInit
<1>2. PushTypes
    BY DEF PushInit, PushTypes
<1>3. LoginNotInherited /\ HeldIsBound
    BY DEF PushInit, Init, LoginNotInherited, HeldIsBound, Active, Admitting
<1> QED
    BY <1>1, <1>2, <1>3 DEF PushInv

\* Every step of the server and of a pusher keeps the invariant.
THEOREM PushInvInductive == PushInv /\ [PushNext]_<<vars, pushVars>> => PushInv'
<1> SUFFICES ASSUME PushInv, [PushNext]_<<vars, pushVars>> PROVE PushInv'
    OBVIOUS
<1>1. CASE ServerStep /\ RecordLogin /\ UNCHANGED <<target, held, delivered>>
    <2>1. IndInv'
        BY <1>1, IndInvInductive DEF PushInv, Next
    <2> QED
        BY <1>1, <2>1, LoginNotInheritedStep, HeldIsBoundStep, PushTypesStep DEF PushInv
<1>2. ASSUME NEW p \in Pushers, PushStep(p) PROVE PushInv'
    BY <1>2, PushStepKeeps
<1>3. CASE UNCHANGED <<vars, pushVars>>
    <2>1. IndInv'
        BY <1>3, StutterStep DEF PushInv
    <2>2. UNCHANGED <<obj, handlerPC, own, acceptPC, acceptObj, beatObj, stopObj,
                      target, held, audience, delivered>>
        BY <1>3 DEF vars, acceptVars, handlerVars, beatVars, stopVars, pushVars
    <2> QED
        BY <2>1, <2>2 DEF PushInv, PushTypes, LoginNotInherited, HeldIsBound, Active, Admitting
<1> QED
    BY <1>1, <1>2, <1>3 DEF PushNext, Finished

\* The invariant of server and pushers holds of every behaviour.
THEOREM PushInvariance == PushSpec => []PushInv
<1> QED
    BY PushInitEstablishes, PushInvInductive, PTL DEF PushSpec

\* A recycled Connection never carries the previous client's login over to the
\* next: Reset clears the user before the pool gives the object out again.
THEOREM LoginsNotInherited == PushSpec => []LoginNotInherited
<1>1. PushInv => LoginNotInherited
    BY DEF PushInv
<1> QED
    BY <1>1, PushInvariance, PTL

\* A pointer kept by a pusher, the heartbeat or Stop always leads to a Conn.
THEOREM HeldAreBound == PushSpec => []HeldIsBound
<1>1. PushInv => HeldIsBound
    BY DEF PushInv
<1> QED
    BY <1>1, PushInvariance, PTL

=============================================================================
