------------------------------- MODULE TcpPush -------------------------------
(***************************************************************************)
(* Goroutines that push data to clients of the TCP server:                 *)
(* TCPServer.SendToUser and the goroutines TCPServer.Broadcast launches    *)
(* (src/internal/network/tcp_server.go), composed with the whole server.   *)
(*                                                                         *)
(* A pusher finds a Connection in the map, keeps the pointer, and writes   *)
(* through it later; meanwhile the handler may have returned the object to *)
(* the pool and the accept loop bound it to another client.                *)
(***************************************************************************)
EXTENDS TcpServer

CONSTANT Pushers  \* goroutines; each sends one message at a time

VARIABLES
    target,    \* the user a pusher sends to, NoUser for a broadcast
    held,      \* the Connection a pusher found, NoObject when not sending
    audience,  \* history: users whose login was handled on a socket
    delivered  \* history: targets of the messages written to a socket

pushVars == <<target, held, audience, delivered>>

PushInit ==
    /\ Init
    /\ target = [p \in Pushers |-> NoUser]
    /\ held = [p \in Pushers |-> NoObject]
    /\ audience = [s \in Sockets |-> {}]
    /\ delivered = [s \in Sockets |-> {}]

\* SendToUser: GetConnectionByUserID returns a connection bound to u.
SendToUser(p, u) ==
    /\ ~panicked /\ held[p] = NoObject
    /\ \E i \in DOMAIN connections :
          /\ obj[connections[i]].user = u
          /\ held' = [held EXCEPT ![p] = connections[i]]
    /\ target' = [target EXCEPT ![p] = u]
    /\ UNCHANGED <<vars, audience, delivered>>

\* Broadcast: the Range callback launches a goroutine for one connection.
Broadcast(p) ==
    /\ ~panicked /\ held[p] = NoObject
    /\ \E i \in DOMAIN connections :
          /\ ~IsClosed(obj[connections[i]])
          /\ held' = [held EXCEPT ![p] = connections[i]]
    /\ target' = [target EXCEPT ![p] = NoUser]
    /\ UNCHANGED <<vars, audience, delivered>>

\* Connection.Write: LastActivity is refreshed, and the data goes to the
\* socket the object is bound to now, or the write fails.
Write(p) ==
    /\ ~panicked
    /\ held[p] # NoObject
    /\ LET o == held[p]
           s == obj[o].sock
       IN IF IsClosed(obj[o]) THEN UNCHANGED <<obj, delivered>>
          ELSE /\ obj' = [obj EXCEPT ![o].stale = FALSE]
               /\ delivered' = IF s # NoSocket /\ sock[s] = "open"
                               THEN [delivered EXCEPT ![s] = @ \cup {target[p]}]
                               ELSE delivered
    /\ held' = [held EXCEPT ![p] = NoObject]
    /\ target' = [target EXCEPT ![p] = NoUser]
    /\ UNCHANGED <<acceptFrame, sock, connections, connCounter, poolVars, acceptVars, audience>>

\* A login's user joins the audience of the client's socket.
RecordLogin ==
    audience' = [s \in Sockets |->
                    IF handlerPC[s] = "handle" /\ handlerPC'[s] = "loop"
                       /\ obj'[own[s]].user # obj[own[s]].user
                    THEN audience[s] \cup {obj'[own[s]].user} ELSE audience[s]]

PushStep(p) == (\E u \in Users : SendToUser(p, u)) \/ Broadcast(p) \/ Write(p)

PushNext ==
    \/ ServerStep /\ RecordLogin /\ UNCHANGED <<target, held, delivered>>
    \/ \E p \in Pushers : PushStep(p)
    \/ Finished /\ UNCHANGED pushVars

PushSpec == PushInit /\ [][PushNext]_<<vars, pushVars>>

-----------------------------------------------------------------------------
\* A recycled object does not carry the previous client's login over to the
\* next: whoever a served client's object is bound to logged in on that very
\* client's socket.
LoginNotInherited ==
    /\ \A s \in Active : obj[own[s]].user \in audience[s] \cup {NoUser}
    /\ Admitting => obj[acceptObj].user = NoUser

\* A pointer to a Connection that a goroutine keeps, however long it keeps it
\* and wherever the object has gone since, never leads to a nil Conn.
HeldIsBound ==
    /\ \A p \in Pushers : held[p] # NoObject => obj[held[p]].sock # NoSocket
    /\ beatObj # NoObject => obj[beatObj].sock # NoSocket
    /\ stopObj # NoObject => obj[stopObj].sock # NoSocket

\* SendToUser sends to that user: what is written to a client's socket is
\* addressed to a user who logged in on it.
SentToUserOnly == \A s \in Sockets : delivered[s] \subseteq audience[s] \cup {NoUser}

=============================================================================
