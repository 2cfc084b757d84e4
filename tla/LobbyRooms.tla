----------------------------- MODULE LobbyRooms -----------------------------
(***************************************************************************)
(* CreateRoom, JoinRoom and LeaveRoom of the lobby                         *)
(* (src/internal/server/lobby_server.go) over the rooms collection         *)
(* (src/internal/database/mongodb/room.go).                                *)
(*                                                                         *)
(* Every gRPC call runs in a goroutine of its own, here a slot of          *)
(* Requests, and takes no lock: it reads a room's document, decides on     *)
(* that copy, and then issues one or two writes.  Mongo applies each write *)
(* to one document atomically; nothing ties the writes of a call together. *)
(* The process may die between any two steps and start again with the      *)
(* first room ID.                                                          *)
(*                                                                         *)
(* Nicknames, levels, game types and timestamps are left out, and so is    *)
(* the read-back that only fills JoinRoom's reply.                         *)
(***************************************************************************)
EXTENDS Integers, Sequences, FiniteSets

CONSTANTS
    Requests,     \* slots for calls in flight: one slot serializes the calls
    Users,        \* players
    Capacities,   \* MaxPlayers values a room is created with, within 2..8
    LastRoomID,   \* bound: no room ID beyond this one is drawn
    ListBound,    \* bound: no join starts on a list this long
    CountBound,   \* bound: no leave starts on a count below this one
    MaxRestarts,  \* bound: how often the process dies
    StoreFails,   \* whether a write may be reported as failed
    NoUser, NoRoom

ASSUME CapacitiesAssumption == Capacities \subseteq 2 .. 8
ASSUME BoundsAssumption ==
    /\ LastRoomID \in Nat /\ ListBound \in Nat /\ MaxRestarts \in Nat
    /\ CountBound \in Int /\ StoreFails \in BOOLEAN
ASSUME NobodyAssumption == NoUser \notin Users

VARIABLES
    rooms,       \* the rooms collection: room_id -> document
    nextRoomID,  \* ls.nextRoomID
    inserted,    \* documents inserted so far: the source of ObjectIDs
    req,         \* what each call is doing, and its locals
    restarts,    \* how often the process has died
    raced,       \* history: rooms two calls have worked on at the same time
    cut          \* history: rooms on which a crash or an error ended a call

history == <<raced, cut>>
vars == <<rooms, nextRoomID, inserted, req, restarts, history>>

-----------------------------------------------------------------------------
(* The rooms collection *)

FirstRoomID == 1000
RoomIDs == FirstRoomID .. LastRoomID

\* model.Room: _id, max_players, current_players, owner_id and the user IDs of
\* players.  Status is 0 from creation to deletion.
Room == [oid     : Nat,
         max     : Capacities,
         count   : Int,
         owner   : Users,
         players : Seq(Users)]

Exists(id) == id \in DOMAIN rooms
Members(doc) == {doc.players[k] : k \in 1 .. Len(doc.players)}

\* The players of a document other than u, in their order.
Others(doc, u) ==
    LET upto[k \in 0 .. Len(doc.players)] ==
            IF k = 0 THEN <<>>
            ELSE IF doc.players[k] = u THEN upto[k - 1]
                 ELSE Append(upto[k - 1], doc.players[k])
    IN upto[Len(doc.players)]

\* InsertOne of a document under a new _id.
Inserted(id, doc) ==
    [i \in DOMAIN rooms \cup {id} |->
        IF i = id THEN [doc EXCEPT !.oid = inserted + 1] ELSE rooms[i]]

\* AddPlayerToRoom: $push and $inc, without a condition on the document.  An
\* UpdateOne that matches nothing is no error.
Added(id, u) ==
    IF Exists(id) THEN [rooms EXCEPT ![id].players = Append(@, u), ![id].count = @ + 1]
    ELSE rooms

\* Mutation: the player count is forgotten.
RemovedUncounted(id, u) ==
    IF Exists(id) THEN [rooms EXCEPT ![id].players = Others(rooms[id], u)]
    ELSE rooms

\* RemovePlayerFromRoom: $pull of every entry of u, and $inc by -1 always.
Removed(id, u) ==
    IF Exists(id) THEN [rooms EXCEPT ![id].players = Others(rooms[id], u), ![id].count = @ - 1]
    ELSE rooms

\* Mutation: UpdateRoom with upsert.
Upserted(id, doc) == [i \in DOMAIN rooms \cup {id} |-> IF i = id THEN doc ELSE rooms[i]]

\* UpdateRoom: $set of every field.  It matches by room_id; _id is immutable,
\* so a document of another _id refuses it.
Updated(id, doc) ==
    IF Exists(id) /\ rooms[id].oid = doc.oid THEN [rooms EXCEPT ![id] = doc] ELSE rooms

\* Mutation: the room stays, without an owner.
ErasedOwner(id) == [rooms EXCEPT ![id].owner = NoUser]

\* DeleteRoom.
Erased(id) == [i \in DOMAIN rooms \ {id} |-> rooms[i]]

-----------------------------------------------------------------------------
(* Calls *)

\* A slot is free when its last call has succeeded ("ok"), was refused, failed
\* or died with the process ("idle").
Ended == {"ok", "idle"}

\* "checked" is the _id of the document the call has read and checked; "doc" is
\* the room variable of the code, for as long as the code still writes it.
NoCall == [op |-> "none", pc |-> "idle", user |-> NoUser, id |-> 0,
           checked |-> 0, doc |-> NoRoom]

Init ==
    /\ rooms = [i \in {} |-> NoRoom]
    /\ nextRoomID = FirstRoomID
    /\ inserted = 0
    /\ req = [r \in Requests |-> NoCall]
    /\ restarts = 0
    /\ raced = {} /\ cut = {}

\* A call in slot r goes on at step l, keeping its locals, or is answered.
Goto(r, l) == req' = [req EXCEPT ![r].pc = l]
Answer(r, l) == req' = [req EXCEPT ![r] = [NoCall EXCEPT !.pc = l]]

\* A call arrives in a slot whose last call has been answered.
Arrive(r, op, u, id, l, doc) ==
    /\ req[r].pc \in Ended
    /\ req' = [req EXCEPT ![r] =
                  [op |-> op, pc |-> l, user |-> u, id |-> id, checked |-> doc.oid,
                   doc |-> IF l \in {"id", "removeOwner"} THEN doc ELSE NoRoom]]

\* A write of slot r's call is applied, or is reported as failed whether or not
\* it was applied.
StoreWrites(effect) == rooms' = effect /\ UNCHANGED cut
StoreError(r, effect) ==
    /\ StoreFails
    /\ rooms' = effect \/ UNCHANGED rooms
    /\ cut' = cut \cup {req[r].id}

\* A call is refused before it writes anything: an invalid request, a read that
\* failed, no such user or room, a full room, a wrong password, a user who is
\* already (JoinRoom) or not (LeaveRoom) in the room.
Refused(r) ==
    /\ req[r].pc \in Ended
    /\ Answer(r, "idle")
    /\ UNCHANGED <<rooms, nextRoomID, inserted, restarts, cut>>

-----------------------------------------------------------------------------
(* CreateRoom *)

\* The request is valid and the user exists: the room object, whose owner is
\* its first player.
CreateBegin(r, u, max) ==
    /\ nextRoomID \in RoomIDs
    /\ Arrive(r, "create", u, 0, "id",
              [oid |-> 0, max |-> max, count |-> 1, owner |-> u, players |-> <<u>>])
    /\ UNCHANGED <<rooms, nextRoomID, inserted, restarts, cut>>

\* Mutation: the counter is not advanced.
CreateSameID(r) ==
    /\ req[r].pc = "id"
    /\ nextRoomID \in RoomIDs
    /\ req' = [req EXCEPT ![r].pc = "insert", ![r].id = nextRoomID]
    /\ UNCHANGED <<rooms, nextRoomID, inserted, restarts, cut>>

\* generateRoomID, under idMutex.
CreateID(r) ==
    /\ req[r].pc = "id"
    /\ nextRoomID \in RoomIDs
    /\ nextRoomID' = nextRoomID + 1
    /\ req' = [req EXCEPT ![r].pc = "insert", ![r].id = nextRoomID]
    /\ UNCHANGED <<rooms, inserted, restarts, cut>>

\* Mutation: room_id has no unique index.
CreateReplace(r) ==
    /\ req[r].pc = "insert"
    /\ rooms' = Inserted(req[r].id, req[r].doc)
    /\ inserted' = inserted + 1
    /\ Answer(r, "ok")
    /\ UNCHANGED <<nextRoomID, restarts, cut>>

\* roomRepo.CreateRoom: the unique index on room_id refuses a taken ID.
CreateInsert(r) ==
    /\ req[r].pc = "insert"
    /\ \/ /\ ~Exists(req[r].id)
          /\ rooms' = Inserted(req[r].id, req[r].doc)
          /\ inserted' = inserted + 1
          /\ Answer(r, "ok") \/ (StoreFails /\ Answer(r, "idle"))
       \/ /\ Exists(req[r].id) \/ StoreFails
          /\ Answer(r, "idle")
          /\ UNCHANGED <<rooms, inserted>>
    /\ UNCHANGED <<nextRoomID, restarts, cut>>

-----------------------------------------------------------------------------
(* JoinRoom *)

\* The checks JoinRoom makes on the copy it has read.
Joinable(doc, u) == doc.count < doc.max /\ u \notin Members(doc)

\* The room is read and the checks pass.
JoinRead(r, u, id) ==
    /\ Exists(id)
    /\ Joinable(rooms[id], u)
    /\ Len(rooms[id].players) < ListBound
    /\ Arrive(r, "join", u, id, "add", rooms[id])
    /\ UNCHANGED <<rooms, nextRoomID, inserted, restarts, cut>>

\* Mutation: the error of AddPlayerToRoom is only logged.
JoinAddLogged(r) ==
    /\ req[r].pc = "add"
    /\ LET effect == Added(req[r].id, req[r].user) IN
          StoreWrites(effect) \/ StoreError(r, effect)
    /\ Answer(r, "ok")
    /\ UNCHANGED <<nextRoomID, inserted, restarts>>

\* roomRepo.AddPlayerToRoom.
JoinAdd(r) ==
    /\ req[r].pc = "add"
    /\ LET effect == Added(req[r].id, req[r].user) IN
          \/ StoreWrites(effect) /\ Answer(r, "ok")
          \/ StoreError(r, effect) /\ Answer(r, "idle")
    /\ UNCHANGED <<nextRoomID, inserted, restarts>>

-----------------------------------------------------------------------------
(* LeaveRoom *)

\* What LeaveRoom decides on the copy it has read: a lone owner deletes the
\* room, an owner with others removes itself and then hands the room over, an
\* owner without others does nothing, another player is removed.
LeaveStep(doc, u) ==
    IF doc.owner # u THEN "remove"
    ELSE IF doc.count <= 1 THEN "delete"
    ELSE IF Others(doc, u) # <<>> THEN "removeOwner"
    ELSE "nothing"

\* The room is read and the user is in it.
LeaveRead(r, u, id) ==
    /\ Exists(id)
    /\ u \in Members(rooms[id])
    /\ rooms[id].count > CountBound
    /\ Arrive(r, "leave", u, id, LeaveStep(rooms[id], u), rooms[id])
    /\ UNCHANGED <<rooms, nextRoomID, inserted, restarts, cut>>

\* The counter says there are others but the list has none: success.
LeaveNothing(r) ==
    /\ req[r].pc = "nothing"
    /\ Answer(r, "ok")
    /\ UNCHANGED <<rooms, nextRoomID, inserted, restarts, cut>>

\* roomRepo.DeleteRoom, for the lone owner.
LeaveDelete(r) ==
    /\ req[r].pc = "delete"
    /\ LET effect == Erased(req[r].id) IN
          \/ StoreWrites(effect) /\ Answer(r, "ok")
          \/ StoreError(r, effect) /\ Answer(r, "idle")
    /\ UNCHANGED <<nextRoomID, inserted, restarts>>

\* roomRepo.RemovePlayerFromRoom, for a player who is not the owner.
LeaveRemove(r) ==
    /\ req[r].pc = "remove"
    /\ LET effect == Removed(req[r].id, req[r].user) IN
          \/ StoreWrites(effect) /\ Answer(r, "ok")
          \/ StoreError(r, effect) /\ Answer(r, "idle")
    /\ UNCHANGED <<nextRoomID, inserted, restarts>>

\* roomRepo.RemovePlayerFromRoom, for an owner with others.
LeaveRemoveOwner(r) ==
    /\ req[r].pc = "removeOwner"
    /\ LET effect == Removed(req[r].id, req[r].user) IN
          \/ StoreWrites(effect) /\ Goto(r, "update")
          \/ StoreError(r, effect) /\ Answer(r, "idle")
    /\ UNCHANGED <<nextRoomID, inserted, restarts>>

\* room.OwnerID = the first other player; roomRepo.UpdateRoom(room) with the
\* copy read at the start.  An error is only logged.
LeaveUpdate(r) ==
    /\ req[r].pc = "update"
    /\ LET call   == req[r]
           effect == Updated(call.id, [call.doc EXCEPT
                                !.owner = Head(Others(call.doc, call.user))]) IN
          StoreWrites(effect) \/ StoreError(r, effect)
    /\ Answer(r, "ok")
    /\ UNCHANGED <<nextRoomID, inserted, restarts>>

-----------------------------------------------------------------------------
\* The process dies with its calls and NewLobbyServer runs again.
Restart ==
    /\ restarts < MaxRestarts
    /\ restarts' = restarts + 1
    /\ nextRoomID' = FirstRoomID
    /\ req' = [r \in Requests |-> NoCall]
    /\ cut' = cut \cup {req[r].id : r \in {q \in Requests : req[q].pc \notin Ended}}
    /\ UNCHANGED <<rooms, inserted>>

\* The rooms that two calls are now working on have been raced for.
RecordRaces ==
    raced' = raced \cup {id \in RoomIDs :
                 \E q, r \in Requests : q # r /\ req'[q].id = id /\ req'[r].id = id}

Create(r) == (\E u \in Users, max \in Capacities : CreateBegin(r, u, max))
                \/ CreateID(r) \/ CreateInsert(r)

Join(r) == (\E u \in Users, id \in RoomIDs : JoinRead(r, u, id))
              \/ JoinAdd(r)

Leave(r) == (\E u \in Users, id \in RoomIDs : LeaveRead(r, u, id))
               \/ LeaveNothing(r) \/ LeaveDelete(r)
               \/ LeaveRemove(r) \/ LeaveRemoveOwner(r) \/ LeaveUpdate(r)

Next ==
    /\ (\E r \in Requests : Refused(r) \/ Create(r) \/ Join(r) \/ Leave(r)) \/ Restart
    /\ RecordRaces

Spec == Init /\ [][Next]_vars

-----------------------------------------------------------------------------
(* Properties *)

Steps == {"id", "insert", "add", "delete", "remove", "removeOwner", "update",
          "nothing"}

\* Documents, with users as owner and players.
DocumentTypes ==
    /\ DOMAIN rooms \subseteq RoomIDs
    /\ rooms \in [DOMAIN rooms -> Room]

\* Calls: one that has ended holds nothing, one that writes has a room ID, one that
\* builds or rewrites a document holds one.
CallTypes ==
    /\ req \in [Requests -> [op      : {"none", "create", "join", "leave"},
                             pc      : Steps \cup Ended,
                             user    : Users \cup {NoUser},
                             id      : RoomIDs \cup {0},
                             checked : Nat,
                             doc     : Room \cup {NoRoom}]]
    /\ \A r \in Requests :
          IF req[r].pc \in Ended THEN req[r] = [NoCall EXCEPT !.pc = req[r].pc]
          ELSE /\ req[r].user \in Users
               /\ req[r].pc # "id" => req[r].id \in RoomIDs
               /\ req[r].pc \in {"id", "insert", "removeOwner", "update"} => req[r].doc \in Room

CounterTypes ==
    /\ nextRoomID \in FirstRoomID .. LastRoomID + 1 \/ nextRoomID = FirstRoomID
    /\ inserted \in Nat
    /\ restarts \in 0 .. MaxRestarts
    /\ raced \subseteq RoomIDs /\ cut \subseteq RoomIDs \cup {0}

\* The type invariant.
TypeOK == DocumentTypes /\ CallTypes /\ CounterTypes

\* A room in the collection is never replaced by another one under its ID,
\* although every restart draws the IDs from 1000 again.
RoomKeepsIdentity ==
    [][\A id \in DOMAIN rooms \cap DOMAIN rooms' :
          rooms'[id].oid = rooms[id].oid /\ rooms'[id].max = rooms[id].max]_vars

\* The checks a call made on its copy (membership, password, capacity, owner)
\* were made on the very room it is about to write to, unless that is gone: as
\* long as the process has not restarted its room IDs are all different.
ChecksStillApply ==
    restarts = 0 => \A r \in Requests :
        req[r].pc \in {"add", "delete", "remove", "removeOwner", "update"} /\ Exists(req[r].id)
            => req[r].checked = rooms[req[r].id].oid

\* A room appears in the collection only by CreateRoom, with its owner as the
\* only player: no late write of a join or a leave brings a deleted one back.
OnlyCreateAddsRooms ==
    [][\A id \in DOMAIN rooms' \ DOMAIN rooms :
          /\ \E r \in Requests : req[r].pc = "insert" /\ req[r].id = id
          /\ rooms'[id].players = <<rooms'[id].owner>>]_vars

\* In a room for which calls do not race, the counter is the length of the
\* list, nobody is listed twice and the capacity is respected, also when the
\* process dies or writes are reported as failed.  (Either may leave a room with
\* no player at all.)
CountsAgree ==
    \A id \in DOMAIN rooms \ raced :
        /\ rooms[id].count = Len(rooms[id].players)
        /\ Cardinality(Members(rooms[id])) = Len(rooms[id].players)
        /\ rooms[id].count <= rooms[id].max

\* If moreover no call on it was cut short, the owner of a room is one of its
\* players whenever no call is handing it over.
OwnerIsMember ==
    \A id \in DOMAIN rooms \ (raced \cup cut) :
        \/ rooms[id].owner \in Members(rooms[id])
        \/ \E r \in Requests : req[r].pc = "update" /\ req[r].id = id

\* Both together: what the document says of its players is one story, on rooms
\* that concurrent calls have left alone (lobby_server.go, JoinRoom and LeaveRoom).
RoomConsistent == CountsAgree /\ OwnerIsMember

\* A call of slot r is being answered with success.
Succeeds(r, op) == req[r].op = op /\ req'[r].pc = "ok"

\* The user of slot r's call is not in the room of the call any more.
HasLeft(r) ==
    req[r].id \in DOMAIN rooms' => req[r].user \notin Members(rooms'[req[r].id])

\* An owner who left is back in its room (LeaverIsGone), but owns it no longer.
HasHandedOver(r) ==
    LET doc == rooms'[req[r].id] IN
    /\ req[r].pc = "update"
    /\ req[r].id \in DOMAIN rooms'
    /\ doc.owner \in Members(doc) \ {req[r].user}

\* What the success reply to slot r's call says is so.  Whatever the other calls
\* do, whoever created a room is in it, whoever joined one is in it unless it
\* has been deleted, a player who was removed is not, and a lone owner's room is
\* gone.  In a room for which calls do not race, the room joined is there, and
\* the other two ways to leave are answered truly as well, the one that writes
\* nothing included; the exception is an owner who hands the room over and is
\* written back into it.
ReplyIsTrue(r) ==
    LET call == req[r]
        there == call.id \in DOMAIN rooms'
        raceFree == call.id \notin raced
    IN
    /\ Succeeds(r, "create") => there /\ call.user \in Members(rooms'[call.id])
    /\ Succeeds(r, "join") => IF there THEN call.user \in Members(rooms'[call.id]) ELSE ~raceFree
    /\ Succeeds(r, "leave") /\ call.pc = "delete" => ~there
    /\ Succeeds(r, "leave") /\ (call.pc = "remove" \/ raceFree) => HasLeft(r) \/ HasHandedOver(r)

\* When a success reply is sent, what it says of the room is so, but for the two
\* exceptions ReplyIsTrue names: a join whose room was deleted meanwhile, and an
\* owner's leave that hands the room over (lobby_server.go, the three calls).
RepliesAreTrue == [][\A r \in Requests : ReplyIsTrue(r)]_vars

-----------------------------------------------------------------------------
(* What a comment in the source says and the code does not do *)

\* LeaveRoom removes the current player: whoever is told so, the owner of a
\* room with other players included, is no longer in the room.
LeaverIsGone ==
    [][\A r \in Requests : Succeeds(r, "leave") /\ req[r].id \in DOMAIN rooms' =>
          req[r].user \notin Members(rooms'[req[r].id])]_vars

=============================================================================
