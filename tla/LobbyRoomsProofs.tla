-------------------------- MODULE LobbyRoomsProofs --------------------------
(***************************************************************************)
(* Theorems about LobbyRooms, for any users, calls, capacities and bounds: *)
(* rooms keep their identity and appear only by CreateRoom, a call writes  *)
(* to the room it has checked, and where calls do not race the documents   *)
(* are consistent and the replies true.                                    *)
(***************************************************************************)
EXTENDS LobbyRooms, FiniteSetTheorems, FunctionTheorems, SequenceTheorems, TLAPS

-----------------------------------------------------------------------------
(* Lists of players.  What Others returns is proved by induction over the  *)
(* positions of the list, with the set of the numbers for which it holds.  *)

\* A set of naturals that is not empty has a least element.
LEMMA LeastNatural ==
    ASSUME NEW T \in SUBSET Nat, T # {}
    PROVE  \E n \in T : \A m \in T : n <= m
<1> DEFINE R == OpToRel(<, Nat)
<1>1. IsWellFoundedOn(R, Nat)
  BY NatLessThanWellFounded
<1>2. PICK n \in T : \A m \in T : ~(<<m, n>> \in R)
  BY <1>1, WFMin, Zenon
<1>3. \A m \in Nat : ~(<<m, n>> \in R) => n <= m
  BY DEF OpToRel
<1> QED
  BY <1>2, <1>3

\* Induction over a set of naturals that holds 0 and every successor.
LEMMA SetInduction ==
    ASSUME NEW T \in SUBSET Nat, 0 \in T, \A n \in T : n + 1 \in T
    PROVE  T = Nat
<1> SUFFICES ASSUME T # Nat PROVE FALSE
  OBVIOUS
<1>1. PICK n \in Nat \ T : \A m \in Nat \ T : n <= m
  BY LeastNatural
<1>2. n - 1 \in T
  BY <1>1
<1> QED
  BY <1>1, <1>2

\* f is the list of the entries of s other than u, for each of the first n positions.
Step(s, u, f, k) == IF s[k] = u THEN f[k - 1] ELSE Append(f[k - 1], s[k])

Table(f, n) == f = [k \in 0 .. n |-> f[k]]

Filters(s, u, f, n) ==
    /\ DOMAIN f = 0 .. n /\ Table(f, n)
    /\ f[0] = <<>>
    /\ \A k \in 1 .. n : f[k] = Step(s, u, f, k)

\* For any sequence there is a table of what filtering leaves of each of its prefixes.
LEMMA FilterExists ==
    ASSUME NEW s, NEW u, NEW n \in Nat
    PROVE  \E f : Filters(s, u, f, n)
<1> DEFINE T == {m \in Nat : \E f : Filters(s, u, f, m)}
<1>1. 0 \in T
  <2> DEFINE f == [k \in 0 .. 0 |-> <<>>]
  <2>1. Filters(s, u, f, 0)
    BY DEF Filters, Table
  <2> QED
    BY <2>1
<1>2. ASSUME NEW m \in T PROVE m + 1 \in T
  <2>1. PICK f : Filters(s, u, f, m)
    OBVIOUS
  <2> DEFINE next == IF s[m + 1] = u THEN f[m] ELSE Append(f[m], s[m + 1])
  <2> DEFINE g == [k \in 0 .. m + 1 |-> IF k = m + 1 THEN next ELSE f[k]]
  <2>2. /\ DOMAIN g = 0 .. m + 1 /\ g[0] = <<>> /\ g[m + 1] = next
        /\ \A k \in 0 .. m : g[k] = f[k]
    <3> HIDE DEF next
    <3> QED
     BY <2>1 DEF Filters
  <2>3. Table(g, m + 1)
    BY DEF Table
  <2> HIDE DEF g
  <2>4. \A k \in 1 .. m : k \in 0 .. m /\ k - 1 \in 0 .. m
    OBVIOUS
  <2>5. \A k \in 1 .. m : g[k] = Step(s, u, g, k)
    BY <2>1, <2>2, <2>4 DEF Filters, Step
  <2>6. g[m + 1] = Step(s, u, g, m + 1)
    BY <2>2 DEF Step
  <2>7. Filters(s, u, g, m + 1)
    BY <2>2, <2>5, <2>6, <2>3 DEF Filters
  <2> QED
    BY <2>7 DEF g
<1> HIDE DEF T
<1>3. T = Nat
  BY <1>1, <1>2, SetInduction DEF T
<1> QED
  BY <1>3 DEF T

\* Others ($pull) is the last entry of such a table.
LEMMA OthersIs ==
    ASSUME NEW doc, Len(doc.players) \in Nat, NEW u
    PROVE  \E f : /\ Filters(doc.players, u, f, Len(doc.players))
                 /\ Others(doc, u) = f[Len(doc.players)]
<1> DEFINE s == doc.players
           n == Len(s)
           Body(f) == [k \in 0 .. n |-> IF k = 0 THEN <<>>
                          ELSE IF s[k] = u THEN f[k - 1] ELSE Append(f[k - 1], s[k])]
           h == CHOOSE f : f = Body(f)
<1>1. Others(doc, u) = h[n]
  BY DEF Others
<1>2. n \in Nat
  OBVIOUS
<1> HIDE DEF s, n
<1>3. \E f : f = Body(f)
  <2>1. PICK f : Filters(s, u, f, n)
    BY <1>2, FilterExists
  <2> DEFINE B == Body(f)
  <2>2. DOMAIN B = 0 .. n /\ B[0] = <<>> /\ \A k \in 1 .. n : B[k] = Step(s, u, f, k)
    BY <1>2 DEF Step
  <2>3. f[0] = B[0] /\ \A k \in 1 .. n : f[k] = B[k]
    BY <2>1, <2>2 DEF Filters
  <2>4. \A k \in 0 .. n : k = 0 \/ k \in 1 .. n
    BY <1>2
  <2>5. B = [k \in 0 .. n |-> B[k]]
    OBVIOUS
  <2> HIDE DEF B
  <2>6. f = B
    BY <2>1, <2>3, <2>4, <2>5 DEF Filters, Table
  <2> QED
    BY <2>6 DEF B
<1>4. h = Body(h)
  BY <1>3
<1> DEFINE B == Body(h)
<1>5. DOMAIN B = 0 .. n /\ B[0] = <<>> /\ \A k \in 1 .. n : B[k] = Step(s, u, h, k)
  BY <1>2 DEF Step
<1>6. h = B
  BY <1>4
<1>7. Table(B, n)
  BY DEF Table
<1> HIDE DEF h, B
<1>8. Filters(s, u, h, n)
  BY <1>5, <1>6, <1>7 DEF Filters
<1> QED
  BY <1>1, <1>8 DEF s, n

Entries(s, n) == {s[k] : k \in 1 .. n}
Distinct(s, n) == \A j, k \in 1 .. n : s[j] = s[k] => j = k

\* The entries of a prefix and of the next longer one.
LEMMA EntriesNext ==
    ASSUME NEW s, NEW n \in Nat
    PROVE  Entries(s, n + 1) = Entries(s, n) \cup {s[n + 1]}
BY DEF Entries

\* Appending a player ($push): length, entries, and that they stay distinct.
LEMMA AppendFacts ==
    ASSUME NEW S, NEW q \in Seq(S), NEW e \in S
    PROVE  /\ Append(q, e) \in Seq(S) /\ Len(Append(q, e)) = Len(q) + 1
           /\ Entries(Append(q, e), Len(q) + 1) = Entries(q, Len(q)) \cup {e}
           /\ Distinct(q, Len(q)) /\ e \notin Entries(q, Len(q))
                 => Distinct(Append(q, e), Len(q) + 1)
<1>1. /\ Append(q, e) \in Seq(S) /\ Len(Append(q, e)) = Len(q) + 1
      /\ \A k \in 1 .. Len(q) : Append(q, e)[k] = q[k]
      /\ Append(q, e)[Len(q) + 1] = e /\ Len(q) \in Nat
  BY AppendProperties, LenProperties
<1>2. Entries(Append(q, e), Len(q)) = Entries(q, Len(q))
  BY <1>1 DEF Entries
<1>3. Entries(Append(q, e), Len(q) + 1) = Entries(q, Len(q)) \cup {e}
  BY <1>1, <1>2, EntriesNext
<1> HIDE DEF Entries
<1>4. ASSUME Distinct(q, Len(q)), e \notin Entries(q, Len(q))
      PROVE  Distinct(Append(q, e), Len(q) + 1)
  <2> DEFINE a == Append(q, e)
             n == Len(q)
  <2>1. ASSUME NEW j \in 1 .. n + 1, NEW k \in 1 .. n + 1, a[j] = a[k] PROVE j = k
    <3>1. (j \in 1 .. n \/ j = n + 1) /\ (k \in 1 .. n \/ k = n + 1)
      BY <1>1
    <3>2. \A i \in 1 .. n : a[i] = q[i] /\ q[i] # e
      BY <1>1, <1>4 DEF Entries
    <3> HIDE DEF a, n
    <3> QED
      BY <2>1, <3>1, <3>2, <1>1, <1>4 DEF Distinct, a, n
  <2> QED
    BY <2>1 DEF Distinct
<1> QED
  BY <1>1, <1>3, <1>4

\* What filtering leaves of each prefix: its entries, and of distinct ones one less or all.
LEMMA FilterFacts ==
    ASSUME NEW S, NEW s \in Seq(S), NEW u, NEW f, Filters(s, u, f, Len(s))
    PROVE  \A k \in 0 .. Len(s) :
              /\ f[k] \in Seq(S)
              /\ Entries(f[k], Len(f[k])) = Entries(s, k) \ {u}
              /\ Distinct(s, k) => /\ Distinct(f[k], Len(f[k]))
                                  /\ Len(f[k]) = IF u \in Entries(s, k) THEN k - 1 ELSE k
<1> DEFINE Holds(k) == /\ f[k] \in Seq(S)
                       /\ Entries(f[k], Len(f[k])) = Entries(s, k) \ {u}
                       /\ Distinct(s, k) => /\ Distinct(f[k], Len(f[k]))
                                            /\ Len(f[k]) = IF u \in Entries(s, k) THEN k - 1 ELSE k
           T == {k \in Nat : k <= Len(s) => Holds(k)}
<1>1. Len(s) \in Nat
  BY LenProperties
<1>2. 0 \in T
  <2>1. f[0] = <<>> /\ Entries(s, 0) = {}
    BY DEF Filters, Entries
  <2>2. <<>> \in Seq(S) /\ Len(<<>>) = 0
    BY EmptySeq
  <2>3. Entries(<<>>, 0) = {} /\ Distinct(<<>>, 0)
    BY DEF Entries, Distinct
  <2> DEFINE g == f[0]
  <2>4. /\ g \in Seq(S) /\ Len(g) = 0 /\ Entries(g, Len(g)) = Entries(s, 0) \ {u}
        /\ Distinct(g, Len(g)) /\ u \notin Entries(s, 0)
    BY <2>1, <2>2, <2>3
  <2> QED
    BY <2>4
<1>3. ASSUME NEW k \in T PROVE k + 1 \in T
  <2> SUFFICES ASSUME k + 1 <= Len(s) PROVE Holds(k + 1)
    OBVIOUS
  <2>1. Holds(k) /\ k \in Nat
    BY <1>1
  <2>2. k + 1 \in 1 .. Len(s) /\ s[k + 1] \in S
    BY <1>1, <2>1, ElementOfSeq
  <2>3. f[k + 1] = IF s[k + 1] = u THEN f[k] ELSE Append(f[k], s[k + 1])
    BY <2>1, <2>2 DEF Filters, Step
  <2>4. Entries(s, k + 1) = Entries(s, k) \cup {s[k + 1]}
    BY <2>1, EntriesNext
  <2>5. Distinct(s, k + 1) => Distinct(s, k) /\ s[k + 1] \notin Entries(s, k)
    BY <2>1 DEF Distinct, Entries
  <2>6. Len(f[k]) \in Nat
    BY <2>1, LenProperties
  <2> HIDE DEF T
  <2>7. CASE s[k + 1] = u
    BY <2>1, <2>3, <2>4, <2>5, <2>7
  <2>8. CASE s[k + 1] # u
    <3>1. /\ f[k + 1] \in Seq(S) /\ Len(f[k + 1]) = Len(f[k]) + 1
          /\ Entries(f[k + 1], Len(f[k + 1])) = Entries(f[k], Len(f[k])) \cup {s[k + 1]}
          /\ Distinct(f[k], Len(f[k])) /\ s[k + 1] \notin Entries(f[k], Len(f[k]))
                => Distinct(f[k + 1], Len(f[k + 1]))
      BY <2>1, <2>2, <2>3, <2>8, AppendFacts
    <3> QED
      BY <2>1, <2>4, <2>5, <2>6, <2>8, <3>1
  <2> QED
    BY <2>7, <2>8
<1> HIDE DEF Holds
<1>4. T = Nat
  <2> HIDE DEF T
  <2> QED
    BY <1>2, <1>3, SetInduction DEF T
<1> QED
  BY <1>1, <1>4 DEF Holds

\* $pull: the entries of the list but u, and one less of them if nobody is listed
\* twice and u was.
LEMMA OthersFacts ==
    ASSUME NEW doc, doc.players \in Seq(Users), NEW u
    PROVE  /\ Others(doc, u) \in Seq(Users)
           /\ Entries(Others(doc, u), Len(Others(doc, u))) = Members(doc) \ {u}
           /\ Distinct(doc.players, Len(doc.players)) =>
                 /\ Distinct(Others(doc, u), Len(Others(doc, u)))
                 /\ Len(Others(doc, u)) = IF u \in Members(doc) THEN Len(doc.players) - 1
                                                                ELSE Len(doc.players)
<1> DEFINE s == doc.players
           n == Len(s)
<1>1. n \in Nat
  BY LenProperties
<1>2. PICK f : Filters(s, u, f, n) /\ Others(doc, u) = f[n]
  BY <1>1, OthersIs
<1>3. Members(doc) = Entries(s, n)
  BY DEF Members, Entries
<1>4. n \in 0 .. n
  BY <1>1
<1>5. s \in Seq(Users)
  OBVIOUS
<1> HIDE DEF s
<1>6. /\ f[n] \in Seq(Users) /\ Entries(f[n], Len(f[n])) = Entries(s, n) \ {u}
      /\ Distinct(s, n) => /\ Distinct(f[n], Len(f[n]))
                          /\ Len(f[n]) = IF u \in Entries(s, n) THEN n - 1 ELSE n
  BY <1>5, <1>2, <1>4, FilterFacts
<1> QED
  BY <1>2, <1>3, <1>6 DEF s

\* The first of the others is one of them.
LEMMA HeadOfOthers ==
    ASSUME NEW doc, doc.players \in Seq(Users), NEW u, Others(doc, u) # <<>>
    PROVE  Head(Others(doc, u)) \in (Members(doc) \cap Users) \ {u}
<1> DEFINE s == Others(doc, u)
<1>1. s \in Seq(Users) /\ Entries(s, Len(s)) = Members(doc) \ {u}
  BY OthersFacts
<1>2. Len(s) \in Nat /\ Len(s) # 0 /\ Head(s) = s[1] /\ s[1] \in Users
  BY <1>1, HeadTailProperties, EmptySeq, LenProperties, ElementOfSeq
<1> HIDE DEF s
<1>3. s[1] \in Entries(s, Len(s))
  BY <1>2 DEF Entries
<1>4. Head(s) \in Members(doc) \ {u} /\ Head(s) \in Users
  BY <1>1, <1>2, <1>3
<1> QED
  BY <1>4 DEF s

\* A list on which nobody is twice is as long as the set of its members.
LEMMA DistinctCount ==
    ASSUME NEW doc, doc.players \in Seq(Users), Distinct(doc.players, Len(doc.players))
    PROVE  Cardinality(Members(doc)) = Len(doc.players)
<1> DEFINE s == doc.players
           n == Len(s)
<1>1. n \in Nat /\ s \in [1 .. n -> Users]
  BY LenProperties
<1>2. s \in [1 .. n -> Members(doc)]
  BY <1>1 DEF Members
<1>3. \A j, k \in 1 .. n : s[j] = s[k] => j = k
  BY DEF Distinct
<1>4. \A m \in Members(doc) : \E k \in 1 .. n : s[k] = m
  BY DEF Members
<1> HIDE DEF s, n
<1>5. s \in Bijection(1 .. n, Members(doc))
  BY <1>2, <1>3, <1>4, Fun_IsBij
<1>6. ExistsBijection(1 .. n, Members(doc))
  BY <1>5, Fun_ExistsBij
<1> QED
  BY <1>1, <1>6, FS_CountingElements DEF s, n

\* A document's players are the entries of its list.
LEMMA MembersAre ==
    ASSUME NEW doc
    PROVE  Members(doc) = Entries(doc.players, Len(doc.players))
BY DEF Members, Entries

-----------------------------------------------------------------------------
(* What one write does to the collection *)

\* The collection R is the present one but for the room of one ID.
OnlyAt(R, id) ==
    /\ R = [i \in DOMAIN R |-> R[i]]
    /\ \A i : i # id => (i \in DOMAIN R <=> i \in DOMAIN rooms)
    /\ \A i \in DOMAIN R : i # id => R[i] = rooms[i]

\* AddPlayer's document: list, counter and the fields it leaves alone.
LEMMA AddedFacts ==
    ASSUME DocumentTypes, NEW id \in DOMAIN rooms, NEW u \in Users
    PROVE  LET R == Added(id, u) IN
           /\ OnlyAt(R, id) /\ id \in DOMAIN R /\ R[id] \in Room
           /\ R[id].oid = rooms[id].oid /\ R[id].max = rooms[id].max
           /\ R[id].owner = rooms[id].owner /\ R[id].count = rooms[id].count + 1
           /\ R[id].players = Append(rooms[id].players, u)
<1> DEFINE room == rooms[id]
           list == Append(room.players, u)
           new == [oid |-> room.oid, max |-> room.max, count |-> room.count + 1,
                   owner |-> room.owner, players |-> list]
           R == Added(id, u)
<1>1. room \in Room
  BY DEF DocumentTypes
<1>2. list \in Seq(Users)
  BY <1>1, AppendProperties DEF Room
<1>3. new \in Room
  BY <1>1, <1>2 DEF Room
<1>4. R = [rooms EXCEPT ![id] = new]
  <2> DEFINE half == [room EXCEPT !.players = list]
             whole == [half EXCEPT !.count = @ + 1]
             S == [rooms EXCEPT ![id].players = Append(@, u)]
  <2>1. R = [S EXCEPT ![id].count = @ + 1]
    BY DEF Added, Exists
  <2>2. S = [rooms EXCEPT ![id] = half]
    OBVIOUS
  <2>3. whole = new
    <3>1. room = [oid |-> room.oid, max |-> room.max, count |-> room.count,
                  owner |-> room.owner, players |-> room.players]
      BY <1>1 DEF Room
    <3>2. half = [oid |-> room.oid, max |-> room.max, count |-> room.count,
                  owner |-> room.owner, players |-> list]
      <4> HIDE DEF room, list
      <4> QED
        BY <3>1
    <3> HIDE DEF half, room, list
    <3> QED
      BY <3>2
  <2>4. rooms = [i \in DOMAIN rooms |-> rooms[i]]
    BY DEF DocumentTypes
  <2> HIDE DEF half, S, new
  <2>5. S[id] = half /\ [S EXCEPT ![id] = new] = [rooms EXCEPT ![id] = new]
    BY <2>2, <2>4
  <2> QED
    BY <2>1, <2>3, <2>5
<1> HIDE DEF R
<1>5. OnlyAt(R, id) /\ id \in DOMAIN R /\ R[id] = new
  <2> HIDE DEF new
  <2> QED
    BY <1>4 DEF OnlyAt
<1> QED
  BY <1>3, <1>5 DEF R

\* RemovePlayer's document: list, counter and the fields it leaves alone.
LEMMA RemovedFacts ==
    ASSUME DocumentTypes, NEW id \in DOMAIN rooms, NEW u \in Users
    PROVE  LET R == Removed(id, u) IN
           /\ OnlyAt(R, id) /\ id \in DOMAIN R /\ R[id] \in Room
           /\ R[id].oid = rooms[id].oid /\ R[id].max = rooms[id].max
           /\ R[id].owner = rooms[id].owner /\ R[id].count = rooms[id].count - 1
           /\ R[id].players = Others(rooms[id], u)
<1> DEFINE room == rooms[id]
           new == [oid |-> room.oid, max |-> room.max, count |-> room.count - 1,
                   owner |-> room.owner, players |-> Others(room, u)]
           R == Removed(id, u)
<1>1. room \in Room
  BY DEF DocumentTypes
<1>2. Others(room, u) \in Seq(Users)
  BY <1>1, OthersFacts DEF Room
<1>3. new \in Room
  BY <1>1, <1>2 DEF Room
<1>4. R = [rooms EXCEPT ![id] = new]
  <2> DEFINE half == [room EXCEPT !.players = Others(room, u)]
             whole == [half EXCEPT !.count = @ - 1]
             S == [rooms EXCEPT ![id].players = Others(room, u)]
  <2>1. R = [S EXCEPT ![id].count = @ - 1]
    BY DEF Removed, Exists
  <2>2. S = [rooms EXCEPT ![id] = half]
    OBVIOUS
  <2>3. whole = new
    <3>1. room = [oid |-> room.oid, max |-> room.max, count |-> room.count,
                  owner |-> room.owner, players |-> room.players]
      BY <1>1 DEF Room
    <3>2. half = [oid |-> room.oid, max |-> room.max, count |-> room.count,
                  owner |-> room.owner, players |-> Others(room, u)]
      <4> HIDE DEF room
      <4> QED
        BY <3>1
    <3> HIDE DEF half, room
    <3> QED
      BY <3>2
  <2>4. rooms = [i \in DOMAIN rooms |-> rooms[i]]
    BY DEF DocumentTypes
  <2> HIDE DEF half, S, new
  <2>5. S[id] = half /\ [S EXCEPT ![id] = new] = [rooms EXCEPT ![id] = new]
    BY <2>2, <2>4
  <2> QED
    BY <2>1, <2>3, <2>5
<1> HIDE DEF R
<1>5. OnlyAt(R, id) /\ id \in DOMAIN R /\ R[id] = new
  <2> HIDE DEF new
  <2> QED
    BY <1>4 DEF OnlyAt
<1> QED
  BY <1>3, <1>5 DEF R

\* LeaveUpdate's document: the copy with its first other player as the owner.
LEMMA UpdatedFacts ==
    ASSUME DocumentTypes, NEW id \in RoomIDs, NEW doc \in Room, NEW u \in Users
    PROVE  LET R == Updated(id, [doc EXCEPT !.owner = u]) IN
           \/ R = rooms /\ ~(Exists(id) /\ rooms[id].oid = doc.oid)
           \/ /\ id \in DOMAIN rooms /\ rooms[id].oid = doc.oid
              /\ OnlyAt(R, id) /\ id \in DOMAIN R /\ R[id] \in Room
              /\ R[id].oid = doc.oid /\ R[id].max = doc.max /\ R[id].count = doc.count
              /\ R[id].owner = u /\ R[id].players = doc.players
<1> DEFINE new == [oid |-> doc.oid, max |-> doc.max, count |-> doc.count,
                   owner |-> u, players |-> doc.players]
           R == Updated(id, [doc EXCEPT !.owner = u])
<1>1. new \in Room /\ [doc EXCEPT !.owner = u] = new
  BY DEF Room
<1>2. R = IF Exists(id) /\ rooms[id].oid = doc.oid THEN [rooms EXCEPT ![id] = new] ELSE rooms
  BY <1>1 DEF Updated
<1>3. rooms = [i \in DOMAIN rooms |-> rooms[i]]
  BY DEF DocumentTypes
<1> HIDE DEF R
<1>4. CASE Exists(id) /\ rooms[id].oid = doc.oid
  <2>1. OnlyAt(R, id) /\ id \in DOMAIN R /\ R[id] = new
    <3> HIDE DEF new
    <3> QED
      BY <1>2, <1>4 DEF OnlyAt, Exists
  <2> QED
    BY <1>1, <1>4, <2>1 DEF R, Exists
<1> QED
  BY <1>2, <1>4 DEF R

\* The room CreateRoom has built, stored under a new _id.
LEMMA InsertedFacts ==
    ASSUME DocumentTypes, inserted \in Nat, NEW id \in RoomIDs, NEW doc \in Room
    PROVE  LET R == Inserted(id, doc) IN
           /\ OnlyAt(R, id) /\ id \in DOMAIN R /\ R[id] \in Room
           /\ R[id].oid = inserted + 1 /\ R[id].max = doc.max /\ R[id].count = doc.count
           /\ R[id].owner = doc.owner /\ R[id].players = doc.players
<1> DEFINE new == [oid |-> inserted + 1, max |-> doc.max, count |-> doc.count,
                   owner |-> doc.owner, players |-> doc.players]
           R == Inserted(id, doc)
<1>1. new \in Room /\ [doc EXCEPT !.oid = inserted + 1] = new
  BY DEF Room
<1>2. R = [i \in DOMAIN rooms \cup {id} |-> IF i = id THEN new ELSE rooms[i]]
  BY <1>1 DEF Inserted
<1> HIDE DEF R
<1>3. OnlyAt(R, id) /\ id \in DOMAIN R /\ R[id] = new
  <2> HIDE DEF new
  <2> QED
    BY <1>2 DEF OnlyAt
<1> QED
  BY <1>1, <1>3 DEF R

\* A deleted room is gone and the others are as they were (DeleteRoom).
LEMMA ErasedFacts ==
    ASSUME NEW id
    PROVE  OnlyAt(Erased(id), id) /\ id \notin DOMAIN Erased(id)
BY DEF Erased, OnlyAt

-----------------------------------------------------------------------------
(* What a step does to the calls *)

\* A step of the call in slot r.
Acts(r) == Refused(r) \/ Create(r) \/ Join(r) \/ Leave(r)

\* Slot r now holds the call c, and the other slots what they held.
Holds(r, c) ==
    /\ req' = [q \in Requests |-> IF q = r THEN c ELSE req[q]]
    /\ req'[r] = c
    /\ \A q \in Requests : q # r => req'[q] = req[q]

Call(op, pc, user, id, checked, doc) ==
    [op |-> op, pc |-> pc, user |-> user, id |-> id, checked |-> checked, doc |-> doc]

\* Slot r's call with another pc, and with another ID.
At(r, pc) == Call(req[r].op, pc, req[r].user, req[r].id, req[r].checked, req[r].doc)
Named(r, pc, id) == Call(req[r].op, pc, req[r].user, id, req[r].checked, req[r].doc)

Calls == [op      : {"none", "create", "join", "leave"},
          pc      : Steps \cup Ended,
          user    : Users \cup {NoUser},
          id      : RoomIDs \cup {0},
          checked : Nat,
          doc     : Room \cup {NoRoom}]

\* What CallTypes says of one call.
GoodCall(c) ==
    IF c.pc \in Ended THEN c = [NoCall EXCEPT !.pc = c.pc]
    ELSE /\ c.user \in Users
         /\ c.pc # "id" => c.id \in RoomIDs
         /\ c.pc \in {"id", "insert", "removeOwner", "update"} => c.doc \in Room

\* A call's record, field by field.
LEMMA CallFacts ==
    ASSUME CallTypes, NEW r \in Requests
    PROVE  /\ req[r] \in Calls /\ GoodCall(req[r])
           /\ req[r] = At(r, req[r].pc)
           /\ req[r].pc \in Ended => req[r].id = 0
           /\ req[r].id \in RoomIDs \cup {0} /\ req[r].pc \in Steps \cup Ended
           /\ req[r].checked \in Nat /\ req[r].doc \in Room \cup {NoRoom}
           /\ req[r].pc \notin Ended => req[r].user \in Users
           /\ req[r].pc \notin Ended \cup {"id"} => req[r].id \in RoomIDs
           /\ req[r].pc \in {"id", "insert", "removeOwner", "update"} => req[r].doc \in Room
<1>1. req[r] \in Calls /\ GoodCall(req[r])
  BY DEF CallTypes, Calls, GoodCall
<1>2. req[r] = At(r, req[r].pc)
  BY <1>1 DEF Calls, At, Call
<1>3. req[r].pc \in Ended => req[r].id = 0
  BY <1>1 DEF GoodCall, NoCall
<1>4. req[r].pc \in {"id", "insert", "removeOwner", "update"} => req[r].pc \notin Ended
  BY DEF Ended
<1> QED
  BY <1>1, <1>2, <1>3, <1>4 DEF Calls, GoodCall

\* A step that writes one slot leaves the others alone.
LEMMA HoldsIs ==
    ASSUME CallTypes, NEW r \in Requests, NEW c, req' = [req EXCEPT ![r] = c]
    PROVE  Holds(r, c)
BY DEF CallTypes, Holds

\* A slot given a good record leaves the calls with their types.
LEMMA CallTypesKept ==
    ASSUME CallTypes, NEW r \in Requests, NEW c, Holds(r, c), c \in Calls, GoodCall(c)
    PROVE  CallTypes'
<1>1. \A q \in Requests : req[q] \in Calls /\ GoodCall(req[q])
  BY CallFacts
<1>2. req' = [q \in Requests |-> IF q = r THEN c ELSE req[q]]
  BY DEF Holds
<1>3. \A q \in Requests : req'[q] \in Calls /\ GoodCall(req'[q])
  BY <1>1 DEF Holds
<1>4. req' \in [Requests -> Calls]
  BY <1>2, <1>1
<1> HIDE DEF Calls
<1>5. \A q \in Requests : GoodCall(req'[q])
  BY <1>3
<1> QED
  BY <1>4, <1>5 DEF CallTypes, GoodCall, Calls, RoomIDs, Room

\* Going on, being answered, arriving and drawing an ID, spelled out.
LEMMA GotoIs ==
    ASSUME CallTypes, NEW r \in Requests, NEW l, Goto(r, l)
    PROVE  Holds(r, At(r, l))
<1>1. req' = [req EXCEPT ![r] = [req[r] EXCEPT !.pc = l]]
  BY DEF Goto
<1>2. [req[r] EXCEPT !.pc = l] = At(r, l)
  <2> DEFINE call == req[r]
  <2>1. call = Call(call.op, call.pc, call.user, call.id, call.checked, call.doc)
    BY CallFacts DEF At
  <2> HIDE DEF call
  <2>2. [call EXCEPT !.pc = l]
           = Call(call.op, l, call.user, call.id, call.checked, call.doc)
    BY <2>1 DEF Call
  <2> QED
    BY <2>2 DEF call, At
<1> QED
  BY <1>1, <1>2, HoldsIs

\* What an answer does to the calls and to the reply.
LEMMA AnswerIs ==
    ASSUME CallTypes, NEW r \in Requests, NEW l, Answer(r, l)
    PROVE  Holds(r, Call("none", l, NoUser, 0, 0, NoRoom))
<1>1. [NoCall EXCEPT !.pc = l] = Call("none", l, NoUser, 0, 0, NoRoom)
  BY DEF NoCall, Call
<1> QED
  BY <1>1, HoldsIs DEF Answer

\* What the arrival of a call does to the slots.
LEMMA ArriveIs ==
    ASSUME CallTypes, NEW r \in Requests, NEW op, NEW u, NEW id, NEW l, NEW doc,
           Arrive(r, op, u, id, l, doc)
    PROVE  Holds(r, Call(op, l, u, id, doc.oid,
                         IF l \in {"id", "removeOwner"} THEN doc ELSE NoRoom))
BY HoldsIs DEF Arrive, Call

\* generateRoomID takes the next ID.
LEMMA DrawIs ==
    ASSUME CallTypes, NEW r \in Requests, CreateID(r)
    PROVE  Holds(r, Named(r, "insert", nextRoomID))
<1> DEFINE half == [req[r] EXCEPT !.pc = "insert"]
           S == [req EXCEPT ![r].pc = "insert"]
<1>1. req' = [S EXCEPT ![r].id = nextRoomID]
  BY DEF CreateID
<1>2. S = [req EXCEPT ![r] = half]
  OBVIOUS
<1>3. req = [q \in Requests |-> req[q]]
  BY DEF CallTypes
<1>4. half = At(r, "insert")
  <2> DEFINE call == req[r]
  <2>1. call = Call(call.op, call.pc, call.user, call.id, call.checked, call.doc)
    BY CallFacts DEF At
  <2> HIDE DEF call
  <2>2. [call EXCEPT !.pc = "insert"]
           = Call(call.op, "insert", call.user, call.id, call.checked, call.doc)
    BY <2>1 DEF Call
  <2> QED
    BY <2>2 DEF call, At
<1>5. [half EXCEPT !.id = nextRoomID] = Named(r, "insert", nextRoomID)
  <2> HIDE DEF half
  <2> QED
    BY <1>4 DEF At, Named, Call
<1> HIDE DEF half, S
<1>6. S[r] = half /\ req' = [req EXCEPT ![r] = [half EXCEPT !.id = nextRoomID]]
  BY <1>1, <1>2, <1>3
<1> QED
  BY <1>5, <1>6, HoldsIs

-----------------------------------------------------------------------------
(* The steps of a call, spelled out *)

Over(l) == Call("none", l, NoUser, 0, 0, NoRoom)

\* The call in slot r is answered, with success or without.
Ending(r) == Holds(r, Over("ok")) \/ Holds(r, Over("idle"))

NewRoom(u, max) == [oid |-> 0, max |-> max, count |-> 1, owner |-> u, players |-> <<u>>]

Arrival(r, c) ==
    /\ req[r].pc \in Ended /\ Holds(r, c)
    /\ UNCHANGED <<rooms, nextRoomID, inserted, cut>>

ArrivesToLeave(r, u, id) ==
    LET l == LeaveStep(rooms[id], u) IN
    /\ Exists(id) /\ u \in Members(rooms[id])
    /\ Arrival(r, Call("leave", l, u, id, rooms[id].oid,
                       IF l = "removeOwner" THEN rooms[id] ELSE NoRoom))

Arriving(r) ==
    \/ Arrival(r, Over("idle"))
    \/ \E u \in Users, max \in Capacities :
          Arrival(r, Call("create", "id", u, 0, 0, NewRoom(u, max)))
    \/ \E u \in Users, id \in RoomIDs :
          /\ Exists(id) /\ Joinable(rooms[id], u)
          /\ Arrival(r, Call("join", "add", u, id, rooms[id].oid, NoRoom))
    \/ \E u \in Users, id \in RoomIDs : ArrivesToLeave(r, u, id)

Drawing(r) ==
    /\ req[r].pc = "id" /\ nextRoomID \in RoomIDs /\ nextRoomID' = nextRoomID + 1
    /\ Holds(r, Named(r, "insert", nextRoomID))
    /\ UNCHANGED <<rooms, inserted, cut>>

Inserting(r) ==
    /\ req[r].pc = "insert" /\ ~Exists(req[r].id) /\ Ending(r)
    /\ rooms' = Inserted(req[r].id, req[r].doc) /\ inserted' = inserted + 1
    /\ UNCHANGED <<nextRoomID, cut>>

\* A call that writes nothing more.
Stopping(r) ==
    /\ \/ req[r].pc = "nothing" /\ Holds(r, Over("ok"))
       \/ req[r].pc = "insert" /\ Holds(r, Over("idle"))
    /\ UNCHANGED <<rooms, nextRoomID, inserted, cut>>

\* The last write of a call, R if it is applied; without a success reply if it is
\* reported as failed, except by the hand-over.
Wrote(r, pc, R) ==
    /\ req[r].pc = pc /\ Ending(r)
    /\ \/ rooms' = R /\ cut' = cut
       \/ /\ rooms' = R \/ rooms' = rooms
          /\ cut' = cut \cup {req[r].id} /\ (pc = "update" \/ Holds(r, Over("idle")))
    /\ UNCHANGED <<nextRoomID, inserted>>

NewOwner(call) == [call.doc EXCEPT !.owner = Head(Others(call.doc, call.user))]

Writes(r) ==
    \/ Wrote(r, "add", Added(req[r].id, req[r].user))
    \/ Wrote(r, "delete", Erased(req[r].id))
    \/ Wrote(r, "remove", Removed(req[r].id, req[r].user))
    \/ Wrote(r, "update", Updated(req[r].id, NewOwner(req[r])))
    \/ /\ Wrote(r, "removeOwner", Removed(req[r].id, req[r].user))
       /\ cut' = cut \cup {req[r].id}

HandingOver(r) ==
    /\ req[r].pc = "removeOwner" /\ Holds(r, At(r, "update"))
    /\ rooms' = Removed(req[r].id, req[r].user)
    /\ UNCHANGED <<nextRoomID, inserted, cut>>

\* Every step of a call, as what it does to its own slot and to one document.
LEMMA StepIs ==
    ASSUME CallTypes, NEW r \in Requests, Acts(r)
    PROVE  /\ restarts' = restarts
           /\ \/ Arriving(r) \/ Drawing(r) \/ Inserting(r) \/ Stopping(r)
              \/ Writes(r) \/ HandingOver(r)
<1>1. ASSUME NEW l, Answer(r, l) PROVE Holds(r, Over(l))
  BY <1>1, AnswerIs DEF Over
<1>2. CASE Refused(r)
  BY <1>1, <1>2 DEF Refused, Arriving, Arrival
<1>3. CASE Create(r)
  <2>1. CASE \E u \in Users, max \in Capacities : CreateBegin(r, u, max)
    <3>1. PICK u \in Users, max \in Capacities : CreateBegin(r, u, max)
      BY <2>1
    <3> DEFINE doc == NewRoom(u, max)
    <3>2. Arrive(r, "create", u, 0, "id", doc) /\ doc.oid = 0
      BY <3>1 DEF CreateBegin, NewRoom
    <3> HIDE DEF doc
    <3>3. Holds(r, Call("create", "id", u, 0, 0, doc))
      BY <3>2, ArriveIs
    <3>4. Arrival(r, Call("create", "id", u, 0, 0, doc)) /\ restarts' = restarts
      BY <3>1, <3>2, <3>3 DEF CreateBegin, Arrival, Arrive
    <3> QED
      BY <3>4 DEF Arriving, doc
  <2>2. CASE CreateID(r)
    BY <2>2, DrawIs DEF CreateID, Drawing
  <2>3. CASE CreateInsert(r)
    BY <1>1, <2>3 DEF CreateInsert, Inserting, Stopping, Ending
  <2> QED
    BY <1>3, <2>1, <2>2, <2>3 DEF Create
<1>4. CASE Join(r)
  <2>1. CASE \E u \in Users, id \in RoomIDs : JoinRead(r, u, id)
    <3>1. PICK u \in Users, id \in RoomIDs : JoinRead(r, u, id)
      BY <2>1
    <3>2. Arrive(r, "join", u, id, "add", rooms[id])
      BY <3>1 DEF JoinRead
    <3>3. Holds(r, Call("join", "add", u, id, rooms[id].oid, NoRoom))
      BY <3>2, ArriveIs
    <3>4. Arrival(r, Call("join", "add", u, id, rooms[id].oid, NoRoom)) /\ restarts' = restarts
      BY <3>1, <3>2, <3>3 DEF JoinRead, Arrival, Arrive
    <3>5. Exists(id) /\ Joinable(rooms[id], u)
      BY <3>1 DEF JoinRead
    <3> QED
      BY <3>4, <3>5 DEF Arriving
  <2>2. CASE JoinAdd(r)
    BY <1>1, <2>2 DEF JoinAdd, StoreWrites, StoreError, Writes, Wrote, Ending
  <2> QED
    BY <1>4, <2>1, <2>2 DEF Join
<1>5. CASE Leave(r)
  <2>1. CASE \E u \in Users, id \in RoomIDs : LeaveRead(r, u, id)
    <3>1. PICK u \in Users, id \in RoomIDs : LeaveRead(r, u, id)
      BY <2>1
    <3> DEFINE l == LeaveStep(rooms[id], u)
               c == Call("leave", l, u, id, rooms[id].oid,
                         IF l = "removeOwner" THEN rooms[id] ELSE NoRoom)
    <3>2. Arrive(r, "leave", u, id, l, rooms[id])
      BY <3>1 DEF LeaveRead
    <3>3. l # "id"
      BY DEF LeaveStep
    <3>4. Holds(r, Call("leave", l, u, id, rooms[id].oid,
                        IF l \in {"id", "removeOwner"} THEN rooms[id] ELSE NoRoom))
      <4> HIDE DEF l
      <4> QED
        BY <3>2, ArriveIs
    <3>5. Holds(r, c)
      <4> HIDE DEF l
      <4> QED
        BY <3>3, <3>4
    <3>6. Arrival(r, c) /\ restarts' = restarts
      <4> HIDE DEF l, c
      <4> QED
        BY <3>1, <3>2, <3>5 DEF LeaveRead, Arrival, Arrive
    <3>7. ArrivesToLeave(r, u, id)
      BY <3>1, <3>6 DEF LeaveRead, ArrivesToLeave
    <3> QED
      BY <3>6, <3>7 DEF Arriving
  <2>2. CASE LeaveNothing(r)
    BY <1>1, <2>2 DEF LeaveNothing, Stopping
  <2>3. CASE LeaveDelete(r)
    BY <1>1, <2>3 DEF LeaveDelete, StoreWrites, StoreError, Writes, Wrote, Ending
  <2>4. CASE LeaveRemove(r)
    BY <1>1, <2>4 DEF LeaveRemove, StoreWrites, StoreError, Writes, Wrote, Ending
  <2>5. CASE LeaveRemoveOwner(r)
    BY <1>1, <2>5, GotoIs
       DEF LeaveRemoveOwner, StoreWrites, StoreError, Writes, Wrote, Ending, HandingOver
  <2>6. CASE LeaveUpdate(r)
    BY <1>1, <2>6 DEF LeaveUpdate, NewOwner, StoreWrites, StoreError, Writes, Wrote, Ending
  <2> QED
    BY <1>5, <2>1, <2>2, <2>3, <2>4, <2>5, <2>6 DEF Leave
<1> QED
  BY <1>2, <1>3, <1>4, <1>5 DEF Acts

-----------------------------------------------------------------------------
(* The inductive invariant *)

\* A call that will create a room, that holds the copy of one, that will write to one.
Building(r) == req[r].pc \in {"id", "insert"}
Copying(r) == req[r].pc \in {"removeOwner", "update"}
Targeting(r) == req[r].pc \in {"add", "delete", "remove", "removeOwner", "update"}

\* A document that is right about itself.
Sound(doc) ==
    /\ doc.count = Len(doc.players) /\ doc.count <= doc.max
    /\ Distinct(doc.players, Len(doc.players))

\* The room a call builds reaches its insertion as it was built.
NewRooms ==
    \A r \in Requests : Building(r) =>
        LET doc == req[r].doc IN
        doc.players = <<doc.owner>> /\ doc.count = 1 /\ doc.owner = req[r].user

\* A call is at one of the steps of its own operation.
OpsMatch ==
    \A r \in Requests : /\ req[r].op = "create" => Building(r)
                        /\ req[r].op = "join" => req[r].pc = "add"
                        /\ req[r].op = "leave" => req[r].pc \notin {"id", "insert", "add"}

\* A copy is one of a room that exists or has existed, and has a next owner.
CopiesAgree ==
    /\ \A id \in DOMAIN rooms : rooms[id].oid <= inserted
    /\ \A r \in Requests : Copying(r) =>
          /\ Others(req[r].doc, req[r].user) # <<>>
          /\ req[r].doc.oid <= inserted
          /\ Exists(req[r].id) /\ rooms[req[r].id].oid = req[r].doc.oid
                => rooms[req[r].id].max = req[r].doc.max

\* Until the first restart every ID in use has been drawn, and no two rooms, stored
\* or about to be, have the same.
FreshIDs ==
    restarts = 0 =>
        /\ \A id \in DOMAIN rooms : id < nextRoomID
        /\ \A r \in Requests : Targeting(r) \/ req[r].pc = "insert" => req[r].id < nextRoomID
        /\ \A r \in Requests : req[r].pc = "insert" =>
              /\ ~Exists(req[r].id)
              /\ \A q \in Requests : q # r /\ (Targeting(q) \/ req[q].pc = "insert")
                                        => req[q].id # req[r].id

\* Calls that work on one room at the same time have raced for it.
SoleCaller ==
    \A q, r \in Requests : q # r /\ req[q].id = req[r].id => req[q].id \in raced \cup {0}

\* What the only call on a room knows of it: the room is still as it was read.
Known(r) ==
    LET call == req[r]
        room == rooms[call.id]
    IN
    /\ Targeting(r) => Exists(call.id)
    /\ call.pc = "add" => Joinable(room, call.user)
    /\ call.pc = "remove" => call.user \in Members(room) /\ room.owner # call.user
    /\ call.pc = "removeOwner" => room = call.doc /\ call.user \in Members(room)
    /\ call.pc = "update" => /\ Sound(call.doc) /\ room.oid = call.doc.oid
                            /\ call.user \notin Members(room)
    /\ call.pc # "nothing"

CallsKnow == \A r \in Requests : req[r].id \in RoomIDs \ raced => Known(r)

RoomsSound == \A id \in DOMAIN rooms \ raced : Sound(rooms[id])

IndInv ==
    /\ TypeOK
    /\ OpsMatch
    /\ NewRooms
    /\ CopiesAgree
    /\ FreshIDs
    /\ SoleCaller
    /\ CallsKnow
    /\ RoomsSound
    /\ OwnerIsMember
    /\ ChecksStillApply

-----------------------------------------------------------------------------
(* The collection after a step of a call *)

\* Every write leaves documents of the right type.
LEMMA DocumentTypesKept ==
    ASSUME DocumentTypes, NEW id, OnlyAt(rooms', id),
           id \in DOMAIN rooms' => id \in RoomIDs /\ rooms'[id] \in Room
    PROVE  DocumentTypes'
<1>1. \A i \in DOMAIN rooms : i \in RoomIDs /\ rooms[i] \in Room
  BY DEF DocumentTypes
<1>2. \A i \in DOMAIN rooms' : i \in RoomIDs /\ rooms'[i] \in Room
  BY <1>1 DEF OnlyAt
<1>3. rooms' = [i \in DOMAIN rooms' |-> rooms'[i]]
  BY DEF OnlyAt
<1>4. rooms' \in [DOMAIN rooms' -> Room]
  BY <1>2, <1>3
<1> QED
  BY <1>2, <1>4 DEF DocumentTypes, RoomIDs, Room

\* At the room of its call a step inserts, erases, adds, removes or hands over; a room
\* keeps its identity and its capacity.  Or it changes nothing: the call writes nothing
\* now, its write has failed, or the document is not there any more.
Keeps(id) == /\ id \in DOMAIN rooms /\ id \in DOMAIN rooms' /\ rooms'[id] \in Room
             /\ rooms'[id].oid = rooms[id].oid /\ rooms'[id].max = rooms[id].max

Unchanged(r) ==
    /\ rooms' = rooms /\ inserted' = inserted
    /\ \/ ~Targeting(r)
       \/ req[r].id \in cut' /\ (req[r].pc = "update" \/ req'[r].pc = "idle")
       \/ ~Exists(req[r].id)
       \/ req[r].pc = "update" /\ rooms[req[r].id].oid # req[r].doc.oid

RoomChange(r) ==
    LET call == req[r]
        room == rooms[call.id]
        next == rooms'[call.id]
    IN
    \/ Unchanged(r)
    \/ /\ Inserting(r) /\ inserted' = inserted + 1 /\ call.id \in RoomIDs /\ ~Exists(call.id)
       /\ call.id \in DOMAIN rooms' /\ next \in Room /\ next.oid = inserted + 1
       /\ next.max = call.doc.max /\ next.count = call.doc.count
       /\ next.owner = call.doc.owner /\ next.players = call.doc.players
    \/ call.pc = "delete" /\ call.id \notin DOMAIN rooms' /\ inserted' = inserted
    \/ /\ call.pc = "add" /\ Keeps(call.id) /\ inserted' = inserted
       /\ next.owner = room.owner /\ next.count = room.count + 1
       /\ next.players = Append(room.players, call.user)
    \/ /\ call.pc \in {"remove", "removeOwner"} /\ Keeps(call.id) /\ inserted' = inserted
       /\ next.owner = room.owner /\ next.count = room.count - 1
       /\ next.players = Others(room, call.user)
       /\ call.pc = "removeOwner" => HandingOver(r) \/ call.id \in cut'
    \/ /\ call.pc = "update" /\ Keeps(call.id) /\ inserted' = inserted
       /\ next.oid = call.doc.oid /\ next.max = call.doc.max /\ next.count = call.doc.count
       /\ next.owner = Head(Others(call.doc, call.user)) /\ next.players = call.doc.players

\* The collection after a step: one document at most changed, as a repository call does it.
LEMMA RoomAfter ==
    ASSUME TypeOK, CopiesAgree, NEW r \in Requests, Acts(r)
    PROVE  OnlyAt(rooms', req[r].id) /\ RoomChange(r)
<1> DEFINE id == req[r].id
           u == req[r].user
<1>1. /\ DocumentTypes /\ CallTypes /\ inserted \in Nat
      /\ rooms = [i \in DOMAIN rooms |-> rooms[i]]
      /\ req[r].pc \notin Ended => u \in Users
      /\ id \in RoomIDs \cup {0} /\ 0 \notin RoomIDs
      /\ req[r].pc \in {"insert", "update"} => id \in RoomIDs
      /\ req[r].pc \in {"insert", "update"} => req[r].doc \in Room
  BY CallFacts DEF TypeOK, CounterTypes, DocumentTypes, RoomIDs, FirstRoomID, Ended
<1>2. CASE Unchanged(r)
  BY <1>1, <1>2 DEF OnlyAt, RoomChange, Unchanged
<1>3. CASE Inserting(r)
  <2>1. req[r].doc \in Room /\ id \in RoomIDs
    BY <1>1, <1>3 DEF Inserting
  <2> QED
    BY <1>1, <1>3, <2>1, InsertedFacts DEF Inserting, RoomChange
<1>4. ASSUME NEW pc, NEW R, Wrote(r, pc, R), rooms' # R
      PROVE  Unchanged(r)
  BY <1>1, <1>4 DEF Wrote, Unchanged, Holds, Over, Call
<1>5. CASE Wrote(r, "add", Added(id, u))
  <2>1. CASE rooms' = Added(id, u) /\ id \in DOMAIN rooms
    <3>1. u \in Users
      BY <1>1, <1>5 DEF Wrote, Ended
    <3> QED
      BY <1>1, <1>5, <2>1, <3>1, AddedFacts DEF Wrote, RoomChange, Keeps
  <2>2. CASE rooms' = Added(id, u) /\ id \notin DOMAIN rooms
    <3>1. Unchanged(r)
      BY <1>5, <2>2 DEF Wrote, Added, Exists, Unchanged
    <3> QED
      BY <1>2, <3>1
  <2> QED
    BY <1>2, <1>5, <1>4, <2>1, <2>2
<1>6. CASE Wrote(r, "delete", Erased(id))
  <2>1. CASE rooms' = Erased(id)
    BY <1>6, <2>1, ErasedFacts DEF Wrote, RoomChange
  <2> QED
    BY <1>2, <1>6, <1>4, <2>1
<1>7. CASE \/ Wrote(r, "remove", Removed(id, u)) \/ HandingOver(r)
           \/ Wrote(r, "removeOwner", Removed(id, u)) /\ cut' = cut \cup {id}
  <2>1. /\ req[r].pc \in {"remove", "removeOwner"} /\ u \in Users /\ inserted' = inserted
        /\ req[r].pc = "removeOwner" => HandingOver(r) \/ id \in cut'
    BY <1>1, <1>7 DEF Wrote, HandingOver, Ended
  <2>2. CASE rooms' = Removed(id, u) /\ id \in DOMAIN rooms
    BY <1>1, <2>1, <2>2, RemovedFacts DEF RoomChange, Keeps
  <2>3. CASE rooms' = Removed(id, u) /\ id \notin DOMAIN rooms
    <3>1. Unchanged(r)
      BY <2>1, <2>3 DEF Removed, Exists, Unchanged
    <3> QED
      BY <1>2, <3>1
  <2> QED
    BY <1>2, <1>7, <1>4, <2>2, <2>3 DEF HandingOver
<1>8. CASE Wrote(r, "update", Updated(id, NewOwner(req[r])))
  <2> DEFINE doc == req[r].doc
             h == Head(Others(doc, u))
  <2>1. /\ doc \in Room /\ doc.players \in Seq(Users) /\ Others(doc, u) # <<>>
        /\ req[r].pc = "update" /\ inserted' = inserted /\ id \in RoomIDs
    BY <1>1, <1>8 DEF Wrote, CopiesAgree, Copying, Room
  <2>2. h \in Users
    BY <2>1, HeadOfOthers
  <2>3. CASE rooms' = Updated(id, NewOwner(req[r]))
    <3>1. rooms' = Updated(id, [doc EXCEPT !.owner = h])
      BY <2>3 DEF NewOwner
    <3> HIDE DEF h, doc
    <3>2. CASE /\ id \in DOMAIN rooms /\ rooms[id].oid = doc.oid
               /\ OnlyAt(rooms', id) /\ id \in DOMAIN rooms' /\ rooms'[id] \in Room
               /\ rooms'[id].oid = doc.oid /\ rooms'[id].max = doc.max
               /\ rooms'[id].count = doc.count
               /\ rooms'[id].owner = h /\ rooms'[id].players = doc.players
      <4>1. rooms[id].max = doc.max
        BY <2>1, <3>2 DEF CopiesAgree, Copying, Exists, doc
      <4> QED
        BY <2>1, <3>2, <4>1 DEF RoomChange, Keeps, doc, h
    <3>3. CASE rooms' = rooms /\ ~(Exists(id) /\ rooms[id].oid = doc.oid)
      <4>1. Unchanged(r)
        BY <2>1, <3>3 DEF Unchanged, doc
      <4> QED
        BY <1>2, <4>1
    <3> QED
      BY <1>1, <2>1, <2>2, <3>1, <3>2, <3>3, UpdatedFacts
  <2> QED
    BY <1>2, <1>8, <1>4, <2>3
<1>9. CASE Arriving(r) \/ Drawing(r) \/ Stopping(r)
  <2>1. Unchanged(r)
    BY <1>9
       DEF Arriving, ArrivesToLeave, Arrival, Drawing, Stopping, Unchanged, Targeting, Ended
  <2> QED
    BY <1>2, <2>1
<1> QED
  BY <1>1, <1>3, <1>5, <1>6, <1>7, <1>8, <1>9, StepIs DEF Writes

-----------------------------------------------------------------------------
(* What a step of a call keeps *)

\* Every step of a call keeps the types.
LEMMA TypesKept ==
    ASSUME TypeOK, CopiesAgree, NEW r \in Requests, Acts(r), RecordRaces
    PROVE  TypeOK'
<1>1. DocumentTypes /\ CallTypes /\ CounterTypes
  BY DEF TypeOK
<1>2. DocumentTypes'
  <2>1. OnlyAt(rooms', req[r].id) /\ RoomChange(r)
    BY RoomAfter
  <2>2. CASE rooms' = rooms
    BY <1>1, <2>2 DEF DocumentTypes, RoomIDs, Room
  <2>3. ASSUME req[r].id \in DOMAIN rooms', rooms' # rooms
        PROVE  req[r].id \in RoomIDs /\ rooms'[req[r].id] \in Room
    BY <1>1, <2>1, <2>3 DEF RoomChange, Unchanged, Keeps, DocumentTypes
  <2> QED
    BY <1>1, <2>1, <2>2, <2>3, DocumentTypesKept
<1>3. CallTypes'
  <2>1. ASSUME NEW l \in Ended, Holds(r, Over(l)) PROVE CallTypes'
    <3>1. Over(l) \in Calls /\ GoodCall(Over(l))
      BY DEF Over, Call, Calls, GoodCall, NoCall
    <3> QED
      BY <1>1, <2>1, <3>1, CallTypesKept
  <2>2. CASE Ending(r) \/ Stopping(r)
    BY <2>1, <2>2 DEF Ending, Stopping, Ended
  <2>3. CASE Arriving(r)
    <3>1. CASE Arrival(r, Over("idle"))
      BY <2>1, <3>1 DEF Arrival, Ended
    <3>2. ASSUME NEW u \in Users, NEW max \in Capacities,
                 Arrival(r, Call("create", "id", u, 0, 0, NewRoom(u, max)))
          PROVE  CallTypes'
      <4> DEFINE doc == NewRoom(u, max)
      <4>1. doc \in Room
        BY DEF NewRoom, Room
      <4> HIDE DEF doc
      <4> DEFINE c == Call("create", "id", u, 0, 0, doc)
      <4>2. c \in Calls
        BY <4>1 DEF Call, Calls, Steps
      <4>3. GoodCall(c)
        BY <4>1 DEF Call, GoodCall, Ended
      <4>4. Holds(r, c)
        BY <3>2 DEF Arrival, doc
      <4> QED
        BY <1>1, <4>2, <4>3, <4>4, CallTypesKept
    <3>3. ASSUME NEW u \in Users, NEW id \in RoomIDs, Exists(id),
                 Arrival(r, Call("join", "add", u, id, rooms[id].oid, NoRoom))
          PROVE  CallTypes'
      <4> DEFINE c == Call("join", "add", u, id, rooms[id].oid, NoRoom)
      <4>1. rooms[id].oid \in Nat
        BY <1>1, <3>3 DEF DocumentTypes, Exists, Room
      <4>2. c \in Calls
        BY <4>1 DEF Call, Calls, Steps
      <4>3. GoodCall(c)
        BY DEF Call, GoodCall, Ended
      <4>4. Holds(r, c)
        BY <3>3 DEF Arrival
      <4> QED
        BY <1>1, <4>2, <4>3, <4>4, CallTypesKept
    <3>4. ASSUME NEW u \in Users, NEW id \in RoomIDs, ArrivesToLeave(r, u, id)
          PROVE  CallTypes'
      <4> DEFINE l == LeaveStep(rooms[id], u)
                 doc == IF l = "removeOwner" THEN rooms[id] ELSE NoRoom
                 c == Call("leave", l, u, id, rooms[id].oid, doc)
      <4>1. l \in {"remove", "delete", "removeOwner", "nothing"}
        BY DEF LeaveStep
      <4>2. rooms[id] \in Room
        BY <1>1, <3>4 DEF ArrivesToLeave, DocumentTypes, Exists
      <4>3. Holds(r, c)
        BY <3>4 DEF ArrivesToLeave, Arrival
      <4>4. rooms[id].oid \in Nat
        BY <4>2 DEF Room
      <4> HIDE DEF l
      <4>5. doc \in Room \cup {NoRoom} /\ (l = "removeOwner" => doc \in Room)
        BY <4>2
      <4> HIDE DEF doc
      <4>6. c \in Calls
        BY <4>1, <4>4, <4>5 DEF Call, Calls, Steps
      <4>7. GoodCall(c)
        BY <4>1, <4>5 DEF Call, GoodCall, Ended
      <4> QED
        BY <1>1, <4>3, <4>6, <4>7, CallTypesKept
    <3> QED
      BY <2>3, <3>1, <3>2, <3>3, <3>4 DEF Arriving
  <2>4. CASE Drawing(r)
    <3>1. Named(r, "insert", nextRoomID) \in Calls /\ GoodCall(Named(r, "insert", nextRoomID))
      BY <1>1, <2>4, CallFacts DEF Drawing, Named, Call, Calls, GoodCall, Ended, Steps
    <3> QED
      BY <1>1, <2>4, <3>1, CallTypesKept DEF Drawing
  <2>5. CASE HandingOver(r)
    <3>1. At(r, "update") \in Calls /\ GoodCall(At(r, "update"))
      BY <1>1, <2>5, CallFacts DEF HandingOver, At, Call, Calls, GoodCall, Ended, Steps
    <3> QED
      BY <1>1, <2>5, <3>1, CallTypesKept DEF HandingOver
  <2> QED
    BY <1>1, <2>2, <2>3, <2>4, <2>5, StepIs DEF Inserting, Writes, Wrote
<1>4. CounterTypes'
  <2>1. cut' = cut \/ cut' = cut \cup {req[r].id}
    BY <1>1, StepIs
       DEF Arriving, ArrivesToLeave, Arrival, Drawing, Inserting, Stopping, Writes, Wrote,
       HandingOver
  <2>2. inserted' = inserted \/ inserted' = inserted + 1
    BY RoomAfter DEF RoomChange, Unchanged
  <2>3. nextRoomID' = nextRoomID \/ (nextRoomID \in RoomIDs /\ nextRoomID' = nextRoomID + 1)
    BY <1>1, StepIs
       DEF Arriving, ArrivesToLeave, Arrival, Drawing, Inserting, Stopping, Writes, Wrote,
       HandingOver
  <2>4. restarts' = restarts
    BY <1>1, StepIs
  <2>5. req[r].id \in RoomIDs \cup {0}
    BY <1>1, CallFacts
  <2>6. raced' \subseteq RoomIDs
    BY <1>1 DEF CounterTypes, RecordRaces
  <2>7. cut' \subseteq RoomIDs \cup {0}
    BY <1>1, <2>1, <2>5 DEF CounterTypes
  <2>8. nextRoomID' \in FirstRoomID .. LastRoomID + 1 \/ nextRoomID' = FirstRoomID
    BY <1>1, <2>3, BoundsAssumption DEF CounterTypes, RoomIDs, FirstRoomID
  <2> QED
    BY <1>1, <2>2, <2>4, <2>6, <2>7, <2>8 DEF CounterTypes, RoomIDs, FirstRoomID
<1> QED
  BY <1>2, <1>3, <1>4 DEF TypeOK

\* The call of slot r after the step: over, a new one, with the ID it has drawn, or
\* handing the room over; other slots are not touched.
Arrived(r) ==
    LET call == req'[r]
        room == rooms[call.id]
    IN
    /\ req[r].pc \in Ended /\ rooms' = rooms /\ nextRoomID' = nextRoomID
    /\ call.id \in DOMAIN rooms /\ call.id \in RoomIDs /\ call.checked = room.oid
    /\ call.op = IF call.pc = "add" THEN "join" ELSE "leave"
    /\ \/ call.pc = "add" /\ Joinable(room, call.user)
       \/ call.pc = "delete"
       \/ /\ call.pc = "nothing" /\ ~(room.count <= 1)
          /\ call.user \in Members(room) /\ Others(room, call.user) = <<>>
       \/ call.pc = "remove" /\ call.user \in Members(room) /\ room.owner # call.user
       \/ /\ call.pc = "removeOwner" /\ call.doc = room
          /\ call.user \in Members(room) /\ Others(room, call.user) # <<>>

CallChange(r) ==
    LET call == req[r]
        next == req'[r]
    IN
    \/ next.pc \in Ended /\ next.id = 0 /\ next.op = "none"
    \/ /\ next.pc = "id" /\ next.id = 0 /\ next.op = "create"
       /\ next.doc.players = <<next.doc.owner>> /\ next.doc.count = 1
       /\ next.doc.owner = next.user
    \/ Arrived(r)
    \/ /\ Drawing(r) /\ next.pc = "insert" /\ next.id = nextRoomID
       /\ next.op = call.op /\ next.doc = call.doc /\ next.user = call.user
    \/ HandingOver(r) /\ next = At(r, "update")

\* A step writes its own slot only, and in one of these ways.
LEMMA CallAfter ==
    ASSUME CallTypes, NEW r \in Requests, Acts(r)
    PROVE  /\ \A q \in Requests : q # r => req'[q] = req[q]
           /\ CallChange(r)
<1>1. /\ Over("ok").pc = "ok" /\ Over("ok").id = 0 /\ Over("ok").op = "none"
      /\ Over("idle").pc = "idle" /\ Over("idle").id = 0 /\ Over("idle").op = "none"
  BY DEF Over, Call
<1>2. CASE Ending(r) \/ Stopping(r)
  BY <1>1, <1>2 DEF Ending, Stopping, Holds, CallChange, Ended
<1>3. CASE Arriving(r)
  <2>1. CASE Arrival(r, Over("idle"))
    BY <1>1, <2>1 DEF Arrival, Holds, CallChange, Ended
  <2>2. ASSUME NEW u \in Users, NEW max \in Capacities,
               Arrival(r, Call("create", "id", u, 0, 0, NewRoom(u, max)))
        PROVE  CallChange(r) /\ \A q \in Requests : q # r => req'[q] = req[q]
    BY <2>2 DEF Arrival, Holds, CallChange, Call, NewRoom
  <2>3. ASSUME NEW u \in Users, NEW id \in RoomIDs, Exists(id), Joinable(rooms[id], u),
               Arrival(r, Call("join", "add", u, id, rooms[id].oid, NoRoom))
        PROVE  CallChange(r) /\ \A q \in Requests : q # r => req'[q] = req[q]
    BY <2>3 DEF Arrival, Holds, CallChange, Arrived, Call, Exists
  <2>4. ASSUME NEW u \in Users, NEW id \in RoomIDs, ArrivesToLeave(r, u, id)
        PROVE  CallChange(r) /\ \A q \in Requests : q # r => req'[q] = req[q]
    <3> DEFINE l == LeaveStep(rooms[id], u)
               doc == IF l = "removeOwner" THEN rooms[id] ELSE NoRoom
               c == Call("leave", l, u, id, rooms[id].oid, doc)
    <3>1. /\ Exists(id) /\ u \in Members(rooms[id])
          /\ Arrival(r, Call("leave", l, u, id, rooms[id].oid, doc))
      BY <2>4 DEF ArrivesToLeave
    <3>2. \/ l = "remove" /\ rooms[id].owner # u
          \/ l = "delete"
          \/ l = "nothing" /\ ~(rooms[id].count <= 1) /\ Others(rooms[id], u) = <<>>
          \/ l = "removeOwner" /\ doc = rooms[id] /\ Others(rooms[id], u) # <<>>
      BY DEF LeaveStep
    <3> HIDE DEF l, doc
    <3>3. /\ req'[r].op = "leave" /\ req'[r].pc = l /\ req'[r].user = u /\ req'[r].id = id
          /\ req'[r].checked = rooms[id].oid /\ req'[r].doc = doc
          /\ \A q \in Requests : q # r => req'[q] = req[q]
      BY <3>1 DEF Arrival, Holds, Call
    <3>4. Arrived(r)
      BY <3>1, <3>2, <3>3 DEF Arrived, Arrival, Exists
    <3> QED
      BY <3>3, <3>4 DEF CallChange
  <2> QED
    BY <1>3, <2>1, <2>2, <2>3, <2>4, <1>1 DEF Arriving, Arrival, Holds, CallChange
<1>4. CASE Drawing(r)
  BY <1>4 DEF Drawing, Holds, Named, Call, CallChange
<1>5. CASE HandingOver(r)
  BY <1>5 DEF HandingOver, Holds, CallChange
<1> QED
  BY <1>2, <1>3, <1>4, <1>5, StepIs DEF Inserting, Writes, Wrote

\* A call is at a place of its own operation only.
LEMMA OpsMatchKept ==
    ASSUME CallTypes, OpsMatch, NEW r \in Requests, Acts(r)
    PROVE  OpsMatch'
<1> SUFFICES ASSUME NEW q \in Requests
             PROVE  /\ req'[q].op = "create" => req'[q].pc \in {"id", "insert"}
                    /\ req'[q].op = "join" => req'[q].pc = "add"
                    /\ req'[q].op = "leave" => req'[q].pc \notin {"id", "insert", "add"}
  BY DEF OpsMatch, Building
<1>1. CASE q # r
  BY <1>1, CallAfter DEF OpsMatch, Building
<1>2. CASE q = r
  <2>1. CASE Drawing(r) /\ req'[r].pc = "insert" /\ req'[r].op = req[r].op
    BY <1>2, <2>1 DEF Drawing, OpsMatch
  <2>2. CASE HandingOver(r) /\ req'[r] = At(r, "update")
    BY <1>2, <2>2 DEF HandingOver, At, Call, OpsMatch, Building
  <2>3. CASE Arrived(r)
    BY <1>2, <2>3 DEF Arrived
  <2> QED
    BY <1>2, <2>1, <2>2, <2>3, CallAfter DEF CallChange
<1> QED
  BY <1>1, <1>2

\* The document under construction has its owner as the only player.
LEMMA NewRoomsKept ==
    ASSUME CallTypes, NewRooms, NEW r \in Requests, Acts(r)
    PROVE  NewRooms'
<1> SUFFICES ASSUME NEW q \in Requests, req'[q].pc \in {"id", "insert"}
             PROVE  LET doc == req'[q].doc IN
                    doc.players = <<doc.owner>> /\ doc.count = 1 /\ doc.owner = req'[q].user
  BY DEF NewRooms, Building
<1>1. CASE q # r
  BY <1>1, CallAfter DEF NewRooms, Building
<1>2. CASE q = r
  <2>1. req'[r].pc \notin Ended /\ ~Arrived(r) /\ req'[r].pc # "update"
    BY <1>2 DEF Ended, Arrived
  <2>2. CASE Drawing(r) /\ req'[r].doc = req[r].doc /\ req'[r].user = req[r].user
    BY <1>2, <2>2 DEF Drawing, NewRooms, Building
  <2>3. At(r, "update").pc = "update"
    BY DEF At, Call
  <2> QED
    BY <1>2, <2>1, <2>2, <2>3, CallAfter DEF CallChange
<1> QED
  BY <1>1, <1>2

\* A room keeps its _id and its capacity.
LEMMA RoomPersists ==
    ASSUME TypeOK, CopiesAgree, NEW r \in Requests, Acts(r),
           NEW id \in DOMAIN rooms, id \in DOMAIN rooms'
    PROVE  rooms'[id].oid = rooms[id].oid /\ rooms'[id].max = rooms[id].max
<1>1. CASE id # req[r].id
  BY <1>1, RoomAfter DEF OnlyAt
<1>2. CASE id = req[r].id
  BY <1>2, RoomAfter DEF RoomChange, Unchanged, Keeps, Exists
<1> QED
  BY <1>1, <1>2

\* A room that is new is the one the call inserts.
LEMMA RoomIsNew ==
    ASSUME TypeOK, CopiesAgree, NEW r \in Requests, Acts(r),
           NEW id \in DOMAIN rooms', id \notin DOMAIN rooms
    PROVE  /\ req[r].pc = "insert" /\ req[r].id = id /\ inserted' = inserted + 1
           /\ rooms'[id].oid = inserted + 1 /\ rooms'[id].players = req[r].doc.players
           /\ rooms'[id].owner = req[r].doc.owner
<1>1. id = req[r].id
  BY RoomAfter DEF OnlyAt
<1> QED
  BY <1>1, RoomAfter DEF RoomChange, Unchanged, Keeps, Inserting

\* The copy a call writes back is of the room it has checked.
LEMMA CopiesAgreeKept ==
    ASSUME TypeOK, CopiesAgree, NEW r \in Requests, Acts(r)
    PROVE  CopiesAgree'
<1>1. /\ inserted \in Nat /\ CallTypes /\ DocumentTypes
      /\ inserted' = inserted \/ inserted' = inserted + 1
  BY RoomAfter DEF RoomChange, Unchanged, TypeOK, CounterTypes
<1>2. ASSUME NEW id \in DOMAIN rooms' PROVE rooms'[id].oid <= inserted'
  <2>1. CASE id \in DOMAIN rooms
    <3>1. rooms[id].oid <= inserted /\ rooms[id].oid \in Nat
      BY <1>1, <2>1 DEF CopiesAgree, DocumentTypes, Room
    <3> QED
      BY <1>1, <2>1, <3>1, RoomPersists
  <2>2. CASE id \notin DOMAIN rooms
    BY <1>1, <2>2, RoomIsNew
  <2> QED
    BY <2>1, <2>2
<1>3. ASSUME NEW q \in Requests, req'[q].pc \in {"removeOwner", "update"}
      PROVE  /\ Others(req'[q].doc, req'[q].user) # <<>>
             /\ req'[q].doc.oid <= inserted'
             /\ req'[q].id \in DOMAIN rooms' /\ rooms'[req'[q].id].oid = req'[q].doc.oid
                   => rooms'[req'[q].id].max = req'[q].doc.max
  <2> DEFINE call == req'[q]
  <2>1. CASE Copying(q) /\ call.doc = req[q].doc /\ call.user = req[q].user /\ call.id = req[q].id
    <3>1. /\ Others(call.doc, call.user) # <<>> /\ call.doc.oid <= inserted
          /\ call.id \in DOMAIN rooms /\ rooms[call.id].oid = call.doc.oid
                => rooms[call.id].max = call.doc.max
      BY <2>1 DEF CopiesAgree, Exists
    <3>2. call.doc.oid \in Nat
      BY <1>1, <2>1, CallFacts DEF Copying, Room
    <3> HIDE DEF call
    <3>3. ASSUME call.id \in DOMAIN rooms', rooms'[call.id].oid = call.doc.oid
          PROVE  rooms'[call.id].max = call.doc.max
      <4>1. CASE call.id \in DOMAIN rooms
        BY <3>1, <3>3, <4>1, RoomPersists
      <4>2. CASE call.id \notin DOMAIN rooms
        BY <1>1, <3>1, <3>2, <3>3, <4>2, RoomIsNew
      <4> QED
        BY <4>1, <4>2
    <3> QED
      BY <1>1, <3>1, <3>2, <3>3 DEF call
  <2>2. CASE q = r /\ Arrived(r)
    <3>1. /\ call.id \in DOMAIN rooms /\ call.doc = rooms[call.id] /\ rooms' = rooms
          /\ Others(call.doc, call.user) # <<>>
      BY <1>3, <2>2 DEF Arrived
    <3>2. rooms[call.id].oid <= inserted /\ rooms[call.id].oid \in Nat
      BY <1>1, <3>1 DEF CopiesAgree, DocumentTypes, Room
    <3> QED
      BY <1>1, <3>1, <3>2
  <2>3. CASE q # r
    BY <1>1, <1>3, <2>1, <2>3, CallAfter DEF Copying
  <2>4. CASE q = r /\ HandingOver(r) /\ req'[r] = At(r, "update")
    BY <2>1, <2>4 DEF HandingOver, At, Call, Copying
  <2> QED
    BY <1>1, <1>3, <2>2, <2>3, <2>4, CallAfter DEF CallChange, Ended
<1> QED
  BY <1>2, <1>3 DEF CopiesAgree, Copying, Exists

\* The ID counter moves only when an ID is drawn, by one.
LEMMA CounterAfter ==
    ASSUME CallTypes, NEW r \in Requests, Acts(r)
    PROVE  \/ nextRoomID' = nextRoomID
           \/ Drawing(r) /\ nextRoomID \in RoomIDs /\ nextRoomID' = nextRoomID + 1
BY StepIs
   DEF Arriving, ArrivesToLeave, Arrival, Drawing, Inserting, Stopping, Writes, Wrote,
       HandingOver

\* IDs in use lie below the counter; _ids are never given twice.
LEMMA FreshIDsKept ==
    ASSUME TypeOK, CopiesAgree, FreshIDs, NEW r \in Requests, Acts(r)
    PROVE  FreshIDs'
<1> DEFINE Uses(call) == call.pc \in {"add", "delete", "remove", "removeOwner", "update", "insert"}
<1>1. /\ CallTypes /\ nextRoomID \in Int
      /\ \A id \in DOMAIN rooms : id \in Int
      /\ \A id \in RoomIDs \cup {0} : id \in Int
  BY BoundsAssumption DEF TypeOK, DocumentTypes, CounterTypes, RoomIDs, FirstRoomID
<1> SUFFICES ASSUME restarts = 0
             PROVE  /\ \A id \in DOMAIN rooms' : id < nextRoomID'
                    /\ \A q \in Requests : Uses(req'[q]) => req'[q].id < nextRoomID'
                    /\ \A s \in Requests : req'[s].pc = "insert" =>
                          /\ req'[s].id \notin DOMAIN rooms'
                          /\ \A q \in Requests : q # s /\ Uses(req'[q]) => req'[q].id # req'[s].id
  BY <1>1, StepIs DEF FreshIDs, Targeting, Exists
<1>2. /\ \A id \in DOMAIN rooms : id < nextRoomID
      /\ \A q \in Requests : Uses(req[q]) => req[q].id < nextRoomID
      /\ \A s \in Requests : req[s].pc = "insert" =>
            /\ req[s].id \notin DOMAIN rooms
            /\ \A q \in Requests : q # s /\ Uses(req[q]) => req[q].id # req[s].id
  BY DEF FreshIDs, Targeting, Exists
<1>3. nextRoomID' = nextRoomID \/ nextRoomID' = nextRoomID + 1
  BY <1>1, CounterAfter
<1>4. \A q \in Requests : q # r => req'[q] = req[q]
  BY <1>1, CallAfter
<1>5. ASSUME Uses(req'[r])
      PROVE  \/ req'[r].pc # "insert" /\ req'[r].id \in DOMAIN rooms
             \/ req'[r].pc # "insert" /\ req'[r].id = req[r].id /\ Uses(req[r])
             \/ req'[r].id = nextRoomID /\ nextRoomID' = nextRoomID + 1 /\ rooms' = rooms
  <2>1. req'[r].pc \notin Ended /\ req'[r].pc # "id"
    BY <1>5 DEF Ended
  <2>2. CASE HandingOver(r) /\ req'[r] = At(r, "update")
    BY <2>2 DEF HandingOver, At, Call
  <2> QED
    BY <1>1, <2>1, <2>2, CallAfter DEF CallChange, Arrived, Drawing
<1>6. \A q \in Requests : req[q].id \in Int
  <2>1. \A q \in Requests : req[q].id \in RoomIDs \cup {0}
    BY <1>1, CallFacts
  <2> QED
    BY <1>1, <2>1
<1>7. \A id \in DOMAIN rooms' : id \in DOMAIN rooms \/ (req[r].pc = "insert" /\ req[r].id = id)
  BY RoomIsNew
<1> DEFINE U(c) == Uses(c)
<1>8. \A c : c.pc = "insert" => U(c)
  OBVIOUS
<1> HIDE DEF U
<1>9. \A id \in DOMAIN rooms' : id < nextRoomID'
  BY <1>1, <1>2, <1>3, <1>6, <1>7
<1>10. ASSUME NEW q \in Requests, Uses(req'[q]) PROVE req'[q].id < nextRoomID'
  <2>1. CASE q = r
    BY <1>1, <1>2, <1>3, <1>5, <1>6, <1>10, <2>1
  <2>2. CASE q # r
    BY <1>1, <1>2, <1>3, <1>4, <1>6, <1>10, <2>2
  <2> QED
    BY <2>1, <2>2
<1>11. ASSUME NEW s \in Requests, req'[s].pc = "insert"
       PROVE  /\ req'[s].id \notin DOMAIN rooms'
              /\ \A q \in Requests : q # s /\ Uses(req'[q]) => req'[q].id # req'[s].id
  <2>1. CASE s = r
    <3>1. req'[r].id = nextRoomID /\ rooms' = rooms
      BY <1>5, <1>11, <2>1
    <3> QED
      BY <1>1, <1>2, <1>4, <2>1, <3>1
  <2>2. CASE s # r
    <3>1. req'[s] = req[s] /\ req[s].pc = "insert"
      BY <1>4, <1>11, <2>2
    <3>2. req[s].id \notin DOMAIN rooms'
      BY <1>2, <1>7, <2>2, <3>1
    <3>3. ASSUME Uses(req'[r]) PROVE req'[r].id # req[s].id
      <4>1. req[s].id < nextRoomID /\ req[s].id \notin DOMAIN rooms
        BY <1>2, <3>1
      <4> QED
        BY <1>1, <1>2, <1>5, <1>6, <2>2, <3>1, <3>3, <4>1
    <3> QED
      BY <1>2, <1>4, <2>2, <3>1, <3>2, <3>3
  <2> QED
    BY <2>1, <2>2
<1> QED
  BY <1>9, <1>10, <1>11

\* A room that has not been raced for has one call at most at work on it.
LEMMA SoleCallerKept ==
    ASSUME CallTypes', RecordRaces
    PROVE  SoleCaller'
<1> SUFFICES ASSUME NEW q \in Requests, NEW r \in Requests, q # r, req'[q].id = req'[r].id
             PROVE  req'[q].id \in raced' \cup {0}
  BY DEF SoleCaller
<1>1. req'[q].id \in RoomIDs \cup {0}
  BY DEF CallTypes, RoomIDs
<1> QED
  BY <1>1 DEF RecordRaces

\* A room that slot r's call does not work on is not touched.
LEMMA OtherRooms ==
    ASSUME TypeOK, CopiesAgree, NEW r \in Requests, Acts(r), NEW id, id # req[r].id
    PROVE  /\ id \in DOMAIN rooms' <=> id \in DOMAIN rooms
           /\ id \in DOMAIN rooms => rooms'[id] = rooms[id]
BY RoomAfter DEF OnlyAt

\* Once raced for, always raced for.
LEMMA RacedGrows ==
    ASSUME RecordRaces
    PROVE  raced \subseteq raced'
BY DEF RecordRaces

\* The owner of a sound room with a counter above one has others to hand over to.
LEMMA OthersRemain ==
    ASSUME NEW room \in Room, Sound(room), ~(room.count <= 1), NEW u, u \in Members(room)
    PROVE  Others(room, u) # <<>>
<1>1. room.players \in Seq(Users) /\ Len(room.players) \in Nat
  BY LenProperties DEF Room
<1>2. Len(Others(room, u)) = Len(room.players) - 1
  BY <1>1, OthersFacts DEF Sound
<1>3. Len(<<>>) = 0
  BY EmptySeq
<1>4. Len(room.players) > 1
  BY DEF Sound
<1> QED
  BY <1>1, <1>2, <1>3, <1>4

\* A call that has not been raced knows the state of its room.
LEMMA CallsKnowKept ==
    ASSUME TypeOK, CopiesAgree, SoleCaller, CallsKnow, RoomsSound,
           NEW r \in Requests, Acts(r), RecordRaces
    PROVE  CallsKnow'
<1> SUFFICES ASSUME NEW s \in Requests, req'[s].id \in RoomIDs, req'[s].id \notin raced'
             PROVE  Known(s)'
  BY DEF CallsKnow, RoomIDs
<1>1. CallTypes /\ 0 \notin RoomIDs /\ req'[s].id \notin raced
  BY RacedGrows DEF TypeOK, RoomIDs, FirstRoomID
<1>2. CASE s # r
  <2>1. req'[s] = req[s] /\ Known(s)
    BY <1>1, <1>2, CallAfter DEF CallsKnow
  <2>2. req[r].id # req[s].id
    BY <1>1, <1>2, <2>1 DEF SoleCaller
  <2> DEFINE id == req[s].id
  <2>3. /\ id \in DOMAIN rooms' <=> id \in DOMAIN rooms
        /\ id \in DOMAIN rooms => rooms'[id] = rooms[id]
    BY <2>2, OtherRooms
  <2> QED
    BY <2>1, <2>3 DEF Known, Targeting, Exists, Members, Joinable, Others, Sound, Distinct
<1>3. CASE s = r
  <2>1. CASE Arrived(r)
    <3>1. req'[r].pc # "nothing"
      BY <1>1, <1>3, <2>1, OthersRemain DEF Arrived, RoomsSound, TypeOK, DocumentTypes
    <3> QED
      BY <1>3, <2>1, <3>1 DEF Arrived, Known, Targeting, Exists, Members, Joinable
  <2>2. CASE Drawing(r) /\ req'[r].pc = "insert"
    BY <1>3, <2>2 DEF Known, Targeting
  <2>3. CASE HandingOver(r) /\ req'[r] = At(r, "update")
    <3> DEFINE call == req[r]
               id == call.id
    <3>1. /\ req'[r].pc = "update" /\ req'[r].id = id /\ req'[r].doc = call.doc
          /\ call.pc = "removeOwner" /\ rooms' = Removed(id, call.user)
      BY <2>3 DEF HandingOver, At, Call
    <3>2. id \in RoomIDs /\ id \notin raced /\ Known(r)
      BY <1>1, <1>3, <3>1 DEF CallsKnow
    <3>3. id \in DOMAIN rooms /\ rooms[id] = call.doc /\ call.user \in Users
      BY <1>1, <3>1, <3>2, CallFacts DEF Known, Targeting, Exists, Ended
    <3>4. Sound(call.doc)
      BY <3>2, <3>3 DEF RoomsSound
    <3>5. /\ id \in DOMAIN rooms' /\ rooms'[id].oid = call.doc.oid
          /\ rooms'[id].players = Others(rooms[id], call.user)
      BY <3>1, <3>3, RemovedFacts DEF TypeOK
    <3>6. rooms[id].players \in Seq(Users)
      BY <3>3 DEF TypeOK, DocumentTypes, Room
    <3>7. Members(rooms'[id]) = Members(rooms[id]) \ {call.user}
      BY <3>5, <3>6, OthersFacts, MembersAre
    <3>8. req'[r].user = call.user
      BY <2>3 DEF At, Call
    <3> QED
      BY <1>3, <3>1, <3>4, <3>5, <3>7, <3>8, SMTT(30)
         DEF Known, Targeting, Exists, Sound, Distinct, Members
  <2>4. CASE req'[r].id = 0
    BY <1>1, <1>3, <2>4
  <2> QED
    BY <1>1, <2>1, <2>2, <2>3, <2>4, CallAfter DEF CallChange
<1> QED
  BY <1>2, <1>3

\* A document's fields, with the capacity the code accepts.
LEMMA RoomFields ==
    ASSUME CapacitiesAssumption, NEW doc \in Room
    PROVE  /\ doc.players \in Seq(Users) /\ Len(doc.players) \in Nat
           /\ doc.count \in Int /\ doc.max \in 2 .. 8 /\ doc.max \in Int
<1>1. doc.players \in Seq(Users) /\ doc.count \in Int /\ doc.max \in Capacities
  BY DEF Room
<1>2. Len(doc.players) \in Nat
  BY <1>1, LenProperties
<1>3. doc.max \in 2 .. 8
  BY <1>1 DEF CapacitiesAssumption
<1> QED
  BY <1>1, <1>2, <1>3

\* Counter, list and capacity agree where calls do not race.
LEMMA RoomsSoundKept ==
    ASSUME CapacitiesAssumption, TypeOK, NewRooms, CopiesAgree, CallsKnow, RoomsSound,
           NEW r \in Requests, Acts(r), RecordRaces
    PROVE  RoomsSound'
<1> SUFFICES ASSUME NEW id \in DOMAIN rooms', id \notin raced'
             PROVE  Sound(rooms'[id])
  BY DEF RoomsSound, Sound, Distinct
<1>1. id \notin raced /\ DocumentTypes /\ CallTypes
  BY RacedGrows DEF TypeOK
<1>2. CASE id # req[r].id
  BY <1>1, <1>2, OtherRooms DEF RoomsSound
<1>3. CASE id = req[r].id
  <2> DEFINE call == req[r]
             room == rooms[id]
             next == rooms'[id]
  <2>1. CASE Unchanged(r)
    BY <1>1, <1>3, <2>1 DEF Unchanged, RoomsSound
  <2>2. CASE /\ Inserting(r) /\ next.max = call.doc.max /\ next.count = call.doc.count
             /\ next.owner = call.doc.owner /\ next.players = call.doc.players
    <3>1. call.doc.players = <<call.doc.owner>> /\ call.doc.count = 1 /\ call.doc.max \in 2 .. 8
      BY <1>1, <2>2, CallFacts, RoomFields DEF Inserting, NewRooms, Building
    <3>2. next.players = <<next.owner>> /\ Len(next.players) = 1 /\ next.count = 1 /\ next.max >= 2
      BY <2>2, <3>1
    <3>3. Distinct(next.players, 1)
      BY DEF Distinct
    <3>4. next.max \in Int
      BY <2>2, <3>1
    <3> HIDE DEF next
    <3>5. next.count = Len(next.players) /\ next.count <= next.max
      BY <3>2, <3>4
    <3>6. Distinct(next.players, Len(next.players))
      BY <3>2, <3>3
    <3> QED
      BY <3>5, <3>6 DEF Sound, next
  <2>3. CASE call.pc = "add" /\ Keeps(id) /\ next.count = room.count + 1
             /\ next.players = Append(room.players, call.user)
    <3>1. /\ id \in DOMAIN rooms /\ room \in Room /\ next.max = room.max /\ id \in RoomIDs
          /\ call.user \in Users
      BY <1>1, <1>3, <2>3, CallFacts DEF Keeps, DocumentTypes, Ended
    <3>2. Sound(room) /\ Joinable(room, call.user)
      BY <1>1, <1>3, <2>3, <3>1 DEF RoomsSound, CallsKnow, Known
    <3>3. /\ room.players \in Seq(Users) /\ Len(room.players) \in Nat
          /\ room.count \in Int /\ room.max \in Int
      BY <3>1, RoomFields
    <3>4. call.user \notin Entries(room.players, Len(room.players))
      BY <3>2 DEF Joinable, Members, Entries
    <3>5. /\ Len(next.players) = Len(room.players) + 1
          /\ Distinct(next.players, Len(room.players) + 1)
      BY <2>3, <3>1, <3>2, <3>3, <3>4, AppendFacts DEF Sound
    <3>6. room.count = Len(room.players) /\ room.count < room.max
      BY <3>2 DEF Sound, Joinable
    <3> HIDE DEF next, room, call
    <3>7. next.count = Len(next.players) /\ next.count <= next.max
      BY <2>3, <3>1, <3>3, <3>5, <3>6
    <3>8. Distinct(next.players, Len(next.players))
      BY <3>5
    <3> QED
      BY <3>7, <3>8 DEF Sound, next
  <2>4. CASE /\ call.pc \in {"remove", "removeOwner"} /\ Keeps(id)
             /\ next.count = room.count - 1 /\ next.players = Others(room, call.user)
    <3>1. /\ id \in DOMAIN rooms /\ room \in Room /\ next.max = room.max /\ id \in RoomIDs
          /\ call.user \in Users
      BY <1>1, <1>3, <2>4, CallFacts DEF Keeps, DocumentTypes, Ended
    <3>2. Sound(room) /\ call.user \in Members(room)
      BY <1>1, <1>3, <2>4, <3>1 DEF RoomsSound, CallsKnow, Known
    <3>3. /\ room.players \in Seq(Users) /\ Len(room.players) \in Nat
          /\ room.count \in Int /\ room.max \in Int
      BY <3>1, RoomFields
    <3>4. /\ Len(next.players) = Len(room.players) - 1
          /\ Distinct(next.players, Len(next.players))
      BY <2>4, <3>2, <3>3, OthersFacts DEF Sound
    <3>5. room.count = Len(room.players) /\ room.count <= room.max
      BY <3>2 DEF Sound
    <3> HIDE DEF next, room, call
    <3>6. next.count = Len(next.players) /\ next.count <= next.max
      BY <2>4, <3>1, <3>3, <3>4, <3>5
    <3> QED
      BY <3>4, <3>6 DEF Sound, next
  <2>5. CASE /\ call.pc = "update" /\ Keeps(id) /\ next.max = call.doc.max
             /\ next.count = call.doc.count /\ next.players = call.doc.players
    <3>1. id \in RoomIDs
      BY <1>1, <2>5 DEF Keeps, DocumentTypes
    <3>2. Sound(call.doc)
      BY <1>1, <1>3, <2>5, <3>1 DEF CallsKnow, Known
    <3> QED
      BY <2>5, <3>2 DEF Sound
  <2> QED
    BY <1>3, <2>1, <2>2, <2>3, <2>4, <2>5, RoomAfter DEF RoomChange
<1> QED
  BY <1>2, <1>3

\* A write goes to the room whose checks it has passed.
LEMMA ChecksStillApplyKept ==
    ASSUME TypeOK, CopiesAgree, FreshIDs, ChecksStillApply, NEW r \in Requests, Acts(r)
    PROVE  ChecksStillApply'
<1>1. CallTypes /\ restarts' = restarts
  BY StepIs DEF TypeOK
<1> SUFFICES ASSUME restarts = 0, NEW s \in Requests,
                    req'[s].pc \in {"add", "delete", "remove", "removeOwner", "update"},
                    req'[s].id \in DOMAIN rooms'
             PROVE  req'[s].checked = rooms'[req'[s].id].oid
  BY <1>1 DEF ChecksStillApply, Exists
<1> DEFINE id == req'[s].id
<1>2. CASE /\ Targeting(s) /\ req[s].id = id /\ req'[s].checked = req[s].checked
    <2>1. id \in DOMAIN rooms
      <3>1. ASSUME id \notin DOMAIN rooms PROVE FALSE
        <4>1. req[r].pc = "insert" /\ req[r].id = id
          BY <3>1, RoomIsNew
        <4>2. r # s
          BY <1>2, <4>1 DEF Targeting
        <4> QED
          BY <1>2, <4>1, <4>2 DEF FreshIDs
      <3> QED
        BY <3>1
    <2>2. req[s].checked = rooms[id].oid
      BY <1>2, <2>1 DEF ChecksStillApply, Targeting, Exists
    <2> QED
      BY <1>2, <2>1, <2>2, RoomPersists
<1>3. CASE s = r /\ Arrived(r)
  BY <1>3 DEF Arrived
<1>4. CASE s # r
  BY <1>1, <1>2, <1>4, CallAfter DEF Targeting
<1>5. CASE s = r /\ HandingOver(r) /\ req'[r] = At(r, "update")
  BY <1>2, <1>5 DEF HandingOver, At, Call, Targeting
<1> QED
  BY <1>1, <1>3, <1>4, <1>5, CallAfter DEF CallChange, Ended

\* Once cut short, always cut short.
LEMMA CutGrows ==
    ASSUME CallTypes, NEW r \in Requests, Acts(r)
    PROVE  cut \subseteq cut'
BY StepIs
   DEF Arriving, ArrivesToLeave, Arrival, Drawing, Inserting, Stopping, Writes, Wrote,
       HandingOver

\* A join adds one player to the members.
LEMMA MemberJoins ==
    ASSUME NEW room, NEW next, NEW u \in Users, room.players \in Seq(Users),
           next.players = Append(room.players, u)
    PROVE  Members(next) = Members(room) \cup {u}
<1> DEFINE list == room.players
<1>1. /\ Len(Append(list, u)) = Len(list) + 1
      /\ Entries(Append(list, u), Len(list) + 1) = Entries(list, Len(list)) \cup {u}
  BY AppendFacts
<1>2. Members(next) = Entries(next.players, Len(next.players))
  BY MembersAre
<1>3. Members(room) = Entries(list, Len(list))
  BY MembersAre
<1>4. next.players = Append(list, u)
  OBVIOUS
<1> HIDE DEF list
<1> QED
  BY <1>1, <1>2, <1>3, <1>4

\* The owner is a player, or a call that hands the room over is on its way.
LEMMA OwnerIsMemberKept ==
    ASSUME CapacitiesAssumption, IndInv, NEW r \in Requests, Acts(r), RecordRaces
    PROVE  OwnerIsMember'
<1> SUFFICES ASSUME NEW id \in DOMAIN rooms', id \notin raced', id \notin cut'
             PROVE  \/ rooms'[id].owner \in Members(rooms'[id])
                    \/ \E q \in Requests : req'[q].pc = "update" /\ req'[q].id = id
  BY DEF OwnerIsMember, Members
<1>1. /\ id \notin raced /\ id \notin cut /\ DocumentTypes /\ CallTypes
      /\ TypeOK /\ CopiesAgree /\ NewRooms /\ SoleCaller /\ CallsKnow /\ OwnerIsMember
  BY RacedGrows, CutGrows DEF IndInv, TypeOK
<1>2. CASE id # req[r].id
  <2>1. id \in DOMAIN rooms /\ rooms'[id] = rooms[id]
    BY <1>1, <1>2, OtherRooms
  <2>2. CASE rooms[id].owner \in Members(rooms[id])
    BY <2>1, <2>2
  <2>3. CASE \E q \in Requests : req[q].pc = "update" /\ req[q].id = id
    BY <1>1, <1>2, <2>3, CallAfter
  <2> QED
    BY <1>1, <2>1, <2>2, <2>3 DEF OwnerIsMember
<1>3. CASE id = req[r].id
  <2> DEFINE call == req[r]
             room == rooms[id]
             next == rooms'[id]
  <2>1. id \in RoomIDs
    BY <1>1, TypesKept DEF TypeOK, DocumentTypes, RoomIDs
  <2>2. Known(r)
    BY <1>1, <1>3, <2>1 DEF CallsKnow
  <2>3. \A q \in Requests : q # r => req[q].id # id
    BY <1>1, <1>3, <2>1 DEF SoleCaller, RoomIDs, FirstRoomID
  <2>4. ASSUME id \in DOMAIN rooms, call.pc # "update"
        PROVE  room.owner \in Members(room) /\ room \in Room
    BY <1>1, <2>3, <2>4 DEF OwnerIsMember, DocumentTypes
  <2>5. CASE Unchanged(r)
    <3>1. ~Targeting(r) /\ rooms' = rooms
      BY <1>3, <2>2, <2>5 DEF Unchanged, Known, Exists
    <3> QED
      BY <2>4, <3>1 DEF Targeting
  <2>6. CASE Inserting(r) /\ next.owner = call.doc.owner /\ next.players = call.doc.players
    <3>1. next.players = <<next.owner>>
      BY <1>1, <2>6 DEF Inserting, NewRooms, Building
    <3> HIDE DEF next
    <3>2. next.owner \in Members(next)
      BY <3>1 DEF Members
    <3> QED
      BY <3>2 DEF next
  <2>7. CASE /\ call.pc = "add" /\ Keeps(id) /\ next.owner = room.owner
             /\ next.players = Append(room.players, call.user)
    <3>1. room.owner \in Members(room) /\ room.players \in Seq(Users) /\ call.user \in Users
      BY <1>1, <2>4, <2>7, CallFacts DEF Keeps, Room, Ended
    <3>2. Members(next) = Members(room) \cup {call.user}
      BY <2>7, <3>1, MemberJoins
    <3> QED
      BY <2>7, <3>1, <3>2
  <2>8. CASE /\ call.pc \in {"remove", "removeOwner"} /\ Keeps(id) /\ next.owner = room.owner
             /\ next.players = Others(room, call.user)
             /\ call.pc = "removeOwner" => HandingOver(r) \/ id \in cut'
    <3>1. CASE call.pc = "removeOwner"
      <4>1. HandingOver(r)
        BY <2>8, <3>1
      <4>2. req'[r].pc = "update" /\ req'[r].id = id
        BY <1>3, <4>1 DEF HandingOver, Holds, At, Call
      <4> QED
        BY <4>2
    <3>2. CASE call.pc = "remove"
      <4>1. room.owner \in Members(room) /\ room.players \in Seq(Users)
        BY <2>4, <2>8, <3>2 DEF Keeps, Room
      <4>2. room.owner # call.user
        BY <1>3, <2>2, <3>2 DEF Known
      <4>3. Members(next) = Members(room) \ {call.user}
        BY <2>8, <4>1, OthersFacts, MembersAre
      <4> QED
        BY <2>8, <4>1, <4>2, <4>3
    <3> QED
      BY <2>8, <3>1, <3>2
  <2>9. CASE /\ call.pc = "update" /\ next.owner = Head(Others(call.doc, call.user))
             /\ next.players = call.doc.players
    <3>1. call.doc.players \in Seq(Users) /\ Others(call.doc, call.user) # <<>>
      BY <1>1, <2>9, CallFacts DEF CopiesAgree, Copying, Room
    <3>2. next.owner \in Members(call.doc)
      BY <2>9, <3>1, HeadOfOthers
    <3> QED
      BY <2>9, <3>2 DEF Members
  <2> QED
    BY <1>1, <1>3, <2>5, <2>6, <2>7, <2>8, <2>9, RoomAfter DEF RoomChange
<1> QED
  BY <1>2, <1>3

-----------------------------------------------------------------------------
(* The invariant *)

\* An empty collection and no calls satisfy the invariant.
THEOREM InitEstablishes ==
    Init => IndInv
<1> SUFFICES ASSUME Init PROVE IndInv
  OBVIOUS
<1>1. /\ DOMAIN rooms = {} /\ rooms = [i \in DOMAIN rooms |-> rooms[i]]
      /\ \A r \in Requests : req[r] = NoCall
      /\ NoCall.pc = "idle" /\ NoCall.id = 0 /\ NoCall.op = "none"
  BY DEF Init, NoCall
<1>2. DocumentTypes
  BY <1>1 DEF DocumentTypes
<1>3. CallTypes
  <2>1. NoCall \in Calls /\ NoCall = [NoCall EXCEPT !.pc = NoCall.pc]
    BY DEF NoCall, Calls, Ended
  <2>2. req \in [Requests -> Calls]
    BY <2>1 DEF Init
  <2> QED
    BY <1>1, <2>1, <2>2 DEF CallTypes, Calls, Ended
<1>4. CounterTypes
  BY BoundsAssumption DEF Init, CounterTypes, FirstRoomID
<1>5. OpsMatch /\ NewRooms /\ CopiesAgree /\ FreshIDs /\ SoleCaller /\ CallsKnow
  BY <1>1, BoundsAssumption
     DEF OpsMatch, NewRooms, CopiesAgree, FreshIDs, SoleCaller, CallsKnow, Building, Copying,
         Targeting, RoomIDs, FirstRoomID
<1>6. RoomsSound /\ OwnerIsMember /\ ChecksStillApply
  BY <1>1 DEF RoomsSound, OwnerIsMember, ChecksStillApply
<1> QED
  BY <1>2, <1>3, <1>4, <1>5, <1>6 DEF IndInv, TypeOK

\* The death of the process keeps the invariant: its calls are gone, the documents stay.
LEMMA RestartKeeps ==
    ASSUME IndInv, Restart, RecordRaces
    PROVE  IndInv'
<1>1. /\ DocumentTypes /\ CallTypes /\ CounterTypes /\ rooms' = rooms /\ inserted' = inserted
      /\ raced \subseteq raced' /\ raced' \subseteq RoomIDs
      /\ restarts' = restarts + 1 /\ restarts \in Nat
  BY RacedGrows DEF IndInv, TypeOK, Restart, RecordRaces, CounterTypes
<1>2. /\ \A r \in Requests : req'[r] = NoCall
      /\ NoCall.pc = "idle" /\ NoCall.id = 0 /\ NoCall.op = "none"
  BY DEF Restart, NoCall
<1>3. DocumentTypes'
  BY <1>1 DEF DocumentTypes, RoomIDs, Room
<1>4. CallTypes'
  <2>1. NoCall \in Calls /\ NoCall = [NoCall EXCEPT !.pc = NoCall.pc]
    BY DEF NoCall, Calls, Ended
  <2>2. req' \in [Requests -> Calls]
    BY <2>1 DEF Restart
  <2> QED
    BY <1>2, <2>1, <2>2 DEF CallTypes, Calls, Ended, RoomIDs, Room
<1>5. CounterTypes'
  <2>1. \A r \in Requests : req[r].id \in RoomIDs \cup {0}
    BY <1>1, CallFacts
  <2>2. cut' \subseteq RoomIDs \cup {0}
    BY <1>1, <2>1 DEF Restart, CounterTypes
  <2>3. restarts' \in 0 .. MaxRestarts
    BY <1>1, BoundsAssumption DEF Restart, CounterTypes
  <2> QED
    BY <1>1, <2>2, <2>3 DEF Restart, CounterTypes, RoomIDs, FirstRoomID
<1>6. OpsMatch' /\ NewRooms' /\ FreshIDs' /\ SoleCaller' /\ CallsKnow' /\ ChecksStillApply'
  <2>1. restarts' # 0
    BY <1>1
  <2>2. 0 \notin RoomIDs
    BY DEF RoomIDs, FirstRoomID
  <2> QED
    BY <1>2, <2>1, <2>2
       DEF OpsMatch, NewRooms, FreshIDs, SoleCaller, CallsKnow, ChecksStillApply, Building, RoomIDs
<1>7. CopiesAgree'
  BY <1>1, <1>2 DEF IndInv, CopiesAgree, Copying, Exists
<1>8. RoomsSound'
  BY <1>1 DEF IndInv, RoomsSound, Sound, Distinct
<1>9. OwnerIsMember'
  <2> SUFFICES ASSUME NEW id \in DOMAIN rooms, id \notin raced', id \notin cut'
               PROVE  rooms[id].owner \in Members(rooms[id])
    BY <1>1 DEF OwnerIsMember, Members
  <2>1. id \notin raced /\ id \notin cut
    BY <1>1 DEF Restart
  <2>2. ~\E r \in Requests : req[r].pc = "update" /\ req[r].id = id
    BY DEF Restart, Ended
  <2> QED
    BY <2>1, <2>2 DEF IndInv, OwnerIsMember
<1> QED
  BY <1>3, <1>4, <1>5, <1>6, <1>7, <1>8, <1>9 DEF IndInv, TypeOK

\* Every step keeps the invariant: a step of one call, one lemma per conjunct above, or
\* the death of the process.
THEOREM IndInvInductive ==
    IndInv /\ [Next]_vars => IndInv'
<1> SUFFICES ASSUME IndInv, [Next]_vars PROVE IndInv'
  OBVIOUS
<1>1. ASSUME NEW r \in Requests, Acts(r), RecordRaces PROVE IndInv'
  <2>1. /\ TypeOK /\ CallTypes /\ OpsMatch /\ NewRooms /\ CopiesAgree /\ FreshIDs /\ SoleCaller
        /\ CallsKnow /\ RoomsSound /\ OwnerIsMember /\ ChecksStillApply
    BY DEF IndInv, TypeOK
  <2>2. TypeOK' /\ CallTypes' /\ OpsMatch' /\ NewRooms' /\ CopiesAgree' /\ FreshIDs'
    BY <1>1, <2>1, TypesKept, OpsMatchKept, NewRoomsKept, CopiesAgreeKept, FreshIDsKept DEF TypeOK
  <2>3. SoleCaller' /\ CallsKnow' /\ RoomsSound'
    BY <1>1, <2>1, <2>2, SoleCallerKept, CallsKnowKept, RoomsSoundKept, CapacitiesAssumption
  <2>4. OwnerIsMember' /\ ChecksStillApply'
    BY <1>1, <2>1, OwnerIsMemberKept, ChecksStillApplyKept, CapacitiesAssumption
  <2> QED
    BY <2>2, <2>3, <2>4 DEF IndInv
<1>2. CASE UNCHANGED vars
  <2>1. /\ rooms' = rooms /\ nextRoomID' = nextRoomID /\ inserted' = inserted /\ req' = req
        /\ restarts' = restarts /\ raced' = raced /\ cut' = cut
    BY <1>2 DEF vars, history
  <2>2. DocumentTypes' /\ CounterTypes'
    BY <2>1 DEF IndInv, TypeOK, DocumentTypes, CounterTypes, RoomIDs, Room
  <2>3. CallTypes'
    BY <2>1 DEF IndInv, TypeOK, CallTypes, RoomIDs, Room
  <2>4. OpsMatch' /\ NewRooms' /\ CopiesAgree' /\ FreshIDs' /\ SoleCaller'
    BY <2>1
       DEF IndInv, OpsMatch, NewRooms, CopiesAgree, FreshIDs, SoleCaller, Building, Copying,
           Targeting, Exists
  <2>5. CallsKnow'
    BY <2>1 DEF IndInv, CallsKnow, Known, Targeting, Exists, RoomIDs
  <2>6. RoomsSound' /\ OwnerIsMember' /\ ChecksStillApply'
    BY <2>1 DEF IndInv, RoomsSound, OwnerIsMember, ChecksStillApply, Exists
  <2> QED
    BY <2>2, <2>3, <2>4, <2>5, <2>6 DEF IndInv, TypeOK
<1> QED
  BY <1>1, <1>2, RestartKeeps DEF Next, Acts

\* The inductive invariant holds of every behaviour.
THEOREM Invariance ==
    Spec => []IndInv
BY InitEstablishes, IndInvInductive, PTL DEF Spec

-----------------------------------------------------------------------------
(* Theorems *)

\* Calls, documents and counters keep their types, whatever a call finds when it comes
\* back to write (lobby_server.go, mongodb/room.go).
THEOREM TypeCorrect ==
    Spec => []TypeOK
<1>1. IndInv => TypeOK
  BY DEF IndInv
<1> QED
  BY <1>1, Invariance, PTL

\* As long as the process has not restarted, the checks a call made on its copy were
\* made on the very room it writes to (JoinRoom and LeaveRoom of lobby_server.go).
THEOREM ChecksApply ==
    Spec => []ChecksStillApply
<1>1. IndInv => ChecksStillApply
  BY DEF IndInv
<1> QED
  BY <1>1, Invariance, PTL

\* Where calls do not race, a document's counter, list, capacity and owner agree,
\* although a call writes them in separate updates and may die between two of them.
THEOREM RoomsConsistent ==
    Spec => []RoomConsistent
<1>1. IndInv => RoomConsistent
  <2> SUFFICES ASSUME IndInv PROVE RoomConsistent
    OBVIOUS
  <2>1. ASSUME NEW id \in DOMAIN rooms \ raced
        PROVE  /\ rooms[id].count = Len(rooms[id].players)
               /\ Cardinality(Members(rooms[id])) = Len(rooms[id].players)
               /\ rooms[id].count <= rooms[id].max
    <3>1. Sound(rooms[id])
      BY DEF IndInv, RoomsSound
    <3>2. rooms[id].players \in Seq(Users)
      BY DEF IndInv, TypeOK, DocumentTypes, Room
    <3> QED
      BY <3>1, <3>2, DistinctCount DEF Sound
  <2> QED
    BY <2>1 DEF RoomConsistent, CountsAgree, IndInv
<1> QED
  BY <1>1, Invariance, PTL

\* No room is ever replaced by another one under its ID, although every restart draws
\* the IDs from 1000 again (generateRoomID, and the unique index of mongodb/room.go).
THEOREM IdentityKept ==
    Spec => RoomKeepsIdentity
<1> DEFINE Kept == \A id \in DOMAIN rooms \cap DOMAIN rooms' :
                      rooms'[id].oid = rooms[id].oid /\ rooms'[id].max = rooms[id].max
<1>1. IndInv /\ [Next]_vars => [Kept]_vars
  <2> SUFFICES ASSUME IndInv, Next PROVE Kept
    OBVIOUS
  <2>1. CASE Restart
    BY <2>1 DEF Restart
  <2>2. ASSUME NEW r \in Requests, Acts(r) PROVE Kept
    BY <2>2, RoomPersists DEF IndInv
  <2> QED
    BY <2>1, <2>2 DEF Next, Acts
<1> QED
  BY <1>1, Invariance, PTL DEF Spec, RoomKeepsIdentity

\* A room appears in the collection only by CreateRoom, with its owner as the only
\* player; joins, leaves and a restart never bring one back (lobby_server.go and
\* mongodb/room.go).
THEOREM RoomsAppearByCreate ==
    Spec => OnlyCreateAddsRooms
<1> DEFINE Fresh == \A id \in DOMAIN rooms' \ DOMAIN rooms :
                       /\ \E r \in Requests : req[r].pc = "insert" /\ req[r].id = id
                       /\ rooms'[id].players = <<rooms'[id].owner>>
<1>1. IndInv /\ [Next]_vars => [Fresh]_vars
  <2> SUFFICES ASSUME IndInv, Next PROVE Fresh
    OBVIOUS
  <2>1. CASE Restart
    BY <2>1 DEF Restart
  <2>2. ASSUME NEW r \in Requests, Acts(r), NEW id \in DOMAIN rooms', id \notin DOMAIN rooms
        PROVE  /\ req[r].pc = "insert" /\ req[r].id = id
               /\ rooms'[id].players = <<rooms'[id].owner>>
    <3>1. /\ req[r].pc = "insert" /\ req[r].id = id
          /\ rooms'[id].players = req[r].doc.players /\ rooms'[id].owner = req[r].doc.owner
      BY <2>2, RoomIsNew DEF IndInv
    <3> QED
      BY <3>1 DEF IndInv, NewRooms, Building
  <2> QED
    BY <2>1, <2>2 DEF Next, Acts
<1> QED
  BY <1>1, Invariance, PTL DEF Spec, OnlyCreateAddsRooms

\* A success reply of CreateRoom, JoinRoom or LeaveRoom is true of the collection
\* at the moment it is sent, with the two exceptions that ReplyIsTrue names.
THEOREM RepliesTrue ==
    Spec => RepliesAreTrue
<1> DEFINE AllTrue == \A r \in Requests : ReplyIsTrue(r)
<1>1. IndInv /\ [Next]_vars => [AllTrue]_vars
  <2> SUFFICES ASSUME IndInv, Next, NEW s \in Requests
               PROVE  ReplyIsTrue(s)
    OBVIOUS
  <2>1. CASE Restart
    BY <2>1 DEF Restart, ReplyIsTrue, Succeeds, NoCall
  <2>2. ASSUME NEW r \in Requests, Acts(r) PROVE ReplyIsTrue(s)
    <3> DEFINE call == req[s]
               id == call.id
               u == call.user
    <3>1. /\ TypeOK /\ CopiesAgree /\ CallTypes /\ DocumentTypes
          /\ OpsMatch /\ NewRooms /\ CallsKnow
      BY DEF IndInv, TypeOK
    <3> SUFFICES ASSUME req'[s].pc = "ok", call.op \in {"create", "join", "leave"}
                 PROVE  ReplyIsTrue(s)
      BY DEF ReplyIsTrue, Succeeds
    <3>2. call.pc \notin Ended /\ u \in Users
      BY <3>1, CallFacts DEF GoodCall, NoCall
    <3>3. s = r
      BY <2>2, <3>1, <3>2, CallAfter DEF Ended
    <3>4. OnlyAt(rooms', id) /\ RoomChange(s)
      BY <2>2, <3>1, <3>3, RoomAfter
    <3>5. Inserting(s) \/ Stopping(s) \/ Writes(s)
      <4>1. ~Arriving(s)
        BY <3>2 DEF Arriving, ArrivesToLeave, Arrival
      <4>2. ~Drawing(s) /\ ~HandingOver(s)
        BY DEF Drawing, HandingOver, Holds, Named, At, Call
      <4> QED
        BY <2>2, <3>1, <3>3, <4>1, <4>2, StepIs
    <3>6. id \notin raced /\ call.pc # "id" => Known(s)
      BY <3>1, <3>2, CallFacts DEF CallsKnow
    <3>7. CASE call.op = "create"
      <4>1. Inserting(s)
        BY <3>1, <3>5, <3>7 DEF OpsMatch, Building, Stopping, Holds, Over, Call, Writes, Wrote
      <4>2. /\ id \in DOMAIN rooms' /\ rooms'[id].players = call.doc.players
            /\ call.doc.players = <<u>>
        <5>1. call.pc = "insert" /\ inserted' = inserted + 1 /\ inserted \in Nat
          BY <3>1, <4>1 DEF Inserting, TypeOK, CounterTypes
        <5>2. call.doc.players = <<u>>
          BY <3>1, <5>1 DEF NewRooms, Building
        <5> QED
          BY <3>4, <5>1, <5>2 DEF RoomChange, Unchanged
      <4>3. u \in Members(rooms'[id])
        BY <4>2 DEF Members
      <4> QED
        BY <3>7, <4>2, <4>3 DEF ReplyIsTrue, Succeeds
    <3>8. CASE call.op = "join"
      <4>1. call.pc = "add"
        BY <3>1, <3>8 DEF OpsMatch
      <4>2. CASE id \notin DOMAIN rooms'
        <5>1. ~Exists(id)
          BY <3>4, <4>1, <4>2 DEF RoomChange, Unchanged, Inserting, Keeps, Exists
        <5>2. id \in raced
          BY <3>6, <4>1, <5>1 DEF Known, Targeting
        <5> QED
          BY <3>8, <4>2, <5>2 DEF ReplyIsTrue, Succeeds
      <4>3. CASE id \in DOMAIN rooms'
        <5>1. id \in DOMAIN rooms /\ rooms'[id].players = Append(rooms[id].players, u)
          BY <3>4, <4>1, <4>3 DEF RoomChange, Unchanged, Inserting, Targeting, Exists, Keeps
        <5>2. rooms[id].players \in Seq(Users)
          BY <3>1, <5>1 DEF DocumentTypes, Room
        <5>3. Members(rooms'[id]) = Members(rooms[id]) \cup {u}
          BY <3>2, <5>1, <5>2, MemberJoins
        <5> QED
          BY <3>8, <4>3, <5>3 DEF ReplyIsTrue, Succeeds
      <4> QED
        BY <4>2, <4>3
    <3>9. ASSUME call.op = "leave", call.pc = "delete" PROVE id \notin DOMAIN rooms'
      BY <3>4, <3>9 DEF RoomChange, Unchanged, Inserting, Targeting, Exists
    <3>10. ASSUME call.op = "leave", call.pc \in {"remove", "removeOwner"} PROVE HasLeft(s)
      <4>1. CASE ~Exists(id) /\ rooms' = rooms
        BY <4>1 DEF HasLeft, Exists
      <4>2. CASE id \in DOMAIN rooms /\ rooms'[id].players = Others(rooms[id], u)
        <5>1. rooms[id].players \in Seq(Users)
          BY <3>1, <4>2 DEF DocumentTypes, Room
        <5>2. Members(rooms'[id]) = Members(rooms[id]) \ {u}
          BY <4>2, <5>1, OthersFacts, MembersAre
        <5> QED
          BY <5>2 DEF HasLeft
      <4> QED
        BY <3>4, <3>10, <4>1, <4>2
           DEF RoomChange, Unchanged, Inserting, Targeting, Exists, Keeps
    <3>11. ASSUME call.op = "leave", call.pc = "update", id \notin raced
           PROVE  HasLeft(s) \/ HasHandedOver(s)
      <4>1. Known(s)
        BY <3>6, <3>11
      <4>2. CASE Unchanged(s)
        BY <3>11, <4>1, <4>2 DEF Unchanged, Known, HasLeft, Members
      <4>3. CASE /\ id \in DOMAIN rooms' /\ rooms'[id].owner = Head(Others(call.doc, u))
                 /\ rooms'[id].players = call.doc.players
        <5>1. call.doc.players \in Seq(Users) /\ Others(call.doc, u) # <<>>
          BY <3>1, <3>11, CallFacts DEF CopiesAgree, Copying, Room
        <5>2. rooms'[id].owner \in Members(call.doc) \ {u}
          BY <4>3, <5>1, HeadOfOthers
        <5>3. Members(rooms'[id]) = Members(call.doc)
          BY <4>3, MembersAre
        <5> QED
          BY <3>11, <4>3, <5>2, <5>3 DEF HasHandedOver
      <4> QED
        BY <3>4, <3>11, <4>2, <4>3 DEF RoomChange, Inserting, Keeps
    <3>12. CASE call.op = "leave"
      <4>1. ASSUME id \notin raced
            PROVE  call.pc \in {"delete", "remove", "removeOwner", "update"}
        <5>1. call.pc \notin {"id", "insert", "add"}
          BY <3>1, <3>12 DEF OpsMatch
        <5>2. call.pc # "nothing"
          BY <3>6, <4>1, <5>1 DEF Known
        <5> QED
          BY <3>5, <5>1, <5>2 DEF Inserting, Stopping, Writes, Wrote
      <4>2. id \notin raced => HasLeft(s) \/ HasHandedOver(s)
        BY <3>9, <3>10, <3>11, <3>12, <4>1 DEF HasLeft
      <4> QED
        BY <3>9, <3>10, <3>12, <4>2 DEF ReplyIsTrue, Succeeds
    <3> QED
      BY <3>7, <3>8, <3>12
  <2> QED
    BY <2>1, <2>2 DEF Next, Acts
<1> QED
  BY <1>1, Invariance, PTL DEF Spec, RepliesAreTrue

=============================================================================
