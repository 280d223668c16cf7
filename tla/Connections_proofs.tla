------------------------- MODULE Connections_proofs -------------------------
(***************************************************************************)
(* Theorems about Connections, for any number of hosts, autohosts and      *)
(* connection structures and any limits.                                   *)
(***************************************************************************)
EXTENDS Connections, WellFoundedInduction, TLAPS

PeerType == [host : Hosts \cup {None}, life : Nat]
ConnType ==
  [id : Int, neighbour : Hosts \cup {None}, magic : Nat, pending : BOOLEAN, peer : PeerType]
EntryType == [there : BOOLEAN, direct : BOOLEAN]

\* What the functions of the link layer take and return.
StateType ==
  [conn : [Slots -> ConnType], highest : Int, nextId : Nat,
   mgr : [Hosts -> EntryType], autohost : [Autohosts -> Int]]

TypeOK ==
  /\ Now \in StateType
  /\ known \in [Hosts -> Nat]
  /\ life \in [Hosts -> Nat]

----------------------------------------------------------------------------
(* The parts of the invariant, of such a state *)

Covered(k) == \A s \in Open(k) : s <= k.highest

NeighboursManaged(k) ==
  \A s \in Open(k) : k.conn[s].neighbour # None => k.mgr[k.conn[s].neighbour].there

Sane(k) == k \in StateType /\ Covered(k) /\ NeighboursManaged(k)

\* Whoever is taken to be at the other end is there, unless peis move.
NeighbourIsPeer(k) ==
  \A s \in Open(k) : k.conn[s].neighbour # None => k.conn[s].neighbour = k.conn[s].peer.host

MarksBacked(k) == \A h \in Hosts : k.mgr[h].direct => To(k, h) # {}

Marked(k) == NeighbourIsPeer(k) /\ MarksBacked(k)

SameEntries(j, k) == \A h \in Hosts : j.mgr[h].there = k.mgr[h].there

KnownManaged == \A h \in Hosts : known[h] # 0 => mgr[h].there

IInv ==
  /\ TypeOK /\ Sane(Now) /\ KnownManaged
  /\ ~ Moving /\ ~ Desperate => Marked(Now)

----------------------------------------------------------------------------
(* Least and greatest elements *)

NatLess == {p \in Nat \X Nat : p[1] < p[2]}

\* A set of numbers that is not empty has a least element.
LEMMA MinProperties ==
  ASSUME NEW S, S \subseteq Nat, S # {}
  PROVE  Min(S) \in S /\ \A x \in S : Min(S) <= x
<1>1. IsWellFoundedOn(NatLess, Nat)
  BY NatLessThanWellFounded DEF OpToRel, NatLess
<1>2. PICK x \in S : \A y \in S : <<y, x>> \notin NatLess
  BY <1>1, WFMin
<1>3. ASSUME NEW y \in S PROVE x <= y
  <2>1. x \in Nat /\ y \in Nat
    OBVIOUS
  <2>2. y < x => <<y, x>> \in NatLess
    BY <2>1 DEF NatLess
  <2> QED BY <1>2, <2>1, <2>2
<1> QED BY <1>3 DEF Min

\* A set of structures that is not empty has a greatest element.
LEMMA MaxProperties ==
  ASSUME NEW S, S \subseteq Slots, S # {}
  PROVE  Max(S) \in S /\ \A x \in S : x <= Max(S)
<1>1. MAX_CONNECTIONS \in Nat
  BY ConnectionsAssumption
<1> DEFINE T == {MAX_CONNECTIONS - x : x \in S}
<1>2. S \subseteq Int /\ T \subseteq Nat /\ T # {}
  <2>1. \A x \in Slots : x \in Int /\ MAX_CONNECTIONS - x \in Nat
    BY <1>1 DEF Slots
  <2> QED BY <2>1
<1>3. PICK t \in T : \A u \in T : t <= u
  BY <1>2, MinProperties
<1>4. PICK x \in S : t = MAX_CONNECTIONS - x
  OBVIOUS
<1>5. ASSUME NEW y \in S PROVE x >= y
  <2>1. MAX_CONNECTIONS - x <= MAX_CONNECTIONS - y
    BY <1>3, <1>4
  <2> QED BY <1>1, <1>2, <2>1
<1>6. Max(S) \in S /\ \A y \in S : Max(S) >= y
  BY <1>5 DEF Max
<1> QED BY <1>1, <1>6 DEF Slots

----------------------------------------------------------------------------
(* The functions of the link layer *)

\* A structure that is free is taken: the lowest.
LEMMA SlotProperties ==
  ASSUME NEW k \in StateType, CanOpen(k)
  PROVE  Slot(k) \in Slots \ Open(k)
<1>1. Slots \ Open(k) # {}
  BY DEF CanOpen, Open
<1>2. Slots \ Open(k) \subseteq Nat
  BY ConnectionsAssumption DEF Slots
<1> QED BY <1>1, <1>2, MinProperties DEF Slot

\* What peisk_newConnection changes.
LEMMA NewConnectionParts ==
  ASSUME NEW k \in StateType, CanOpen(k), NEW peer \in PeerType
  PROVE  LET n == newConnection(k, peer)
             s == Slot(k)
         IN  /\ n \in StateType
             /\ n.conn[s].neighbour = None /\ n.conn[s].peer = peer
             /\ \A t \in Slots \ {s} : n.conn[t] = k.conn[t]
             /\ Open(n) = Open(k) \cup {s}
             /\ n.highest >= k.highest /\ n.highest >= s
             /\ n.mgr = k.mgr
             /\ \A h \in Hosts : To(n, h) = To(k, h)
<1> DEFINE s == Slot(k)
           n == newConnection(k, peer)
           c == [id |-> k.nextId, neighbour |-> None, magic |-> k.conn[s].magic,
                 pending |-> TRUE, peer |-> peer]
<1>1. s \in Slots /\ s \notin Open(k) /\ s \in Int
  BY SlotProperties DEF Slots
<1>2. k.conn \in [Slots -> ConnType] /\ k.conn[s] \in ConnType
  BY <1>1 DEF StateType
<1>3. k.highest \in Int /\ k.nextId \in Nat
  BY DEF StateType
<1>4. c \in ConnType /\ c.id # None /\ c.neighbour = None /\ c.peer = peer
  <2>1. k.conn[s].magic \in Nat
    BY <1>2 DEF ConnType
  <2> QED BY <1>3, <2>1 DEF ConnType, None
<1>5. /\ n.conn = [k.conn EXCEPT ![s] = c]
      /\ n.nextId = k.nextId + 1
      /\ n.highest = IF s >= k.highest THEN s + 1 ELSE k.highest
      /\ n.mgr = k.mgr /\ n.autohost = k.autohost
  BY DEF newConnection, StateType
<1>6. n \in StateType
  <2> DEFINE hi == IF s >= k.highest THEN s + 1 ELSE k.highest
             id == k.nextId + 1
  <2>1. n = [k EXCEPT !.conn[s] = c, !.nextId = id, !.highest = hi]
    BY DEF newConnection
  <2>2. hi \in Int /\ id \in Nat
    BY <1>1, <1>3
  <2> HIDE DEF n, c, s, hi, id
  <2> QED BY <1>1, <1>4, <2>1, <2>2 DEF StateType
<1> HIDE DEF n, c, s
<1>7. n.conn \in [Slots -> ConnType] /\ n.conn[s] = c
  BY <1>1, <1>2, <1>4, <1>5
<1>9. \A t \in Slots \ {s} : n.conn[t] = k.conn[t]
  BY <1>2, <1>5
<1>10. Open(n) = Open(k) \cup {s}
  BY <1>1, <1>4, <1>7, <1>9 DEF Open
<1>11. \A h \in Hosts : To(n, h) = To(k, h)
  <2>1. \A h \in Hosts : h # None
    BY ConnectionsAssumption
  <2>2. ASSUME NEW h \in Hosts, NEW t \in Slots
        PROVE  t \in To(n, h) <=> t \in To(k, h)
    BY <1>1, <1>4, <1>7, <1>9, <1>10, <2>1 DEF To
  <2>3. ASSUME NEW h \in Hosts PROVE To(n, h) \subseteq Slots /\ To(k, h) \subseteq Slots
    BY DEF To, Open
  <2> QED BY <2>2, <2>3
<1>12. n.highest >= k.highest /\ n.highest >= s
  BY <1>1, <1>3, <1>5
<1> QED BY <1>4, <1>5, <1>6, <1>7, <1>9, <1>10, <1>11, <1>12 DEF n, s

\* What peisk_freeConnection changes.
LEMMA FreeConnectionsParts ==
  ASSUME NEW k \in StateType, NEW S, S \subseteq Open(k)
  PROVE  LET f == freeConnections(k, S)
         IN  /\ f \in StateType
             /\ \A t \in Slots \ S : f.conn[t] = k.conn[t]
             /\ \A t \in S : f.conn[t].id = None
             /\ Open(f) = Open(k) \ S
             /\ f.highest = k.highest
             /\ \A h \in Hosts : To(f, h) = To(k, h) \ S
             /\ \A h \in Hosts :
                  /\ f.mgr[h].there = k.mgr[h].there
                  /\ f.mgr[h].direct => /\ k.mgr[h].direct
                                        /\ To(k, h) # {} => To(f, h) # {}
<1> DEFINE f == freeConnections(k, S)
<1>1. k.conn \in [Slots -> ConnType] /\ k.mgr \in [Hosts -> EntryType]
  BY DEF StateType
<1>2. S \subseteq Slots
  BY DEF Open
<1>3. \A t \in Slots : Freed(k.conn[t]) \in ConnType /\ Freed(k.conn[t]).id = None
  <2> SUFFICES ASSUME NEW c \in ConnType PROVE Freed(c) \in ConnType /\ Freed(c).id = None
    BY <1>1
  <2>1. /\ Freed(c).id = None /\ Freed(c).neighbour = None /\ Freed(c).pending = FALSE
        /\ Freed(c).peer = Nobody /\ Freed(c).magic = c.magic
    BY DEF Freed, ConnType
  <2>2. None \in Int /\ Nobody \in PeerType
    BY DEF None, Nobody, PeerType
  <2> QED BY <2>1, <2>2 DEF ConnType, Freed
<1>4. \A e \in EntryType : /\ [e EXCEPT !.direct = FALSE] \in EntryType
                           /\ [e EXCEPT !.direct = FALSE].there = e.there
                           /\ [e EXCEPT !.direct = FALSE].direct = FALSE
  BY DEF EntryType
<1>5. /\ f.conn = [t \in Slots |-> IF t \in S THEN Freed(k.conn[t]) ELSE k.conn[t]]
      /\ f.mgr = [h \in Hosts |-> IF To(k, h) # {} /\ To(k, h) \subseteq S
                                  THEN [k.mgr[h] EXCEPT !.direct = FALSE] ELSE k.mgr[h]]
      /\ f.highest = k.highest /\ f.nextId = k.nextId /\ f.autohost = k.autohost
  BY DEF freeConnections, StateType
<1> HIDE DEF f
<1>7. f.conn \in [Slots -> ConnType]
  BY <1>1, <1>3, <1>5
<1>8. f.mgr \in [Hosts -> EntryType]
  BY <1>1, <1>4, <1>5
<1>9. f \in StateType
  BY <1>5, <1>7, <1>8 DEF StateType, freeConnections, f
<1>10. \A t \in Slots \ S : f.conn[t] = k.conn[t]
  BY <1>5
<1>11. \A t \in S : f.conn[t].id = None
  BY <1>2, <1>3, <1>5
<1>12. Open(f) = Open(k) \ S
  BY <1>2, <1>10, <1>11 DEF Open
<1>13. \A h \in Hosts : To(f, h) = To(k, h) \ S
  BY <1>10, <1>12 DEF To, Open
<1>14. \A h \in Hosts : /\ f.mgr[h].there = k.mgr[h].there
                        /\ f.mgr[h].direct => /\ k.mgr[h].direct
                                              /\ To(k, h) # {} => To(f, h) # {}
  <2> SUFFICES ASSUME NEW h \in Hosts
               PROVE  /\ f.mgr[h].there = k.mgr[h].there
                      /\ f.mgr[h].direct => /\ k.mgr[h].direct
                                            /\ To(k, h) # {} => To(f, h) # {}
    OBVIOUS
  <2>1. k.mgr[h] \in EntryType
    BY <1>1
  <2>2. CASE To(k, h) # {} /\ To(k, h) \subseteq S
    <3>1. f.mgr[h] = [k.mgr[h] EXCEPT !.direct = FALSE]
      BY <1>5, <2>2
    <3> QED BY <1>4, <2>1, <3>1
  <2>3. CASE ~ (To(k, h) # {} /\ To(k, h) \subseteq S)
    <3>1. f.mgr[h] = k.mgr[h]
      BY <1>5, <2>3
    <3> QED BY <1>13, <2>3, <3>1
  <2> QED BY <2>2, <2>3
<1> QED BY <1>5, <1>9, <1>10, <1>11, <1>12, <1>13, <1>14 DEF f

\* What peisk_closeConnection changes.
LEMMA CloseConnectionsParts ==
  ASSUME NEW k \in StateType, NEW S, S \subseteq Open(k)
  PROVE  LET c == closeConnections(k, S)
         IN  /\ c \in StateType
             /\ \A t \in Slots \ S : c.conn[t] = k.conn[t]
             /\ \A t \in S : c.conn[t].id = None
             /\ Open(c) = Open(k) \ S
             /\ Covered(k) => Covered(c)
             /\ \A h \in Hosts : To(c, h) = To(k, h) \ S
             /\ \A h \in Hosts :
                  /\ c.mgr[h].there = k.mgr[h].there
                  /\ c.mgr[h].direct => /\ k.mgr[h].direct
                                        /\ To(k, h) # {} => To(c, h) # {}
<1> DEFINE c == closeConnections(k, S)
           f == freeConnections(k, S)
           top == IF Open(f) = {} THEN 0 ELSE Max(Open(f))
           marks == [a \in Autohosts |-> IF k.autohost[a] \in {k.conn[s].id : s \in S}
                                        THEN NotConnected ELSE k.autohost[a]]
<1>1. CASE S = {}
  <2>1. c = k
    BY <1>1 DEF closeConnections
  <2>2. Open(k) \ S = Open(k) /\ \A h \in Hosts : To(k, h) \ S = To(k, h)
    BY <1>1
  <2> HIDE DEF c
  <2> QED BY <1>1, <2>1, <2>2 DEF c
<1>2. CASE S # {}
  <2>1. c = [f EXCEPT !.highest = top, !.autohost = marks]
    BY <1>2 DEF closeConnections
  <2>2. f \in StateType
    BY FreeConnectionsParts
  <2>3. Open(f) \subseteq Slots
    BY DEF Open
  <2>4. Open(f) # {} => Max(Open(f)) \in Open(f) /\ \A s \in Open(f) : s <= Max(Open(f))
    BY <2>3, MaxProperties
  <2>5. top \in Int /\ \A s \in Open(f) : s <= top
    BY <2>3, <2>4 DEF Slots
  <2>6. marks \in [Autohosts -> Int]
    <3>1. \A a \in Autohosts : k.autohost[a] \in Int
      BY DEF StateType
    <3> QED BY <3>1 DEF NotConnected
  <2> HIDE DEF c, f, top, marks
  <2>7. /\ c \in StateType
        /\ c.conn = f.conn /\ c.mgr = f.mgr /\ c.highest = top
    BY <2>1, <2>2, <2>5, <2>6 DEF StateType
  <2>8. Open(c) = Open(f) /\ \A h \in Hosts : To(c, h) = To(f, h)
    BY <2>7 DEF Open, To
  <2>9. Covered(c)
    BY <2>5, <2>7, <2>8 DEF Covered
  <2>10. /\ \A t \in Slots \ S : f.conn[t] = k.conn[t]
         /\ \A t \in S : f.conn[t].id = None
         /\ Open(f) = Open(k) \ S
         /\ \A h \in Hosts : To(f, h) = To(k, h) \ S
         /\ \A h \in Hosts :
              /\ f.mgr[h].there = k.mgr[h].there
              /\ f.mgr[h].direct => /\ k.mgr[h].direct
                                    /\ To(k, h) # {} => To(f, h) # {}
    BY FreeConnectionsParts DEF f
  <2> QED BY <2>7, <2>8, <2>9, <2>10 DEF c
<1> QED BY <1>1, <1>2

\* The parts of the invariant see connections, highestConnection and entries only.
LEMMA Carries ==
  ASSUME NEW k, NEW j \in StateType,
         j.conn = k.conn, j.highest = k.highest, j.mgr = k.mgr
  PROVE  /\ Sane(k) => Sane(j)
         /\ Marked(k) => Marked(j)
<1>1. Open(j) = Open(k) /\ \A h \in Hosts : To(j, h) = To(k, h)
  BY DEF Open, To
<1> QED BY <1>1 DEF Sane, Covered, NeighboursManaged, Marked, NeighbourIsPeer, MarksBacked

\* A new connection has no neighbour yet.
LEMMA NewConnectionKeeps ==
  ASSUME NEW k, Sane(k), CanOpen(k), NEW peer \in PeerType
  PROVE  /\ Sane(newConnection(k, peer))
         /\ Marked(k) => Marked(newConnection(k, peer))
         /\ SameEntries(newConnection(k, peer), k)
<1> DEFINE n == newConnection(k, peer)
           s == Slot(k)
<1>1. k \in StateType
  BY DEF Sane
<1>2. /\ n \in StateType
      /\ n.conn[s].neighbour = None
      /\ \A t \in Slots \ {s} : n.conn[t] = k.conn[t]
      /\ Open(n) = Open(k) \cup {s}
      /\ n.highest >= k.highest /\ n.highest >= s
      /\ n.mgr = k.mgr
      /\ \A h \in Hosts : To(n, h) = To(k, h)
  BY <1>1, NewConnectionParts
<1>3. s \in Slots /\ Open(k) \subseteq Slots
  BY <1>1, SlotProperties DEF Open
<1> HIDE DEF n, s
<1>4. Covered(n)
  <2>1. n.highest \in Int /\ k.highest \in Int /\ Slots \subseteq Int
    BY <1>1, <1>2 DEF StateType, Slots
  <2>2. ASSUME NEW t \in Open(n) PROVE t <= n.highest
    <3>1. t \in Int
      BY <1>2, <1>3, <2>1
    <3>2. t = s \/ t <= k.highest
      BY <1>2 DEF Sane, Covered
    <3> QED BY <1>2, <2>1, <3>1, <3>2
  <2> QED BY <2>2 DEF Covered
<1>5. NeighboursManaged(n)
  BY <1>2, <1>3 DEF Sane, NeighboursManaged
<1>6. Marked(k) => Marked(n)
  BY <1>2, <1>3 DEF Marked, NeighbourIsPeer, MarksBacked
<1> QED BY <1>2, <1>4, <1>5, <1>6 DEF Sane, SameEntries, n

\* Closing takes a mark away with the last connection to a host.
LEMMA CloseConnectionsKeep ==
  ASSUME NEW k, Sane(k), NEW S, S \subseteq Open(k)
  PROVE  /\ Sane(closeConnections(k, S))
         /\ Marked(k) => Marked(closeConnections(k, S))
         /\ SameEntries(closeConnections(k, S), k)
<1> DEFINE c == closeConnections(k, S)
<1>1. k \in StateType
  BY DEF Sane
<1>2. /\ c \in StateType
      /\ \A t \in Slots \ S : c.conn[t] = k.conn[t]
      /\ Open(c) = Open(k) \ S
      /\ Covered(c)
      /\ \A h \in Hosts :
           /\ c.mgr[h].there = k.mgr[h].there
           /\ c.mgr[h].direct => /\ k.mgr[h].direct
                                 /\ To(k, h) # {} => To(c, h) # {}
  BY <1>1, CloseConnectionsParts DEF Sane
<1>3. \A t \in Open(c) : t \in Open(k) /\ c.conn[t] = k.conn[t]
  BY <1>2 DEF Open
<1> HIDE DEF c
<1>4. NeighboursManaged(c)
  <2>1. \A t \in Open(k) : k.conn[t].neighbour \in Hosts \cup {None}
    BY <1>1 DEF StateType, ConnType, Open
  <2> QED BY <1>2, <1>3, <2>1 DEF Sane, NeighboursManaged
<1>5. Marked(k) => Marked(c)
  BY <1>2, <1>3 DEF Marked, NeighbourIsPeer, MarksBacked
<1> QED BY <1>2, <1>4, <1>5 DEF Sane, SameEntries, c

\* So does freeing a structure that was just taken.
LEMMA FreeConnectionsKeep ==
  ASSUME NEW k, Sane(k), NEW S, S \subseteq Open(k)
  PROVE  /\ Sane(freeConnections(k, S))
         /\ Marked(k) => Marked(freeConnections(k, S))
         /\ SameEntries(freeConnections(k, S), k)
<1> DEFINE f == freeConnections(k, S)
<1>1. k \in StateType
  BY DEF Sane
<1>2. /\ f \in StateType
      /\ \A t \in Slots \ S : f.conn[t] = k.conn[t]
      /\ Open(f) = Open(k) \ S
      /\ f.highest = k.highest
      /\ \A h \in Hosts :
           /\ f.mgr[h].there = k.mgr[h].there
           /\ f.mgr[h].direct => /\ k.mgr[h].direct
                                 /\ To(k, h) # {} => To(f, h) # {}
  BY <1>1, FreeConnectionsParts
<1>3. \A t \in Open(f) : t \in Open(k) /\ f.conn[t] = k.conn[t]
  BY <1>2 DEF Open
<1> HIDE DEF f
<1>4. Covered(f)
  BY <1>2, <1>3 DEF Sane, Covered
<1>5. NeighboursManaged(f)
  <2>1. \A t \in Open(k) : k.conn[t].neighbour \in Hosts \cup {None}
    BY <1>1 DEF StateType, ConnType, Open
  <2> QED BY <1>2, <1>3, <2>1 DEF Sane, NeighboursManaged
<1>6. Marked(k) => Marked(f)
  BY <1>2, <1>3 DEF Marked, NeighbourIsPeer, MarksBacked
<1> QED BY <1>2, <1>4, <1>5, <1>6 DEF Sane, SameEntries, f

\* A connection is given a neighbour, who may be marked if the connection is open.
LEMMA Relabelled ==
  ASSUME NEW k, Sane(k), NEW j \in StateType, NEW s \in Slots, NEW h \in Hosts,
         j.conn[s].id = k.conn[s].id, j.conn[s].peer = k.conn[s].peer, j.conn[s].neighbour = h,
         \A t \in Slots \ {s} : j.conn[t] = k.conn[t],
         j.highest = k.highest,
         \A g \in Hosts \ {h} : j.mgr[g] = k.mgr[g],
         j.mgr[h].there
  PROVE  /\ Sane(j)
         /\ Marked(k) /\ k.conn[s].peer.host = h /\ s \in Open(k) => Marked(j)
<1>1. \A g \in Hosts : g # None
  BY ConnectionsAssumption
<1>2. Open(j) = Open(k) /\ Open(k) \subseteq Slots
  BY DEF Open
<1>3. Covered(j)
  BY <1>2 DEF Sane, Covered
<1>4. NeighboursManaged(j)
  <2>1. \A t \in Slots : j.conn[t].neighbour \in Hosts \cup {None}
    BY DEF StateType, ConnType
  <2> QED BY <1>2, <2>1 DEF Sane, NeighboursManaged
<1>5. ASSUME Marked(k), k.conn[s].peer.host = h, s \in Open(k) PROVE Marked(j)
  <2>1. NeighbourIsPeer(j)
    <3>1. ASSUME NEW t \in Open(j), j.conn[t].neighbour # None
          PROVE  j.conn[t].neighbour = j.conn[t].peer.host
      <4>1. CASE t = s
        BY <1>5, <4>1
      <4>2. CASE t # s
        <5>1. j.conn[t] = k.conn[t] /\ t \in Open(k)
          BY <1>2, <4>2
        <5> QED BY <1>5, <3>1, <5>1 DEF Marked, NeighbourIsPeer
      <4> QED BY <4>1, <4>2
    <3> QED BY <3>1 DEF NeighbourIsPeer
  <2>2. \A g \in Hosts : To(k, g) \subseteq To(j, g)
    <3> SUFFICES ASSUME NEW g \in Hosts, NEW t \in To(k, g) PROVE t \in To(j, g)
      OBVIOUS
    <3>1. t \in Open(k) /\ k.conn[t].neighbour = g /\ g # None
      BY <1>1 DEF To
    <3>2. t = s => g = h
      BY <1>5, <3>1 DEF Marked, NeighbourIsPeer
    <3>3. j.conn[t].neighbour = g
      BY <1>2, <3>1, <3>2
    <3> QED BY <1>2, <3>1, <3>3 DEF To
  <2>3. s \in To(j, h)
    BY <1>2, <1>5 DEF To
  <2>4. MarksBacked(j)
    BY <1>5, <2>2, <2>3 DEF Marked, MarksBacked
  <2> QED BY <2>1, <2>4 DEF Marked
<1> QED BY <1>3, <1>4, <1>5 DEF Sane

\* A failed attempt may leave a structure behind.
LEMMA ConnectFailedKeeps ==
  ASSUME NEW k, Sane(k), NEW j \in tcpConnectFailed(k)
  PROVE  Sane(j) /\ (Marked(k) => Marked(j)) /\ SameEntries(j, k)
<1>1. Nobody \in PeerType
  BY DEF Nobody, PeerType
<1>2. j = k \/ (CanOpen(k) /\ j = newConnection(k, Nobody))
  BY DEF tcpConnectFailed
<1> QED BY <1>1, <1>2, NewConnectionKeeps DEF SameEntries

\* One that succeeds opens a connection to h, whose neighbour is not noted yet.
LEMMA ConnectedKeeps ==
  ASSUME life \in [Hosts -> Nat], NEW k, Sane(k), NEW h \in Hosts, NEW j \in tcpConnected(k, h)
  PROVE  /\ Sane(j) /\ (Marked(k) => Marked(j))
         /\ Slot(k) \in Open(j)
         /\ j.conn[Slot(k)].peer.host = h
         /\ j.mgr = k.mgr
<1> DEFINE peer == [host |-> h, life |-> life[h]]
           n == newConnection(k, peer)
           s == Slot(k)
           c == [n.conn[s] EXCEPT !.pending = FALSE]
<1>1. CanOpen(k) /\ j = [n EXCEPT !.conn[s].pending = FALSE]
  BY DEF tcpConnected
<1>2. peer \in PeerType /\ peer.host = h
  BY DEF PeerType
<1>3. k \in StateType
  BY DEF Sane
<1>4. s \in Slots
  BY <1>1, <1>3, SlotProperties
<1>5. n.conn[s].neighbour = None /\ n.conn[s].peer = peer /\ s \in Open(n) /\ n.mgr = k.mgr
  BY <1>1, <1>2, <1>3, NewConnectionParts
<1>6. Sane(n) /\ (Marked(k) => Marked(n))
  BY <1>1, <1>2, NewConnectionKeeps
<1>7. n \in StateType
  BY <1>6 DEF Sane
<1> HIDE DEF n, s, peer
<1>8. c \in ConnType /\ c.id = n.conn[s].id /\ c.neighbour = None /\ c.peer = peer
  <2>1. n.conn[s] \in ConnType
    BY <1>4, <1>7 DEF StateType
  <2> QED BY <1>5, <2>1 DEF ConnType
<1> HIDE DEF c
<1>9. /\ j \in StateType
      /\ j.conn = [n.conn EXCEPT ![s] = c]
      /\ j.highest = n.highest /\ j.mgr = n.mgr
  <2>1. j = [n EXCEPT !.conn[s] = c]
    BY <1>1 DEF c
  <2> QED BY <1>4, <1>7, <1>8, <2>1 DEF StateType
<1>10. j.conn[s] = c /\ \A t \in Slots \ {s} : j.conn[t] = n.conn[t]
  BY <1>4, <1>7, <1>9 DEF StateType
<1>11. Open(j) = Open(n)
  BY <1>4, <1>8, <1>10 DEF Open
<1>12. \A t \in Open(n) : /\ j.conn[t].neighbour = n.conn[t].neighbour
                          /\ j.conn[t].peer = n.conn[t].peer
  BY <1>5, <1>8, <1>10 DEF Open
<1>13. \A g \in Hosts : To(j, g) = To(n, g)
  BY <1>11, <1>12 DEF To
<1>14. Sane(j)
  BY <1>6, <1>9, <1>11, <1>12 DEF Sane, Covered, NeighboursManaged
<1>15. Marked(n) => Marked(j)
  BY <1>9, <1>11, <1>12, <1>13 DEF Marked, NeighbourIsPeer, MarksBacked
<1> QED BY <1>2, <1>5, <1>6, <1>8, <1>9, <1>10, <1>11, <1>14, <1>15 DEF s

\* Whom it is connected to is noted, and is who it is if peis do not move.
LEMMA ConnectToGivenKeeps ==
  ASSUME TypeOK, NEW k, Sane(k), NEW h \in Hosts, k.mgr[h].there,
         NEW j \in connectToGivenHostInfo(k, h)
  PROVE  Sane(j) /\ (~ Moving /\ Marked(k) => Marked(j)) /\ SameEntries(j, k)
<1>1. CASE j \in tcpConnectFailed(k)
  BY <1>1, ConnectFailedKeeps
<1>2. CASE j \notin tcpConnectFailed(k)
  <2> DEFINE s == Slot(k)
             m == known[h]
  <2>1. PICK g \in IF Moving THEN Hosts ELSE {h} : \E i \in tcpConnected(k, g) :
          j = [i EXCEPT !.conn[s].neighbour = h, !.conn[s].magic = m]
    <3> DEFINE named(i) == [i EXCEPT !.conn[s].neighbour = h, !.conn[s].magic = m]
    <3>1. j \in UNION {{named(i) : i \in tcpConnected(k, g)} : g \in IF Moving THEN Hosts ELSE {h}}
      BY <1>2 DEF connectToGivenHostInfo
    <3>2. PICK g \in IF Moving THEN Hosts ELSE {h} : j \in {named(i) : i \in tcpConnected(k, g)}
      BY <3>1
    <3> QED BY <3>2
  <2>2. PICK i \in tcpConnected(k, g) :
          j = [i EXCEPT !.conn[s].neighbour = h, !.conn[s].magic = m]
    BY <2>1
  <2>3. g \in Hosts /\ (~ Moving => g = h)
    BY <2>1
  <2>4. /\ Sane(i) /\ (Marked(k) => Marked(i))
        /\ s \in Open(i) /\ i.conn[s].peer.host = g /\ i.mgr = k.mgr
    BY <2>3, ConnectedKeeps DEF TypeOK
  <2>5. m \in Nat
    BY DEF TypeOK
  <2>6. s \in Slots /\ i \in StateType
    BY <2>4 DEF Open, Sane
  <2> HIDE DEF s, m
  <2> DEFINE c == [i.conn[s] EXCEPT !.neighbour = h, !.magic = m]
  <2>7. /\ c \in ConnType /\ c.id = i.conn[s].id
        /\ c.neighbour = h /\ c.peer = i.conn[s].peer
    <3>1. i.conn[s] \in ConnType
      BY <2>6 DEF StateType
    <3> QED BY <2>5, <3>1 DEF ConnType
  <2>8. i.conn \in [Slots -> ConnType] /\ i.conn[s] \in ConnType
    BY <2>6 DEF StateType
  <2>9. /\ j \in StateType
        /\ j.conn = [i.conn EXCEPT ![s] = c]
        /\ j.highest = i.highest /\ j.mgr = i.mgr
    <3>1. j.conn = [i.conn EXCEPT ![s] = c]
      BY <2>2, <2>6, <2>8 DEF StateType, c
    <3>2. j.highest = i.highest /\ j.mgr = i.mgr
      BY <2>2, <2>6 DEF StateType
    <3>3. j \in StateType
      BY <2>2, <2>5, <2>6, <2>8 DEF StateType, ConnType
    <3> QED BY <3>1, <3>2, <3>3
  <2>10. j.conn[s] = c /\ \A t \in Slots \ {s} : j.conn[t] = i.conn[t]
    BY <2>6, <2>9 DEF StateType
  <2>11. Sane(j) /\ (Marked(i) /\ i.conn[s].peer.host = h => Marked(j)) /\ SameEntries(j, k)
    <3>1. /\ j.conn[s].id = i.conn[s].id /\ j.conn[s].peer = i.conn[s].peer
          /\ j.conn[s].neighbour = h
      BY <2>7, <2>10
    <3>2. (\A f \in Hosts \ {h} : j.mgr[f] = i.mgr[f]) /\ j.mgr[h].there
      BY <2>4, <2>9
    <3>3. /\ j \in StateType /\ j.highest = i.highest
          /\ \A t \in Slots \ {s} : j.conn[t] = i.conn[t]
          /\ Sane(i) /\ s \in Slots /\ s \in Open(i)
          /\ SameEntries(j, k)
      BY <2>4, <2>6, <2>9, <2>10 DEF SameEntries
    <3> HIDE DEF c
    <3> QED BY <3>1, <3>2, <3>3, Relabelled
  <2> QED BY <2>3, <2>4, <2>11
<1> QED BY <1>1, <1>2

\* The entry of a host is made, and does not mark it.
LEMMA EntryMadeKeeps ==
  ASSUME NEW k, Sane(k), NEW h \in Hosts
  PROVE  LET j == EntryMade(k, h)
         IN  /\ Sane(j) /\ (Marked(k) => Marked(j))
             /\ j.conn = k.conn
             /\ j.mgr[h].there /\ \A g \in Hosts \ {h} : j.mgr[g] = k.mgr[g]
<1> DEFINE j == EntryMade(k, h)
<1>1. k \in StateType
  BY DEF Sane
<1>2. Fresh \in EntryType /\ Fresh.there /\ ~ Fresh.direct
  BY DEF Fresh, EntryType
<1>3. /\ j \in StateType
      /\ j.conn = k.conn /\ j.highest = k.highest /\ j.mgr = [k.mgr EXCEPT ![h] = Fresh]
  BY <1>1, <1>2 DEF EntryMade, StateType
<1>4. j.mgr[h] = Fresh /\ \A g \in Hosts \ {h} : j.mgr[g] = k.mgr[g]
  BY <1>1, <1>3 DEF StateType
<1>5. Open(j) = Open(k) /\ \A g \in Hosts : To(j, g) = To(k, g)
  BY <1>3 DEF Open, To
<1> HIDE DEF j
<1>6. NeighboursManaged(j)
  <2>1. \A t \in Open(k) : k.conn[t].neighbour \in Hosts \cup {None}
    BY <1>1 DEF StateType, ConnType, Open
  <2> QED BY <1>2, <1>3, <1>4, <1>5, <2>1 DEF Sane, NeighboursManaged
<1>7. Marked(k) => Marked(j)
  BY <1>2, <1>3, <1>4, <1>5 DEF Marked, NeighbourIsPeer, MarksBacked
<1> QED BY <1>2, <1>3, <1>4, <1>5, <1>6, <1>7 DEF Sane, Covered, j

----------------------------------------------------------------------------
(* Steps *)

\* A step to a state that has the parts of the invariant keeps the invariant.
LEMMA BecomesKeeps ==
  ASSUME NEW k, Sane(k), Becomes(k), ~ Moving /\ ~ Desperate => Marked(k),
         known' \in [Hosts -> Nat], life' \in [Hosts -> Nat],
         \A h \in Hosts : known'[h] # 0 => k.mgr[h].there
  PROVE  IInv'
<1> DEFINE j == Now'
<1>1. /\ j.conn = k.conn /\ j.highest = k.highest /\ j.nextId = k.nextId
      /\ j.mgr = k.mgr /\ j.autohost = k.autohost
  BY DEF Now, Becomes
<1>2. j \in StateType
  BY DEF Now, Becomes, Sane, StateType
<1> HIDE DEF j
<1>3. Sane(j) /\ (Marked(k) => Marked(j))
  BY <1>1, <1>2, Carries
<1>4. Sane(Now)' /\ (Marked(k) => Marked(Now)')
  BY <1>3 DEF j
<1>5. KnownManaged'
  BY DEF KnownManaged, Becomes
<1> QED BY <1>2, <1>4, <1>5 DEF IInv, TypeOK, j

\* The invariant at the state before.
LEMMA InvNow ==
  ASSUME IInv
  PROVE  /\ Now \in StateType /\ Sane(Now)
         /\ ~ Moving /\ ~ Desperate => Marked(Now)
         /\ Now.conn = conn /\ Now.mgr = mgr /\ Now.autohost = autohost
         /\ known \in [Hosts -> Nat] /\ life \in [Hosts -> Nat]
         /\ \A h \in Hosts : known[h] # 0 => Now.mgr[h].there
BY DEF IInv, TypeOK, KnownManaged, Now

\* The mark of an autohost is no part of the others.
LEMMA AutohostKeeps ==
  ASSUME NEW k, Sane(k), NEW a \in Autohosts, NEW n \in Int
  PROVE  LET j == [k EXCEPT !.autohost[a] = n]
         IN  Sane(j) /\ (Marked(k) => Marked(j)) /\ j.mgr = k.mgr
<1> DEFINE j == [k EXCEPT !.autohost[a] = n]
<1>1. k \in StateType
  BY DEF Sane
<1>2. j \in StateType /\ j.conn = k.conn /\ j.highest = k.highest /\ j.mgr = k.mgr
  BY <1>1 DEF StateType
<1> HIDE DEF j
<1>3. Sane(j) /\ (Marked(k) => Marked(j))
  BY <1>2, Carries
<1> QED BY <1>2, <1>3 DEF j

LEMMA AutoConnectStep ==
  ASSUME IInv, NEW a \in Autohosts, autoConnect(a)
  PROVE  IInv'
<1>0. UNCHANGED <<known, life>>
  BY DEF autoConnect
<1>1. CASE \E k \in tcpConnectFailed(Now) : Becomes([k EXCEPT !.autohost[a] = 0])
  <2>1. PICK k \in tcpConnectFailed(Now) : Becomes([k EXCEPT !.autohost[a] = 0])
    BY <1>1
  <2>2. Sane(k) /\ (Marked(Now) => Marked(k)) /\ SameEntries(k, Now)
    BY InvNow, ConnectFailedKeeps
  <2> DEFINE j == [k EXCEPT !.autohost[a] = 0]
  <2>3. Sane(j) /\ (Marked(k) => Marked(j)) /\ j.mgr = k.mgr
    BY <2>2, AutohostKeeps
  <2> HIDE DEF j
  <2>4. \A h \in Hosts : known'[h] # 0 => j.mgr[h].there
    BY <1>0, <2>2, <2>3, InvNow DEF SameEntries
  <2> QED BY <1>0, <2>1, <2>2, <2>3, <2>4, InvNow, BecomesKeeps DEF j
<1>2. CASE \E h \in Hosts : \E k \in tcpConnected(Now, h) : Becomes([k EXCEPT !.autohost[a] = 1])
  <2>1. PICK h \in Hosts : \E k \in tcpConnected(Now, h) : Becomes([k EXCEPT !.autohost[a] = 1])
    BY <1>2
  <2>2. PICK k \in tcpConnected(Now, h) : Becomes([k EXCEPT !.autohost[a] = 1])
    BY <2>1
  <2>3. Sane(k) /\ (Marked(Now) => Marked(k)) /\ k.mgr = Now.mgr
    BY InvNow, ConnectedKeeps
  <2> DEFINE j == [k EXCEPT !.autohost[a] = 1]
  <2>4. Sane(j) /\ (Marked(k) => Marked(j)) /\ j.mgr = k.mgr
    BY <2>3, AutohostKeeps
  <2> HIDE DEF j
  <2>5. \A g \in Hosts : known'[g] # 0 => j.mgr[g].there
    BY <1>0, <2>3, <2>4, InvNow
  <2> QED BY <1>0, <2>2, <2>3, <2>4, <2>5, InvNow, BecomesKeeps DEF j
<1> QED BY <1>1, <1>2 DEF autoConnect

\* What accept and hook_hostInfo do last: who is at the other end is noted, and marked.
Noted(k, s, h, c) == [k EXCEPT !.conn[s] = c, !.mgr[h].there = TRUE, !.mgr[h].direct = TRUE]

LEMMA NotedKeeps ==
  ASSUME NEW k, Sane(k), NEW s \in Slots, NEW h \in Hosts, NEW c \in ConnType,
         c.id = k.conn[s].id, c.neighbour = h, c.peer = k.conn[s].peer
  PROVE  LET j == Noted(k, s, h, c)
         IN  /\ Sane(j)
             /\ Marked(k) /\ k.conn[s].peer.host = h /\ s \in Open(k) => Marked(j)
             /\ \A g \in Hosts : k.mgr[g].there \/ g = h => j.mgr[g].there
<1> DEFINE j == Noted(k, s, h, c)
           e == [k.mgr[h] EXCEPT !.there = TRUE, !.direct = TRUE]
<1>1. k \in StateType
  BY DEF Sane
<1>2. e \in EntryType /\ e.there
  <2>1. k.mgr[h] \in EntryType
    BY <1>1 DEF StateType
  <2> QED BY <2>1 DEF EntryType
<1>3. /\ j \in StateType /\ j.highest = k.highest
      /\ j.conn = [k.conn EXCEPT ![s] = c]
      /\ j.mgr = [k.mgr EXCEPT ![h] = e]
  <2>1. k.mgr \in [Hosts -> EntryType]
    BY <1>1 DEF StateType
  <2> QED BY <1>1, <1>2, <2>1 DEF Noted, StateType, EntryType
<1> HIDE DEF e
<1>4. /\ j.conn[s] = c /\ \A t \in Slots \ {s} : j.conn[t] = k.conn[t]
      /\ j.mgr[h] = e /\ \A g \in Hosts \ {h} : j.mgr[g] = k.mgr[g]
  BY <1>1, <1>3 DEF StateType
<1> HIDE DEF j
<1>5. /\ j.conn[s].id = k.conn[s].id /\ j.conn[s].peer = k.conn[s].peer
      /\ j.conn[s].neighbour = h /\ j.mgr[h].there
  BY <1>2, <1>4
<1>6. j \in StateType /\ j.highest = k.highest
  BY <1>3
<1>7. /\ \A t \in Slots \ {s} : j.conn[t] = k.conn[t]
      /\ \A g \in Hosts \ {h} : j.mgr[g] = k.mgr[g]
  BY <1>4
<1>8. Sane(j) /\ (Marked(k) /\ k.conn[s].peer.host = h /\ s \in Open(k) => Marked(j))
  BY <1>5, <1>6, <1>7, Relabelled
<1> QED BY <1>5, <1>7, <1>8 DEF j

LEMMA AcceptStep ==
  ASSUME IInv, NEW h \in Hosts, accept(h)
  PROVE  IInv'
<1> DEFINE s == Slot(Now)
           peer == [host |-> h, life |-> life[h]]
           k == newConnection(Now, peer)
<1>1. PICK S \in Sacrifices(k) :
        Becomes([closeConnections(k, S) EXCEPT !.conn[s].neighbour = h, !.conn[s].pending = FALSE,
                                               !.mgr[h].there = TRUE, !.mgr[h].direct = TRUE])
  BY DEF accept
<1>2. CanOpen(Now) /\ UNCHANGED <<known, life>>
  BY DEF accept
<1>3. peer \in PeerType /\ peer.host = h
  BY InvNow DEF PeerType
<1>4. /\ Sane(k) /\ (Marked(Now) => Marked(k)) /\ SameEntries(k, Now)
      /\ s \in Slots /\ s \in Open(k) /\ k.conn[s].peer = peer
  BY <1>2, <1>3, InvNow, NewConnectionKeeps, NewConnectionParts, SlotProperties
<1> HIDE DEF k, s, peer
<1>5. S \subseteq Open(k) /\ (~ Desperate => S = {})
  BY <1>1 DEF Sacrifices
<1> DEFINE c == closeConnections(k, S)
<1>6. Sane(c) /\ (Marked(k) => Marked(c)) /\ SameEntries(c, k)
  BY <1>4, <1>5, CloseConnectionsKeep
<1>7. S = {} => c = k
  BY DEF closeConnections
<1> HIDE DEF c
<1> DEFINE d == [c.conn[s] EXCEPT !.neighbour = h, !.pending = FALSE]
           j == Noted(c, s, h, d)
<1>8. c \in StateType /\ c.conn[s] \in ConnType /\ c.mgr[h] \in EntryType
  BY <1>4, <1>6 DEF Sane, StateType
<1>9. d \in ConnType /\ d.id = c.conn[s].id /\ d.neighbour = h /\ d.peer = c.conn[s].peer
  BY <1>8 DEF ConnType
<1>10. Becomes(j)
  <2> DEFINE n == [c EXCEPT !.conn[s].neighbour = h, !.conn[s].pending = FALSE,
                            !.mgr[h].there = TRUE, !.mgr[h].direct = TRUE]
  <2>1. Becomes(n)
    BY <1>1 DEF c
  <2>2. n.conn = [c.conn EXCEPT ![s] = d]
    BY <1>4, <1>8 DEF StateType
  <2>3. n.mgr = [c.mgr EXCEPT ![h].there = TRUE, ![h].direct = TRUE]
    BY <1>8 DEF StateType
  <2>4. n.highest = c.highest /\ n.nextId = c.nextId /\ n.autohost = c.autohost
    BY <1>8 DEF StateType
  <2>5. /\ j.conn = [c.conn EXCEPT ![s] = d]
        /\ j.mgr = [c.mgr EXCEPT ![h].there = TRUE, ![h].direct = TRUE]
        /\ j.highest = c.highest /\ j.nextId = c.nextId /\ j.autohost = c.autohost
    BY <1>8 DEF Noted, StateType
  <2> HIDE DEF n, j
  <2> QED BY <2>1, <2>2, <2>3, <2>4, <2>5 DEF Becomes
<1> HIDE DEF d
<1>11. /\ Sane(j)
       /\ Marked(c) /\ c.conn[s].peer.host = h /\ s \in Open(c) => Marked(j)
       /\ \A g \in Hosts : c.mgr[g].there \/ g = h => j.mgr[g].there
  BY <1>4, <1>6, <1>9, NotedKeeps
<1> HIDE DEF j
<1>12. ~ Moving /\ ~ Desperate => Marked(j)
  BY <1>3, <1>4, <1>5, <1>6, <1>7, <1>11, InvNow
<1>13. \A g \in Hosts : known'[g] # 0 => j.mgr[g].there
  BY <1>2, <1>4, <1>6, <1>11, InvNow DEF SameEntries
<1> QED BY <1>2, <1>10, <1>11, <1>12, <1>13, InvNow, BecomesKeeps

LEMMA RefuseStep ==
  ASSUME IInv, refuse
  PROVE  IInv'
<1> DEFINE s == Slot(Now)
           k == newConnection(Now, Nobody)
           f == freeConnections(k, {s})
<1>1. CanOpen(Now) /\ Becomes(f) /\ UNCHANGED <<known, life>>
  BY DEF refuse
<1>2. Nobody \in PeerType
  BY DEF Nobody, PeerType
<1>3. Sane(k) /\ (Marked(Now) => Marked(k)) /\ SameEntries(k, Now) /\ s \in Open(k)
  BY <1>1, <1>2, InvNow, NewConnectionKeeps, NewConnectionParts
<1> HIDE DEF k, s
<1>4. Sane(f) /\ (Marked(k) => Marked(f)) /\ SameEntries(f, k)
  BY <1>3, FreeConnectionsKeep
<1> HIDE DEF f
<1>5. \A g \in Hosts : known'[g] # 0 => f.mgr[g].there
  BY <1>1, <1>3, <1>4, InvNow DEF SameEntries
<1> QED BY <1>1, <1>3, <1>4, <1>5, InvNow, BecomesKeeps

LEMMA CloseStep ==
  ASSUME IInv, NEW s \in Slots, closeConnection(s)
  PROVE  IInv'
<1> DEFINE c == closeConnections(Now, {s})
<1>1. s \in Open(Now) /\ Becomes(c) /\ UNCHANGED <<known, life>>
  BY DEF closeConnection
<1>2. Sane(c) /\ (Marked(Now) => Marked(c)) /\ SameEntries(c, Now)
  BY <1>1, InvNow, CloseConnectionsKeep
<1> HIDE DEF c
<1>3. \A g \in Hosts : known'[g] # 0 => c.mgr[g].there
  BY <1>1, <1>2, InvNow DEF SameEntries
<1> QED BY <1>1, <1>2, <1>3, InvNow, BecomesKeeps

\* Host information: the host it is from has an entry when it is noted, a new one if it
\* was started again.
LEMMA HostInfoStep ==
  ASSUME IInv, NEW s \in Slots, NEW h \in Hosts, NEW m \in 1 .. MAX_LIVES,
         NEW near \in BOOLEAN, hook_hostInfo(s, h, m, near)
  PROVE  IInv'
<1> DEFINE reborn == known[h] \notin {0, m}
           stale == {i \in To(Now, h) : i # conn[s].id /\ conn[i].magic # m}
           c == IF reborn THEN closeConnections(Now, stale) ELSE Now
           k == IF reborn \/ ~ mgr[h].there THEN EntryMade(c, h) ELSE c
           told == near /\ s \in Open(k)
           n == [k EXCEPT !.conn[s].neighbour = h, !.conn[s].magic = m, !.mgr[h].direct = TRUE]
<1>1. /\ s \in Open(Now)
      /\ near => conn[s].peer = [host |-> h, life |-> m]
      /\ Becomes(IF told THEN n ELSE k)
      /\ known' = [known EXCEPT ![h] = m] /\ life' = life
  BY DEF hook_hostInfo
<1>2. m \in Nat
  BY ConnectionsAssumption
<1>3. known' \in [Hosts -> Nat] /\ \A g \in Hosts \ {h} : known'[g] = known[g]
  BY <1>1, <1>2, InvNow
<1>4. stale \subseteq Open(Now)
  BY DEF To
<1>5. Sane(c) /\ (Marked(Now) => Marked(c)) /\ SameEntries(c, Now)
  <2>1. Sane(Now) /\ SameEntries(Now, Now)
    BY InvNow DEF SameEntries
  <2>2. LET d == closeConnections(Now, stale)
        IN  Sane(d) /\ (Marked(Now) => Marked(d)) /\ SameEntries(d, Now)
    BY <1>4, <2>1, CloseConnectionsKeep
  <2> QED BY <2>1, <2>2
<1>6. s \in Open(c) => c.conn[s] = conn[s]
  <2> DEFINE d == closeConnections(Now, stale)
  <2>1. /\ \A t \in Slots \ stale : d.conn[t] = Now.conn[t]
        /\ Open(d) = Open(Now) \ stale
    BY <1>4, InvNow, CloseConnectionsParts
  <2>2. Now.conn = conn
    BY InvNow
  <2> HIDE DEF d, stale
  <2>3. s \in Open(d) => d.conn[s] = conn[s]
    BY <2>1, <2>2
  <2> QED BY <2>2, <2>3 DEF d
<1> HIDE DEF c, stale
<1>7. /\ Sane(k) /\ (Marked(Now) => Marked(k))
      /\ k.conn = c.conn
      /\ k.mgr[h].there
      /\ \A g \in Hosts \ {h} : k.mgr[g].there = mgr[g].there
  <2>1. CASE reborn \/ ~ mgr[h].there
    <3>1. LET e == EntryMade(c, h)
          IN  /\ Sane(e) /\ (Marked(c) => Marked(e)) /\ e.conn = c.conn
              /\ e.mgr[h].there /\ \A g \in Hosts \ {h} : e.mgr[g] = c.mgr[g]
      BY <1>5, EntryMadeKeeps
    <3> QED BY <1>5, <2>1, <3>1, InvNow DEF SameEntries
  <2>2. CASE ~ (reborn \/ ~ mgr[h].there)
    BY <1>5, <2>2, InvNow DEF SameEntries
  <2> QED BY <2>1, <2>2
<1>8. Open(k) = Open(c)
  BY <1>7 DEF Open
<1> HIDE DEF k, reborn
<1>9. \A g \in Hosts : known'[g] # 0 => k.mgr[g].there
  BY <1>3, <1>7, InvNow
<1>10. CASE ~ told
  BY <1>1, <1>3, <1>7, <1>9, <1>10, InvNow, BecomesKeeps
<1>11. CASE told
  <2> DEFINE d == [k.conn[s] EXCEPT !.neighbour = h, !.magic = m]
             j == Noted(k, s, h, d)
  <2>1. k \in StateType /\ k.conn[s] \in ConnType /\ k.mgr[h] \in EntryType
    BY <1>7 DEF Sane, StateType
  <2>2. d \in ConnType /\ d.id = k.conn[s].id /\ d.neighbour = h /\ d.peer = k.conn[s].peer
    BY <1>2, <2>1 DEF ConnType
  <2>3. s \in Open(k) /\ k.conn[s].peer.host = h
    BY <1>1, <1>6, <1>7, <1>8, <1>11
  <2>4. Becomes(j)
    <3>1. Becomes(n)
      BY <1>1, <1>11
    <3>2. n.conn = [k.conn EXCEPT ![s] = d]
      BY <2>1 DEF StateType
    <3>3. n.mgr = [k.mgr EXCEPT ![h].direct = TRUE]
      BY <2>1 DEF StateType
    <3>4. n.highest = k.highest /\ n.nextId = k.nextId /\ n.autohost = k.autohost
      BY <2>1 DEF StateType
    <3>5. /\ j.conn = [k.conn EXCEPT ![s] = d]
          /\ j.mgr = [k.mgr EXCEPT ![h].there = TRUE, ![h].direct = TRUE]
          /\ j.highest = k.highest /\ j.nextId = k.nextId /\ j.autohost = k.autohost
      BY <2>1 DEF Noted, StateType
    <3>6. [k.mgr EXCEPT ![h].there = TRUE, ![h].direct = TRUE] = [k.mgr EXCEPT ![h].direct = TRUE]
      BY <1>7, <2>1 DEF StateType, EntryType
    <3> HIDE DEF n, j
    <3> QED BY <3>1, <3>2, <3>3, <3>4, <3>5, <3>6 DEF Becomes
  <2> HIDE DEF d
  <2>5. /\ Sane(j)
        /\ Marked(k) /\ k.conn[s].peer.host = h /\ s \in Open(k) => Marked(j)
        /\ \A g \in Hosts : k.mgr[g].there \/ g = h => j.mgr[g].there
    BY <1>7, <2>2, NotedKeeps
  <2> HIDE DEF j
  <2>6. ~ Moving /\ ~ Desperate => Marked(j)
    BY <1>7, <2>3, <2>5, InvNow
  <2>7. \A g \in Hosts : known'[g] # 0 => j.mgr[g].there
    BY <1>9, <2>5
  <2> QED BY <1>1, <1>3, <2>4, <2>5, <2>6, <2>7, InvNow, BecomesKeeps
<1> QED BY <1>10, <1>11

LEMMA BroadcastStep ==
  ASSUME IInv, NEW h \in Hosts, NEW m \in 1 .. MAX_LIVES, handleBroadcastedHostInfo(h, m)
  PROVE  IInv'
<1> DEFINE k == [Now EXCEPT !.mgr[h].there = TRUE]
<1>1. /\ known' = [known EXCEPT ![h] = m] /\ mgr' = [mgr EXCEPT ![h].there = TRUE]
      /\ UNCHANGED <<conn, highest, nextId, autohost, life>>
  BY DEF handleBroadcastedHostInfo
<1>2. known' \in [Hosts -> Nat] /\ \A g \in Hosts \ {h} : known'[g] = known[g]
  <2>1. m \in Nat
    BY ConnectionsAssumption
  <2> QED BY <1>1, <2>1, InvNow
<1>3. Now \in StateType /\ mgr \in [Hosts -> EntryType] /\ mgr[h] \in EntryType
  BY InvNow DEF StateType
<1>4. /\ k \in StateType
      /\ k.conn = conn /\ k.highest = highest /\ k.nextId = nextId /\ k.autohost = autohost
      /\ k.mgr = [mgr EXCEPT ![h].there = TRUE]
  <2>1. k \in StateType
    BY <1>3 DEF StateType, EntryType
  <2> QED BY <2>1 DEF Now
<1>5. Becomes(k)
  BY <1>1, <1>4 DEF Becomes
<1>6. /\ k.mgr[h].there
      /\ \A g \in Hosts \ {h} : k.mgr[g] = mgr[g]
      /\ \A g \in Hosts : k.mgr[g].direct = mgr[g].direct
  <2>1. k.mgr = [mgr EXCEPT ![h] = [mgr[h] EXCEPT !.there = TRUE]]
    BY <1>4
  <2>2. /\ [mgr[h] EXCEPT !.there = TRUE].there
        /\ [mgr[h] EXCEPT !.there = TRUE].direct = mgr[h].direct
    BY <1>3 DEF EntryType
  <2>3. /\ k.mgr[h] = [mgr[h] EXCEPT !.there = TRUE]
        /\ \A g \in Hosts \ {h} : k.mgr[g] = mgr[g]
    BY <1>3, <2>1
  <2> QED BY <2>2, <2>3
<1>7. Now.conn = conn /\ Now.highest = highest /\ Now.mgr = mgr
  BY DEF Now
<1>8. Open(k) = Open(Now) /\ \A g \in Hosts : To(k, g) = To(Now, g)
  BY <1>4, <1>7 DEF Open, To
<1> HIDE DEF k
<1>9. Sane(k)
  <2>1. \A t \in Open(Now) : conn[t].neighbour \in Hosts \cup {None}
    BY <1>3, <1>7 DEF StateType, ConnType, Open
  <2> QED BY <1>4, <1>6, <1>7, <1>8, <2>1, InvNow DEF Sane, Covered, NeighboursManaged
<1>10. Marked(Now) => Marked(k)
  BY <1>4, <1>6, <1>7, <1>8 DEF Marked, NeighbourIsPeer, MarksBacked
<1>11. \A g \in Hosts : known'[g] # 0 => k.mgr[g].there
  BY <1>2, <1>6, InvNow
<1> QED BY <1>1, <1>2, <1>5, <1>9, <1>10, <1>11, InvNow, BecomesKeeps

\* A host is deleted with its entry and all connections to it.
LEMMA DeleteStep ==
  ASSUME IInv, NEW h \in Hosts, deleteHost(h)
  PROVE  IInv'
<1> DEFINE k == [Now EXCEPT !.mgr[h] = NoInfo]
           S == To(Now, h)
           c == closeConnections(k, S)
<1>1. known' = [known EXCEPT ![h] = 0] /\ Becomes(c) /\ life' = life
  BY DEF deleteHost
<1>2. /\ known' \in [Hosts -> Nat] /\ known'[h] = 0
      /\ \A g \in Hosts \ {h} : known'[g] = known[g]
  BY <1>1, InvNow
<1>3. NoInfo \in EntryType /\ ~ NoInfo.direct
  BY DEF NoInfo, EntryType
<1>4. /\ k \in StateType
      /\ k.conn = Now.conn /\ k.highest = Now.highest /\ k.mgr = [Now.mgr EXCEPT ![h] = NoInfo]
  BY <1>3, InvNow DEF StateType
<1>5. k.mgr[h] = NoInfo /\ \A g \in Hosts \ {h} : k.mgr[g] = Now.mgr[g]
  BY <1>4, InvNow DEF StateType
<1>6. Open(k) = Open(Now) /\ \A g \in Hosts : To(k, g) = To(Now, g)
  BY <1>4 DEF Open, To
<1>7. Covered(k)
  BY <1>4, <1>6, InvNow DEF Sane, Covered
<1>8. S \subseteq Open(k)
  BY <1>6 DEF To
<1> HIDE DEF k, S
<1>9. /\ c \in StateType
      /\ \A t \in Slots \ S : c.conn[t] = k.conn[t]
      /\ Open(c) = Open(k) \ S
      /\ Covered(c)
      /\ \A g \in Hosts :
           /\ c.mgr[g].there = k.mgr[g].there
           /\ c.mgr[g].direct => k.mgr[g].direct /\ (To(k, g) # {} => To(c, g) # {})
  BY <1>4, <1>7, <1>8, CloseConnectionsParts
<1> HIDE DEF c
<1>10. ASSUME NEW t \in Open(c)
       PROVE  t \in Open(Now) /\ c.conn[t] = Now.conn[t] /\ c.conn[t].neighbour # h
  <2>1. t \in Slots \ S /\ t \in Open(Now)
    BY <1>6, <1>9 DEF Open
  <2>2. c.conn[t] = Now.conn[t]
    BY <1>4, <1>9, <2>1
  <2>3. Now.conn[t].neighbour # h
    BY <2>1 DEF S, To
  <2> QED BY <2>1, <2>2, <2>3
<1>11. NeighboursManaged(c)
  <2>1. \A t \in Open(Now) : Now.conn[t].neighbour \in Hosts \cup {None}
    BY InvNow DEF StateType, ConnType, Open
  <2> QED BY <1>5, <1>9, <1>10, <2>1, InvNow DEF Sane, NeighboursManaged
<1>12. ASSUME Marked(Now) PROVE Marked(c)
  <2>1. NeighbourIsPeer(c)
    BY <1>10, <1>12 DEF Marked, NeighbourIsPeer
  <2>2. MarksBacked(c)
    BY <1>3, <1>5, <1>6, <1>9, <1>12 DEF Marked, MarksBacked
  <2> QED BY <2>1, <2>2 DEF Marked
<1>13. \A g \in Hosts : known'[g] # 0 => c.mgr[g].there
  BY <1>2, <1>5, <1>9, InvNow
<1>14. Sane(c)
  BY <1>9, <1>11 DEF Sane
<1> QED BY <1>1, <1>2, <1>12, <1>13, <1>14, InvNow, BecomesKeeps

LEMMA ConnectClusterStep ==
  ASSUME IInv, NEW h \in Hosts, periodic_connectCluster(h)
  PROVE  IInv'
<1>1. PICK k \in connectToGivenHostInfo(Now, h) : Becomes(k)
  BY DEF periodic_connectCluster
<1>2. UNCHANGED <<known, life>> /\ Now.mgr[h].there
  BY InvNow DEF periodic_connectCluster
<1>3. Sane(k) /\ (~ Moving /\ Marked(Now) => Marked(k)) /\ SameEntries(k, Now)
  BY <1>2, InvNow, ConnectToGivenKeeps DEF IInv
<1>4. \A g \in Hosts : known'[g] # 0 => k.mgr[g].there
  BY <1>2, <1>3, InvNow DEF SameEntries
<1> QED BY <1>1, <1>2, <1>3, <1>4, InvNow, BecomesKeeps

\* The connection manager closes, opens and closes.
LEMMA ConnectionManagerStep ==
  ASSUME IInv, periodic_connectionManager
  PROVE  IInv'
<1>0. UNCHANGED <<known, life>>
  BY DEF periodic_connectionManager
<1>1. PICK Q \in SUBSET Open(Now) :
        LET alive == closeConnections(Now, Q) IN
        \E R \in Redundant(alive) :
          LET kept == closeConnections(alive, R) IN
          \E k \in {kept} \cup UNION {connectToGivenHostInfo(kept, h) : h \in Candidates(kept)} :
            \E S \in TooMany(k) : Becomes(closeConnections(k, S))
  BY DEF periodic_connectionManager
<1> DEFINE alive == closeConnections(Now, Q)
<1>2. PICK R \in Redundant(alive) :
        LET kept == closeConnections(alive, R) IN
        \E k \in {kept} \cup UNION {connectToGivenHostInfo(kept, h) : h \in Candidates(kept)} :
          \E S \in TooMany(k) : Becomes(closeConnections(k, S))
  BY <1>1
<1> DEFINE kept == closeConnections(alive, R)
<1>3. PICK k \in {kept} \cup UNION {connectToGivenHostInfo(kept, h) : h \in Candidates(kept)} :
        \E S \in TooMany(k) : Becomes(closeConnections(k, S))
  BY <1>2
<1>4. PICK S \in TooMany(k) : Becomes(closeConnections(k, S))
  BY <1>3
<1>5. Sane(alive) /\ (Marked(Now) => Marked(alive)) /\ SameEntries(alive, Now)
  BY InvNow, CloseConnectionsKeep
<1> HIDE DEF alive
<1>6. R \subseteq Open(alive)
  BY DEF Redundant
<1>7. Sane(kept) /\ (Marked(alive) => Marked(kept)) /\ SameEntries(kept, alive)
  BY <1>5, <1>6, CloseConnectionsKeep
<1> HIDE DEF kept
<1>8. Sane(k) /\ (~ Moving /\ Marked(kept) => Marked(k)) /\ SameEntries(k, kept)
  <2>1. CASE k = kept
    BY <1>7, <2>1 DEF SameEntries
  <2>2. CASE k # kept
    <3>1. PICK h \in Candidates(kept) : k \in connectToGivenHostInfo(kept, h)
      BY <1>3, <2>2
    <3>2. h \in Hosts /\ kept.mgr[h].there
      BY DEF Candidates
    <3> QED BY <1>7, <3>1, <3>2, ConnectToGivenKeeps DEF IInv
  <2> QED BY <2>1, <2>2
<1> DEFINE c == closeConnections(k, S)
<1>9. S \subseteq Open(k)
  BY DEF TooMany
<1>10. Sane(c) /\ (Marked(k) => Marked(c)) /\ SameEntries(c, k)
  BY <1>8, <1>9, CloseConnectionsKeep
<1>11. Becomes(c)
  BY <1>4
<1> HIDE DEF c
<1>12. ~ Moving /\ ~ Desperate => Marked(c)
  BY <1>5, <1>7, <1>8, <1>10, InvNow
<1>13. \A g \in Hosts : known'[g] # 0 => c.mgr[g].there
  BY <1>0, <1>5, <1>7, <1>8, <1>10, InvNow DEF SameEntries
<1> QED BY <1>0, <1>10, <1>11, <1>12, <1>13, InvNow, BecomesKeeps

----------------------------------------------------------------------------
(* The invariant *)

LEMMA InvInit == Init => IInv
<1> SUFFICES ASSUME Init PROVE IInv
  OBVIOUS
<1>1. /\ conn \in [Slots -> ConnType] /\ \A s \in Slots : conn[s].id = None
      /\ \A h \in Hosts : ~ mgr[h].direct
      /\ mgr \in [Hosts -> EntryType]
  BY DEF Init, ConnType, PeerType, EntryType, None, Nobody, NoInfo
<1>2. highest \in Int /\ nextId \in Nat /\ autohost \in [Autohosts -> Int]
  BY DEF Init, NotConnected
<1>3. known \in [Hosts -> Nat] /\ life \in [Hosts -> Nat] /\ \A h \in Hosts : known[h] = 0
  BY DEF Init
<1>4. Now \in StateType /\ Now.conn = conn /\ Now.mgr = mgr
  BY <1>1, <1>2 DEF Now, StateType
<1>5. Open(Now) = {}
  BY <1>1, <1>4 DEF Open
<1>6. Sane(Now) /\ Marked(Now)
  BY <1>1, <1>4, <1>5 DEF Sane, Covered, NeighboursManaged, Marked, NeighbourIsPeer, MarksBacked
<1> QED BY <1>3, <1>4, <1>6 DEF IInv, TypeOK, KnownManaged

\* Every step keeps it.
LEMMA InvStep == IInv /\ [Next]_vars => IInv'
<1> SUFFICES ASSUME IInv, [Next]_vars PROVE IInv'
  OBVIOUS
<1>1. ASSUME NEW h \in Hosts, restart(h) PROVE IInv'
  <2>1. UNCHANGED <<conn, highest, nextId, mgr, autohost, known>>
    BY <1>1 DEF restart
  <2>2. Becomes(Now)
    BY <2>1 DEF Becomes, Now
  <2>3. life' \in [Hosts -> Nat]
    BY <1>1, InvNow DEF restart
  <2> QED BY <2>1, <2>2, <2>3, InvNow, BecomesKeeps
<1>2. CASE UNCHANGED vars
  <2>1. Becomes(Now) /\ UNCHANGED <<known, life>>
    BY <1>2 DEF Becomes, Now, vars
  <2> QED BY <2>1, InvNow, BecomesKeeps
<1> QED BY <1>1, <1>2, AutoConnectStep, AcceptStep, RefuseStep, CloseStep, HostInfoStep,
          BroadcastStep, DeleteStep, ConnectClusterStep, ConnectionManagerStep DEF Next

\* It holds in every state.
LEMMA InvAlways == Spec => []IInv
BY InvInit, InvStep, PTL DEF Spec

\* No open connection lies beyond highestConnection, up to which the loops of p2p.c and
\* linklayer.c go, whatever the number of structures: also where peis move and where
\* connections are sacrificed.
THEOREM HighestAlwaysCovers == Spec => []HighestCovers
<1>1. IInv => HighestCovers
  BY DEF IInv, Sane, Covered, HighestCovers, Now
<1> QED BY <1>1, InvAlways, PTL

\* Every known host and every neighbour has an entry of the connection manager, so that
\* the pointer periodic_connectionManager follows unseen is never NULL.
THEOREM HostsAlwaysManaged == Spec => []HostsManaged
<1>1. IInv => HostsManaged
  BY DEF IInv, Sane, KnownManaged, NeighboursManaged, HostsManaged, Now
<1> QED BY <1>1, InvAlways, PTL

\* As long as no peis is found at the address of another, and none connects for bandwidth
\* beyond the limit, a host that is marked as directly connected has a connection: then
\* the neighbour that is noted for a connection is who it is, so that no connection is
\* taken from a host that is marked.
THEOREM MarkedAlwaysConnected ==
  ASSUME ~ Moving, ~ Desperate
  PROVE  Spec => []DirectIsConnected
<1>1. IInv => DirectIsConnected
  BY DEF IInv, Marked, MarksBacked, DirectIsConnected, Now
<1> QED BY <1>1, InvAlways, PTL
=============================================================================
