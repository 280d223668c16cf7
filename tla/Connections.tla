---------------------------- MODULE Connections ----------------------------
(***************************************************************************)
(* The connections of one peis over TCP, what it notes of the hosts it     *)
(* knows, and who opens and closes them: incoming connections, the         *)
(* autohosts (linklayer.c, peisk_step), the connection manager and         *)
(* peisk_periodic_connectCluster (p2p.c), host information that tells of a *)
(* restart (services.c), and links that fail.                              *)
(***************************************************************************)
EXTENDS Integers, FiniteSets, FiniteSetsExt

CONSTANTS
  Hosts,        \* the other peis
  Autohosts,    \* hosts given with --peis-connect
  MAX_CONNECTIONS,
  MAX_AUTO,     \* PEISK_MAX_AUTO_CONNECTIONS
  MAX_FORCED,   \* PEISK_MAX_FORCED_AUTO_CONNECTIONS
  MAX_ID,       \* connections opened
  MAX_LIVES,    \* incarnations of a host
  Moving,       \* may a peis be found at the address of another
  Desperate     \* does a host connect for bandwidth when there are MAX_FORCED connections

Slots == 0 .. MAX_CONNECTIONS - 1
None == -1
NotConnected == -1

ASSUME ConnectionsAssumption ==
  /\ None \notin Hosts
  /\ MAX_CONNECTIONS \in Nat \ {0} /\ MAX_AUTO \in Nat /\ MAX_FORCED \in Nat
  /\ MAX_ID \in Nat /\ MAX_LIVES \in Nat \ {0}
  /\ Moving \in BOOLEAN /\ Desperate \in BOOLEAN

VARIABLES
  conn,      \* the connection structures
  highest,   \* highestConnection
  nextId,    \* nextConnectionId
  mgr,       \* connectionMgrInfoHT: is there an entry, and its directlyConnected
  autohost,  \* isConnected of each autohost
  known,     \* hostInfoHT: the magic number of each host, 0 if it is not known
  life       \* the incarnation of each host, which is its magic number

vars == <<conn, highest, nextId, mgr, autohost, known, life>>

NoInfo == [there |-> FALSE, direct |-> FALSE]
Fresh == [there |-> TRUE, direct |-> FALSE]
Nobody == [host |-> None, life |-> 0]

Init ==
  /\ conn = [s \in Slots |-> [id |-> None, neighbour |-> None, magic |-> 0,
                              pending |-> FALSE, peer |-> Nobody]]
  /\ highest = 0 /\ nextId = 1
  /\ mgr = [h \in Hosts |-> NoInfo]
  /\ autohost = [a \in Autohosts |-> NotConnected]
  /\ known = [h \in Hosts |-> 0]
  /\ life = [h \in Hosts |-> 1]

----------------------------------------------------------------------------
(* What the functions of the link layer do to the state, as functions of it:  *)
(* a handler may call several of them.                                        *)

Now == [conn |-> conn, highest |-> highest, nextId |-> nextId, mgr |-> mgr, autohost |-> autohost]
Becomes(k) ==
  /\ conn' = k.conn /\ highest' = k.highest /\ nextId' = k.nextId
  /\ mgr' = k.mgr /\ autohost' = k.autohost

Open(k) == {s \in Slots : k.conn[s].id # None}
To(k, h) == {s \in Open(k) : k.conn[s].neighbour = h}

\* peisk_newConnection takes the first free structure; in it the neighbour's id is reset,
\* and its magic number is that of the last neighbour.
Slot(k) == Min(Slots \ Open(k))
CanOpen(k) == Open(k) # Slots /\ k.nextId <= MAX_ID
newConnection(k, peer) ==
  LET s == Slot(k) IN
  [k EXCEPT !.conn[s] = [id |-> k.nextId, neighbour |-> None, magic |-> k.conn[s].magic,
                         pending |-> TRUE, peer |-> peer],
            !.nextId = k.nextId + 1,
            !.highest = IF s >= k.highest THEN s + 1 ELSE k.highest]

Freed(c) == [c EXCEPT !.id = None, !.neighbour = None, !.pending = FALSE, !.peer = Nobody]

\* Seeded fault: the mark is kept though the last connection to the host is closed.
freeKeepingMarks(k, S) ==
  [k EXCEPT !.conn = [s \in Slots |-> IF s \in S THEN Freed(k.conn[s]) ELSE k.conn[s]]]

\* peisk_freeConnection, for each of S: a host stays marked as directly connected while
\* another connection to it is left.
freeConnections(k, S) ==
  [k EXCEPT
     !.conn = [s \in Slots |-> IF s \in S THEN Freed(k.conn[s]) ELSE k.conn[s]],
     !.mgr = [h \in Hosts |->
                IF To(k, h) # {} /\ To(k, h) \subseteq S
                THEN [k.mgr[h] EXCEPT !.direct = FALSE] ELSE k.mgr[h]]]

\* Seeded fault: highestConnection is set to the number of connections less one.
closeCounting(k, S) ==
  LET f == freeConnections(k, S) IN
  IF S = {} THEN k
  ELSE [f EXCEPT
          !.highest = IF Open(f) = {} THEN 0 ELSE Cardinality(Open(f)) - 1,
          !.autohost = [a \in Autohosts |->
                          IF k.autohost[a] \in {k.conn[s].id : s \in S}
                          THEN NotConnected ELSE k.autohost[a]]]

\* peisk_closeConnection, for each of S
closeConnections(k, S) ==
  LET f == freeConnections(k, S) IN
  IF S = {} THEN k
  ELSE [f EXCEPT
          !.highest = IF Open(f) = {} THEN 0 ELSE Max(Open(f)),
          !.autohost = [a \in Autohosts |->
                          IF k.autohost[a] \in {k.conn[s].id : s \in S}
                          THEN NotConnected ELSE k.autohost[a]]]

\* peisk_tcpConnect returns NULL before it takes a structure, or after, when it leaves it
\* behind.  (Where all structures are in use it goes on with none and fails.)
tcpConnectFailed(k) == {k} \cup IF CanOpen(k) THEN {newConnection(k, Nobody)} ELSE {}

\* Or it returns a connection to h.
tcpConnected(k, h) ==
  IF CanOpen(k)
  THEN {[newConnection(k, [host |-> h, life |-> life[h]]) EXCEPT !.conn[Slot(k)].pending = FALSE]}
  ELSE {}

\* peisk_connectToGivenHostInfo: the neighbour is taken to be whose address it was.
connectToGivenHostInfo(k, h) ==
  LET named(j) == [j EXCEPT !.conn[Slot(k)].neighbour = h, !.conn[Slot(k)].magic = known[h]] IN
  tcpConnectFailed(k) \cup
    UNION {{named(j) : j \in tcpConnected(k, g)} : g \in IF Moving THEN Hosts ELSE {h}}

----------------------------------------------------------------------------
(* Connections that are opened and closed *)

\* peisk_step: the mark is whether the attempt succeeded, not the id of the connection.
autoConnect(a) ==
  /\ autohost[a] = NotConnected
  /\ \/ \E k \in tcpConnectFailed(Now) : Becomes([k EXCEPT !.autohost[a] = 0])
     \/ \E h \in Hosts : \E k \in tcpConnected(Now, h) : Becomes([k EXCEPT !.autohost[a] = 1])
  /\ UNCHANGED <<known, life>>

\* peisk_verifyConnectMessage: when there are too many connections one may be closed; the
\* structure just taken is one of them.
Sacrifices(k) ==
  {{}} \cup IF Desperate /\ Cardinality(Open(k)) + 1 > MAX_FORCED
            THEN {{s} : s \in Open(k)} ELSE {}

\* peisk_acceptTCPConnections, peisk_incommingConnectFinished
accept(h) ==
  /\ CanOpen(Now)
  /\ LET s == Slot(Now)
         k == newConnection(Now, [host |-> h, life |-> life[h]])
     IN
     \E S \in Sacrifices(k) :
       Becomes([closeConnections(k, S) EXCEPT !.conn[s].neighbour = h, !.conn[s].pending = FALSE,
                                              !.mgr[h].there = TRUE, !.mgr[h].direct = TRUE])
  /\ UNCHANGED <<known, life>>

\* An incoming connection that is refused.
refuse ==
  /\ CanOpen(Now)
  /\ Becomes(freeConnections(newConnection(Now, Nobody), {Slot(Now)}))
  /\ UNCHANGED <<known, life>>

\* A link fails, or the other end closes it.
closeConnection(s) ==
  /\ s \in Open(Now) /\ ~ conn[s].pending
  /\ Becomes(closeConnections(Now, {s}))
  /\ UNCHANGED <<known, life>>

----------------------------------------------------------------------------
(* Hosts *)

\* Seeded fault: a host that is deleted keeps no entry of the connection manager, and gets none.
EntryForgotten(k, h) == [k EXCEPT !.mgr[h] = NoInfo]

\* The entry of a host in the connection manager is made, or made again.
EntryMade(k, h) == [k EXCEPT !.mgr[h] = Fresh]

\* Information on h comes over s, from h itself or from another host.  If h was known with
\* another magic number, connections left from before are closed (the index of each is
\* compared with the id of the one the information came over) and h is deleted.
hook_hostInfo(s, h, m, near) ==
  LET reborn == known[h] \notin {0, m}
      stale == {j \in To(Now, h) : j # conn[s].id /\ conn[j].magic # m}
      c == IF reborn THEN closeConnections(Now, stale) ELSE Now
      k == IF reborn \/ ~ mgr[h].there THEN EntryMade(c, h) ELSE c
  IN
  /\ s \in Open(Now) /\ ~ conn[s].pending
  /\ near => conn[s].peer = [host |-> h, life |-> m]
  /\ Becomes(IF near /\ s \in Open(k)
             THEN [k EXCEPT !.conn[s].neighbour = h, !.conn[s].magic = m, !.mgr[h].direct = TRUE]
             ELSE k)
  /\ known' = [known EXCEPT ![h] = m]
  /\ UNCHANGED life

\* peisk_handleBroadcastedHostInfo: a multicast of a host that is not known.
handleBroadcastedHostInfo(h, m) ==
  /\ known[h] = 0
  /\ known' = [known EXCEPT ![h] = m]
  /\ mgr' = [mgr EXCEPT ![h].there = TRUE]
  /\ UNCHANGED <<conn, highest, nextId, autohost, life>>

\* peisk_deleteHost
deleteHost(h) ==
  /\ known[h] # 0 \/ mgr[h].there
  /\ known' = [known EXCEPT ![h] = 0]
  /\ Becomes(closeConnections([Now EXCEPT !.mgr[h] = NoInfo], To(Now, h)))
  /\ UNCHANGED life

----------------------------------------------------------------------------
(* Periodic functions *)

\* A host in another cluster to which there is no route is connected to, unless it is
\* connected or marked as connected.
periodic_connectCluster(h) ==
  /\ known[h] # 0 /\ mgr[h].there
  /\ \A s \in To(Now, h) : s > highest
  /\ ~ mgr[h].direct
  /\ \E k \in connectToGivenHostInfo(Now, h) : Becomes(k)
  /\ UNCHANGED <<known, life>>

\* By chance all but one of the connections to a host are closed.
Redundant(k) ==
  {R \in SUBSET Open(k) :
     \A s \in R : k.conn[s].neighbour # None /\ To(k, k.conn[s].neighbour) \ R # {}}

\* Hosts it may connect to: those are passed over of which the first connection is not the
\* highest, the ones without a connection too (p2p.c:1755).
Candidates(k) ==
  {h \in Hosts : /\ known[h] # 0 /\ k.mgr[h].there /\ ~ k.mgr[h].direct
                 /\ To(k, h) # {} /\ Min(To(k, h)) = k.highest}

\* If there are too many connections the worst is closed, unless all are of use.
TooMany(k) ==
  LET n == Cardinality(Open(k)) IN
  IF n <= MAX_AUTO THEN {{}}
  ELSE {{s} : s \in Open(k)} \cup IF n < MAX_FORCED THEN {{}} ELSE {}

\* Connections over which nothing came for 30 s are closed, and what is redundant;
\* perhaps one connection is opened, and one too many is closed.
periodic_connectionManager ==
  /\ \E Q \in SUBSET Open(Now) :
       LET alive == closeConnections(Now, Q) IN
       \E R \in Redundant(alive) :
         LET kept == closeConnections(alive, R) IN
         \E k \in {kept} \cup UNION {connectToGivenHostInfo(kept, h) : h \in Candidates(kept)} :
           \E S \in TooMany(k) : Becomes(closeConnections(k, S))
  /\ UNCHANGED <<known, life>>

----------------------------------------------------------------------------
\* Another peis is started again.
restart(h) ==
  /\ life[h] < MAX_LIVES
  /\ life' = [life EXCEPT ![h] = life[h] + 1]
  /\ UNCHANGED <<conn, highest, nextId, mgr, autohost, known>>

Next ==
  \/ \E a \in Autohosts : autoConnect(a)
  \/ \E h \in Hosts : accept(h) \/ deleteHost(h) \/ periodic_connectCluster(h) \/ restart(h)
  \/ \E h \in Hosts, m \in 1 .. MAX_LIVES :
       /\ m <= life[h]
       /\ \/ handleBroadcastedHostInfo(h, m)
          \/ \E s \in Slots, near \in BOOLEAN : hook_hostInfo(s, h, m, near)
  \/ \E s \in Slots : closeConnection(s)
  \/ refuse
  \/ periodic_connectionManager

Spec == Init /\ [][Next]_vars

----------------------------------------------------------------------------
(* Properties *)

\* A host that is marked as directly connected has a connection (p2p.h:526), whatever is
\* opened, closed, deleted and reborn in between: connectCluster passes over hosts that
\* are marked, so a mark that stays keeps two clusters apart for ever.
DirectIsConnected == \A h \in Hosts : mgr[h].direct => To(Now, h) # {}

\* No open connection lies beyond highestConnection, up to which most loops go, though
\* closing sets it to the highest index and opening to one more.
HighestCovers == \A s \in Open(Now) : s <= highest

\* Every host that is known, and every neighbour, has an entry of the connection manager,
\* which goes through the known hosts and follows the pointer it found unseen (p2p.c:1733).
HostsManaged ==
  /\ \A h \in Hosts : known[h] # 0 => mgr[h].there
  /\ \A s \in Open(Now) : conn[s].neighbour # None => mgr[conn[s].neighbour].there

\* The mark of an autohost is the id of its current connection (services.h:101), so that it
\* is tried again when that one closes: contradicted, as peisk_step marks an attempt that
\* succeeded with 1.
MarkNamesConnection ==
  \A a \in Autohosts : autohost[a] > 0 => \E s \in Slots : conn[s].id = autohost[a]
=============================================================================
