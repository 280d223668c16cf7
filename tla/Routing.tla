------------------------------ MODULE Routing ------------------------------
(***************************************************************************)
(* Routing between peis (services.c, p2p.c).  Each peis keeps a global     *)
(* routing table and, for each connection, the table its neighbour sent    *)
(* last.  It numbers its own entry, sends its table to its neighbours, and *)
(* merges what it receives by sequence number minus metric.  Routes whose  *)
(* connection closes or no longer offers them are rescued through another  *)
(* connection, or lost, aged and deleted.                                  *)
(*                                                                         *)
(* The state of a peis is a record; an operator in lower case maps it to   *)
(* the state after the function of that name.                              *)
(***************************************************************************)
EXTENDS Integers, Sequences, FiniteSets, FiniteSetsExt

CONSTANTS
  Peis,            \* ids of the peis
  Links,           \* the pairs of peis that can connect
  METRIC_COST,     \* metricCost of a connection
  METRIC_GIVEUP,   \* PEISK_METRIC_GIVEUP
  DELETED,         \* the hops at which a lost route is deleted (254)
  MaxSeq,          \* bound, for each peis: sequence numbers it gives itself
  MaxQueue,        \* bound: routing packages under way on a connection
  HostInfos,       \* bound: <<p, d>> if queried host information of d reaches p
  Restarting,      \* bound: the peis that may restart ...
  MaxRestarts      \* ... and how often

LOST == 250        \* hops of a route just lost
OUTDATED == 255    \* hops of a route its neighbour no longer offers
NoConn == -1

ASSUME RoutingAssumption ==
  /\ Peis \subseteq Nat \ {0} /\ IsFiniteSet(Peis)
  /\ Links \subseteq {{p, n} : p, n \in Peis}
  /\ METRIC_COST \in Nat \ {0} /\ METRIC_GIVEUP \in 1 .. LOST
  /\ DELETED \in LOST + 1 .. OUTDATED - 1
  /\ MaxSeq \in [Peis -> Nat] /\ MaxQueue \in Nat /\ MaxRestarts \in Nat
  /\ HostInfos \subseteq Peis \X Peis /\ Restarting \subseteq Peis

VARIABLES
  node,     \* the state of each peis
  deadMail  \* DEAD_HOST messages under way, <<sender, destination>>

vars == <<node, deadMail>>

Empty == [d \in {} |-> {}]

\* A peis that has just started, for the m-th time.
Booted(p, m) ==
  [route   |-> Empty,                        \* peiskernel.routingTable
   table   |-> [n \in Peis |-> Empty],       \* connection->routingTable
   link    |-> [n \in Peis |-> "closed"],    \* its end of the connection
   out     |-> [n \in Peis |-> <<>>],        \* routing packages sent to n
   known   |-> Empty,                        \* magic numbers in hostInfoHT
   cluster |-> p,                            \* hostInfo.networkCluster
   magic   |-> m]                            \* magicId

Init ==
  /\ node = [p \in Peis |-> Booted(p, 0)]
  /\ deadMail = {}

----------------------------------------------------------------------------
Value(r) == r.seq - r.hops
Without(f, D) == [d \in DOMAIN f \ D |-> f[d]]

\* An end of a connection is "offered" until the other side accepts it and
\* "unnamed" until the host information of the other side is received.
Neighbours(s) == {n \in Peis : s.link[n] # "closed"}

\* Those of N that will read what p sends: the others have closed their end.
Reached(p, N) ==
  {n \in N : node[p].link[n] \in {"closed", "offered"} \/ node[n].link[p] # "closed"}

\* What remains in the table of a connection that closes: every reader of the
\* table finds these entries worse than a lost route.
Outdated(t) == [d \in DOMAIN t |-> [t[d] EXCEPT !.seq = 0, !.hops = OUTDATED]]

\* Seeded fault: the cluster does not change when its peis is deleted.
ClusterOnlyFalls(s, p) ==
  [s EXCEPT !.cluster =
     Min({p, s.cluster} \cup {d \in DOMAIN s.route : s.route[d].hops < 254})]

\* peisk_checkClusters
checkClusters(s, p) ==
  [s EXCEPT !.cluster =
     Min({p} \cup {d \in DOMAIN s.route : s.route[d].hops < 254})]

\* peisk_do_routing up to its ageing: number the own entry, send the table.
do_routing(s, p, N) ==
  LET own == [seq   |-> IF p \in DOMAIN s.route THEN s.route[p].seq + 1 ELSE 0,
              hops  |-> 0, via |-> NoConn, magic |-> s.magic]
      route == [d \in DOMAIN s.route \cup {p} |-> IF d = p THEN own ELSE s.route[d]]
      package == [d \in DOMAIN route |->
                    [seq |-> route[d].seq, hops |-> route[d].hops, magic |-> route[d].magic]]
  IN  [s EXCEPT !.route = route,
                !.out = [n \in Peis |-> IF n \in Reached(p, N) THEN Append(@[n], package)
                                        ELSE @[n]]]

----------------------------------------------------------------------------
(* Losing routes *)

\* Seeded fault: no other connection is looked at.
NotRescued(s, d, r) == [r EXCEPT !.hops = LOST, !.via = NoConn]

\* Seeded fault: the rescued route is numbered so as to be taken by the others.
RescuedAsNewer(s, d, r) == [r EXCEPT !.hops = LOST, !.via = NoConn, !.seq = @ + 1]

\* The route r to d after its connection is gone: the best that the tables of
\* the other connections offer, if it beats a lost route.
Rescued(s, d, r) ==
  LET offers == {n \in Neighbours(s) :
                   d \in DOMAIN s.table[n] /\ Value(s.table[n][d]) > r.seq - LOST}
      best == CHOOSE n \in offers :
                \A m \in offers : Value(s.table[n][d]) >= Value(s.table[m][d])
      t == s.table[best][d]
  IN  IF offers = {} THEN [r EXCEPT !.hops = LOST, !.via = NoConn]
      ELSE [seq |-> t.seq, hops |-> t.hops, via |-> best, magic |-> t.magic]

\* peisk_closeConnection: routes through n are rescued or lost, then the
\* table is sent.  Routing packages still on their way are lost.  The table of
\* the connection stays, outdated, and is there when it opens again.
closeConnection(s, p, n) ==
  LET t == [s EXCEPT !.link[n] = "closed", !.out[n] = <<>>]
      through == {d \in DOMAIN s.table[n] : d \in DOMAIN s.route /\ s.route[d].via = n}
      r == [t EXCEPT !.table[n] = Outdated(@),
                     !.route = [d \in DOMAIN @ |-> IF d \in through THEN Rescued(t, d, @[d])
                                                   ELSE @[d]]]
  IN  do_routing(r, p, Neighbours(r))

\* peisk_deleteHost: everything known of d goes, and unless it was merely
\* reborn the direct connection to it.
\* Seeded fault: the tables of the connections are forgotten.
forgetRoute(s, d) == [s EXCEPT !.route = Without(@, {d}), !.known = Without(@, {d})]
forget(s, d) ==
  [s EXCEPT !.route = Without(@, {d}),
            !.table = [n \in Peis |-> IF n \in Neighbours(s) THEN Without(@[n], {d})
                                      ELSE @[n]],
            !.known = Without(@, {d})]
deleteHost(s, p, d) ==
  IF s.link[d] = "open" THEN closeConnection(forget(s, d), p, d) ELSE forget(s, d)

----------------------------------------------------------------------------
(* Merging what a neighbour sent: peisk_decodeRoutingPages *)

\* Seeded fault: the metric may reach METRIC_GIVEUP.
MetricTooFar(hops) ==
  IF hops >= LOST \/ hops + METRIC_COST > METRIC_GIVEUP THEN OUTDATED
  ELSE hops + METRIC_COST

Metric(hops) ==
  IF hops >= LOST \/ hops + METRIC_COST >= METRIC_GIVEUP THEN OUTDATED
  ELSE hops + METRIC_COST

Offered(T) == {d \in DOMAIN T : Metric(T[d].hops) < LOST}

\* The table of the connection: what is offered, and new enough.
NewTable(old, T) ==
  [d \in {d \in Offered(T) :
            d \in DOMAIN old => T[d].seq - Metric(T[d].hops) >= old[d].seq - OUTDATED} |->
     [seq |-> T[d].seq, hops |-> Metric(T[d].hops),
      magic |-> IF d \in DOMAIN old THEN old[d].magic ELSE T[d].magic]]

\* The connection the main route to d names when the offer is compared: where
\* the magic number is not the known one, a host query was sent through n, and
\* a route that named no connection is left naming this one.
Via(s, p, n, T, d) ==
  IF /\ d \in DOMAIN T /\ d # p /\ d \in DOMAIN s.known /\ s.known[d] # T[d].magic
     /\ s.route[d].via = NoConn
  THEN n ELSE s.route[d].via

\* Seeded faults: a route through n is not worsened; the better sequence number
\* wins whatever the hops.
MergedIf(s, n, T, better(_, _)) ==
  LET offer(d) == [seq |-> T[d].seq, hops |-> Metric(T[d].hops), via |-> n,
                   magic |-> T[d].magic]
  IN  [d \in DOMAIN s.route \cup Offered(T) |->
         IF d \in Offered(T) /\ (d \in DOMAIN s.route => better(offer(d), s.route[d]))
         THEN offer(d) ELSE s.route[d]]
MergedIfBetter(s, p, n, T) == MergedIf(s, n, T, LAMBDA o, r : Value(o) > Value(r))
MergedBySeq(s, p, n, T) == MergedIf(s, n, T, LAMBDA o, r : r.via = n \/ o.seq >= r.seq)

\* The main table: a route through n follows n, others change for a better one.
Merged(s, p, n, T) ==
  LET offer(d) == [seq |-> T[d].seq, hops |-> Metric(T[d].hops), via |-> n,
                   magic |-> T[d].magic]
      taken(d) == /\ d \in Offered(T)
                  /\ d \in DOMAIN s.route =>
                       \/ Via(s, p, n, T, d) = n
                       \/ Value(offer(d)) > Value(s.route[d])
  IN  [d \in DOMAIN s.route \cup Offered(T) |->
         IF taken(d) THEN offer(d)
         ELSE [s.route[d] EXCEPT !.via = Via(s, p, n, T, d)]]

decodeRoutingPages(s, p, n, T) ==
  LET t == [s EXCEPT !.table[n] = NewTable(@, T), !.route = Merged(s, p, n, T)]
      gone == DOMAIN s.table[n] \ DOMAIN t.table[n]
      r == [t EXCEPT !.route =
              [d \in DOMAIN @ |->
                 IF d \in gone /\ @[d].via = n /\ @[d].hops < LOST
                 THEN Rescued(t, d, @[d]) ELSE @[d]]]
  IN  checkClusters(r, p)

----------------------------------------------------------------------------
(* The handlers *)

Become(p, s) == node' = [node EXCEPT ![p] = s]

\* Bound on the calls that send a table.
Room(p) ==
  /\ p \in DOMAIN node[p].route => node[p].route[p].seq < MaxSeq[p]
  /\ \A n \in Reached(p, Neighbours(node[p])) : Len(node[p].out[n]) < MaxQueue

\* peisk_periodic_routing: send the table, age lost routes, delete hosts that
\* have been lost for long.
periodic_routing(p) ==
  LET s == do_routing(node[p], p, Neighbours(node[p]))
      aging == {d \in DOMAIN s.route \ {p} :
                  s.route[d].hops >= LOST /\ s.route[d].hops < DELETED}
      aged == [s EXCEPT !.route = [d \in DOMAIN s.route |->
                 IF d \in aging THEN [s.route[d] EXCEPT !.hops = @ + 1] ELSE s.route[d]]]
      dead == {d \in aging : aged.route[d].hops = DELETED}
      deleted == FoldSet(LAMBDA d, t : deleteHost(t, p, d), aged, dead)
  IN
  /\ Room(p)
  /\ Become(p, IF dead = {} THEN deleted ELSE checkClusters(deleted, p))
  /\ deadMail' = deadMail \cup
       {<<p, d>> : d \in {d \in dead : /\ s.link[d] # "open"
                                      /\ s.route[d].via \in Neighbours(s)}}

\* peisk_outgoingConnectFinished
connect(p, n) ==
  /\ {p, n} \in Links /\ p # n
  /\ node[p].link[n] = "closed" /\ node[n].link[p] = "closed"
  /\ Room(p)
  /\ Become(p, do_routing([node[p] EXCEPT !.link[n] = "offered"], p, {n}))
  /\ UNCHANGED deadMail

\* peisk_incommingConnectFinished
accept(p, n) ==
  /\ node[n].link[p] = "offered" /\ node[p].link[n] = "closed"
  /\ Room(p)
  /\ node' = [node EXCEPT
       ![p] = do_routing([node[p] EXCEPT !.link[n] = "open"], p, {n}),
       ![n].link[p] = "unnamed"]
  /\ UNCHANGED deadMail

\* peisk_hook_routing, after the host information sent before the table.
hook_routing(p, n) ==
  /\ node[p].link[n] # "closed"
  /\ node[n].out[p] # <<>>
  /\ node' = [node EXCEPT
       ![p] = decodeRoutingPages([node[p] EXCEPT !.link[n] = "open"], p, n,
                                 Head(node[n].out[p])),
       ![n].out[p] = Tail(@)]
  /\ UNCHANGED deadMail

\* The connection fails, is throttled away or times out.
close(p, n) ==
  /\ node[p].link[n] # "closed"
  /\ Room(p)
  /\ Become(p, closeConnection(node[p], p, n))
  /\ UNCHANGED deadMail

\* peisk_hook_hostInfo: host information of d, its own or cached by a peis.
\* If it tells of a rebirth, a connection to another incarnation is closed -
\* unless its index happens to be the id of the connection the message came by.
\* An end whose other end is closed may be connected to any incarnation.
hook_hostInfo(p, d, m) ==
  LET s == node[p]
      reborn == d \in DOMAIN s.known /\ s.known[d] # m
      learnt(t) == [t EXCEPT !.known = [h \in DOMAIN @ \cup {d} |-> IF h = d THEN m ELSE @[h]]]
      stale == /\ s.link[d] = "open"
               /\ node[d].link[p] = "closed" \/ m # node[d].magic
  IN
  /\ <<p, d>> \in HostInfos /\ d # p
  /\ IF reborn
     THEN \E t \in {s} \cup (IF stale THEN {closeConnection(s, p, d)} ELSE {}) :
            (t = s \/ Room(p)) /\ Become(p, learnt(forget(t, d)))
     ELSE Become(p, learnt(s))
  /\ UNCHANGED deadMail

\* peisk_hook_deadHost
hook_deadHost(p, d) ==
  /\ <<d, p>> \in deadMail
  /\ Room(p)
  /\ Become(p, deleteHost(node[p], p, d))
  /\ deadMail' = deadMail \ {<<d, p>>}

lose(mail) ==
  /\ deadMail' = deadMail \ {mail}
  /\ UNCHANGED node

\* p ends and starts again.  It crashed, or peisk_shutdown told the others.
restart(p) ==
  /\ p \in Restarting /\ node[p].magic < MaxRestarts
  /\ Become(p, Booted(p, node[p].magic + 1))
  /\ \E told \in {{}, Peis \ {p}} : deadMail' = deadMail \cup {<<p, d>> : d \in told}

Next ==
  \/ \E p \in Peis :
       \/ periodic_routing(p)
       \/ restart(p)
       \/ \E n \in Peis : \/ connect(p, n) \/ accept(p, n)
                          \/ hook_routing(p, n) \/ close(p, n) \/ hook_deadHost(p, n)
       \/ \E d \in Peis : \E m \in 0 .. node[d].magic : hook_hostInfo(p, d, m)
  \/ \E mail \in deadMail : lose(mail)

Spec == Init /\ [][Next]_vars

----------------------------------------------------------------------------
(* Properties *)

\* Type invariant.  Routes in use have fewer hops than METRIC_GIVEUP, however
\* peis that lost a peis count up between them (services.c:853), lost routes
\* fewer than DELETED (services.c:693).
TypeOK ==
  /\ deadMail \subseteq Peis \X Peis
  /\ \A p \in Peis : LET s == node[p] IN
       /\ s.link \in [Peis -> {"closed", "offered", "unnamed", "open"}]
       /\ s.cluster \in Peis /\ s.magic \in 0 .. MaxRestarts
       /\ DOMAIN s.known \subseteq Peis /\ DOMAIN s.route \subseteq Peis
       /\ \A d \in DOMAIN s.route : s.route[d] \in
            [seq : Nat, hops : 0 .. METRIC_GIVEUP - 1 \cup LOST .. DELETED - 1,
             via : Peis \cup {NoConn}, magic : 0 .. MaxRestarts]
       /\ \A n \in Peis : \A d \in DOMAIN s.table[n] : s.table[n][d] \in
            [seq : Nat, hops : 1 .. METRIC_GIVEUP - 1 \cup {OUTDATED}, magic : 0 .. MaxRestarts]

\* A route in use that names a connection is what the connection last offered,
\* and the connection is open: closing, rescuing, merging and deleting keep the
\* two tables in step (services.c:969, services.c:1039, p2p.c:1244).
RouteBackedByTable ==
  \A p \in Peis : \A d \in DOMAIN node[p].route :
    LET r == node[p].route[d] IN
    r.via # NoConn /\ r.hops < LOST =>
      /\ r.via \in Neighbours(node[p])
      /\ d \in DOMAIN node[p].table[r.via]
      /\ LET t == node[p].table[r.via][d] IN t.seq = r.seq /\ t.hops = r.hops

\* A route to another peis is lost only if no connection offers it: what is left
\* in the table of one is outdated, or lags so far behind in sequence numbers that
\* it is worse than a lost route (services.c:1035, p2p.c:1254).
LostMeansNowhere ==
  \A p \in Peis : \A d \in DOMAIN node[p].route \ {p} :
    node[p].route[d].hops >= LOST =>
      \A n \in Neighbours(node[p]) : d \in DOMAIN node[p].table[n] =>
        Value(node[p].table[n][d]) <= node[p].route[d].seq - LOST

\* What a connection offers is in the main table: nothing forgets a peis in one
\* only (the warning at services.c:1060).
OfferedIsKnown ==
  \A p \in Peis : \A n \in Neighbours(node[p]) : \A d \in DOMAIN node[p].table[n] :
    node[p].table[n][d].hops < LOST => d \in DOMAIN node[p].route

\* The route of a peis to itself names no connection and has no hops, whatever
\* its neighbours say of it; the assertion at services.c:579.
OwnRoute ==
  \A p \in Peis : p \in DOMAIN node[p].route =>
    node[p].route[p].via = NoConn /\ node[p].route[p].hops = 0

\* While no peis restarts, none believes a sequence number of a peis that this
\* peis has not reached: else its own would be ignored (services.c:976).
SeqHonest ==
  \A p, d \in Peis : d \in DOMAIN node[p].route =>
    /\ d \in DOMAIN node[d].route
    /\ node[p].route[d].seq <= node[d].route[d].seq

\* While no peis restarts, the network cluster of a peis is never above a peis it has a
\* route in use to, nor that of a peis it deleted: it follows the table over every path
\* that changes it (services.c:282, 308).  Of a route that is lost but not yet deleted
\* nothing is said.
ClusterCurrent ==
  \A p \in Peis :
    /\ node[p].cluster \in {p} \cup DOMAIN node[p].route
    /\ node[p].cluster <= p
    /\ \A d \in DOMAIN node[p].route : node[p].route[d].hops < LOST => node[p].cluster <= d

\* A route in use moves to another connection while the old one offers it still
\* only for a higher sequence number minus hops (services.c:982).
RouteSwitchImproves ==
  [][\A p \in Peis : \A d \in DOMAIN node[p].route \cap DOMAIN node'[p].route :
       LET r == node[p].route[d]
           q == node'[p].route[d] IN
       /\ r.via # q.via /\ r.via # NoConn
       /\ r.via \in Neighbours(node'[p]) /\ d \in DOMAIN node'[p].table[r.via]
       => Value(q) > Value(r)]_vars
=============================================================================
