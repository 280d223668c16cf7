--------------------------- MODULE Routing_proofs ---------------------------
(***************************************************************************)
(* Theorems about Routing, for any peis, links and limits.  An invariant   *)
(* Good of the state of one peis holds whatever the others do; that of     *)
(* sequence numbers is about all peis, and holds while none restarts.      *)
(***************************************************************************)
EXTENDS Routing, FiniteSetTheorems, SequenceTheorems, WellFoundedInduction, TLAPS

----------------------------------------------------------------------------
(* Types *)

\* Functions from some of the peis to B.
Partial(B) == UNION {[D -> B] : D \in SUBSET Peis}

\* Every peis keeps its first magic number if none restarts.
Magics == IF Restarting = {} THEN {0} ELSE 0 .. MaxRestarts

\* A route may be about to be deleted while the table is sent.
RouteHops == 0 .. METRIC_GIVEUP - 1 \cup LOST .. DELETED

RouteType == [seq : Nat, hops : RouteHops, via : Peis \cup {NoConn}, magic : Magics]
OfferType == [seq : Nat, hops : 1 .. METRIC_GIVEUP - 1 \cup {OUTDATED}, magic : Magics]
PackageType == [seq : Nat, hops : RouteHops, magic : Magics]

StateType ==
  [route : Partial(RouteType), table : [Peis -> Partial(OfferType)],
   link : [Peis -> {"closed", "offered", "unnamed", "open"}],
   out : [Peis -> Seq(Partial(PackageType))], known : Partial(Magics),
   cluster : Peis, magic : Magics]

----------------------------------------------------------------------------
(* The invariant of the state s of one peis p *)

\* A connection that is closed offers nothing.
ClosedOffersNothing(s, p) ==
  /\ s.link[p] = "closed"
  /\ \A n \in Peis : \A d \in DOMAIN s.table[n] :
       s.link[n] = "closed" => s.table[n][d].hops = OUTDATED

OutdatedIsZero(s) ==
  \A n \in Peis : \A d \in DOMAIN s.table[n] :
    s.table[n][d].hops = OUTDATED => s.table[n][d].seq = 0

Follows(s, d, r) ==
  /\ r.via \in Neighbours(s) /\ d \in DOMAIN s.table[r.via]
  /\ s.table[r.via][d].seq = r.seq /\ s.table[r.via][d].hops = r.hops

Beaten(s, d, r) ==
  \A n \in Neighbours(s) :
    d \in DOMAIN s.table[n] => Value(s.table[n][d]) <= r.seq - LOST

\* The route r to d: in use through a connection that offers it, or the own one, or
\* lost, as no connection offers better.
Sound(s, p, d, r) ==
  /\ r.hops < LOST => IF r.via = NoConn THEN d = p ELSE Follows(s, d, r)
  /\ r.hops >= LOST => /\ d = p \/ Beaten(s, d, r)
                       /\ Restarting = {} => r.via = NoConn

OffersKnown(s) ==
  \A n \in Neighbours(s) : \A d \in DOMAIN s.table[n] :
    s.table[n][d].hops < LOST => d \in DOMAIN s.route

\* D are still to be deleted.
Good(s, p, D) ==
  /\ s \in StateType
  /\ ClosedOffersNothing(s, p) /\ OutdatedIsZero(s)
  /\ \A d \in DOMAIN s.route :
       /\ Sound(s, p, d, s.route[d])
       /\ s.route[d].hops = DELETED => d \in D
  /\ OffersKnown(s)

IInv ==
  /\ node \in [Peis -> StateType] /\ \A p \in Peis : Good(node[p], p, {})
  /\ deadMail \subseteq Peis \X Peis /\ \A mail \in deadMail : mail[1] # mail[2]

----------------------------------------------------------------------------
(* The invariant while no peis restarts *)

\* A number x of d in the state s of p is one d has reached: that of the others are
\* in B.
Reaches(s, p, B, d, x) ==
  IF d = p THEN p \in DOMAIN s.route /\ x <= s.route[p].seq ELSE <<d, x>> \in B

Honest(f, s, p, B) == \A d \in DOMAIN f : Reaches(s, p, B, d, f[d].seq)

\* Whatever p holds and sends, as it leads its own route and never falls back.
Faithful(s, p, B) ==
  /\ p \in DOMAIN s.route => s.route[p].via = NoConn /\ s.route[p].hops = 0
  /\ \A x : <<p, x>> \in B => Reaches(s, p, B, p, x)
  /\ Honest(s.route, s, p, B)
  /\ \A n \in Peis : /\ Honest(s.table[n], s, p, B)
                     /\ \A i \in DOMAIN s.out[n] : Honest(s.out[n][i], s, p, B)

\* The numbers the peis have given themselves.
Numbers ==
  {y \in Peis \X Nat : y[1] \in DOMAIN node[y[1]].route /\ y[2] <= node[y[1]].route[y[1]].seq}

Clustered(s, p) == s.cluster = Min({p} \cup DOMAIN s.route)

CalmInv ==
  /\ deadMail = {}
  /\ \A p \in Peis : Faithful(node[p], p, Numbers) /\ Clustered(node[p], p)

----------------------------------------------------------------------------
(* Constants, partial functions, least and greatest elements *)

LEMMA Constants ==
  /\ LOST = 250 /\ OUTDATED = 255 /\ NoConn = -1
  /\ METRIC_COST \in Nat /\ METRIC_COST >= 1
  /\ METRIC_GIVEUP \in Nat /\ METRIC_GIVEUP >= 1 /\ METRIC_GIVEUP <= 250
  /\ DELETED \in Nat /\ DELETED >= 251 /\ DELETED <= 254
  /\ Peis \subseteq Nat /\ IsFiniteSet(Peis) /\ NoConn \notin Peis
  /\ Magics \subseteq Nat /\ 0 \in Magics
<1>1. MaxRestarts \in Nat /\ Peis \subseteq Nat /\ IsFiniteSet(Peis)
  BY RoutingAssumption
<1>2. Magics \subseteq Nat /\ 0 \in Magics
  BY <1>1 DEF Magics
<1> QED BY <1>1, <1>2, RoutingAssumption DEF LOST, OUTDATED, NoConn

\* A partial function has its values in B.
LEMMA PartialIs ==
  ASSUME NEW B, NEW f \in Partial(B)
  PROVE  /\ DOMAIN f \subseteq Peis
         /\ f \in [DOMAIN f -> B]
         /\ \A d \in DOMAIN f : f[d] \in B
BY DEF Partial

LEMMA PartialIntro ==
  ASSUME NEW B, NEW D \in SUBSET Peis, NEW f \in [D -> B]
  PROVE  f \in Partial(B) /\ DOMAIN f = D
BY DEF Partial

NatLess == {x \in Nat \X Nat : x[1] < x[2]}

\* A set of numbers that is not empty has a least element.
LEMMA MinProperties ==
  ASSUME NEW S, S \subseteq Nat, S # {}
  PROVE  Min(S) \in S /\ \A x \in S : Min(S) <= x
<1>1. IsWellFoundedOn(NatLess, Nat)
  BY NatLessThanWellFounded DEF OpToRel, NatLess
<1>2. PICK x \in S : \A y \in S : <<y, x>> \notin NatLess
  BY <1>1, WFMin
<1>3. ASSUME NEW y \in S PROVE x <= y
  <2>1. x \in Nat /\ y \in Nat
    OBVIOUS
  <2>2. y < x => <<y, x>> \in NatLess
    BY <2>1 DEF NatLess
  <2> QED BY <1>2, <2>1, <2>2
<1> QED BY <1>3 DEF Min

\* Of finitely many, one has the greatest value: the one that the fewest reach.
LEMMA SomeGreatest ==
  ASSUME NEW S, IsFiniteSet(S), S # {}, NEW v \in [S -> Int]
  PROVE  \E n \in S : \A m \in S : v[n] >= v[m]
<1> DEFINE above(n) == {m \in S : v[m] >= v[n]}
           C == {Cardinality(above(n)) : n \in S}
<1>1. ASSUME NEW n \in S
      PROVE  IsFiniteSet(above(n)) /\ Cardinality(above(n)) \in Nat
  BY FS_Subset, FS_CardinalityType
<1>2. C \subseteq Nat /\ C # {}
  BY <1>1
<1>3. Min(C) \in C /\ \A x \in C : Min(C) <= x
  BY <1>2, MinProperties
<1>4. PICK n \in S : Min(C) = Cardinality(above(n))
  BY <1>3
<1>5. ASSUME NEW m \in S, ~ (v[n] >= v[m])
      PROVE  FALSE
  <2>1. v[n] \in Int /\ v[m] \in Int /\ v[n] < v[m]
    BY <1>5
  <2>2. above(m) \subseteq above(n) /\ n \in above(n) /\ n \notin above(m)
    BY <2>1
  <2>3. Cardinality(above(m)) <= Cardinality(above(n)) /\ Cardinality(above(m)) # Cardinality(above(n))
    BY <1>1, <2>2, FS_Subset
  <2>4. Cardinality(above(n)) <= Cardinality(above(m))
    BY <1>3, <1>4
  <2> HIDE DEF above
  <2> QED BY <1>1, <2>3, <2>4
<1> QED BY <1>5

----------------------------------------------------------------------------
(* peisk_do_routing *)

\* The fields of a state.
LEMMA StateIs ==
  ASSUME NEW s \in StateType
  PROVE  /\ s.route \in Partial(RouteType)
         /\ s.table \in [Peis -> Partial(OfferType)]
         /\ s.link \in [Peis -> {"closed", "offered", "unnamed", "open"}]
         /\ s.out \in [Peis -> Seq(Partial(PackageType))]
         /\ s.known \in Partial(Magics) /\ s.cluster \in Peis /\ s.magic \in Magics
BY DEF StateType

LEMMA RouteFields ==
  ASSUME NEW r \in RouteType
  PROVE  /\ r.seq \in Nat /\ r.hops \in RouteHops /\ r.via \in Peis \cup {NoConn}
         /\ r.magic \in Magics /\ r.hops \in Int /\ r.hops >= 0
         /\ r.hops < LOST => r.hops < METRIC_GIVEUP
         /\ r.hops <= DELETED
BY Constants DEF RouteType, RouteHops

LEMMA OfferFields ==
  ASSUME NEW t \in OfferType
  PROVE  /\ t.seq \in Nat /\ t.magic \in Magics /\ t.hops \in Int /\ t.hops >= 1
         /\ t.hops = OUTDATED \/ t.hops < METRIC_GIVEUP
         /\ t.hops < LOST <=> t.hops # OUTDATED
         /\ Value(t) = t.seq - t.hops
BY Constants DEF OfferType, Value

\* Only the own entry changes; each queue keeps what it has, and may get the table.
Sends(s, q, p) ==
  /\ q \in StateType
  /\ q.table = s.table /\ q.link = s.link /\ q.known = s.known
  /\ q.cluster = s.cluster /\ q.magic = s.magic
  /\ DOMAIN q.route = DOMAIN s.route \cup {p}
  /\ \A d \in DOMAIN s.route : d # p => q.route[d] = s.route[d]
  /\ q.route[p].hops = 0 /\ q.route[p].via = NoConn
  /\ p \in DOMAIN s.route => q.route[p].seq = s.route[p].seq + 1
  /\ \A n \in Peis : \A i \in DOMAIN q.out[n] :
       \/ i \in DOMAIN s.out[n] /\ q.out[n][i] = s.out[n][i]
       \/ /\ DOMAIN q.out[n][i] = DOMAIN q.route
          /\ \A d \in DOMAIN q.route : q.out[n][i][d].seq = q.route[d].seq

LEMMA AppendedElements ==
  ASSUME NEW S, NEW s \in Seq(S), NEW e \in S
  PROVE  /\ Append(s, e) \in Seq(S)
         /\ \A i \in DOMAIN Append(s, e) :
              (i \in DOMAIN s /\ Append(s, e)[i] = s[i]) \/ Append(s, e)[i] = e
OBVIOUS

LEMMA DoRoutingSends ==
  ASSUME NEW s \in StateType, NEW p \in Peis, NEW N
  PROVE  Sends(s, do_routing(s, p, N), p)
<1> DEFINE own == [seq   |-> IF p \in DOMAIN s.route THEN s.route[p].seq + 1 ELSE 0,
                   hops  |-> 0, via |-> NoConn, magic |-> s.magic]
           route == [d \in DOMAIN s.route \cup {p} |-> IF d = p THEN own ELSE s.route[d]]
           package == [d \in DOMAIN route |->
                    [seq |-> route[d].seq, hops |-> route[d].hops, magic |-> route[d].magic]]
           out == [n \in Peis |-> IF n \in Reached(p, N) THEN Append(s.out[n], package)
                                  ELSE s.out[n]]
           q == [s EXCEPT !.route = route, !.out = out]
<1>1. do_routing(s, p, N) = q
  BY DEF do_routing
<1>2. DOMAIN s.route \subseteq Peis /\ \A d \in DOMAIN s.route : s.route[d] \in RouteType
  BY StateIs, PartialIs
<1>3. own \in RouteType
  <2>1. p \in DOMAIN s.route => s.route[p].seq \in Nat
    BY <1>2, RouteFields
  <2>2. own.seq \in Nat /\ 0 \in RouteHops
    BY <2>1, Constants DEF RouteHops
  <2> QED BY <2>2, StateIs DEF RouteType
<1>4. /\ own.hops = 0 /\ own.via = NoConn
      /\ p \in DOMAIN s.route => own.seq = s.route[p].seq + 1
  OBVIOUS
<1> HIDE DEF own
<1>5. route \in Partial(RouteType) /\ DOMAIN route = DOMAIN s.route \cup {p}
  <2>1. route \in [DOMAIN s.route \cup {p} -> RouteType]
    BY <1>2, <1>3
  <2>2. DOMAIN s.route \cup {p} \in SUBSET Peis
    BY <1>2
  <2> HIDE DEF route
  <2> QED BY <2>1, <2>2, PartialIntro
<1>6. route[p] = own /\ \A d \in DOMAIN s.route : d # p => route[d] = s.route[d]
  OBVIOUS
<1> HIDE DEF route
<1>7. package \in Partial(PackageType) /\ DOMAIN package = DOMAIN route
  <2>1. ASSUME NEW d \in DOMAIN route
        PROVE  [seq |-> route[d].seq, hops |-> route[d].hops, magic |-> route[d].magic]
                 \in PackageType
    <3>1. route[d] \in RouteType
      BY <1>5, PartialIs
    <3> QED BY <3>1, RouteFields DEF PackageType
  <2>2. package \in [DOMAIN route -> PackageType]
    BY <2>1
  <2>3. DOMAIN route \in SUBSET Peis
    BY <1>5, PartialIs
  <2> HIDE DEF package
  <2> QED BY <2>2, <2>3, PartialIntro
<1>8. \A d \in DOMAIN route : package[d].seq = route[d].seq
  OBVIOUS
<1> HIDE DEF package
<1>9. \A n \in Peis : /\ s.out[n] \in Seq(Partial(PackageType))
                      /\ out[n] = s.out[n] \/ out[n] = Append(s.out[n], package)
  BY StateIs
<1>10. ASSUME NEW n \in Peis
       PROVE  /\ out[n] \in Seq(Partial(PackageType))
              /\ \A i \in DOMAIN out[n] :
                   (i \in DOMAIN s.out[n] /\ out[n][i] = s.out[n][i]) \/ out[n][i] = package
  <2> HIDE DEF out
  <2> DEFINE L == s.out[n]
             M == out[n]
  <2>1. L \in Seq(Partial(PackageType)) /\ (M = L \/ M = Append(L, package))
    BY <1>9
  <2>2. CASE M = L
    BY <2>1, <2>2
  <2>3. CASE M = Append(L, package)
    <3> HIDE DEF L, M
    <3>1. /\ Append(L, package) \in Seq(Partial(PackageType))
          /\ \A i \in DOMAIN Append(L, package) :
               \/ i \in DOMAIN L /\ Append(L, package)[i] = L[i]
               \/ Append(L, package)[i] = package
      BY <1>7, <2>1, AppendedElements
    <3>2. /\ M \in Seq(Partial(PackageType))
          /\ \A i \in DOMAIN M : (i \in DOMAIN L /\ M[i] = L[i]) \/ M[i] = package
      BY <2>3, <3>1
    <3> QED BY <3>2 DEF L, M
  <2> QED BY <2>1, <2>2, <2>3
<1>11. out \in [Peis -> Seq(Partial(PackageType))]
  BY <1>10
<1> HIDE DEF out
<1>12. /\ q \in StateType
       /\ q.table = s.table /\ q.link = s.link /\ q.known = s.known
       /\ q.cluster = s.cluster /\ q.magic = s.magic /\ q.route = route /\ q.out = out
  BY <1>5, <1>11 DEF StateType
<1> HIDE DEF q
<1> QED BY <1>1, <1>4, <1>5, <1>6, <1>7, <1>8, <1>10, <1>12 DEF Sends

\* What a route is worth depends on the connections alone.
LEMMA SameConnections ==
  ASSUME NEW s, NEW q, q.table = s.table, q.link = s.link, NEW p, NEW d, NEW r
  PROVE  /\ Neighbours(q) = Neighbours(s)
         /\ Sound(q, p, d, r) <=> Sound(s, p, d, r)
BY DEF Sound, Follows, Beaten, Neighbours

LEMMA SendsGood ==
  ASSUME NEW p \in Peis, NEW D, p \notin D, NEW s, NEW q, Good(s, p, D), Sends(s, q, p)
  PROVE  Good(q, p, D)
<1>1. /\ q \in StateType /\ q.table = s.table /\ q.link = s.link
      /\ DOMAIN q.route = DOMAIN s.route \cup {p}
      /\ \A d \in DOMAIN s.route : d # p => q.route[d] = s.route[d]
      /\ q.route[p].hops = 0 /\ q.route[p].via = NoConn
  BY DEF Sends
<1>2. ClosedOffersNothing(q, p) /\ OutdatedIsZero(q)
  BY <1>1 DEF Good, ClosedOffersNothing, OutdatedIsZero
<1>3. OffersKnown(q)
  BY <1>1, SameConnections DEF Good, OffersKnown
<1>4. ASSUME NEW d \in DOMAIN q.route
      PROVE  Sound(q, p, d, q.route[d]) /\ (q.route[d].hops = DELETED => d \in D)
  <2>1. CASE d = p
    <3>1. 0 < LOST /\ DELETED # 0 /\ ~ (0 >= LOST)
      BY Constants
    <3> QED BY <1>1, <2>1, <3>1 DEF Sound
  <2>2. CASE d # p
    <3>1. d \in DOMAIN s.route /\ q.route[d] = s.route[d]
      BY <1>1, <2>2
    <3>2. Sound(s, p, d, s.route[d]) /\ (s.route[d].hops = DELETED => d \in D)
      BY <3>1 DEF Good
    <3> QED BY <1>1, <3>1, <3>2, SameConnections
  <2> QED BY <2>1, <2>2
<1> QED BY <1>1, <1>2, <1>3, <1>4 DEF Good

----------------------------------------------------------------------------
(* Rescuing a route *)

\* The route is lost, or that of a connection that offers it.
LEMMA RescuedIs ==
  ASSUME NEW s \in StateType, OutdatedIsZero(s), NEW d, NEW r \in RouteType
  PROVE  LET q == Rescued(s, d, r) IN
         /\ q \in RouteType
         /\ \/ q.hops < LOST /\ q.via # NoConn /\ Follows(s, d, q)
            \/ q.hops = LOST /\ q.via = NoConn /\ q.seq = r.seq /\ Beaten(s, d, q)
<1> DEFINE offers == {n \in Neighbours(s) :
                        d \in DOMAIN s.table[n] /\ Value(s.table[n][d]) > r.seq - LOST}
           best == CHOOSE n \in offers :
                     \A m \in offers : Value(s.table[n][d]) >= Value(s.table[m][d])
           t == s.table[best][d]
           lost == [r EXCEPT !.hops = LOST, !.via = NoConn]
           found == [seq |-> t.seq, hops |-> t.hops, via |-> best, magic |-> t.magic]
<1>1. Rescued(s, d, r) = IF offers = {} THEN lost ELSE found
  BY DEF Rescued
<1>2. \A n \in Peis : \A e \in DOMAIN s.table[n] : s.table[n][e] \in OfferType
  BY StateIs, PartialIs
<1>3. offers \subseteq Neighbours(s) /\ Neighbours(s) \subseteq Peis
  BY DEF Neighbours
<1>4. \A n \in offers : d \in DOMAIN s.table[n] /\ s.table[n][d] \in OfferType
  BY <1>2, <1>3
<1>5. CASE offers = {}
  <2>1. lost \in RouteType /\ lost.hops = LOST /\ lost.via = NoConn /\ lost.seq = r.seq
    <3>1. LOST \in RouteHops
      BY Constants DEF RouteHops
    <3> QED BY <3>1 DEF RouteType
  <2>2. ASSUME NEW n \in Neighbours(s), d \in DOMAIN s.table[n]
        PROVE  Value(s.table[n][d]) <= r.seq - LOST
    <3>1. s.table[n][d] \in OfferType /\ ~ (Value(s.table[n][d]) > r.seq - LOST)
      BY <1>2, <1>3, <1>5, <2>2
    <3>2. Value(s.table[n][d]) \in Int /\ r.seq - LOST \in Int
      BY <3>1, OfferFields, RouteFields, Constants
    <3> QED BY <3>1, <3>2
  <2>3. Beaten(s, d, lost)
    BY <2>1, <2>2 DEF Beaten
  <2> QED BY <1>1, <1>5, <2>1, <2>3
<1>6. CASE offers # {}
  <2>1. best \in offers
    <3> DEFINE v == [n \in offers |-> Value(s.table[n][d])]
    <3>1. \A n \in offers : Value(s.table[n][d]) \in Int
      BY <1>4, OfferFields
    <3>2. v \in [offers -> Int]
      BY <3>1
    <3>3. IsFiniteSet(offers)
      <4>1. offers \in SUBSET Peis
        BY <1>3
      <4> HIDE DEF offers
      <4> QED BY <4>1, FS_Subset, Constants
    <3> HIDE DEF v
    <3>4. \E n \in offers : \A m \in offers : v[n] >= v[m]
      <4> HIDE DEF offers
      <4> QED BY <1>6, <3>2, <3>3, SomeGreatest
    <3>5. \E n \in offers : \A m \in offers : Value(s.table[n][d]) >= Value(s.table[m][d])
      BY <3>4 DEF v
    <3> HIDE DEF offers
    <3> QED BY <3>5
  <2>2. /\ best \in Neighbours(s) /\ d \in DOMAIN s.table[best] /\ t \in OfferType
        /\ Value(t) > r.seq - LOST
    BY <1>4, <2>1
  <2> HIDE DEF best
  <2>3. t.hops # OUTDATED
    <3>1. t.hops = OUTDATED => t.seq = 0
      BY <1>3, <2>2 DEF OutdatedIsZero
    <3>2. Value(t) = t.seq - t.hops /\ r.seq \in Nat
      BY <2>2, OfferFields, RouteFields
    <3> HIDE DEF t
    <3> QED BY <2>2, <3>1, <3>2, Constants
  <2>4. /\ t.hops < LOST /\ t.hops \in RouteHops /\ t.seq \in Nat /\ t.magic \in Magics
        /\ best \in Peis /\ best # NoConn
    <3>1. t.hops \in 1 .. METRIC_GIVEUP - 1
      BY <2>2, <2>3 DEF OfferType
    <3> HIDE DEF t
    <3> QED BY <1>3, <2>2, <2>3, <3>1, OfferFields, Constants DEF RouteHops
  <2>5. found \in RouteType
    BY <2>4 DEF RouteType
  <2>6. Follows(s, d, found)
    BY <2>2 DEF Follows
  <2> QED BY <1>1, <1>6, <2>4, <2>5, <2>6
<1> QED BY <1>5, <1>6

----------------------------------------------------------------------------
(* peisk_closeConnection *)

\* The state after closing the connection to n, before the table is sent.
Cut(s, n) == [s EXCEPT !.link[n] = "closed", !.out[n] = <<>>]

Through(s, n) == {d \in DOMAIN s.table[n] : d \in DOMAIN s.route /\ s.route[d].via = n}

Closed(s, n) ==
  [Cut(s, n) EXCEPT
     !.table[n] = Outdated(@),
     !.route = [d \in DOMAIN @ |-> IF d \in Through(s, n) THEN Rescued(Cut(s, n), d, @[d])
                                   ELSE @[d]]]

LEMMA CloseIsClosed ==
  ASSUME NEW s, NEW p, NEW n
  PROVE  closeConnection(s, p, n) = do_routing(Closed(s, n), p, Neighbours(Closed(s, n)))
BY DEF closeConnection, Closed, Cut, Through

LEMMA CutIs ==
  ASSUME NEW s \in StateType, NEW n \in Peis
  PROVE  LET t == Cut(s, n) IN
         /\ t \in StateType
         /\ t.table = s.table /\ t.route = s.route /\ t.known = s.known
         /\ t.cluster = s.cluster /\ t.magic = s.magic
         /\ t.link = [s.link EXCEPT ![n] = "closed"]
         /\ t.out = [s.out EXCEPT ![n] = <<>>]
         /\ Neighbours(t) = Neighbours(s) \ {n}
<1> DEFINE link == [s.link EXCEPT ![n] = "closed"]
           out == [s.out EXCEPT ![n] = <<>>]
           t == [s EXCEPT !.link = link, !.out = out]
<1>1. Cut(s, n) = t
  BY DEF Cut
<1>2. link \in [Peis -> {"closed", "offered", "unnamed", "open"}]
  BY StateIs
<1>3. out \in [Peis -> Seq(Partial(PackageType))]
  <2>1. <<>> \in Seq(Partial(PackageType))
    OBVIOUS
  <2> QED BY <2>1, StateIs
<1>4. \A m \in Peis : link[m] # "closed" <=> m # n /\ s.link[m] # "closed"
  BY StateIs
<1> HIDE DEF link, out
<1>5. /\ t \in StateType /\ t.table = s.table /\ t.route = s.route /\ t.known = s.known
      /\ t.cluster = s.cluster /\ t.magic = s.magic /\ t.link = link /\ t.out = out
  BY <1>2, <1>3 DEF StateType
<1> HIDE DEF t
<1>6. Neighbours(t) = Neighbours(s) \ {n}
  BY <1>4, <1>5 DEF Neighbours
<1> QED BY <1>1, <1>5, <1>6 DEF link, out

LEMMA OutdatedIs ==
  ASSUME NEW t \in Partial(OfferType)
  PROVE  /\ Outdated(t) \in Partial(OfferType) /\ DOMAIN Outdated(t) = DOMAIN t
         /\ \A d \in DOMAIN t : Outdated(t)[d].seq = 0 /\ Outdated(t)[d].hops = OUTDATED
<1>1. \A d \in DOMAIN t : t[d] \in OfferType
  BY PartialIs
<1>2. ASSUME NEW d \in DOMAIN t
      PROVE  LET u == [t[d] EXCEPT !.seq = 0, !.hops = OUTDATED]
             IN  u \in OfferType /\ u.seq = 0 /\ u.hops = OUTDATED
  BY <1>1 DEF OfferType
<1>3. Outdated(t) \in [DOMAIN t -> OfferType]
  BY <1>2 DEF Outdated
<1>4. DOMAIN t \in SUBSET Peis
  BY PartialIs
<1>5. Outdated(t) \in Partial(OfferType) /\ DOMAIN Outdated(t) = DOMAIN t
  BY <1>3, <1>4, PartialIntro
<1> QED BY <1>2, <1>5 DEF Outdated

LEMMA ClosedIs ==
  ASSUME NEW s \in StateType, OutdatedIsZero(s), NEW n \in Peis
  PROVE  LET r == Closed(s, n) IN
         /\ r \in StateType
         /\ r.known = s.known /\ r.cluster = s.cluster /\ r.magic = s.magic
         /\ r.link = [s.link EXCEPT ![n] = "closed"]
         /\ r.out = [s.out EXCEPT ![n] = <<>>]
         /\ r.table = [s.table EXCEPT ![n] = Outdated(s.table[n])]
         /\ Neighbours(r) = Neighbours(s) \ {n}
         /\ DOMAIN r.route = DOMAIN s.route
         /\ \A d \in DOMAIN s.route :
              r.route[d] = IF d \in Through(s, n) THEN Rescued(Cut(s, n), d, s.route[d])
                           ELSE s.route[d]
<1> DEFINE t == Cut(s, n)
           table == [s.table EXCEPT ![n] = Outdated(s.table[n])]
           route == [d \in DOMAIN s.route |->
                       IF d \in Through(s, n) THEN Rescued(t, d, s.route[d]) ELSE s.route[d]]
           r == [t EXCEPT !.table = table, !.route = route]
<1>1. /\ t \in StateType
      /\ t.table = s.table /\ t.route = s.route /\ t.known = s.known
      /\ t.cluster = s.cluster /\ t.magic = s.magic
      /\ t.link = [s.link EXCEPT ![n] = "closed"]
      /\ t.out = [s.out EXCEPT ![n] = <<>>]
      /\ Neighbours(t) = Neighbours(s) \ {n}
  BY CutIs
<1>2. OutdatedIsZero(t)
  BY <1>1 DEF OutdatedIsZero
<1>3. table \in [Peis -> Partial(OfferType)]
  <2>1. s.table[n] \in Partial(OfferType)
    BY StateIs
  <2> QED BY <2>1, StateIs, OutdatedIs
<1> HIDE DEF t
<1>4. \A d \in DOMAIN s.route : s.route[d] \in RouteType
  BY StateIs, PartialIs
<1>5. route \in Partial(RouteType) /\ DOMAIN route = DOMAIN s.route
  <2>1. ASSUME NEW d \in DOMAIN s.route
        PROVE  Rescued(t, d, s.route[d]) \in RouteType
    BY <1>1, <1>2, <1>4, RescuedIs
  <2>2. route \in [DOMAIN s.route -> RouteType]
    BY <1>4, <2>1
  <2>3. DOMAIN s.route \in SUBSET Peis
    BY StateIs, PartialIs
  <2> HIDE DEF route
  <2> QED BY <2>2, <2>3, PartialIntro
<1>6. \A d \in DOMAIN s.route :
        route[d] = IF d \in Through(s, n) THEN Rescued(t, d, s.route[d]) ELSE s.route[d]
  OBVIOUS
<1>7. Closed(s, n) = r
  BY <1>1 DEF Closed, t
<1> HIDE DEF table, route
<1>8. /\ r \in StateType /\ r.table = table /\ r.route = route /\ r.known = t.known
      /\ r.cluster = t.cluster /\ r.magic = t.magic /\ r.link = t.link /\ r.out = t.out
  BY <1>1, <1>3, <1>5 DEF StateType
<1> HIDE DEF r
<1>9. Neighbours(r) = Neighbours(t)
  BY <1>8 DEF Neighbours
<1>10. \A d \in DOMAIN s.route :
         route[d] = IF d \in Through(s, n) THEN Rescued(Cut(s, n), d, s.route[d])
                    ELSE s.route[d]
  BY <1>6 DEF t
<1> QED BY <1>1, <1>5, <1>7, <1>8, <1>9, <1>10 DEF table

\* A route keeps its worth if it goes on following the same table, and tables
\* only disappear.
LEMMA FewerConnections ==
  ASSUME NEW s, NEW r, Neighbours(r) \subseteq Neighbours(s),
         \A m \in Neighbours(r) : r.table[m] = s.table[m],
         NEW p, NEW d, NEW x, Sound(s, p, d, x),
         x.hops < LOST /\ x.via \in Neighbours(s) => x.via \in Neighbours(r)
  PROVE  Sound(r, p, d, x)
<1>1. ASSUME x.hops < LOST, x.via # NoConn
      PROVE  Follows(r, d, x)
  <2>1. Follows(s, d, x)
    BY <1>1 DEF Sound
  <2> QED BY <1>1, <2>1 DEF Follows
<1>2. Beaten(s, d, x) => Beaten(r, d, x)
  BY DEF Beaten
<1> QED BY <1>1, <1>2 DEF Sound

LEMMA RescuedSound ==
  ASSUME NEW s \in StateType, OutdatedIsZero(s), NEW p, NEW d, NEW r \in RouteType
  PROVE  /\ Rescued(s, d, r) \in RouteType /\ Rescued(s, d, r).hops # DELETED
         /\ Sound(s, p, d, Rescued(s, d, r))
<1> DEFINE q == Rescued(s, d, r)
<1>1. /\ q \in RouteType
      /\ \/ q.hops < LOST /\ q.via # NoConn /\ Follows(s, d, q)
         \/ q.hops = LOST /\ q.via = NoConn /\ q.seq = r.seq /\ Beaten(s, d, q)
  BY RescuedIs
<1>2. q.hops \in Int
  BY <1>1, RouteFields
<1> HIDE DEF q
<1>3. /\ q.hops # DELETED
      /\ q.hops < LOST => ~ (q.hops >= LOST)
      /\ q.hops = LOST => ~ (q.hops < LOST)
  BY <1>1, <1>2, Constants
<1>4. Sound(s, p, d, q)
  BY <1>1, <1>3 DEF Sound
<1> QED BY <1>1, <1>3, <1>4 DEF q

LEMMA ClosedGood ==
  ASSUME NEW p \in Peis, NEW D, NEW s, Good(s, p, D), NEW n \in Peis
  PROVE  Good(Closed(s, n), p, D)
<1> DEFINE r == Closed(s, n)
           t == Cut(s, n)
<1>0. /\ s \in StateType /\ ClosedOffersNothing(s, p) /\ OutdatedIsZero(s) /\ OffersKnown(s)
  BY DEF Good
<1>1. /\ r \in StateType
      /\ r.link = [s.link EXCEPT ![n] = "closed"]
      /\ r.table = [s.table EXCEPT ![n] = Outdated(s.table[n])]
      /\ Neighbours(r) = Neighbours(s) \ {n}
      /\ DOMAIN r.route = DOMAIN s.route
      /\ \A d \in DOMAIN s.route :
           r.route[d] = IF d \in Through(s, n) THEN Rescued(t, d, s.route[d]) ELSE s.route[d]
  BY <1>0, ClosedIs
<1>2. /\ t \in StateType /\ t.table = s.table /\ Neighbours(t) = Neighbours(s) \ {n}
  BY <1>0, CutIs
<1>3. OutdatedIsZero(t)
  BY <1>0, <1>2 DEF OutdatedIsZero
<1> HIDE DEF r, t
<1>4. /\ s.table \in [Peis -> Partial(OfferType)]
      /\ \A m \in Peis : m # n => r.table[m] = s.table[m] /\ r.link[m] = s.link[m]
      /\ r.link[n] = "closed" /\ r.table[n] = Outdated(s.table[n])
      /\ DOMAIN r.table[n] = DOMAIN s.table[n]
      /\ \A d \in DOMAIN s.table[n] : r.table[n][d].seq = 0 /\ r.table[n][d].hops = OUTDATED
  <2>1. s.table \in [Peis -> Partial(OfferType)] /\ s.link \in [Peis -> {"closed", "offered", "unnamed", "open"}]
    BY <1>0, StateIs
  <2>2. s.table[n] \in Partial(OfferType)
    BY <2>1
  <2>3. r.table[n] = Outdated(s.table[n])
    BY <1>1, <2>1
  <2> QED BY <1>1, <2>1, <2>2, <2>3, OutdatedIs
<1>5. ClosedOffersNothing(r, p)
  BY <1>0, <1>4 DEF ClosedOffersNothing
<1>6. OutdatedIsZero(r)
  BY <1>0, <1>4 DEF OutdatedIsZero
<1>7. Neighbours(s) \subseteq Peis /\ n \notin Neighbours(r)
  BY <1>1 DEF Neighbours
<1>8. OffersKnown(r)
  BY <1>0, <1>1, <1>4, <1>7 DEF OffersKnown
<1>9. ASSUME NEW d \in DOMAIN s.route, d \in Through(s, n)
      PROVE  Sound(r, p, d, r.route[d]) /\ r.route[d].hops # DELETED
  <2>1. s.route[d] \in RouteType
    BY <1>0, StateIs, PartialIs
  <2>2. /\ Sound(t, p, d, Rescued(t, d, s.route[d]))
        /\ Rescued(t, d, s.route[d]).hops # DELETED
    BY <1>2, <1>3, <2>1, RescuedSound
  <2>3. /\ Neighbours(r) \subseteq Neighbours(t) /\ Neighbours(t) \subseteq Neighbours(r)
        /\ \A m \in Neighbours(r) : r.table[m] = t.table[m]
    BY <1>1, <1>2, <1>4, <1>7
  <2>4. r.route[d] = Rescued(t, d, s.route[d])
    BY <1>1, <1>9
  <2>5. Sound(t, p, d, r.route[d]) /\ r.route[d].hops # DELETED
    BY <2>2, <2>4
  <2> QED BY <2>3, <2>5, FewerConnections
<1>10. ASSUME NEW d \in DOMAIN s.route, d \notin Through(s, n)
       PROVE  Sound(r, p, d, s.route[d])
  <2>1. Sound(s, p, d, s.route[d])
    BY DEF Good
  <2>2. s.route[d].hops < LOST /\ s.route[d].via = n => d \in DOMAIN s.table[n]
    <3>1. n # NoConn
      BY Constants
    <3> QED BY <2>1, <3>1 DEF Sound, Follows
  <2>3. s.route[d].hops < LOST => s.route[d].via # n
    BY <1>10, <2>2 DEF Through
  <2>4. /\ Neighbours(r) \subseteq Neighbours(s)
        /\ \A m \in Neighbours(r) : r.table[m] = s.table[m]
        /\ s.route[d].hops < LOST /\ s.route[d].via \in Neighbours(s) => s.route[d].via \in Neighbours(r)
    BY <1>1, <1>4, <1>7, <2>3
  <2> QED BY <2>1, <2>4, FewerConnections
<1>11. ASSUME NEW d \in DOMAIN r.route
       PROVE  Sound(r, p, d, r.route[d]) /\ (r.route[d].hops = DELETED => d \in D)
  <2>1. CASE d \in Through(s, n)
    BY <1>1, <1>9, <2>1
  <2>2. CASE d \notin Through(s, n)
    <3>1. r.route[d] = s.route[d]
      BY <1>1, <2>2
    <3>2. s.route[d].hops = DELETED => d \in D
      BY <1>1 DEF Good
    <3> QED BY <1>1, <1>10, <2>2, <3>1, <3>2
  <2> QED BY <2>1, <2>2
<1>12. Good(r, p, D)
  BY <1>1, <1>5, <1>6, <1>8, <1>11 DEF Good
<1> QED BY <1>12 DEF r

LEMMA CloseGood ==
  ASSUME NEW p \in Peis, NEW D, p \notin D, NEW s, Good(s, p, D), NEW n \in Peis
  PROVE  Good(closeConnection(s, p, n), p, D)
<1>1. Good(Closed(s, n), p, D) /\ Closed(s, n) \in StateType
  BY ClosedGood DEF Good
<1>2. Sends(Closed(s, n), closeConnection(s, p, n), p)
  BY <1>1, DoRoutingSends, CloseIsClosed
<1> QED BY <1>1, <1>2, SendsGood

----------------------------------------------------------------------------
(* peisk_deleteHost *)

LEMMA WithoutIs ==
  ASSUME NEW B, NEW f \in Partial(B), NEW d
  PROVE  /\ Without(f, {d}) \in Partial(B) /\ DOMAIN Without(f, {d}) = DOMAIN f \ {d}
         /\ \A e \in DOMAIN f : e # d => Without(f, {d})[e] = f[e]
<1>1. DOMAIN f \subseteq Peis /\ \A e \in DOMAIN f : f[e] \in B
  BY PartialIs
<1>2. Without(f, {d}) \in [DOMAIN f \ {d} -> B]
  BY <1>1 DEF Without
<1>3. DOMAIN f \ {d} \in SUBSET Peis
  BY <1>1
<1>4. Without(f, {d}) \in Partial(B) /\ DOMAIN Without(f, {d}) = DOMAIN f \ {d}
  BY <1>2, <1>3, PartialIntro
<1> QED BY <1>4 DEF Without

LEMMA ForgetIs ==
  ASSUME NEW s \in StateType, NEW d
  PROVE  LET r == forget(s, d) IN
         /\ r \in StateType
         /\ r.link = s.link /\ r.out = s.out /\ r.cluster = s.cluster /\ r.magic = s.magic
         /\ Neighbours(r) = Neighbours(s)
         /\ DOMAIN r.route = DOMAIN s.route \ {d}
         /\ \A e \in DOMAIN s.route : e # d => r.route[e] = s.route[e]
         /\ \A n \in Neighbours(s) :
              /\ DOMAIN r.table[n] = DOMAIN s.table[n] \ {d}
              /\ \A e \in DOMAIN s.table[n] : e # d => r.table[n][e] = s.table[n][e]
         /\ \A n \in Peis : n \notin Neighbours(s) => r.table[n] = s.table[n]
<1> DEFINE route == Without(s.route, {d})
           table == [n \in Peis |-> IF n \in Neighbours(s) THEN Without(s.table[n], {d})
                                    ELSE s.table[n]]
           known == Without(s.known, {d})
           r == [s EXCEPT !.route = route, !.table = table, !.known = known]
<1>1. forget(s, d) = r
  BY DEF forget
<1>2. /\ route \in Partial(RouteType) /\ DOMAIN route = DOMAIN s.route \ {d}
      /\ \A e \in DOMAIN s.route : e # d => route[e] = s.route[e]
  <2>1. s.route \in Partial(RouteType)
    BY StateIs
  <2> QED BY <2>1, WithoutIs
<1>3. known \in Partial(Magics)
  BY StateIs, WithoutIs
<1>4. ASSUME NEW n \in Peis
      PROVE  /\ Without(s.table[n], {d}) \in Partial(OfferType)
             /\ DOMAIN Without(s.table[n], {d}) = DOMAIN s.table[n] \ {d}
             /\ \A e \in DOMAIN s.table[n] : e # d => Without(s.table[n], {d})[e] = s.table[n][e]
  <2>1. s.table[n] \in Partial(OfferType)
    BY StateIs
  <2> QED BY <2>1, WithoutIs
<1>5. /\ table \in [Peis -> Partial(OfferType)]
      /\ \A n \in Neighbours(s) : table[n] = Without(s.table[n], {d})
      /\ \A n \in Peis : n \notin Neighbours(s) => table[n] = s.table[n]
  BY <1>4, StateIs DEF Neighbours
<1>6. Neighbours(s) \subseteq Peis
  BY DEF Neighbours
<1> HIDE DEF route, table, known
<1>7. /\ r \in StateType /\ r.route = route /\ r.table = table
      /\ r.link = s.link /\ r.out = s.out /\ r.cluster = s.cluster /\ r.magic = s.magic
  BY <1>2, <1>3, <1>5 DEF StateType
<1> HIDE DEF r
<1>8. Neighbours(r) = Neighbours(s)
  BY <1>7 DEF Neighbours
<1>9. ASSUME NEW n \in Neighbours(s)
      PROVE  /\ DOMAIN table[n] = DOMAIN s.table[n] \ {d}
             /\ \A e \in DOMAIN s.table[n] : e # d => table[n][e] = s.table[n][e]
  BY <1>4, <1>5, <1>6
<1> QED BY <1>1, <1>2, <1>5, <1>7, <1>8, <1>9

LEMMA ForgetGood ==
  ASSUME NEW p \in Peis, NEW D, NEW s, Good(s, p, D), NEW d
  PROVE  Good(forget(s, d), p, D \ {d})
<1> DEFINE r == forget(s, d)
<1>0. s \in StateType /\ ClosedOffersNothing(s, p) /\ OutdatedIsZero(s) /\ OffersKnown(s)
  BY DEF Good
<1>1. /\ r \in StateType /\ r.link = s.link
      /\ Neighbours(r) = Neighbours(s)
      /\ DOMAIN r.route = DOMAIN s.route \ {d}
      /\ \A e \in DOMAIN s.route : e # d => r.route[e] = s.route[e]
      /\ \A n \in Neighbours(s) :
           /\ DOMAIN r.table[n] = DOMAIN s.table[n] \ {d}
           /\ \A e \in DOMAIN s.table[n] : e # d => r.table[n][e] = s.table[n][e]
      /\ \A n \in Peis : n \notin Neighbours(s) => r.table[n] = s.table[n]
  BY <1>0, ForgetIs
<1> HIDE DEF r
<1>2. \A n \in Peis : \A e \in DOMAIN r.table[n] :
        e \in DOMAIN s.table[n] /\ r.table[n][e] = s.table[n][e]
  BY <1>1
<1>3. ClosedOffersNothing(r, p) /\ OutdatedIsZero(r)
  BY <1>0, <1>1, <1>2 DEF ClosedOffersNothing, OutdatedIsZero
<1>4. OffersKnown(r)
  <2> SUFFICES ASSUME NEW n \in Neighbours(r), NEW e \in DOMAIN r.table[n],
                      r.table[n][e].hops < LOST
               PROVE  e \in DOMAIN r.route
    BY DEF OffersKnown
  <2>1. n \in Neighbours(s) /\ e \in DOMAIN s.table[n] /\ e # d /\ r.table[n][e] = s.table[n][e]
    BY <1>1
  <2> QED BY <1>0, <1>1, <2>1 DEF OffersKnown
<1>5. ASSUME NEW e \in DOMAIN r.route
      PROVE  Sound(r, p, e, r.route[e]) /\ (r.route[e].hops = DELETED => e \in D \ {d})
  <2> DEFINE x == s.route[e]
  <2>1. e \in DOMAIN s.route /\ e # d /\ r.route[e] = x
    BY <1>1
  <2>2. Sound(s, p, e, x) /\ (x.hops = DELETED => e \in D)
    BY <2>1 DEF Good
  <2> HIDE DEF x
  <2>3. Follows(s, e, x) => Follows(r, e, x)
    BY <1>1, <2>1 DEF Follows
  <2>4. Beaten(s, e, x) => Beaten(r, e, x)
    BY <1>1, <2>1 DEF Beaten
  <2>5. Sound(r, p, e, x)
    BY <2>2, <2>3, <2>4 DEF Sound
  <2> QED BY <2>1, <2>2, <2>5
<1>6. Good(r, p, D \ {d})
  BY <1>1, <1>3, <1>4, <1>5 DEF Good
<1> QED BY <1>6 DEF r

LEMMA DeleteGood ==
  ASSUME NEW p \in Peis, NEW D, p \notin D, NEW s, Good(s, p, D), NEW d \in Peis
  PROVE  Good(deleteHost(s, p, d), p, D \ {d})
<1>1. Good(forget(s, d), p, D \ {d})
  BY ForgetGood
<1>2. p \notin D \ {d}
  OBVIOUS
<1>3. Good(closeConnection(forget(s, d), p, d), p, D \ {d})
  BY <1>1, <1>2, CloseGood
<1> QED BY <1>1, <1>3 DEF deleteHost

----------------------------------------------------------------------------
(* Deleting several hosts *)

First(E) == CHOOSE x \in E : TRUE

Deletion(f, s, p, D) ==
  f = [E \in SUBSET D |-> IF E = {} THEN s ELSE deleteHost(f[E \ {First(E)}], p, First(E))]

\* What periodic_routing makes of s when D are to be deleted.
Deleted(s, p, D) == FoldSet(LAMBDA d, t : deleteHost(t, p, d), s, D)

\* Deletion up to sets of k hosts.
Upto(D, k) == {E \in SUBSET D : Cardinality(E) <= k}

DeletionUpto(f, s, p, D, k) ==
  f = [E \in Upto(D, k) |->
         IF E = {} THEN s ELSE deleteHost(f[E \ {First(E)}], p, First(E))]

LEMMA Fewer ==
  ASSUME NEW D, IsFiniteSet(D), NEW E \in SUBSET D
  PROVE  /\ IsFiniteSet(E) /\ Cardinality(E) \in Nat /\ Cardinality(E) <= Cardinality(D)
         /\ E # {} => /\ First(E) \in E /\ E \ {First(E)} \in SUBSET D
                      /\ Cardinality(E \ {First(E)}) = Cardinality(E) - 1
                      /\ Cardinality(E) # 0
<1>1. IsFiniteSet(E) /\ Cardinality(E) \in Nat /\ Cardinality(E) <= Cardinality(D)
  BY FS_Subset, FS_CardinalityType
<1>2. ASSUME E # {}
      PROVE  First(E) \in E
  BY <1>2 DEF First
<1>3. E # {} => Cardinality(E \ {First(E)}) = Cardinality(E) - 1
  BY <1>1, <1>2, FS_RemoveElement
<1>4. E # {} => Cardinality(E) # 0
  BY <1>1, FS_EmptySet
<1> QED BY <1>1, <1>2, <1>3, <1>4

LEMMA DeletionExists ==
  ASSUME NEW D, IsFiniteSet(D), NEW s, NEW p
  PROVE  \E f : Deletion(f, s, p, D)
<1> DEFINE bad == {k \in Nat : ~ \E f : DeletionUpto(f, s, p, D, k)}
<1>0. Cardinality(D) \in Nat
  BY FS_CardinalityType
<1>1. bad = {}
  <2> SUFFICES ASSUME bad # {}
               PROVE  FALSE
    OBVIOUS
  <2> DEFINE k == Min(bad)
  <2>1. k \in bad /\ \A j \in bad : k <= j
    <3>1. bad \subseteq Nat
      OBVIOUS
    <3> HIDE DEF bad
    <3> QED BY <3>1, MinProperties
  <2>2. k \in Nat /\ ~ \E f : DeletionUpto(f, s, p, D, k)
    BY <2>1
  <2> HIDE DEF k
  <2>3. CASE k = 0
    <3> DEFINE f == [E \in Upto(D, k) |-> s]
    <3>1. ASSUME NEW E \in Upto(D, k)
          PROVE  E = {}
      <4>1. Cardinality(E) \in Nat /\ Cardinality(E) <= 0 /\ (E # {} => Cardinality(E) # 0)
        BY <2>3, Fewer DEF Upto
      <4> QED BY <4>1
    <3>2. DeletionUpto(f, s, p, D, k)
      BY <3>1 DEF DeletionUpto
    <3> QED BY <2>2, <3>2
  <2>4. CASE k # 0
    <3>1. k - 1 \in Nat /\ k - 1 \notin bad
      BY <2>1, <2>2, <2>4
    <3>2. PICK f : DeletionUpto(f, s, p, D, k - 1)
      BY <3>1
    <3> DEFINE value(h, E) == IF E = {} THEN s
                              ELSE deleteHost(h[E \ {First(E)}], p, First(E))
               g == [E \in Upto(D, k) |-> value(f, E)]
    <3>3. ASSUME NEW E \in Upto(D, k)
          PROVE  g[E] = value(g, E)
      <4>1. CASE E = {}
        BY <4>1
      <4>2. CASE E # {}
        <5> DEFINE F == E \ {First(E)}
        <5>1. /\ Cardinality(E) \in Nat /\ Cardinality(E) <= k /\ F \in SUBSET D
              /\ Cardinality(F) = Cardinality(E) - 1
          BY <4>2, Fewer DEF Upto
        <5>2. F \in Upto(D, k - 1) /\ F \in Upto(D, k)
          BY <2>2, <5>1 DEF Upto
        <5> HIDE DEF F
        <5>3. g[F] = value(f, F) /\ f[F] = value(f, F)
          <6>1. g[F] = value(f, F)
            BY <5>2
          <6>2. f = [A \in Upto(D, k - 1) |-> value(f, A)]
            BY <3>2 DEF DeletionUpto
          <6> HIDE DEF value
          <6>3. f[F] = value(f, F)
            BY <5>2, <6>2
          <6> QED BY <6>1, <6>3
        <5>4. g[E] = deleteHost(f[F], p, First(E))
          BY <4>2 DEF F
        <5>5. value(g, E) = deleteHost(g[F], p, First(E))
          BY <4>2 DEF F
        <5> QED BY <5>3, <5>4, <5>5
      <4> QED BY <4>1, <4>2
    <3>4. g = [E \in Upto(D, k) |-> value(g, E)]
      <4>1. g = [E \in Upto(D, k) |-> g[E]]
        OBVIOUS
      <4> HIDE DEF g, value
      <4> QED BY <3>3, <4>1
    <3>5. DeletionUpto(g, s, p, D, k)
      BY <3>4 DEF DeletionUpto
    <3> QED BY <2>2, <3>5
  <2> QED BY <2>3, <2>4
<1>2. PICK f : DeletionUpto(f, s, p, D, Cardinality(D))
  BY <1>0, <1>1
<1>3. Upto(D, Cardinality(D)) = SUBSET D
  BY Fewer DEF Upto
<1> QED BY <1>2, <1>3 DEF Deletion, DeletionUpto

LEMMA DeletedIs ==
  ASSUME NEW D, IsFiniteSet(D), NEW s, NEW p
  PROVE  \E f : Deletion(f, s, p, D) /\ Deleted(s, p, D) = f[D]
<1> DEFINE f == CHOOSE f : Deletion(f, s, p, D)
<1>1. Deletion(f, s, p, D)
  BY DeletionExists
<1>2. Deleted(s, p, D) = f[D]
  BY DEF Deleted, FoldSet, MapThenFoldSet, Deletion, First
<1> QED BY <1>1, <1>2

\* G is closed under the deletion of one of the hosts still to be deleted: then of all.
LEMMA DeletedReaches ==
  ASSUME NEW D, IsFiniteSet(D), NEW s, NEW p, NEW G, <<s, D>> \in G,
         \A t : \A E \in SUBSET D : \A d \in E :
           <<t, E>> \in G => <<deleteHost(t, p, d), E \ {d}>> \in G
  PROVE  <<Deleted(s, p, D), {}>> \in G
<1>1. PICK f : Deletion(f, s, p, D) /\ Deleted(s, p, D) = f[D]
  BY DeletedIs
<1>2. ASSUME NEW E \in SUBSET D
      PROVE  /\ E = {} => f[E] = s
             /\ E # {} => f[E] = deleteHost(f[E \ {First(E)}], p, First(E))
  BY <1>1 DEF Deletion
<1> DEFINE bad == {Cardinality(E) : E \in {A \in SUBSET D : <<f[A], D \ A>> \notin G}}
<1>3. bad = {}
  <2> SUFFICES ASSUME bad # {}
               PROVE  FALSE
    OBVIOUS
  <2>1. bad \subseteq Nat
    <3>1. \A E \in SUBSET D : Cardinality(E) \in Nat
      BY Fewer
    <3> QED BY <3>1
  <2>2. Min(bad) \in bad /\ \A j \in bad : Min(bad) <= j
    <3> HIDE DEF bad
    <3> QED BY <2>1, MinProperties
  <2>3. PICK E \in SUBSET D : <<f[E], D \ E>> \notin G /\ Cardinality(E) = Min(bad)
    BY <2>2
  <2>4. E # {}
    <3>1. D \ {} = D
      OBVIOUS
    <3> QED BY <1>2, <2>3, <3>1
  <2> DEFINE x == First(E)
             F == E \ {x}
  <2>5. /\ x \in E /\ F \in SUBSET D /\ Cardinality(F) = Cardinality(E) - 1
        /\ Cardinality(E) \in Nat
    BY <2>4, Fewer
  <2>6. f[E] = deleteHost(f[F], p, x)
    BY <1>2, <2>4
  <2>7. D \ E = (D \ F) \ {x} /\ x \in D \ F /\ D \ F \in SUBSET D
    BY <2>5
  <2> HIDE DEF x, F
  <2>8. <<f[F], D \ F>> \in G
    <3>1. <<f[F], D \ F>> \notin G => Cardinality(F) \in bad
      BY <2>5
    <3> HIDE DEF bad
    <3> QED BY <2>2, <2>3, <2>5, <3>1
  <2>9. <<deleteHost(f[F], p, x), (D \ F) \ {x}>> \in G
    BY <2>7, <2>8
  <2> QED BY <2>3, <2>6, <2>7, <2>9
<1>4. <<f[D], D \ D>> \in G
  <2>1. Cardinality(D) \notin bad /\ D \in SUBSET D
    BY <1>3
  <2> QED BY <2>1
<1>5. D \ D = {}
  OBVIOUS
<1> QED BY <1>1, <1>4, <1>5

----------------------------------------------------------------------------
(* Other changes of the state *)

\* Sound depends on routes and connections alone.
LEMMA SameRoutesGood ==
  ASSUME NEW p, NEW D, NEW s, Good(s, p, D), NEW q \in StateType,
         q.route = s.route, q.table = s.table, q.link = s.link
  PROVE  Good(q, p, D)
<1>1. \A d, r : Sound(q, p, d, r) <=> Sound(s, p, d, r)
  BY SameConnections
<1>2. Neighbours(q) = Neighbours(s)
  BY SameConnections
<1> QED BY <1>1, <1>2 DEF Good, ClosedOffersNothing, OutdatedIsZero, OffersKnown

\* A connection that opens offers nothing yet.
LEMMA OpenGood ==
  ASSUME NEW p \in Peis, NEW D, NEW s, Good(s, p, D), NEW n \in Peis, n # p,
         NEW x \in {"offered", "unnamed", "open"}
  PROVE  LET q == [s EXCEPT !.link[n] = x] IN
         /\ Good(q, p, D) /\ q.link[n] = x
         /\ q.route = s.route /\ q.table = s.table /\ q.out = s.out
         /\ q.known = s.known /\ q.cluster = s.cluster /\ q.magic = s.magic
<1> DEFINE link == [s.link EXCEPT ![n] = x]
           q == [s EXCEPT !.link = link]
<1>0. s \in StateType /\ ClosedOffersNothing(s, p) /\ OutdatedIsZero(s) /\ OffersKnown(s)
  BY DEF Good
<1>1. /\ link \in [Peis -> {"closed", "offered", "unnamed", "open"}]
      /\ link[n] = x /\ x # "closed"
      /\ \A m \in Peis : m # n => link[m] = s.link[m]
  BY <1>0, StateIs
<1> HIDE DEF link
<1>2. /\ q \in StateType /\ q.route = s.route /\ q.table = s.table /\ q.link = link
      /\ q.out = s.out /\ q.known = s.known /\ q.cluster = s.cluster /\ q.magic = s.magic
  BY <1>0, <1>1 DEF StateType
<1> HIDE DEF q
<1>3. ClosedOffersNothing(q, p) /\ OutdatedIsZero(q)
  BY <1>0, <1>1, <1>2 DEF ClosedOffersNothing, OutdatedIsZero
<1>4. ASSUME NEW m \in Neighbours(q), m \notin Neighbours(s)
      PROVE  \A d \in DOMAIN s.table[m] : s.table[m][d].hops = OUTDATED /\ s.table[m][d].seq = 0
  <2>1. m \in Peis /\ s.link[m] = "closed"
    BY <1>4 DEF Neighbours
  <2> QED BY <1>0, <2>1 DEF ClosedOffersNothing, OutdatedIsZero
<1>5. Neighbours(s) \subseteq Neighbours(q)
  BY <1>1, <1>2 DEF Neighbours
<1>6. OffersKnown(q)
  <2> SUFFICES ASSUME NEW m \in Neighbours(q), NEW d \in DOMAIN q.table[m],
                      q.table[m][d].hops < LOST
               PROVE  d \in DOMAIN q.route
    BY DEF OffersKnown
  <2>1. CASE m \in Neighbours(s)
    BY <1>0, <1>2, <2>1 DEF OffersKnown
  <2>2. CASE m \notin Neighbours(s)
    BY <1>2, <1>4, <2>2, Constants
  <2> QED BY <2>1, <2>2
<1>7. ASSUME NEW d \in DOMAIN q.route
      PROVE  Sound(q, p, d, q.route[d]) /\ (q.route[d].hops = DELETED => d \in D)
  <2> DEFINE r == s.route[d]
  <2>1. r \in RouteType /\ q.route[d] = r
    BY <1>0, <1>2, StateIs, PartialIs
  <2>2. Sound(s, p, d, r) /\ (r.hops = DELETED => d \in D)
    BY <1>2 DEF Good
  <2> HIDE DEF r
  <2>3. Follows(s, d, r) => Follows(q, d, r)
    BY <1>2, <1>5 DEF Follows
  <2>4. ASSUME Beaten(s, d, r), NEW m \in Neighbours(q), d \in DOMAIN q.table[m]
        PROVE  Value(q.table[m][d]) <= r.seq - LOST
    <3>1. CASE m \in Neighbours(s)
      BY <1>2, <2>4, <3>1 DEF Beaten
    <3>2. CASE m \notin Neighbours(s)
      <4>1. q.table[m][d].hops = OUTDATED /\ q.table[m][d].seq = 0 /\ r.seq \in Nat
        BY <1>2, <1>4, <2>1, <2>4, <3>2, RouteFields
      <4> QED BY <4>1, Constants DEF Value
    <3> QED BY <3>1, <3>2
  <2>5. Beaten(s, d, r) => Beaten(q, d, r)
    BY <2>4 DEF Beaten
  <2>6. Sound(q, p, d, r)
    BY <2>2, <2>3, <2>5 DEF Sound
  <2> QED BY <2>1, <2>2, <2>6
<1>8. Good(q, p, D)
  BY <1>2, <1>3, <1>6, <1>7 DEF Good
<1> QED BY <1>1, <1>2, <1>8 DEF q, link

LEMMA CheckClustersIs ==
  ASSUME NEW s \in StateType, NEW p \in Peis
  PROVE  LET q == checkClusters(s, p) IN
         /\ q \in StateType
         /\ q.route = s.route /\ q.table = s.table /\ q.link = s.link /\ q.out = s.out
         /\ q.known = s.known /\ q.magic = s.magic
         /\ q.cluster = Min({p} \cup {d \in DOMAIN s.route : s.route[d].hops < 254})
<1> DEFINE S == {p} \cup {d \in DOMAIN s.route : s.route[d].hops < 254}
           q == [s EXCEPT !.cluster = Min(S)]
<1>1. DOMAIN s.route \subseteq Peis
  BY StateIs, PartialIs
<1>2. S \subseteq Peis /\ S # {} /\ S \subseteq Nat
  BY <1>1, Constants
<1>3. checkClusters(s, p) = q
  BY DEF checkClusters
<1> HIDE DEF S
<1>4. Min(S) \in Peis
  BY <1>2, MinProperties
<1>5. /\ q \in StateType
      /\ q.route = s.route /\ q.table = s.table /\ q.link = s.link /\ q.out = s.out
      /\ q.known = s.known /\ q.magic = s.magic /\ q.cluster = Min(S)
  BY <1>4 DEF StateType
<1> HIDE DEF q
<1> QED BY <1>3, <1>5 DEF S

LEMMA CheckClustersGood ==
  ASSUME NEW p \in Peis, NEW D, NEW s, Good(s, p, D)
  PROVE  Good(checkClusters(s, p), p, D)
<1> DEFINE q == checkClusters(s, p)
<1>1. s \in StateType
  BY DEF Good
<1>2. q \in StateType /\ q.route = s.route /\ q.table = s.table /\ q.link = s.link
  BY <1>1, CheckClustersIs
<1> HIDE DEF q
<1>3. Good(q, p, D)
  BY <1>2, SameRoutesGood
<1> QED BY <1>3 DEF q

----------------------------------------------------------------------------
(* peisk_decodeRoutingPages *)

LEMMA MetricIs ==
  ASSUME NEW h \in Nat
  PROVE  /\ Metric(h) = OUTDATED \/ Metric(h) \in 1 .. METRIC_GIVEUP - 1
         /\ Metric(h) < LOST <=> Metric(h) # OUTDATED
         /\ Metric(h) \in Nat
<1>1. CASE h >= LOST \/ h + METRIC_COST >= METRIC_GIVEUP
  BY <1>1, Constants DEF Metric
<1>2. CASE ~ (h >= LOST \/ h + METRIC_COST >= METRIC_GIVEUP)
  <2>1. Metric(h) = h + METRIC_COST
    BY <1>2 DEF Metric
  <2>2. h + METRIC_COST < METRIC_GIVEUP
    BY <1>2, Constants
  <2> QED BY <2>1, <2>2, Constants
<1> QED BY <1>1, <1>2

\* What is offered of d in T.
LEMMA OfferedIs ==
  ASSUME NEW T \in Partial(PackageType), NEW d \in DOMAIN T
  PROVE  /\ T[d].seq \in Nat /\ T[d].magic \in Magics
         /\ Metric(T[d].hops) \in Nat
         /\ d \in Offered(T) <=> Metric(T[d].hops) < LOST
         /\ d \in Offered(T) => Metric(T[d].hops) \in 1 .. METRIC_GIVEUP - 1
<1>1. T[d] \in PackageType
  BY PartialIs
<1>2. T[d].seq \in Nat /\ T[d].magic \in Magics /\ T[d].hops \in Nat
  BY <1>1, Constants DEF PackageType, RouteHops
<1>3. d \in Offered(T) <=> Metric(T[d].hops) < LOST
  BY DEF Offered
<1> QED BY <1>2, <1>3, MetricIs

LEMMA NewTableIs ==
  ASSUME NEW old \in Partial(OfferType), NEW T \in Partial(PackageType)
  PROVE  LET N == NewTable(old, T) IN
         /\ N \in Partial(OfferType)
         /\ \A d \in DOMAIN N : d \in Offered(T) /\ N[d].seq = T[d].seq
                                /\ N[d].hops = Metric(T[d].hops)
         /\ \A d \in Offered(T) : d \notin DOMAIN N => d \in DOMAIN old
<1> DEFINE S == {d \in Offered(T) :
                   d \in DOMAIN old => T[d].seq - Metric(T[d].hops) >= old[d].seq - OUTDATED}
           e(d) == [seq |-> T[d].seq, hops |-> Metric(T[d].hops),
                    magic |-> IF d \in DOMAIN old THEN old[d].magic ELSE T[d].magic]
           N == [d \in S |-> e(d)]
<1>1. NewTable(old, T) = N
  BY DEF NewTable
<1>2. Offered(T) \subseteq DOMAIN T /\ DOMAIN T \subseteq Peis /\ S \subseteq Offered(T)
  BY PartialIs DEF Offered
<1>3. \A d \in Offered(T) : d \notin S => d \in DOMAIN old
  OBVIOUS
<1> HIDE DEF S
<1>4. ASSUME NEW d \in S
      PROVE  e(d) \in OfferType
  <2>1. T[d].seq \in Nat /\ T[d].magic \in Magics /\ Metric(T[d].hops) \in 1 .. METRIC_GIVEUP - 1
    BY <1>2, OfferedIs
  <2>2. d \in DOMAIN old => old[d].magic \in Magics
    <3>1. d \in DOMAIN old => old[d] \in OfferType
      BY PartialIs
    <3> QED BY <3>1, OfferFields
  <2> QED BY <2>1, <2>2 DEF OfferType
<1>5. N \in Partial(OfferType) /\ DOMAIN N = S
  <2>1. N \in [S -> OfferType] /\ S \in SUBSET Peis
    BY <1>2, <1>4
  <2> HIDE DEF N
  <2> QED BY <2>1, PartialIntro
<1>6. \A d \in S : N[d].seq = T[d].seq /\ N[d].hops = Metric(T[d].hops)
  OBVIOUS
<1> HIDE DEF N
<1> QED BY <1>1, <1>2, <1>3, <1>5, <1>6

\* Who is not known by another magic number keeps its connection.
LEMMA ViaIs ==
  ASSUME NEW s \in StateType, NEW p, NEW n, NEW T \in Partial(PackageType), NEW d
  PROVE  \/ Via(s, p, n, T, d) = s.route[d].via
         \/ /\ Via(s, p, n, T, d) = n /\ s.route[d].via = NoConn
            /\ d # p /\ Restarting # {}
<1>1. CASE Restarting = {}
  <2>1. ASSUME d \in DOMAIN T, d \in DOMAIN s.known
        PROVE  s.known[d] = T[d].magic
    <3>1. s.known \in Partial(Magics)
      BY StateIs
    <3>2. s.known[d] \in Magics
      BY <2>1, <3>1, PartialIs
    <3>3. T[d].magic \in Magics
      BY <2>1, OfferedIs
    <3> QED BY <1>1, <3>2, <3>3 DEF Magics
  <2> QED BY <2>1 DEF Via
<1>2. CASE Restarting # {}
  BY <1>2 DEF Via
<1> QED BY <1>1, <1>2

\* A route becomes what n offers, if it is through n or worse, or it stays.
Offers(s, n, T, d, via, r) ==
  /\ d \in Offered(T)
  /\ r.seq = T[d].seq /\ r.hops = Metric(T[d].hops) /\ r.via = n
  /\ d \in DOMAIN s.route =>
       via = n \/ T[d].seq - Metric(T[d].hops) > s.route[d].seq - s.route[d].hops

Stays(s, n, T, d, via, r) ==
  /\ d \in DOMAIN s.route
  /\ r.seq = s.route[d].seq /\ r.hops = s.route[d].hops /\ r.via = via
  /\ d \in Offered(T) =>
       via # n /\ ~ (T[d].seq - Metric(T[d].hops) > s.route[d].seq - s.route[d].hops)

LEMMA MergedIs ==
  ASSUME NEW s \in StateType, NEW p \in Peis, NEW n \in Peis, NEW T \in Partial(PackageType)
  PROVE  LET M == Merged(s, p, n, T) IN
         /\ M \in Partial(RouteType) /\ DOMAIN M = DOMAIN s.route \cup Offered(T)
         /\ \A d \in DOMAIN M : \/ Offers(s, n, T, d, Via(s, p, n, T, d), M[d])
                                \/ Stays(s, n, T, d, Via(s, p, n, T, d), M[d])
<1> DEFINE offer(d) == [seq |-> T[d].seq, hops |-> Metric(T[d].hops), via |-> n,
                        magic |-> T[d].magic]
           taken(d) == /\ d \in Offered(T)
                       /\ d \in DOMAIN s.route =>
                            \/ Via(s, p, n, T, d) = n
                            \/ Value(offer(d)) > Value(s.route[d])
           S == DOMAIN s.route \cup Offered(T)
           kept(d) == [s.route[d] EXCEPT !.via = Via(s, p, n, T, d)]
           M == [d \in S |-> IF taken(d) THEN offer(d) ELSE kept(d)]
<1>1. Merged(s, p, n, T) = M
  BY DEF Merged
<1>2. /\ S \subseteq Peis /\ Offered(T) \subseteq DOMAIN T
      /\ \A d \in DOMAIN s.route : s.route[d] \in RouteType
  <2>1. s.route \in Partial(RouteType)
    BY StateIs
  <2> QED BY <2>1, PartialIs DEF Offered
<1>3. ASSUME NEW d \in S
      PROVE  LET r == IF taken(d) THEN offer(d) ELSE kept(d) IN
             /\ r \in RouteType
             /\ \/ Offers(s, n, T, d, Via(s, p, n, T, d), r)
                \/ Stays(s, n, T, d, Via(s, p, n, T, d), r)
  <2>1. CASE taken(d)
    <3>1. d \in Offered(T) /\ d \in DOMAIN T
      BY <1>2, <2>1
    <3>2. /\ T[d].seq \in Nat /\ T[d].magic \in Magics
          /\ Metric(T[d].hops) \in 1 .. METRIC_GIVEUP - 1
      BY <3>1, OfferedIs
    <3>3. Metric(T[d].hops) \in RouteHops
      BY <3>2, Constants DEF RouteHops
    <3>4. offer(d) \in RouteType
      BY <3>2, <3>3 DEF RouteType
    <3>5. Offers(s, n, T, d, Via(s, p, n, T, d), offer(d))
      BY <2>1, <3>1 DEF Offers, Value
    <3> HIDE DEF offer
    <3> QED BY <2>1, <3>4, <3>5
  <2>2. CASE ~ taken(d)
    <3> DEFINE via == Via(s, p, n, T, d)
    <3>1. d \in DOMAIN s.route /\ s.route[d] \in RouteType
      BY <1>2, <2>2
    <3>2. via \in Peis \cup {NoConn}
      <4>1. via = s.route[d].via \/ via = n
        BY ViaIs
      <4> QED BY <3>1, <4>1, RouteFields
    <3>3. d \in Offered(T) => via # n /\ ~ (Value(offer(d)) > Value(s.route[d]))
      BY <2>2, <3>1
    <3>4. d \in Offered(T) => ~ (T[d].seq - Metric(T[d].hops) > s.route[d].seq - s.route[d].hops)
      BY <3>3 DEF Value
    <3> HIDE DEF via
    <3> DEFINE r == [s.route[d] EXCEPT !.via = via]
    <3>5. /\ r \in RouteType /\ r.via = via
          /\ r.seq = s.route[d].seq /\ r.hops = s.route[d].hops
      BY <3>1, <3>2 DEF RouteType
    <3>6. r = kept(d)
      BY DEF via
    <3> HIDE DEF r
    <3>7. Stays(s, n, T, d, via, r)
      BY <3>1, <3>3, <3>4, <3>5 DEF Stays
    <3>8. r \in RouteType /\ Stays(s, n, T, d, Via(s, p, n, T, d), r)
      BY <3>5, <3>7 DEF via
    <3> HIDE DEF taken, offer, kept
    <3> QED BY <2>2, <3>6, <3>8
  <2> HIDE DEF taken, offer, kept
  <2> QED BY <2>1, <2>2
<1> HIDE DEF taken, offer, kept
<1>4. M \in Partial(RouteType) /\ DOMAIN M = S
  <2>1. M \in [S -> RouteType] /\ S \in SUBSET Peis
    BY <1>2, <1>3
  <2> HIDE DEF M, S
  <2> QED BY <2>1, PartialIntro
<1>5. \A d \in S : M[d] = IF taken(d) THEN offer(d) ELSE kept(d)
  OBVIOUS
<1> HIDE DEF M
<1>6. ASSUME NEW d \in DOMAIN M
      PROVE  \/ Offers(s, n, T, d, Via(s, p, n, T, d), M[d])
             \/ Stays(s, n, T, d, Via(s, p, n, T, d), M[d])
  BY <1>3, <1>4, <1>5
<1> QED BY <1>1, <1>4, <1>6 DEF S

\* The state with what n sent, before routes that n no longer offers are rescued,
\* and after.
Received(s, p, n, T) ==
  [s EXCEPT !.table[n] = NewTable(@, T), !.route = Merged(s, p, n, T)]

Withdrawn(s, p, n, T) ==
  LET M == Merged(s, p, n, T) IN
  {d \in DOMAIN M : /\ d \in DOMAIN s.table[n] /\ d \notin DOMAIN NewTable(s.table[n], T)
                    /\ M[d].via = n /\ M[d].hops < LOST}

Decoded(s, p, n, T) ==
  LET t == Received(s, p, n, T) IN
  [t EXCEPT !.route = [d \in DOMAIN @ |-> IF d \in Withdrawn(s, p, n, T)
                                          THEN Rescued(t, d, @[d]) ELSE @[d]]]

LEMMA ReceivedIs ==
  ASSUME NEW s \in StateType, NEW p \in Peis, NEW n \in Peis, NEW T \in Partial(PackageType)
  PROVE  LET t == Received(s, p, n, T) IN
         /\ t \in StateType /\ t.route = Merged(s, p, n, T)
         /\ t.table = [s.table EXCEPT ![n] = NewTable(s.table[n], T)]
         /\ t.link = s.link /\ t.out = s.out /\ t.known = s.known /\ t.magic = s.magic
         /\ t.cluster = s.cluster
<1> DEFINE table == [s.table EXCEPT ![n] = NewTable(s.table[n], T)]
           M == Merged(s, p, n, T)
           t == [s EXCEPT !.table = table, !.route = M]
<1>1. Received(s, p, n, T) = t
  BY DEF Received
<1>2. M \in Partial(RouteType)
  BY MergedIs
<1>3. table \in [Peis -> Partial(OfferType)]
  <2>1. s.table \in [Peis -> Partial(OfferType)]
    BY StateIs
  <2>2. s.table[n] \in Partial(OfferType)
    BY <2>1
  <2>3. NewTable(s.table[n], T) \in Partial(OfferType)
    BY <2>2, NewTableIs
  <2> QED BY <2>1, <2>3
<1> HIDE DEF table, M
<1>4. /\ t \in StateType /\ t.route = M /\ t.table = table
      /\ t.link = s.link /\ t.out = s.out /\ t.known = s.known /\ t.magic = s.magic
      /\ t.cluster = s.cluster
  BY <1>2, <1>3 DEF StateType
<1> QED BY <1>1, <1>4 DEF table, M

LEMMA DecodedIs ==
  ASSUME NEW s \in StateType, OutdatedIsZero(s), NEW p \in Peis, NEW n \in Peis,
         NEW T \in Partial(PackageType)
  PROVE  LET r == Decoded(s, p, n, T)
             t == Received(s, p, n, T) IN
         /\ decodeRoutingPages(s, p, n, T) = checkClusters(r, p)
         /\ OutdatedIsZero(t)
         /\ r \in StateType /\ DOMAIN r.route = DOMAIN t.route
         /\ r.table = t.table /\ r.link = t.link /\ r.out = t.out /\ r.known = t.known
         /\ r.magic = t.magic
         /\ \A d \in DOMAIN t.route :
              r.route[d] = IF d \in Withdrawn(s, p, n, T) THEN Rescued(t, d, t.route[d])
                           ELSE t.route[d]
<1> DEFINE t == Received(s, p, n, T)
           W == Withdrawn(s, p, n, T)
           route == [d \in DOMAIN t.route |-> IF d \in W THEN Rescued(t, d, t.route[d])
                                              ELSE t.route[d]]
           r == [t EXCEPT !.route = route]
<1>1. /\ t \in StateType /\ t.route = Merged(s, p, n, T)
      /\ t.table = [s.table EXCEPT ![n] = NewTable(s.table[n], T)]
  BY ReceivedIs
<1>2. /\ s.table \in [Peis -> Partial(OfferType)] /\ t.table[n] = NewTable(s.table[n], T)
      /\ \A m \in Peis : m # n => t.table[m] = s.table[m]
  BY <1>1, StateIs
<1> HIDE DEF t
<1>3. OutdatedIsZero(t)
  <2> SUFFICES ASSUME NEW m \in Peis, NEW d \in DOMAIN t.table[m], t.table[m][d].hops = OUTDATED
               PROVE  t.table[m][d].seq = 0
    BY DEF OutdatedIsZero
  <2>1. CASE m = n
    <3>1. s.table[n] \in Partial(OfferType)
      BY <1>2
    <3>2. /\ d \in Offered(T) /\ t.table[n][d].hops = Metric(T[d].hops)
      BY <1>2, <2>1, <3>1, NewTableIs
    <3>3. d \in DOMAIN T
      BY <3>2 DEF Offered
    <3>4. Metric(T[d].hops) < LOST
      BY <3>2, <3>3, OfferedIs
    <3> QED BY <2>1, <3>2, <3>4, Constants
  <2>2. CASE m # n
    BY <1>2, <2>2 DEF OutdatedIsZero
  <2> QED BY <2>1, <2>2
<1>4. \A d \in DOMAIN t.route : t.route[d] \in RouteType
  BY <1>1, StateIs, PartialIs
<1>5. decodeRoutingPages(s, p, n, T) = checkClusters(Decoded(s, p, n, T), p)
  <2> DEFINE u == [s EXCEPT !.table[n] = NewTable(@, T), !.route = Merged(s, p, n, T)]
             gone == DOMAIN s.table[n] \ DOMAIN u.table[n]
             old == [d \in DOMAIN u.route |->
                       IF d \in gone /\ u.route[d].via = n /\ u.route[d].hops < LOST
                       THEN Rescued(u, d, u.route[d]) ELSE u.route[d]]
             new == [d \in DOMAIN u.route |->
                       IF d \in W THEN Rescued(u, d, u.route[d]) ELSE u.route[d]]
  <2>1. u = t
    BY DEF t, Received
  <2>2. u.route = Merged(s, p, n, T) /\ u.table[n] = NewTable(s.table[n], T)
    BY <1>1, <1>2, <2>1
  <2> HIDE DEF u
  <2>3. \A d \in DOMAIN u.route :
          (d \in gone /\ u.route[d].via = n /\ u.route[d].hops < LOST) <=> d \in W
    BY <2>2 DEF Withdrawn
  <2> HIDE DEF gone, W
  <2>4. old = new
    BY <2>3
  <2>5. decodeRoutingPages(s, p, n, T) = checkClusters([u EXCEPT !.route = old], p)
    BY DEF decodeRoutingPages, u, gone
  <2>6. Decoded(s, p, n, T) = [u EXCEPT !.route = new]
    BY <2>1 DEF Decoded, t, W
  <2> QED BY <2>4, <2>5, <2>6
<1>6. Decoded(s, p, n, T) = r
  BY DEF Decoded, t
<1> HIDE DEF W
<1>7. route \in Partial(RouteType) /\ DOMAIN route = DOMAIN t.route
  <2>1. ASSUME NEW d \in DOMAIN t.route
        PROVE  Rescued(t, d, t.route[d]) \in RouteType
    BY <1>1, <1>3, <1>4, RescuedIs
  <2>2. route \in [DOMAIN t.route -> RouteType] /\ DOMAIN t.route \in SUBSET Peis
    BY <1>1, <1>4, <2>1, StateIs, PartialIs
  <2> HIDE DEF route
  <2> QED BY <2>2, PartialIntro
<1>8. \A d \in DOMAIN t.route :
        route[d] = IF d \in W THEN Rescued(t, d, t.route[d]) ELSE t.route[d]
  OBVIOUS
<1> HIDE DEF route
<1>9. /\ r \in StateType /\ r.route = route
      /\ r.table = t.table /\ r.link = t.link /\ r.out = t.out /\ r.known = t.known
      /\ r.magic = t.magic
  BY <1>1, <1>7 DEF StateType
<1> HIDE DEF r
<1> QED BY <1>3, <1>5, <1>6, <1>7, <1>8, <1>9 DEF t, W

LEMMA DecodeGood ==
  ASSUME NEW p \in Peis, NEW s, Good(s, p, {}), NEW n \in Peis, s.link[n] # "closed",
         NEW T \in Partial(PackageType)
  PROVE  Good(decodeRoutingPages(s, p, n, T), p, {})
<1> DEFINE t == Received(s, p, n, T)
           r == Decoded(s, p, n, T)
           M == Merged(s, p, n, T)
           N == NewTable(s.table[n], T)
           W == Withdrawn(s, p, n, T)
<1>0. /\ s \in StateType /\ ClosedOffersNothing(s, p) /\ OutdatedIsZero(s) /\ OffersKnown(s)
      /\ \A d \in DOMAIN s.route : Sound(s, p, d, s.route[d]) /\ s.route[d].hops # DELETED
  BY DEF Good
<1>1. /\ t \in StateType /\ t.route = M /\ t.link = s.link
      /\ t.table = [s.table EXCEPT ![n] = N]
  BY <1>0, ReceivedIs
<1>2. /\ M \in Partial(RouteType) /\ DOMAIN M = DOMAIN s.route \cup Offered(T)
      /\ \A d \in DOMAIN M : \/ Offers(s, n, T, d, Via(s, p, n, T, d), M[d])
                             \/ Stays(s, n, T, d, Via(s, p, n, T, d), M[d])
  BY <1>0, MergedIs
<1>3. s.table \in [Peis -> Partial(OfferType)] /\ s.table[n] \in Partial(OfferType)
  BY <1>0, StateIs
<1>4. /\ \A d \in DOMAIN N : d \in Offered(T) /\ N[d].seq = T[d].seq
                             /\ N[d].hops = Metric(T[d].hops)
      /\ \A d \in Offered(T) : d \notin DOMAIN N => d \in DOMAIN s.table[n]
  BY <1>3, NewTableIs
<1>5. /\ decodeRoutingPages(s, p, n, T) = checkClusters(r, p)
      /\ OutdatedIsZero(t)
      /\ r \in StateType /\ DOMAIN r.route = DOMAIN t.route
      /\ r.table = t.table /\ r.link = t.link
      /\ \A d \in DOMAIN t.route :
           r.route[d] = IF d \in W THEN Rescued(t, d, t.route[d]) ELSE t.route[d]
  BY <1>0, DecodedIs
<1>6. \A d : d \in W <=> /\ d \in DOMAIN M /\ d \in DOMAIN s.table[n] /\ d \notin DOMAIN N
                         /\ M[d].via = n /\ M[d].hops < LOST
  BY DEF Withdrawn
<1>7. /\ t.table[n] = N /\ \A m \in Peis : m # n => t.table[m] = s.table[m]
      /\ Neighbours(t) = Neighbours(s) /\ n \in Neighbours(s) /\ Neighbours(s) \subseteq Peis
  BY <1>1, <1>3 DEF Neighbours
<1>8. \A d \in Offered(T) : d \in DOMAIN T /\ Metric(T[d].hops) < LOST
                            /\ Metric(T[d].hops) \in Nat /\ T[d].seq \in Nat
  BY OfferedIs DEF Offered
<1>9. \A d \in DOMAIN s.route : s.route[d] \in RouteType
  BY <1>0, StateIs, PartialIs
<1> HIDE DEF t, r, M, N, W
<1>10. ClosedOffersNothing(r, p)
  BY <1>0, <1>1, <1>5, <1>7 DEF ClosedOffersNothing
<1>11. OutdatedIsZero(r)
  BY <1>5 DEF OutdatedIsZero
<1>12. OffersKnown(r)
  <2> SUFFICES ASSUME NEW m \in Neighbours(r), NEW d \in DOMAIN r.table[m], r.table[m][d].hops < LOST
               PROVE  d \in DOMAIN r.route
    BY DEF OffersKnown
  <2>1. m \in Neighbours(s) /\ r.table[m] = t.table[m]
    BY <1>5, <1>7 DEF Neighbours
  <2>2. CASE m = n
    BY <1>1, <1>2, <1>4, <1>5, <1>7, <2>1, <2>2
  <2>3. CASE m # n
    BY <1>0, <1>1, <1>2, <1>5, <1>7, <2>1, <2>3 DEF OffersKnown
  <2> QED BY <2>2, <2>3
<1>13. ASSUME NEW d \in W
       PROVE  Sound(t, p, d, r.route[d]) /\ r.route[d].hops # DELETED
  <2>1. d \in DOMAIN M /\ M[d] \in RouteType
    BY <1>2, <1>6, PartialIs
  <2>2. Sound(t, p, d, Rescued(t, d, M[d])) /\ Rescued(t, d, M[d]).hops # DELETED
    BY <1>1, <1>5, <2>1, RescuedSound
  <2>3. r.route[d] = Rescued(t, d, M[d])
    BY <1>1, <1>5, <2>1
  <2> QED BY <2>2, <2>3
<1>14. ASSUME NEW d \in DOMAIN M, d \notin W, Offers(s, n, T, d, Via(s, p, n, T, d), M[d])
       PROVE  Sound(t, p, d, M[d]) /\ M[d].hops # DELETED
  <2>1. /\ d \in Offered(T) /\ M[d].seq = T[d].seq /\ M[d].hops = Metric(T[d].hops)
        /\ M[d].via = n
    BY <1>14 DEF Offers
  <2>2. M[d].hops < LOST /\ ~ (M[d].hops >= LOST) /\ M[d].hops # DELETED
    BY <1>8, <2>1, Constants
  <2>3. d \in DOMAIN N
    BY <1>4, <1>6, <1>14, <2>1, <2>2
  <2>4. Follows(t, d, M[d])
    BY <1>4, <1>7, <2>1, <2>3 DEF Follows
  <2>5. n # NoConn
    BY Constants
  <2> QED BY <2>1, <2>2, <2>4, <2>5 DEF Sound
<1>15. ASSUME NEW d \in DOMAIN M, d \notin W, Stays(s, n, T, d, Via(s, p, n, T, d), M[d])
       PROVE  Sound(t, p, d, M[d]) /\ M[d].hops # DELETED
  <2> DEFINE x == s.route[d]
             y == M[d]
             via == Via(s, p, n, T, d)
  <2>1. /\ d \in DOMAIN s.route /\ y.seq = x.seq /\ y.hops = x.hops /\ y.via = via
        /\ d \in Offered(T) => via # n /\ ~ (T[d].seq - Metric(T[d].hops) > x.seq - x.hops)
    BY <1>15 DEF Stays
  <2>2. x \in RouteType /\ Sound(s, p, d, x) /\ x.hops # DELETED
    BY <1>0, <1>9, <2>1
  <2>3. \/ via = x.via
        \/ via = n /\ x.via = NoConn /\ d # p /\ Restarting # {}
    BY <1>0, ViaIs
  <2>4. d \in W <=> d \in DOMAIN s.table[n] /\ d \notin DOMAIN N /\ via = n /\ x.hops < LOST
    BY <1>6, <2>1
  <2> HIDE DEF x, y, via
  <2>5. x.seq \in Nat /\ x.hops \in Int /\ x.hops >= 0
    BY <2>2, RouteFields
  <2>6. ASSUME x.hops < LOST
        PROVE  IF via = NoConn THEN d = p ELSE Follows(t, d, y)
    <3>1. via = x.via
      BY <2>2, <2>3, <2>6 DEF Sound
    <3>2. CASE via = NoConn
      BY <2>2, <2>6, <3>1, <3>2 DEF Sound
    <3>3. CASE via # NoConn
      <4>1. Follows(s, d, x)
        BY <2>2, <2>6, <3>1, <3>3 DEF Sound
      <4>2. via # n
        <5> SUFFICES ASSUME via = n
                     PROVE  FALSE
          OBVIOUS
        <5>1. d \notin Offered(T) /\ d \in DOMAIN s.table[n]
          BY <2>1, <3>1, <4>1 DEF Follows
        <5>2. d \notin DOMAIN N
          BY <1>4, <5>1
        <5> QED BY <1>15, <2>4, <2>6, <5>1, <5>2
      <4>3. Follows(t, d, y)
        BY <1>7, <2>1, <3>1, <4>1, <4>2 DEF Follows
      <4> QED BY <3>3, <4>3
    <3> QED BY <3>2, <3>3
  <2>7. ASSUME x.hops >= LOST
        PROVE  (d = p \/ Beaten(t, d, y)) /\ (Restarting = {} => via = NoConn)
    <3>1. d = p \/ Beaten(s, d, x)
      BY <2>2, <2>7 DEF Sound
    <3>2. Restarting = {} => via = NoConn
      BY <2>2, <2>3, <2>7 DEF Sound
    <3>3. ASSUME Beaten(s, d, x), NEW m \in Neighbours(t), d \in DOMAIN t.table[m]
          PROVE  Value(t.table[m][d]) <= y.seq - LOST
      <4>1. CASE m # n
        BY <1>7, <2>1, <3>3, <4>1 DEF Beaten
      <4>2. CASE m = n
        <5>1. /\ d \in Offered(T) /\ t.table[m][d].seq = T[d].seq
              /\ t.table[m][d].hops = Metric(T[d].hops)
          BY <1>4, <1>7, <3>3, <4>2
        <5>2. ~ (T[d].seq - Metric(T[d].hops) > x.seq - x.hops)
          BY <2>1, <5>1
        <5>3. T[d].seq - Metric(T[d].hops) <= x.seq - LOST
          BY <1>8, <2>5, <2>7, <5>1, <5>2, Constants
        <5> QED BY <2>1, <5>1, <5>3 DEF Value
      <4> QED BY <4>1, <4>2
    <3>4. Beaten(s, d, x) => Beaten(t, d, y)
      BY <3>3 DEF Beaten
    <3> QED BY <3>1, <3>2, <3>4
  <2>8. Sound(t, p, d, y)
    BY <2>1, <2>6, <2>7 DEF Sound
  <2> QED BY <2>1, <2>2, <2>8 DEF y
<1>16. ASSUME NEW d \in DOMAIN r.route
       PROVE  Sound(r, p, d, r.route[d]) /\ r.route[d].hops # DELETED
  <2>1. Sound(t, p, d, r.route[d]) /\ r.route[d].hops # DELETED
    <3>1. CASE d \in W
      BY <1>13, <3>1
    <3>2. CASE d \notin W
      <4>1. d \in DOMAIN M /\ r.route[d] = M[d]
        BY <1>1, <1>5, <3>2
      <4> QED BY <1>2, <1>14, <1>15, <3>2, <4>1
    <3> QED BY <3>1, <3>2
  <2> QED BY <1>5, <2>1, SameConnections
<1>17. Good(r, p, {})
  BY <1>5, <1>10, <1>11, <1>12, <1>16 DEF Good
<1> QED BY <1>5, <1>17, CheckClustersGood

----------------------------------------------------------------------------
(* peisk_periodic_routing *)

Aging(s, p) == {d \in DOMAIN s.route \ {p} : s.route[d].hops >= LOST /\ s.route[d].hops < DELETED}

Aged(s, p) ==
  [s EXCEPT !.route = [d \in DOMAIN s.route |->
     IF d \in Aging(s, p) THEN [s.route[d] EXCEPT !.hops = @ + 1] ELSE s.route[d]]]

Dead(s, p) == {d \in Aging(s, p) : Aged(s, p).route[d].hops = DELETED}

\* The state after peisk_periodic_routing.
Routed(p) ==
  LET s == do_routing(node[p], p, Neighbours(node[p]))
      q == Deleted(Aged(s, p), p, Dead(s, p))
  IN  IF Dead(s, p) = {} THEN q ELSE checkClusters(q, p)

LEMMA PeriodicIs ==
  ASSUME NEW p \in Peis, periodic_routing(p)
  PROVE  /\ node' = [node EXCEPT ![p] = Routed(p)]
         /\ LET s == do_routing(node[p], p, Neighbours(node[p])) IN
            deadMail' = deadMail \cup
              {<<p, d>> : d \in {d \in Dead(s, p) : /\ s.link[d] # "open"
                                                    /\ s.route[d].via \in Neighbours(s)}}
BY DEF periodic_routing, Become, Routed, Deleted, Dead, Aged, Aging

LEMMA AgedIs ==
  ASSUME NEW s \in StateType, NEW p
  PROVE  LET q == Aged(s, p) IN
         /\ q \in StateType
         /\ q.table = s.table /\ q.link = s.link /\ q.out = s.out /\ q.known = s.known
         /\ q.cluster = s.cluster /\ q.magic = s.magic
         /\ DOMAIN q.route = DOMAIN s.route
         /\ \A d \in DOMAIN s.route :
              /\ q.route[d].seq = s.route[d].seq /\ q.route[d].via = s.route[d].via
              /\ q.route[d].hops = IF d \in Aging(s, p) THEN s.route[d].hops + 1
                                   ELSE s.route[d].hops
<1> DEFINE A == Aging(s, p)
           route == [d \in DOMAIN s.route |->
                       IF d \in A THEN [s.route[d] EXCEPT !.hops = @ + 1] ELSE s.route[d]]
           q == [s EXCEPT !.route = route]
<1>1. Aged(s, p) = q
  BY DEF Aged
<1>2. DOMAIN s.route \in SUBSET Peis /\ \A d \in DOMAIN s.route : s.route[d] \in RouteType
  <2>1. s.route \in Partial(RouteType)
    BY StateIs
  <2> QED BY <2>1, PartialIs
<1>3. \A d \in A : s.route[d].hops >= LOST /\ s.route[d].hops < DELETED
  BY DEF Aging
<1> HIDE DEF A
<1>4. ASSUME NEW d \in DOMAIN s.route
      PROVE  LET r == IF d \in A THEN [s.route[d] EXCEPT !.hops = @ + 1] ELSE s.route[d] IN
             /\ r \in RouteType /\ r.seq = s.route[d].seq /\ r.via = s.route[d].via
             /\ r.hops = IF d \in A THEN s.route[d].hops + 1 ELSE s.route[d].hops
  <2>1. CASE d \in A
    <3> DEFINE h == s.route[d].hops + 1
               r == [s.route[d] EXCEPT !.hops = h]
    <3>1. h \in RouteHops
      <4>1. s.route[d].hops \in Int
        BY <1>2, RouteFields
      <4> QED BY <1>3, <2>1, <4>1, Constants DEF RouteHops
    <3> HIDE DEF h
    <3>2. r \in RouteType /\ r.seq = s.route[d].seq /\ r.via = s.route[d].via /\ r.hops = h
      BY <1>2, <3>1 DEF RouteType
    <3> QED BY <2>1, <3>2 DEF h
  <2>2. CASE d \notin A
    BY <1>2, <2>2
  <2> QED BY <2>1, <2>2
<1>5. route \in Partial(RouteType) /\ DOMAIN route = DOMAIN s.route
  <2>1. route \in [DOMAIN s.route -> RouteType]
    BY <1>4
  <2> HIDE DEF route
  <2> QED BY <1>2, <2>1, PartialIntro
<1>6. \A d \in DOMAIN s.route :
        /\ route[d].seq = s.route[d].seq /\ route[d].via = s.route[d].via
        /\ route[d].hops = IF d \in A THEN s.route[d].hops + 1 ELSE s.route[d].hops
  BY <1>4
<1> HIDE DEF route
<1>7. /\ q \in StateType /\ q.route = route
      /\ q.table = s.table /\ q.link = s.link /\ q.out = s.out /\ q.known = s.known
      /\ q.cluster = s.cluster /\ q.magic = s.magic
  BY <1>5 DEF StateType
<1> HIDE DEF q
<1> QED BY <1>1, <1>5, <1>6, <1>7 DEF A

LEMMA AgedGood ==
  ASSUME NEW p \in Peis, NEW s, Good(s, p, {})
  PROVE  Good(Aged(s, p), p, Dead(s, p))
<1> DEFINE q == Aged(s, p)
<1>0. s \in StateType /\ ClosedOffersNothing(s, p) /\ OutdatedIsZero(s) /\ OffersKnown(s)
  BY DEF Good
<1>1. /\ q \in StateType /\ q.table = s.table /\ q.link = s.link
      /\ DOMAIN q.route = DOMAIN s.route
      /\ \A d \in DOMAIN s.route :
           /\ q.route[d].seq = s.route[d].seq /\ q.route[d].via = s.route[d].via
           /\ q.route[d].hops = IF d \in Aging(s, p) THEN s.route[d].hops + 1
                                ELSE s.route[d].hops
  BY <1>0, AgedIs
<1>2. \A d : d \in Dead(s, p) <=> d \in Aging(s, p) /\ q.route[d].hops = DELETED
  BY DEF Dead
<1> HIDE DEF q
<1>3. ClosedOffersNothing(q, p) /\ OutdatedIsZero(q)
  BY <1>0, <1>1 DEF ClosedOffersNothing, OutdatedIsZero
<1>4. OffersKnown(q)
  BY <1>0, <1>1, SameConnections DEF OffersKnown
<1>5. ASSUME NEW d \in DOMAIN q.route
      PROVE  Sound(q, p, d, q.route[d]) /\ (q.route[d].hops = DELETED => d \in Dead(s, p))
  <2> DEFINE x == s.route[d]
             y == q.route[d]
  <2>1. /\ y.seq = x.seq /\ y.via = x.via
        /\ y.hops = IF d \in Aging(s, p) THEN x.hops + 1 ELSE x.hops
    BY <1>1
  <2>2. x \in RouteType
    BY <1>0, <1>1, StateIs, PartialIs
  <2>3. Sound(s, p, d, x) /\ x.hops # DELETED
    BY <1>1 DEF Good
  <2>4. d \in Aging(s, p) => x.hops >= LOST
    BY DEF Aging
  <2> HIDE DEF x, y
  <2>5. y.hops < LOST <=> x.hops < LOST
    BY <2>1, <2>2, <2>4, RouteFields, Constants
  <2>6. y.hops >= LOST <=> x.hops >= LOST
    BY <2>1, <2>2, <2>4, RouteFields, Constants
  <2>7. y.hops < LOST => y.hops = x.hops
    BY <2>1, <2>2, <2>4, RouteFields, Constants
  <2>8. Sound(s, p, d, y)
    <3>1. y.hops < LOST /\ Follows(s, d, x) => Follows(s, d, y)
      BY <2>1, <2>7 DEF Follows
    <3>2. Beaten(s, d, x) => Beaten(s, d, y)
      BY <2>1 DEF Beaten
    <3> QED BY <2>1, <2>3, <2>5, <2>6, <3>1, <3>2 DEF Sound
  <2>9. Sound(q, p, d, y)
    BY <1>1, <2>8, SameConnections
  <2>10. y.hops = DELETED => d \in Dead(s, p)
    BY <1>2, <2>1, <2>3 DEF y
  <2> QED BY <2>9, <2>10 DEF y
<1>6. Good(q, p, Dead(s, p))
  BY <1>1, <1>3, <1>4, <1>5 DEF Good
<1> QED BY <1>6 DEF q

LEMMA DeletedGood ==
  ASSUME NEW p \in Peis, NEW D \in SUBSET Peis, p \notin D, NEW s, Good(s, p, D)
  PROVE  Good(Deleted(s, p, D), p, {})
<1> DEFINE G == {x \in StateType \X SUBSET D : Good(x[1], p, x[2])}
<1>1. IsFiniteSet(D)
  BY FS_Subset, Constants
<1>2. <<s, D>> \in G
  BY DEF Good
<1>3. ASSUME NEW t, NEW E \in SUBSET D, NEW d \in E, <<t, E>> \in G
      PROVE  <<deleteHost(t, p, d), E \ {d}>> \in G
  <2>1. Good(t, p, E) /\ p \notin E /\ d \in Peis
    BY <1>3
  <2>2. Good(deleteHost(t, p, d), p, E \ {d})
    BY <2>1, DeleteGood
  <2>3. deleteHost(t, p, d) \in StateType /\ E \ {d} \in SUBSET D
    BY <2>2 DEF Good
  <2> QED BY <2>2, <2>3
<1> HIDE DEF G
<1>4. <<Deleted(s, p, D), {}>> \in G
  BY <1>1, <1>2, <1>3, DeletedReaches
<1> QED BY <1>4 DEF G

LEMMA RoutedGood ==
  ASSUME NEW p \in Peis, Good(node[p], p, {})
  PROVE  Good(Routed(p), p, {})
<1> DEFINE s == do_routing(node[p], p, Neighbours(node[p]))
           D == Dead(s, p)
<1>1. Sends(node[p], s, p)
  BY DoRoutingSends DEF Good
<1>2. Good(s, p, {})
  BY <1>1, SendsGood
<1> HIDE DEF s
<1>3. Good(Aged(s, p), p, D)
  BY <1>2, AgedGood
<1>4. D \in SUBSET Peis /\ p \notin D
  <2>1. s.route \in Partial(RouteType)
    BY <1>2, StateIs DEF Good
  <2>2. DOMAIN s.route \subseteq Peis
    BY <2>1, PartialIs
  <2> QED BY <2>2 DEF Dead, Aging
<1> HIDE DEF D
<1>5. Good(Deleted(Aged(s, p), p, D), p, {})
  BY <1>3, <1>4, DeletedGood
<1> QED BY <1>5, CheckClustersGood DEF Routed, s, D

\* A peis that has just started knows nothing.
LEMMA BootedGood ==
  ASSUME NEW p \in Peis, NEW m \in Magics
  PROVE  Good(Booted(p, m), p, {}) /\ DOMAIN Booted(p, m).route = {}
<1> DEFINE s == Booted(p, m)
<1>1. Empty \in Partial(RouteType) /\ Empty \in Partial(OfferType) /\ Empty \in Partial(Magics)
      /\ DOMAIN Empty = {}
  <2>1. Empty \in [{} -> RouteType] /\ Empty \in [{} -> OfferType] /\ Empty \in [{} -> Magics]
    BY DEF Empty
  <2>2. {} \in SUBSET Peis
    OBVIOUS
  <2> QED BY <2>1, <2>2, PartialIntro
<1> DEFINE table == [n \in Peis |-> Empty]
           link == [n \in Peis |-> "closed"]
           out == [n \in Peis |-> <<>>]
<1>2. /\ table \in [Peis -> Partial(OfferType)] /\ \A n \in Peis : table[n] = Empty
      /\ link \in [Peis -> {"closed", "offered", "unnamed", "open"}]
      /\ \A n \in Peis : link[n] = "closed"
      /\ out \in [Peis -> Seq(Partial(PackageType))]
  <2>1. <<>> \in Seq(Partial(PackageType))
    OBVIOUS
  <2> QED BY <1>1, <2>1
<1> HIDE DEF table, link, out
<1>3. s = [route |-> Empty, table |-> table, link |-> link, out |-> out, known |-> Empty,
           cluster |-> p, magic |-> m]
  BY DEF Booted, table, link, out
<1>4. /\ s \in StateType /\ s.route = Empty /\ s.table = table /\ s.link = link
  BY <1>1, <1>2, <1>3 DEF StateType
<1> HIDE DEF s
<1>5. Neighbours(s) = {}
  BY <1>2, <1>4 DEF Neighbours
<1>6. /\ ClosedOffersNothing(s, p) /\ OutdatedIsZero(s) /\ OffersKnown(s)
  BY <1>1, <1>2, <1>4, <1>5 DEF ClosedOffersNothing, OutdatedIsZero, OffersKnown
<1> QED BY <1>1, <1>4, <1>6 DEF Good, s

----------------------------------------------------------------------------
(* The invariant whatever the peis do *)

MailIs(mail) == mail \subseteq Peis \X Peis /\ \A x \in mail : x[1] # x[2]

LEMMA InitGood == Init => IInv
<1> SUFFICES ASSUME Init
             PROVE  IInv
  OBVIOUS
<1>1. ASSUME NEW p \in Peis
      PROVE  Good(Booted(p, 0), p, {})
  <2>1. 0 \in Magics
    BY Constants
  <2> QED BY <1>1, <2>1, BootedGood
<1>2. node = [p \in Peis |-> Booted(p, 0)] /\ deadMail = {}
  BY DEF Init
<1>3. \A p \in Peis : node[p] = Booted(p, 0)
  BY <1>2
<1>4. \A p \in Peis : Good(node[p], p, {}) /\ node[p] \in StateType
  BY <1>1, <1>3 DEF Good
<1> QED BY <1>2, <1>4 DEF IInv

\* One peis changes its state.
LEMMA BecomeGood ==
  ASSUME IInv, NEW p \in Peis, NEW q, Good(q, p, {}), node' = [node EXCEPT ![p] = q],
         MailIs(deadMail')
  PROVE  IInv'
<1>1. q \in StateType
  BY DEF Good
<1>2. node' \in [Peis -> StateType] /\ node'[p] = q
      /\ \A m \in Peis : m # p => node'[m] = node[m]
  BY <1>1 DEF IInv
<1>3. \A m \in Peis : Good(node'[m], m, {})
  BY <1>2 DEF IInv
<1> QED BY <1>2, <1>3 DEF IInv, MailIs

LEMMA NodeIs ==
  ASSUME IInv, NEW p \in Peis
  PROVE  /\ Good(node[p], p, {}) /\ node[p] \in StateType /\ MailIs(deadMail)
         /\ node[p].link[p] = "closed"
BY DEF IInv, MailIs, Good, ClosedOffersNothing

LEMMA PeriodicGood ==
  ASSUME IInv, NEW p \in Peis, periodic_routing(p)
  PROVE  IInv'
<1> DEFINE s == do_routing(node[p], p, Neighbours(node[p]))
<1>1. Good(node[p], p, {}) /\ MailIs(deadMail) /\ node[p] \in StateType
  BY NodeIs
<1>2. /\ node' = [node EXCEPT ![p] = Routed(p)]
      /\ deadMail' = deadMail \cup
           {<<p, d>> : d \in {d \in Dead(s, p) : s.link[d] # "open" /\ s.route[d].via \in Neighbours(s)}}
  BY PeriodicIs
<1>3. \A d \in Dead(s, p) : d \in Peis /\ d # p
  <2>1. s \in StateType
    BY <1>1, DoRoutingSends DEF Sends
  <2> HIDE DEF s
  <2>2. s.route \in Partial(RouteType)
    BY <2>1, StateIs
  <2> QED BY <2>2, PartialIs DEF Dead, Aging
<1> HIDE DEF s
<1>4. MailIs(deadMail')
  BY <1>1, <1>2, <1>3 DEF MailIs
<1>5. Good(Routed(p), p, {})
  BY <1>1, RoutedGood
<1> QED BY <1>2, <1>4, <1>5, BecomeGood

LEMMA DoRoutingGood ==
  ASSUME NEW p \in Peis, NEW s, Good(s, p, {}), NEW N
  PROVE  Good(do_routing(s, p, N), p, {})
<1>1. Sends(s, do_routing(s, p, N), p)
  BY DoRoutingSends DEF Good
<1> QED BY <1>1, SendsGood

LEMMA OpenedGood ==
  ASSUME NEW p \in Peis, NEW n \in Peis, n # p, Good(node[p], p, {}),
         NEW x \in {"offered", "unnamed", "open"}
  PROVE  Good([node[p] EXCEPT !.link[n] = x], p, {})
<1>1. ASSUME NEW t, Good(t, p, {})
      PROVE  Good([t EXCEPT !.link[n] = x], p, {})
  BY <1>1, OpenGood
<1> QED BY <1>1

LEMMA ConnectGood ==
  ASSUME IInv, NEW p \in Peis, NEW n \in Peis, connect(p, n)
  PROVE  IInv'
<1> DEFINE s == [node[p] EXCEPT !.link[n] = "offered"]
<1>1. node' = [node EXCEPT ![p] = do_routing(s, p, {n})] /\ deadMail' = deadMail /\ n # p
  BY DEF connect, Become
<1>2. Good(s, p, {})
  BY <1>1, NodeIs, OpenedGood
<1> HIDE DEF s
<1>3. Good(do_routing(s, p, {n}), p, {})
  BY <1>2, DoRoutingGood
<1> QED BY <1>1, <1>3, BecomeGood, NodeIs

LEMMA AcceptGood ==
  ASSUME IInv, NEW p \in Peis, NEW n \in Peis, accept(p, n)
  PROVE  IInv'
<1> DEFINE s == [node[p] EXCEPT !.link[n] = "open"]
           q == do_routing(s, p, {n})
           r == [node[n] EXCEPT !.link[p] = "unnamed"]
<1>1. n # p
  BY NodeIs DEF accept
<1>2. node' = [node EXCEPT ![p] = q, ![n].link[p] = "unnamed"] /\ deadMail' = deadMail
  BY DEF accept
<1>3. Good(s, p, {}) /\ Good(r, n, {})
  <2>1. Good(node[p], p, {}) /\ Good(node[n], n, {}) /\ n # p /\ p # n
    BY <1>1, NodeIs
  <2>2. Good(s, p, {})
    BY <2>1, OpenedGood
  <2>3. Good(r, n, {})
    BY <2>1, OpenedGood
  <2> QED BY <2>2, <2>3
<1> HIDE DEF s
<1>4. Good(q, p, {})
  BY <1>3, DoRoutingGood
<1>5. q \in StateType /\ r \in StateType
  BY <1>3, <1>4 DEF Good
<1> HIDE DEF q
<1>6. node \in [Peis -> StateType]
  BY DEF IInv
<1>7. /\ node' \in [Peis -> StateType] /\ node'[p] = q /\ node'[n] = r
      /\ \A m \in Peis : m # p /\ m # n => node'[m] = node[m]
  BY <1>1, <1>2, <1>5, <1>6
<1> HIDE DEF r
<1>8. \A m \in Peis : Good(node'[m], m, {})
  BY <1>3, <1>4, <1>7 DEF IInv
<1> QED BY <1>2, <1>7, <1>8 DEF IInv

LEMMA OutGood ==
  ASSUME NEW p \in Peis, NEW s, Good(s, p, {}), NEW n \in Peis, s.out[n] # <<>>
  PROVE  LET q == [s EXCEPT !.out[n] = Tail(@)] IN
         /\ Good(q, p, {}) /\ Head(s.out[n]) \in Partial(PackageType)
         /\ q.route = s.route /\ q.table = s.table /\ q.cluster = s.cluster
         /\ q.out = [s.out EXCEPT ![n] = Tail(s.out[n])]
<1> DEFINE out == [s.out EXCEPT ![n] = Tail(s.out[n])]
           q == [s EXCEPT !.out = out]
<1>1. s \in StateType
  BY DEF Good
<1>2. s.out \in [Peis -> Seq(Partial(PackageType))] /\ s.out[n] \in Seq(Partial(PackageType))
  BY <1>1, StateIs
<1>3. Head(s.out[n]) \in Partial(PackageType) /\ Tail(s.out[n]) \in Seq(Partial(PackageType))
  BY <1>2
<1>4. out \in [Peis -> Seq(Partial(PackageType))]
  BY <1>2, <1>3
<1> HIDE DEF out
<1>5. /\ q \in StateType /\ q.route = s.route /\ q.table = s.table /\ q.link = s.link
      /\ q.cluster = s.cluster /\ q.out = out
  BY <1>1, <1>4 DEF StateType
<1>6. Good(q, p, {})
  BY <1>5, SameRoutesGood
<1> QED BY <1>3, <1>5, <1>6 DEF out

LEMMA HookRoutingGood ==
  ASSUME IInv, NEW p \in Peis, NEW n \in Peis, hook_routing(p, n)
  PROVE  IInv'
<1> DEFINE s == [node[p] EXCEPT !.link[n] = "open"]
           T == Head(node[n].out[p])
           q == decodeRoutingPages(s, p, n, T)
           r == [node[n] EXCEPT !.out[p] = Tail(@)]
<1>1. n # p
  BY NodeIs DEF hook_routing
<1>2. node' = [node EXCEPT ![p] = q, ![n].out[p] = Tail(@)] /\ deadMail' = deadMail
      /\ node[n].out[p] # <<>>
  BY DEF hook_routing
<1>3. Good(r, n, {}) /\ T \in Partial(PackageType)
  <2>1. Good(node[n], n, {})
    BY NodeIs
  <2>2. Good(r, n, {}) /\ Head(node[n].out[p]) \in Partial(PackageType)
    BY <1>2, <2>1, OutGood
  <2> QED BY <2>2
<1>4. Good(s, p, {}) /\ s.link[n] = "open"
  <2>1. Good(node[p], p, {}) /\ n # p
    BY <1>1, NodeIs
  <2>2. Good(s, p, {})
    BY <2>1, OpenedGood
  <2>3. node[p] \in StateType
    BY <2>1 DEF Good
  <2>4. s.link[n] = "open"
    BY <2>3 DEF StateType
  <2> QED BY <2>2, <2>4
<1> HIDE DEF s, T
<1>5. Good(q, p, {})
  <2>1. s.link[n] # "closed"
    BY <1>4
  <2> QED BY <1>3, <1>4, <2>1, DecodeGood
<1>6. q \in StateType /\ r \in StateType
  BY <1>3, <1>5 DEF Good
<1> HIDE DEF q
<1>7. node \in [Peis -> StateType]
  BY DEF IInv
<1>8. /\ node' \in [Peis -> StateType] /\ node'[p] = q /\ node'[n] = r
      /\ \A m \in Peis : m # p /\ m # n => node'[m] = node[m]
  BY <1>1, <1>2, <1>6, <1>7
<1> HIDE DEF r
<1>9. \A m \in Peis : Good(node'[m], m, {})
  BY <1>3, <1>5, <1>8 DEF IInv
<1> QED BY <1>2, <1>8, <1>9 DEF IInv

LEMMA CloseStepGood ==
  ASSUME IInv, NEW p \in Peis, NEW n \in Peis, close(p, n)
  PROVE  IInv'
<1>1. node' = [node EXCEPT ![p] = closeConnection(node[p], p, n)] /\ deadMail' = deadMail
  BY DEF close, Become
<1>2. Good(closeConnection(node[p], p, n), p, {})
  BY NodeIs, CloseGood
<1> QED BY <1>1, <1>2, BecomeGood, NodeIs

LEMMA HookDeadHostGood ==
  ASSUME IInv, NEW p \in Peis, NEW n \in Peis, hook_deadHost(p, n)
  PROVE  IInv'
<1>1. /\ node' = [node EXCEPT ![p] = deleteHost(node[p], p, n)]
      /\ deadMail' = deadMail \ {<<n, p>>}
  BY DEF hook_deadHost, Become
<1>2. Good(deleteHost(node[p], p, n), p, {} \ {n})
  BY NodeIs, DeleteGood
<1>3. {} \ {n} = {}
  OBVIOUS
<1>4. MailIs(deadMail')
  BY <1>1, NodeIs DEF MailIs
<1>5. Good(deleteHost(node[p], p, n), p, {})
  BY <1>2, <1>3
<1> QED BY <1>1, <1>4, <1>5, BecomeGood

LEMMA HookHostInfoGood ==
  ASSUME IInv, NEW p \in Peis, NEW d \in Peis, NEW m \in 0 .. node[d].magic,
         hook_hostInfo(p, d, m)
  PROVE  IInv'
<1> DEFINE s == node[p]
           learnt(t) == [t EXCEPT !.known = [h \in DOMAIN @ \cup {d} |-> IF h = d THEN m ELSE @[h]]]
<1>1. m \in Magics
  <2>1. node[d].magic \in Magics
    BY NodeIs, StateIs
  <2>2. MaxRestarts \in Nat
    BY RoutingAssumption
  <2> QED BY <2>1, <2>2 DEF Magics
<1>2. ASSUME NEW t, Good(t, p, {})
      PROVE  Good(learnt(t), p, {})
  <2> DEFINE known == [h \in DOMAIN t.known \cup {d} |-> IF h = d THEN m ELSE t.known[h]]
             q == [t EXCEPT !.known = known]
  <2>1. t \in StateType
    BY <1>2 DEF Good
  <2>2. DOMAIN t.known \cup {d} \in SUBSET Peis /\ \A h \in DOMAIN t.known : t.known[h] \in Magics
    <3>1. t.known \in Partial(Magics)
      BY <2>1, StateIs
    <3> QED BY <3>1, PartialIs
  <2>3. known \in [DOMAIN t.known \cup {d} -> Magics]
    BY <1>1, <2>2
  <2> HIDE DEF known
  <2>4. known \in Partial(Magics)
    BY <2>2, <2>3, PartialIntro
  <2>5. q \in StateType /\ q.route = t.route /\ q.table = t.table /\ q.link = t.link
    BY <2>1, <2>4 DEF StateType
  <2> HIDE DEF q
  <2>6. Good(q, p, {})
    BY <1>2, <2>5, SameRoutesGood
  <2> QED BY <2>6 DEF q, known
<1>3. Good(s, p, {}) /\ MailIs(deadMail)
  BY NodeIs
<1>4. Good(closeConnection(s, p, d), p, {})
  BY <1>3, CloseGood
<1>5. deadMail' = deadMail
      /\ \/ node' = [node EXCEPT ![p] = learnt(s)]
         \/ \E t \in {s, closeConnection(s, p, d)} : node' = [node EXCEPT ![p] = learnt(forget(t, d))]
  BY DEF hook_hostInfo, Become
<1>6. ASSUME NEW t, Good(t, p, {})
      PROVE  Good(forget(t, d), p, {})
  <2>1. {} \ {d} = {} /\ Good(forget(t, d), p, {} \ {d})
    BY <1>6, ForgetGood
  <2> QED BY <2>1
<1> HIDE DEF s, learnt
<1>7. \E q : Good(q, p, {}) /\ node' = [node EXCEPT ![p] = q]
  BY <1>2, <1>3, <1>4, <1>5, <1>6
<1>8. MailIs(deadMail')
  BY <1>3, <1>5
<1> QED BY <1>7, <1>8, BecomeGood

LEMMA RestartGood ==
  ASSUME IInv, NEW p \in Peis, restart(p)
  PROVE  IInv'
<1>1. node[p].magic \in Magics /\ MailIs(deadMail)
  BY NodeIs, StateIs
<1>2. node[p].magic + 1 \in Magics
  <2>1. Restarting # {} /\ node[p].magic < MaxRestarts /\ MaxRestarts \in Nat
    BY RoutingAssumption DEF restart
  <2> QED BY <1>1, <2>1 DEF Magics
<1>3. node' = [node EXCEPT ![p] = Booted(p, node[p].magic + 1)]
      /\ \E told \in {{}, Peis \ {p}} : deadMail' = deadMail \cup {<<p, d>> : d \in told}
  BY DEF restart, Become
<1>4. MailIs(deadMail')
  BY <1>1, <1>3 DEF MailIs
<1>5. Good(Booted(p, node[p].magic + 1), p, {})
  BY <1>2, BootedGood
<1> QED BY <1>3, <1>4, <1>5, BecomeGood

LEMMA StepGood == IInv /\ [Next]_vars => IInv'
<1> SUFFICES ASSUME IInv, [Next]_vars
             PROVE  IInv'
  OBVIOUS
<1>1. ASSUME NEW p \in Peis, periodic_routing(p)
      PROVE  IInv'
  BY <1>1, PeriodicGood
<1>2. ASSUME NEW p \in Peis, restart(p)
      PROVE  IInv'
  BY <1>2, RestartGood
<1>3. ASSUME NEW p \in Peis, NEW n \in Peis, connect(p, n)
      PROVE  IInv'
  BY <1>3, ConnectGood
<1>4. ASSUME NEW p \in Peis, NEW n \in Peis, accept(p, n)
      PROVE  IInv'
  BY <1>4, AcceptGood
<1>5. ASSUME NEW p \in Peis, NEW n \in Peis, hook_routing(p, n)
      PROVE  IInv'
  BY <1>5, HookRoutingGood
<1>6. ASSUME NEW p \in Peis, NEW n \in Peis, close(p, n)
      PROVE  IInv'
  BY <1>6, CloseStepGood
<1>7. ASSUME NEW p \in Peis, NEW n \in Peis, hook_deadHost(p, n)
      PROVE  IInv'
  BY <1>7, HookDeadHostGood
<1>8. ASSUME NEW p \in Peis, NEW d \in Peis, NEW m \in 0 .. node[d].magic, hook_hostInfo(p, d, m)
      PROVE  IInv'
  BY <1>8, HookHostInfoGood
<1>9. ASSUME NEW mail \in deadMail, lose(mail)
      PROVE  IInv'
  BY <1>9 DEF lose, IInv
<1>10. CASE UNCHANGED vars
  BY <1>10 DEF vars, IInv
<1> QED BY <1>1, <1>2, <1>3, <1>4, <1>5, <1>6, <1>7, <1>8, <1>9, <1>10 DEF Next

LEMMA IInvAlways == Spec => []IInv
BY InitGood, StepGood, PTL DEF Spec

\* However peis come and go and count up between them, a route in use has fewer
\* hops than METRIC_GIVEUP, one that is lost fewer than DELETED, and an entry of a
\* connection is in use or outdated (services.c:853, services.c:693).
THEOREM RoutesTyped == Spec => []TypeOK
<1>1. IInv => TypeOK
  <2> SUFFICES ASSUME IInv
               PROVE  TypeOK
    OBVIOUS
  <2>1. Magics \subseteq 0 .. MaxRestarts
    BY RoutingAssumption DEF Magics
  <2>2. deadMail \subseteq Peis \X Peis
    BY DEF IInv
  <2>3. ASSUME NEW p \in Peis
        PROVE  LET s == node[p] IN
               /\ s.link \in [Peis -> {"closed", "offered", "unnamed", "open"}]
               /\ s.cluster \in Peis /\ s.magic \in 0 .. MaxRestarts
               /\ DOMAIN s.known \subseteq Peis /\ DOMAIN s.route \subseteq Peis
    <3>1. node[p] \in StateType
      BY NodeIs
    <3>2. node[p].known \in Partial(Magics) /\ node[p].route \in Partial(RouteType)
      BY <3>1, StateIs
    <3>3. DOMAIN node[p].known \subseteq Peis /\ DOMAIN node[p].route \subseteq Peis
      BY <3>2, PartialIs
    <3> QED BY <2>1, <3>1, <3>3, StateIs
  <2>4. ASSUME NEW p \in Peis, NEW d \in DOMAIN node[p].route
        PROVE  node[p].route[d] \in
                 [seq : Nat, hops : 0 .. METRIC_GIVEUP - 1 \cup LOST .. DELETED - 1,
                  via : Peis \cup {NoConn}, magic : 0 .. MaxRestarts]
    <3> DEFINE r == node[p].route[d]
    <3>1. node[p].route \in Partial(RouteType)
      BY NodeIs, StateIs
    <3>2. r \in RouteType
      BY <3>1, PartialIs
    <3>3. r.hops # DELETED
      BY NodeIs DEF Good
    <3> HIDE DEF r
    <3>4. r.hops \in 0 .. METRIC_GIVEUP - 1 \cup LOST .. DELETED - 1
      <4>1. r.hops \in RouteHops
        BY <3>2, RouteFields
      <4> QED BY <3>3, <4>1, Constants DEF RouteHops
    <3>5. r \in [seq : Nat, hops : 0 .. METRIC_GIVEUP - 1 \cup LOST .. DELETED - 1,
                 via : Peis \cup {NoConn}, magic : 0 .. MaxRestarts]
      BY <2>1, <3>2, <3>4 DEF RouteType
    <3> QED BY <3>5 DEF r
  <2>5. ASSUME NEW p \in Peis, NEW n \in Peis, NEW d \in DOMAIN node[p].table[n]
        PROVE  node[p].table[n][d] \in
                 [seq : Nat, hops : 1 .. METRIC_GIVEUP - 1 \cup {OUTDATED}, magic : 0 .. MaxRestarts]
    <3> DEFINE t == node[p].table[n][d]
    <3>1. node[p].table[n] \in Partial(OfferType)
      BY NodeIs, StateIs
    <3>2. t \in OfferType
      BY <3>1, PartialIs
    <3> HIDE DEF t
    <3>3. t \in [seq : Nat, hops : 1 .. METRIC_GIVEUP - 1 \cup {OUTDATED}, magic : 0 .. MaxRestarts]
      BY <2>1, <3>2 DEF OfferType
    <3> QED BY <3>3 DEF t
  <2> QED BY <2>2, <2>3, <2>4, <2>5 DEF TypeOK
<1> QED BY <1>1, IInvAlways, PTL

\* Closing, rescuing, merging and deleting keep the main table in step with those
\* of the connections, restarts included: a route in use is what the open connection
\* it names last offered (services.c:969, services.c:1039, p2p.c:1244).
THEOREM RoutesBacked == Spec => []RouteBackedByTable
<1>1. IInv => RouteBackedByTable
  <2> SUFFICES ASSUME IInv, NEW p \in Peis, NEW d \in DOMAIN node[p].route,
                      node[p].route[d].via # NoConn, node[p].route[d].hops < LOST
               PROVE  Follows(node[p], d, node[p].route[d])
    BY DEF RouteBackedByTable, Follows
  <2>1. Sound(node[p], p, d, node[p].route[d])
    BY NodeIs DEF Good
  <2> QED BY <2>1 DEF Sound
<1> QED BY <1>1, IInvAlways, PTL

\* A route is lost only if what the other connections offer is worse than a lost
\* route (services.c:1035, p2p.c:1254), and stays lost only as long.
THEOREM LostOnlyIfBeaten == Spec => []LostMeansNowhere
<1>1. IInv => LostMeansNowhere
  <2> SUFFICES ASSUME IInv, NEW p \in Peis, NEW d \in DOMAIN node[p].route \ {p},
                      node[p].route[d].hops >= LOST
               PROVE  Beaten(node[p], d, node[p].route[d])
    BY DEF LostMeansNowhere, Beaten
  <2>1. Sound(node[p], p, d, node[p].route[d])
    BY NodeIs DEF Good
  <2> QED BY <2>1 DEF Sound
<1> QED BY <1>1, IInvAlways, PTL

\* No handler forgets a peis in the main table that a connection still offers
\* (the warning at services.c:1060).
THEOREM OffersAlwaysKnown == Spec => []OfferedIsKnown
<1>1. IInv => OfferedIsKnown
  BY NodeIs DEF Good, OffersKnown, OfferedIsKnown
<1> QED BY <1>1, IInvAlways, PTL

----------------------------------------------------------------------------
(* Numbers that peis have reached, while none restarts *)

\* With a number, the first one has been reached.
Grounded(B) == B \subseteq Peis \X Nat /\ \A d, x : <<d, x>> \in B => <<d, 0>> \in B

\* The own number does not fall.
Ahead(s, q, p) ==
  p \in DOMAIN s.route => p \in DOMAIN q.route /\ s.route[p].seq <= q.route[p].seq

LEMMA OwnSeq ==
  ASSUME NEW s \in StateType, NEW d \in DOMAIN s.route
  PROVE  s.route[d] \in RouteType /\ s.route[d].seq \in Nat
<1>1. s.route \in Partial(RouteType)
  BY StateIs
<1>2. s.route[d] \in RouteType
  BY <1>1, PartialIs
<1> QED BY <1>2, RouteFields

LEMMA OfferSeq ==
  ASSUME NEW s \in StateType, NEW n \in Peis, NEW d \in DOMAIN s.table[n]
  PROVE  s.table[n][d] \in OfferType /\ s.table[n][d].seq \in Nat
<1>1. s.table[n] \in Partial(OfferType)
  BY StateIs
<1>2. s.table[n][d] \in OfferType
  BY <1>1, PartialIs
<1> QED BY <1>2, OfferFields

LEMMA SentSeq ==
  ASSUME NEW s \in StateType, NEW n \in Peis, NEW i \in DOMAIN s.out[n],
         NEW d \in DOMAIN s.out[n][i]
  PROVE  s.out[n][i][d].seq \in Nat
<1>1. s.out[n] \in Seq(Partial(PackageType))
  BY StateIs
<1> DEFINE L == s.out[n]
<1>2. L[i] \in Partial(PackageType)
  <2> HIDE DEF L
  <2>1. L \in Seq(Partial(PackageType)) /\ i \in DOMAIN L
    BY <1>1 DEF L
  <2> QED BY <2>1
<1>3. s.out[n][i][d] \in PackageType
  BY <1>2, PartialIs
<1> QED BY <1>3 DEF PackageType

LEMMA ReachesKept ==
  ASSUME NEW s \in StateType, NEW q \in StateType, NEW p, NEW B, Ahead(s, q, p),
         NEW d, NEW x \in Nat, Reaches(s, p, B, d, x)
  PROVE  Reaches(q, p, B, d, x)
<1>1. CASE d = p
  <2>1. p \in DOMAIN s.route /\ x <= s.route[p].seq
    BY <1>1 DEF Reaches
  <2>2. p \in DOMAIN q.route /\ s.route[p].seq <= q.route[p].seq
    BY <2>1 DEF Ahead
  <2>3. s.route[p].seq \in Nat /\ q.route[p].seq \in Nat
    BY <2>1, <2>2, OwnSeq
  <2>4. x <= q.route[p].seq
    BY <2>1, <2>2, <2>3
  <2> QED BY <1>1, <2>2, <2>4 DEF Reaches
<1>2. CASE d # p
  BY <1>2 DEF Reaches
<1> QED BY <1>1, <1>2

\* What p has heard and sent stays honest as its number grows.
LEMMA HonestKept ==
  ASSUME NEW s \in StateType, NEW q \in StateType, NEW p, NEW B, Ahead(s, q, p),
         NEW f, \A d \in DOMAIN f : f[d].seq \in Nat, Honest(f, s, p, B)
  PROVE  Honest(f, q, p, B)
BY ReachesKept DEF Honest

LEMMA TablesKept ==
  ASSUME NEW s \in StateType, NEW q \in StateType, NEW p, NEW B, Faithful(s, p, B),
         Ahead(s, q, p), NEW n \in Peis
  PROVE  /\ Honest(s.table[n], q, p, B)
         /\ \A i \in DOMAIN s.out[n] : Honest(s.out[n][i], q, p, B)
<1>1. Honest(s.table[n], s, p, B) /\ \A d \in DOMAIN s.table[n] : s.table[n][d].seq \in Nat
  BY OfferSeq DEF Faithful
<1>2. Honest(s.table[n], q, p, B)
  BY <1>1, HonestKept
<1>3. ASSUME NEW i \in DOMAIN s.out[n]
      PROVE  Honest(s.out[n][i], q, p, B)
  <2> DEFINE f == s.out[n][i]
  <2>1. Honest(f, s, p, B) /\ \A d \in DOMAIN f : f[d].seq \in Nat
    BY SentSeq DEF Faithful
  <2> HIDE DEF f
  <2>2. Honest(f, q, p, B)
    BY <2>1, HonestKept
  <2> QED BY <2>2 DEF f
<1> QED BY <1>2, <1>3

LEMMA NumbersKept ==
  ASSUME NEW s \in StateType, NEW q \in StateType, NEW p, NEW B, Grounded(B),
         Faithful(s, p, B), Ahead(s, q, p)
  PROVE  \A x : <<p, x>> \in B => Reaches(q, p, B, p, x)
<1> SUFFICES ASSUME NEW x, <<p, x>> \in B
             PROVE  Reaches(q, p, B, p, x)
  OBVIOUS
<1>1. x \in Nat /\ Reaches(s, p, B, p, x)
  BY DEF Grounded, Faithful
<1> QED BY <1>1, ReachesKept

\* The first number of whoever has one.
LEMMA FirstReached ==
  ASSUME NEW s \in StateType, NEW p, NEW B, Grounded(B), NEW d, NEW x, Reaches(s, p, B, d, x)
  PROVE  Reaches(s, p, B, d, 0)
<1>1. CASE d = p
  <2>1. p \in DOMAIN s.route
    BY <1>1 DEF Reaches
  <2>2. 0 <= s.route[p].seq
    BY <2>1, OwnSeq
  <2> QED BY <1>1, <2>1, <2>2 DEF Reaches
<1>2. CASE d # p
  BY <1>2 DEF Reaches, Grounded
<1> QED BY <1>1, <1>2

LEMMA SameFaithful ==
  ASSUME NEW s, NEW q, NEW p, NEW B, Faithful(s, p, B),
         q.route = s.route, q.table = s.table, q.out = s.out
  PROVE  Faithful(q, p, B)
<1>1. \A d, x : Reaches(q, p, B, d, x) <=> Reaches(s, p, B, d, x)
  BY DEF Reaches
<1>2. \A f : Honest(f, q, p, B) <=> Honest(f, s, p, B)
  BY <1>1 DEF Honest
<1> QED BY <1>1, <1>2 DEF Faithful

LEMMA SendsFaithful ==
  ASSUME NEW p \in Peis, NEW B, Grounded(B), NEW s \in StateType, NEW q, Faithful(s, p, B),
         Sends(s, q, p)
  PROVE  Faithful(q, p, B)
<1>1. /\ q \in StateType /\ q.table = s.table
      /\ DOMAIN q.route = DOMAIN s.route \cup {p}
      /\ \A d \in DOMAIN s.route : d # p => q.route[d] = s.route[d]
      /\ q.route[p].hops = 0 /\ q.route[p].via = NoConn
      /\ p \in DOMAIN s.route => q.route[p].seq = s.route[p].seq + 1
      /\ \A n \in Peis : \A i \in DOMAIN q.out[n] :
           \/ i \in DOMAIN s.out[n] /\ q.out[n][i] = s.out[n][i]
           \/ /\ DOMAIN q.out[n][i] = DOMAIN q.route
              /\ \A d \in DOMAIN q.route : q.out[n][i][d].seq = q.route[d].seq
  BY DEF Sends
<1>2. Ahead(s, q, p)
  <2>1. p \in DOMAIN s.route => s.route[p].seq \in Nat
    BY OwnSeq
  <2> QED BY <1>1, <2>1 DEF Ahead
<1>3. Honest(q.route, q, p, B)
  <2> SUFFICES ASSUME NEW d \in DOMAIN q.route
               PROVE  Reaches(q, p, B, d, q.route[d].seq)
    BY DEF Honest
  <2>1. CASE d = p
    <3>1. q.route[p].seq <= q.route[p].seq
      BY <1>1, <2>1, OwnSeq
    <3> QED BY <1>1, <2>1, <3>1 DEF Reaches
  <2>2. CASE d # p
    <3>1. d \in DOMAIN s.route /\ q.route[d] = s.route[d]
      BY <1>1, <2>2
    <3>2. Reaches(s, p, B, d, s.route[d].seq) /\ s.route[d].seq \in Nat
      BY <3>1, OwnSeq DEF Faithful, Honest
    <3>3. Reaches(q, p, B, d, s.route[d].seq)
      BY <1>1, <1>2, <3>2, ReachesKept
    <3> QED BY <3>1, <3>3
  <2> QED BY <2>1, <2>2
<1>4. ASSUME NEW n \in Peis
      PROVE  /\ Honest(s.table[n], q, p, B)
             /\ \A i \in DOMAIN s.out[n] : Honest(s.out[n][i], q, p, B)
  BY <1>1, <1>2, TablesKept
<1>5. ASSUME NEW n \in Peis, NEW i \in DOMAIN q.out[n]
      PROVE  Honest(q.out[n][i], q, p, B)
  <2>1. CASE i \in DOMAIN s.out[n] /\ q.out[n][i] = s.out[n][i]
    BY <1>4, <2>1
  <2>2. CASE /\ DOMAIN q.out[n][i] = DOMAIN q.route
             /\ \A d \in DOMAIN q.route : q.out[n][i][d].seq = q.route[d].seq
    BY <1>3, <2>2 DEF Honest
  <2> QED BY <1>1, <2>1, <2>2
<1>6. \A x : <<p, x>> \in B => Reaches(q, p, B, p, x)
  BY <1>1, <1>2, NumbersKept
<1> QED BY <1>1, <1>3, <1>4, <1>5, <1>6 DEF Faithful

\* The cluster is what it was if the peis known are.
LEMMA SendsClustered ==
  ASSUME NEW p, NEW s, NEW q, Clustered(s, p), q.cluster = s.cluster,
         {p} \cup DOMAIN q.route = {p} \cup DOMAIN s.route
  PROVE  Clustered(q, p)
BY DEF Clustered

\* Nobody rescues the own route, and a rescued one is as honest as what it was
\* rescued from.
LEMMA ClosedFaithful ==
  ASSUME NEW p \in Peis, NEW B, Grounded(B), NEW D, NEW s, Good(s, p, D), Faithful(s, p, B),
         NEW n \in Peis
  PROVE  Closed(s, n) \in StateType /\ Faithful(Closed(s, n), p, B)
<1> DEFINE r == Closed(s, n)
           t == Cut(s, n)
<1>0. s \in StateType /\ OutdatedIsZero(s)
  BY DEF Good
<1>1. /\ r \in StateType
      /\ r.table = [s.table EXCEPT ![n] = Outdated(s.table[n])]
      /\ r.out = [s.out EXCEPT ![n] = <<>>]
      /\ DOMAIN r.route = DOMAIN s.route
      /\ \A d \in DOMAIN s.route :
           r.route[d] = IF d \in Through(s, n) THEN Rescued(t, d, s.route[d]) ELSE s.route[d]
  BY <1>0, ClosedIs
<1>2. t \in StateType /\ t.table = s.table /\ Neighbours(t) = Neighbours(s) \ {n}
  BY <1>0, CutIs
<1>3. OutdatedIsZero(t)
  BY <1>0, <1>2 DEF OutdatedIsZero
<1>4. /\ s.table \in [Peis -> Partial(OfferType)]
      /\ s.out \in [Peis -> Seq(Partial(PackageType))]
  BY <1>0, StateIs
<1> HIDE DEF r, t
<1>5. p \in DOMAIN s.route => r.route[p] = s.route[p]
  <2>1. p \in DOMAIN s.route => s.route[p].via # n
    BY Constants DEF Faithful
  <2>2. p \notin Through(s, n)
    BY <2>1 DEF Through
  <2> QED BY <1>1, <2>2
<1>6. Ahead(s, r, p)
  <2>1. p \in DOMAIN s.route => s.route[p].seq \in Nat
    BY <1>0, OwnSeq
  <2> QED BY <1>1, <1>5, <2>1 DEF Ahead
<1>7. ASSUME NEW m \in Peis
      PROVE  /\ Honest(s.table[m], r, p, B)
             /\ \A i \in DOMAIN s.out[m] : Honest(s.out[m][i], r, p, B)
  BY <1>0, <1>1, <1>6, TablesKept
<1>8. ASSUME NEW m \in Peis
      PROVE  /\ Honest(r.table[m], r, p, B)
             /\ \A i \in DOMAIN r.out[m] : Honest(r.out[m][i], r, p, B)
  <2>1. CASE m # n
    <3>1. r.table[m] = s.table[m] /\ r.out[m] = s.out[m]
      BY <1>1, <1>4, <2>1
    <3> QED BY <1>7, <3>1
  <2>2. CASE m = n
    <3>1. r.table[m] = Outdated(s.table[n]) /\ r.out[m] = <<>>
      BY <1>1, <1>4, <2>2
    <3>2. s.table[n] \in Partial(OfferType)
      BY <1>4
    <3>3. /\ DOMAIN r.table[m] = DOMAIN s.table[n]
          /\ \A d \in DOMAIN s.table[n] : r.table[m][d].seq = 0
      BY <3>1, <3>2, OutdatedIs
    <3>4. ASSUME NEW d \in DOMAIN s.table[n]
          PROVE  Reaches(r, p, B, d, 0)
      <4>1. Reaches(r, p, B, d, s.table[n][d].seq)
        BY <1>7 DEF Honest
      <4> QED BY <1>1, <4>1, FirstReached
    <3>5. Honest(r.table[m], r, p, B)
      BY <3>3, <3>4 DEF Honest
    <3> QED BY <3>1, <3>5
  <2> QED BY <2>1, <2>2
<1>9. Honest(r.route, r, p, B)
  <2> SUFFICES ASSUME NEW d \in DOMAIN s.route
               PROVE  Reaches(r, p, B, d, r.route[d].seq)
    BY <1>1 DEF Honest
  <2> DEFINE x == s.route[d]
             y == Rescued(t, d, x)
  <2>1. x \in RouteType /\ x.seq \in Nat /\ Reaches(s, p, B, d, x.seq)
    BY <1>0, OwnSeq DEF Faithful, Honest
  <2>2. Reaches(r, p, B, d, x.seq)
    BY <1>0, <1>1, <1>6, <2>1, ReachesKept
  <2>3. \/ y.hops < LOST /\ y.via # NoConn /\ Follows(t, d, y)
        \/ y.hops = LOST /\ y.via = NoConn /\ y.seq = x.seq /\ Beaten(t, d, y)
    BY <1>2, <1>3, <2>1, RescuedIs
  <2>4. r.route[d] = IF d \in Through(s, n) THEN y ELSE x
    BY <1>1
  <2> HIDE DEF x, y
  <2>5. ASSUME Follows(t, d, y)
        PROVE  Reaches(r, p, B, d, y.seq)
    <3>1. y.via \in Neighbours(t) /\ d \in DOMAIN t.table[y.via] /\ t.table[y.via][d].seq = y.seq
      BY <2>5 DEF Follows
    <3>2. y.via \in Peis /\ d \in DOMAIN s.table[y.via] /\ s.table[y.via][d].seq = y.seq
      BY <1>2, <3>1 DEF Neighbours
    <3> QED BY <1>7, <3>2 DEF Honest
  <2> QED BY <2>2, <2>3, <2>4, <2>5
<1>10. \A x : <<p, x>> \in B => Reaches(r, p, B, p, x)
  BY <1>0, <1>1, <1>6, NumbersKept
<1>11. Faithful(r, p, B)
  <2>1. p \in DOMAIN r.route => r.route[p].via = NoConn /\ r.route[p].hops = 0
    BY <1>1, <1>5 DEF Faithful
  <2> QED BY <1>8, <1>9, <1>10, <2>1 DEF Faithful
<1> QED BY <1>1, <1>11 DEF r

LEMMA CloseFaithful ==
  ASSUME NEW p \in Peis, NEW B, Grounded(B), NEW D, NEW s, Good(s, p, D), Faithful(s, p, B),
         NEW n \in Peis
  PROVE  LET q == closeConnection(s, p, n) IN
         /\ Faithful(q, p, B) /\ q.cluster = s.cluster
         /\ DOMAIN q.route = DOMAIN s.route \cup {p}
<1> DEFINE c == Closed(s, n)
           q == closeConnection(s, p, n)
<1>1. c \in StateType /\ Faithful(c, p, B)
  BY ClosedFaithful
<1>2. c.cluster = s.cluster /\ DOMAIN c.route = DOMAIN s.route
  <2>1. s \in StateType /\ OutdatedIsZero(s)
    BY DEF Good
  <2> QED BY <2>1, ClosedIs
<1> HIDE DEF c
<1>3. Sends(c, q, p)
  <2>1. q = do_routing(c, p, Neighbours(c))
    BY CloseIsClosed DEF c
  <2> HIDE DEF q
  <2> QED BY <1>1, <2>1, DoRoutingSends
<1> HIDE DEF q
<1>4. Faithful(q, p, B)
  BY <1>1, <1>3, SendsFaithful
<1>5. q.cluster = s.cluster /\ DOMAIN q.route = DOMAIN s.route \cup {p}
  BY <1>2, <1>3 DEF Sends
<1> QED BY <1>4, <1>5 DEF q

\* Others are forgotten, never the peis itself.
LEMMA ForgetFaithful ==
  ASSUME NEW p \in Peis, NEW B, Grounded(B), NEW s \in StateType, Faithful(s, p, B),
         NEW d, d # p
  PROVE  Faithful(forget(s, d), p, B)
<1> DEFINE r == forget(s, d)
<1>1. /\ r \in StateType /\ r.out = s.out
      /\ DOMAIN r.route = DOMAIN s.route \ {d}
      /\ \A e \in DOMAIN s.route : e # d => r.route[e] = s.route[e]
      /\ \A n \in Neighbours(s) :
           /\ DOMAIN r.table[n] = DOMAIN s.table[n] \ {d}
           /\ \A e \in DOMAIN s.table[n] : e # d => r.table[n][e] = s.table[n][e]
      /\ \A n \in Peis : n \notin Neighbours(s) => r.table[n] = s.table[n]
  BY ForgetIs
<1> HIDE DEF r
<1>2. Ahead(s, r, p)
  <2>1. p \in DOMAIN s.route => s.route[p].seq \in Nat
    BY OwnSeq
  <2> QED BY <1>1, <2>1 DEF Ahead
<1>3. ASSUME NEW n \in Peis
      PROVE  /\ Honest(s.table[n], r, p, B)
             /\ \A i \in DOMAIN s.out[n] : Honest(s.out[n][i], r, p, B)
  BY <1>1, <1>2, TablesKept
<1>4. ASSUME NEW n \in Peis
      PROVE  Honest(r.table[n], r, p, B)
  <2>1. \A e \in DOMAIN r.table[n] : e \in DOMAIN s.table[n] /\ r.table[n][e] = s.table[n][e]
    BY <1>1
  <2>2. \A e \in DOMAIN s.table[n] : Reaches(r, p, B, e, s.table[n][e].seq)
    BY <1>3 DEF Honest
  <2> QED BY <2>1, <2>2 DEF Honest
<1>5. Honest(r.route, r, p, B)
  <2> SUFFICES ASSUME NEW e \in DOMAIN r.route
               PROVE  Reaches(r, p, B, e, r.route[e].seq)
    BY DEF Honest
  <2>1. e \in DOMAIN s.route /\ r.route[e] = s.route[e]
    BY <1>1
  <2>2. Reaches(s, p, B, e, s.route[e].seq) /\ s.route[e].seq \in Nat
    BY <2>1, OwnSeq DEF Faithful, Honest
  <2>3. Reaches(r, p, B, e, s.route[e].seq)
    BY <1>1, <1>2, <2>2, ReachesKept
  <2> QED BY <2>1, <2>3
<1>6. \A x : <<p, x>> \in B => Reaches(r, p, B, p, x)
  BY <1>1, <1>2, NumbersKept
<1>7. p \in DOMAIN r.route => r.route[p].via = NoConn /\ r.route[p].hops = 0
  BY <1>1 DEF Faithful
<1>8. Faithful(r, p, B)
  BY <1>1, <1>3, <1>4, <1>5, <1>6, <1>7 DEF Faithful
<1> QED BY <1>8 DEF r

LEMMA DeleteFaithful ==
  ASSUME NEW p \in Peis, NEW B, Grounded(B), NEW D, NEW s, Good(s, p, D), Faithful(s, p, B),
         NEW d \in Peis, d # p
  PROVE  Faithful(deleteHost(s, p, d), p, B)
<1>1. Faithful(forget(s, d), p, B)
  BY ForgetFaithful DEF Good
<1>2. Good(forget(s, d), p, D \ {d})
  BY ForgetGood
<1>3. Faithful(closeConnection(forget(s, d), p, d), p, B)
  BY <1>1, <1>2, CloseFaithful
<1> QED BY <1>1, <1>3 DEF deleteHost

LEMMA DeletedFaithful ==
  ASSUME NEW p \in Peis, NEW B, Grounded(B), NEW D \in SUBSET Peis, p \notin D,
         NEW s, Good(s, p, D), Faithful(s, p, B)
  PROVE  Faithful(Deleted(s, p, D), p, B)
<1> DEFINE G == {x \in StateType \X SUBSET D : Good(x[1], p, x[2]) /\ Faithful(x[1], p, B)}
<1>1. IsFiniteSet(D)
  BY FS_Subset, Constants
<1>2. <<s, D>> \in G
  BY DEF Good
<1>3. ASSUME NEW t, NEW E \in SUBSET D, NEW d \in E, <<t, E>> \in G
      PROVE  <<deleteHost(t, p, d), E \ {d}>> \in G
  <2>1. Good(t, p, E) /\ Faithful(t, p, B) /\ p \notin E /\ d \in Peis /\ d # p
    BY <1>3
  <2>2. Good(deleteHost(t, p, d), p, E \ {d})
    BY <2>1, DeleteGood
  <2>3. Faithful(deleteHost(t, p, d), p, B)
    BY <2>1, DeleteFaithful
  <2>4. deleteHost(t, p, d) \in StateType /\ E \ {d} \in SUBSET D
    BY <2>2 DEF Good
  <2> QED BY <2>2, <2>3, <2>4
<1> HIDE DEF G
<1>4. <<Deleted(s, p, D), {}>> \in G
  BY <1>1, <1>2, <1>3, DeletedReaches
<1> QED BY <1>4 DEF G

LEMMA AgedFaithful ==
  ASSUME NEW p \in Peis, NEW B, Grounded(B), NEW s \in StateType, Faithful(s, p, B)
  PROVE  Faithful(Aged(s, p), p, B)
<1> DEFINE q == Aged(s, p)
<1>1. /\ q \in StateType /\ q.table = s.table /\ q.out = s.out
      /\ DOMAIN q.route = DOMAIN s.route
      /\ \A d \in DOMAIN s.route :
           /\ q.route[d].seq = s.route[d].seq /\ q.route[d].via = s.route[d].via
           /\ q.route[d].hops = IF d \in Aging(s, p) THEN s.route[d].hops + 1
                                ELSE s.route[d].hops
  BY AgedIs
<1>2. p \notin Aging(s, p)
  BY DEF Aging
<1> HIDE DEF q
<1>3. p \in DOMAIN q.route => q.route[p].via = NoConn /\ q.route[p].hops = 0
  BY <1>1, <1>2 DEF Faithful
<1>4. \A d, x : Reaches(q, p, B, d, x) <=> Reaches(s, p, B, d, x)
  BY <1>1 DEF Reaches
<1>5. \A f : Honest(f, q, p, B) <=> Honest(f, s, p, B)
  BY <1>4 DEF Honest
<1>6. Honest(q.route, s, p, B)
  BY <1>1 DEF Honest, Faithful
<1>7. Faithful(q, p, B)
  BY <1>1, <1>3, <1>4, <1>5, <1>6 DEF Faithful
<1> QED BY <1>7 DEF q

\* What a neighbour sent are numbers that have been reached.
Told(T, B) == \A d \in DOMAIN T : <<d, T[d].seq>> \in B

LEMMA ToldHonest ==
  ASSUME NEW p, NEW B, NEW s, Faithful(s, p, B), NEW T, Told(T, B)
  PROVE  Honest(T, s, p, B)
<1> SUFFICES ASSUME NEW d \in DOMAIN T
             PROVE  Reaches(s, p, B, d, T[d].seq)
  BY DEF Honest
<1>1. <<d, T[d].seq>> \in B
  BY DEF Told
<1>2. CASE d = p
  BY <1>1, <1>2 DEF Faithful
<1>3. CASE d # p
  BY <1>1, <1>3 DEF Reaches
<1> QED BY <1>2, <1>3

\* Nobody offers the peis itself a better route than its own.
LEMMA OwnRouteStays ==
  ASSUME NEW p \in Peis, NEW B, NEW s \in StateType, Faithful(s, p, B),
         NEW n \in Peis, NEW T \in Partial(PackageType), Told(T, B)
  PROVE  LET M == Merged(s, p, n, T) IN
         /\ p \in DOMAIN M <=> p \in DOMAIN s.route
         /\ p \in DOMAIN M => /\ M[p].seq = s.route[p].seq /\ M[p].via = NoConn /\ M[p].hops = 0
                              /\ p \notin Withdrawn(s, p, n, T)
<1> DEFINE M == Merged(s, p, n, T)
           x == s.route[p]
           via == Via(s, p, n, T, p)
<1>1. /\ DOMAIN M = DOMAIN s.route \cup Offered(T)
      /\ \A d \in DOMAIN M : \/ Offers(s, n, T, d, Via(s, p, n, T, d), M[d])
                             \/ Stays(s, n, T, d, Via(s, p, n, T, d), M[d])
  BY MergedIs
<1>2. via = x.via
  BY ViaIs
<1>3. ASSUME p \in Offered(T)
      PROVE  /\ p \in DOMAIN T /\ T[p].seq \in Nat
             /\ Metric(T[p].hops) \in 1 .. METRIC_GIVEUP - 1
             /\ p \in DOMAIN s.route /\ T[p].seq <= x.seq
  <2>1. p \in DOMAIN T
    BY <1>3 DEF Offered
  <2>2. Reaches(s, p, B, p, T[p].seq)
    BY <2>1, ToldHonest DEF Honest
  <2> QED BY <1>3, <2>1, <2>2, OfferedIs DEF Reaches
<1>4. p \in DOMAIN M <=> p \in DOMAIN s.route
  BY <1>1, <1>3
<1>5. p \in DOMAIN s.route => x.via = NoConn /\ x.hops = 0 /\ x.seq \in Nat
  BY OwnSeq DEF Faithful
<1>6. n # NoConn
  BY Constants
<1>7. p \in Withdrawn(s, p, n, T) => M[p].via = n
  BY DEF Withdrawn
<1> HIDE DEF M, via
<1>8. ~ Offers(s, n, T, p, via, M[p])
  <2> SUFFICES ASSUME Offers(s, n, T, p, via, M[p])
               PROVE  FALSE
    OBVIOUS
  <2>1. p \in Offered(T)
    BY DEF Offers
  <2>2. p \in DOMAIN s.route
    BY <1>3, <2>1
  <2>3. via # n
    BY <1>2, <1>5, <1>6, <2>2
  <2>4. T[p].seq - Metric(T[p].hops) > x.seq - x.hops
    BY <2>2, <2>3 DEF Offers
  <2> HIDE DEF x
  <2> QED BY <1>3, <1>5, <2>1, <2>2, <2>4, Constants
<1>9. ASSUME p \in DOMAIN M
      PROVE  M[p].seq = x.seq /\ M[p].via = NoConn /\ M[p].hops = 0
  <2>1. Stays(s, n, T, p, via, M[p])
    BY <1>1, <1>8, <1>9 DEF via
  <2> QED BY <1>2, <1>4, <1>5, <1>9, <2>1 DEF Stays
<1> QED BY <1>4, <1>6, <1>7, <1>9 DEF M

LEMMA DecodedFaithful ==
  ASSUME NEW p \in Peis, NEW B, Grounded(B), NEW s, Good(s, p, {}), Faithful(s, p, B),
         NEW n \in Peis, NEW T \in Partial(PackageType), Told(T, B)
  PROVE  Decoded(s, p, n, T) \in StateType /\ Faithful(Decoded(s, p, n, T), p, B)
<1> DEFINE t == Received(s, p, n, T)
           r == Decoded(s, p, n, T)
           M == Merged(s, p, n, T)
           N == NewTable(s.table[n], T)
           W == Withdrawn(s, p, n, T)
<1>0. s \in StateType /\ OutdatedIsZero(s)
  BY DEF Good
<1>1. /\ t \in StateType /\ t.route = M /\ t.link = s.link /\ t.out = s.out
      /\ t.table = [s.table EXCEPT ![n] = N]
  BY <1>0, ReceivedIs
<1>2. /\ DOMAIN M = DOMAIN s.route \cup Offered(T)
      /\ \A d \in DOMAIN M : \/ Offers(s, n, T, d, Via(s, p, n, T, d), M[d])
                             \/ Stays(s, n, T, d, Via(s, p, n, T, d), M[d])
  BY <1>0, MergedIs
<1>3. s.table \in [Peis -> Partial(OfferType)] /\ s.table[n] \in Partial(OfferType)
  BY <1>0, StateIs
<1>4. \A d \in DOMAIN N : d \in Offered(T) /\ N[d].seq = T[d].seq
  BY <1>3, NewTableIs
<1>5. /\ OutdatedIsZero(t)
      /\ r \in StateType /\ DOMAIN r.route = DOMAIN t.route
      /\ r.table = t.table /\ r.out = t.out
      /\ \A d \in DOMAIN t.route :
           r.route[d] = IF d \in W THEN Rescued(t, d, t.route[d]) ELSE t.route[d]
  BY <1>0, DecodedIs
<1>6. /\ p \in DOMAIN M <=> p \in DOMAIN s.route
      /\ p \in DOMAIN M => /\ M[p].seq = s.route[p].seq /\ M[p].via = NoConn /\ M[p].hops = 0
                           /\ p \notin W
  BY <1>0, OwnRouteStays
<1>7. \A d \in Offered(T) : d \in DOMAIN T /\ T[d].seq \in Nat
  BY OfferedIs DEF Offered
<1> HIDE DEF t, r, M, N, W
<1>8. p \in DOMAIN r.route => r.route[p] = M[p] /\ p \in DOMAIN M
  BY <1>1, <1>5, <1>6
<1>9. Ahead(s, r, p)
  <2>1. p \in DOMAIN s.route => s.route[p].seq \in Nat
    BY <1>0, OwnSeq
  <2> QED BY <1>1, <1>5, <1>6, <1>8, <2>1 DEF Ahead
<1>10. ASSUME NEW m \in Peis
       PROVE  /\ Honest(s.table[m], r, p, B)
              /\ \A i \in DOMAIN s.out[m] : Honest(s.out[m][i], r, p, B)
  BY <1>0, <1>5, <1>9, TablesKept
<1>11. ASSUME NEW d \in Offered(T)
       PROVE  Reaches(r, p, B, d, T[d].seq)
  <2>1. d \in DOMAIN T /\ T[d].seq \in Nat
    BY <1>7
  <2>2. Reaches(s, p, B, d, T[d].seq)
    BY <2>1, ToldHonest DEF Honest
  <2> QED BY <1>0, <1>5, <1>9, <2>1, <2>2, ReachesKept
<1>12. ASSUME NEW m \in Peis
       PROVE  Honest(t.table[m], r, p, B)
  <2>1. CASE m = n
    <3>1. t.table[m] = N
      BY <1>1, <1>3, <2>1
    <3> QED BY <1>4, <1>11, <3>1 DEF Honest
  <2>2. CASE m # n
    <3>1. t.table[m] = s.table[m]
      BY <1>1, <1>3, <2>2
    <3> QED BY <1>10, <3>1
  <2> QED BY <2>1, <2>2
<1>13. ASSUME NEW d \in DOMAIN M
       PROVE  Reaches(r, p, B, d, M[d].seq)
  <2>1. CASE Offers(s, n, T, d, Via(s, p, n, T, d), M[d])
    <3>1. d \in Offered(T) /\ M[d].seq = T[d].seq
      BY <2>1 DEF Offers
    <3> QED BY <1>11, <3>1
  <2>2. CASE Stays(s, n, T, d, Via(s, p, n, T, d), M[d])
    <3>1. d \in DOMAIN s.route /\ M[d].seq = s.route[d].seq
      BY <2>2 DEF Stays
    <3>2. s.route[d].seq \in Nat /\ Reaches(s, p, B, d, s.route[d].seq)
      BY <1>0, <3>1, OwnSeq DEF Faithful, Honest
    <3>3. Reaches(r, p, B, d, s.route[d].seq)
      BY <1>0, <1>5, <1>9, <3>2, ReachesKept
    <3> QED BY <3>1, <3>3
  <2> QED BY <1>2, <2>1, <2>2
<1>14. Honest(r.route, r, p, B)
  <2> SUFFICES ASSUME NEW d \in DOMAIN M
               PROVE  Reaches(r, p, B, d, r.route[d].seq)
    BY <1>1, <1>5 DEF Honest
  <2> DEFINE y == Rescued(t, d, M[d])
  <2>1. t.route[d] \in RouteType /\ t.route[d] = M[d]
    BY <1>1, OwnSeq
  <2>2. \/ y.hops < LOST /\ y.via # NoConn /\ Follows(t, d, y)
        \/ y.hops = LOST /\ y.via = NoConn /\ y.seq = M[d].seq /\ Beaten(t, d, y)
    BY <1>1, <1>5, <2>1, RescuedIs
  <2>3. r.route[d] = IF d \in W THEN y ELSE M[d]
    BY <1>1, <1>5
  <2> HIDE DEF y
  <2>4. ASSUME Follows(t, d, y)
        PROVE  Reaches(r, p, B, d, y.seq)
    <3>1. y.via \in Peis /\ d \in DOMAIN t.table[y.via] /\ t.table[y.via][d].seq = y.seq
      BY <2>4 DEF Follows, Neighbours
    <3> QED BY <1>12, <3>1 DEF Honest
  <2> QED BY <1>13, <2>2, <2>3, <2>4
<1>15. \A x : <<p, x>> \in B => Reaches(r, p, B, p, x)
  BY <1>0, <1>5, <1>9, NumbersKept
<1>16. Faithful(r, p, B)
  BY <1>1, <1>5, <1>6, <1>8, <1>10, <1>12, <1>14, <1>15 DEF Faithful
<1> QED BY <1>5, <1>16 DEF r

\* peisk_checkClusters counts every route that is not deleted.
LEMMA CheckedClustered ==
  ASSUME NEW p \in Peis, NEW s, Good(s, p, {})
  PROVE  Clustered(checkClusters(s, p), p)
<1>1. s \in StateType /\ \A d \in DOMAIN s.route : s.route[d].hops # DELETED
  BY DEF Good
<1>2. ASSUME NEW d \in DOMAIN s.route
      PROVE  s.route[d].hops < 254
  <2>1. s.route[d] \in RouteType /\ s.route[d].hops # DELETED
    BY <1>1, OwnSeq
  <2> QED BY <2>1, RouteFields, Constants
<1>3. {d \in DOMAIN s.route : s.route[d].hops < 254} = DOMAIN s.route
  BY <1>2
<1> DEFINE q == checkClusters(s, p)
<1>4. q.route = s.route /\ q.cluster = Min({p} \cup DOMAIN s.route)
  BY <1>1, <1>3, CheckClustersIs
<1> QED BY <1>4 DEF Clustered

LEMMA DecodeFaithful ==
  ASSUME NEW p \in Peis, NEW B, Grounded(B), NEW s, Good(s, p, {}), Faithful(s, p, B),
         NEW n \in Peis, s.link[n] # "closed", NEW T \in Partial(PackageType), Told(T, B)
  PROVE  LET q == decodeRoutingPages(s, p, n, T) IN
         Faithful(q, p, B) /\ Clustered(q, p)
<1> DEFINE r == Decoded(s, p, n, T)
           q == decodeRoutingPages(s, p, n, T)
<1>1. r \in StateType /\ Faithful(r, p, B)
  BY DecodedFaithful
<1>2. q = checkClusters(r, p)
  BY DecodedIs DEF Good
<1>3. Good(q, p, {})
  BY DecodeGood
<1> HIDE DEF q, r
<1>4. q.route = r.route /\ q.table = r.table /\ q.link = r.link /\ q.out = r.out
  BY <1>1, <1>2, CheckClustersIs
<1>5. Faithful(q, p, B)
  BY <1>1, <1>4, SameFaithful
<1>6. Good(r, p, {})
  BY <1>1, <1>3, <1>4, SameRoutesGood
<1>7. Clustered(q, p)
  BY <1>2, <1>6, CheckedClustered
<1> QED BY <1>5, <1>7 DEF q

LEMMA RoutedFaithful ==
  ASSUME NEW p \in Peis, NEW B, Grounded(B), Good(node[p], p, {}), Faithful(node[p], p, B),
         Clustered(node[p], p)
  PROVE  Faithful(Routed(p), p, B) /\ Clustered(Routed(p), p)
<1> DEFINE s == do_routing(node[p], p, Neighbours(node[p]))
           a == Aged(s, p)
           D == Dead(s, p)
           q == Deleted(a, p, D)
<1>1. node[p] \in StateType /\ Sends(node[p], s, p)
  BY DoRoutingSends DEF Good
<1> HIDE DEF s
<1>2. Good(s, p, {}) /\ s \in StateType
  <2>1. Good(s, p, {})
    BY <1>1, SendsGood
  <2> QED BY <2>1 DEF Good
<1>3. Faithful(s, p, B)
  BY <1>1, SendsFaithful
<1>4. Clustered(s, p)
  <2>1. s.cluster = node[p].cluster /\ {p} \cup DOMAIN s.route = {p} \cup DOMAIN node[p].route
    BY <1>1 DEF Sends
  <2> QED BY <2>1, SendsClustered
<1>5. Good(a, p, D) /\ Faithful(a, p, B)
  BY <1>2, <1>3, AgedGood, AgedFaithful
<1>6. Clustered(a, p)
  <2>1. a.cluster = s.cluster /\ DOMAIN a.route = DOMAIN s.route
    BY <1>2, AgedIs
  <2> QED BY <1>4, <2>1, SendsClustered
<1>7. D \in SUBSET Peis /\ p \notin D
  <2>1. s.route \in Partial(RouteType)
    BY <1>2, StateIs
  <2>2. DOMAIN s.route \subseteq Peis
    BY <2>1, PartialIs
  <2> QED BY <2>2 DEF Dead, Aging
<1> HIDE DEF a, D
<1>8. Good(q, p, {}) /\ Faithful(q, p, B)
  BY <1>5, <1>7, DeletedGood, DeletedFaithful
<1>9. D = {} => q = a
  <2> SUFFICES ASSUME D = {}
               PROVE  q = a
    OBVIOUS
  <2>1. IsFiniteSet(D)
    BY FS_EmptySet
  <2>2. PICK f : Deletion(f, a, p, D) /\ q = f[D]
    BY <2>1, DeletedIs
  <2>3. f[D] = a
    BY <2>2 DEF Deletion
  <2> QED BY <2>2, <2>3
<1>10. Routed(p) = IF D = {} THEN q ELSE checkClusters(q, p)
  BY DEF Routed, s, a, D
<1> HIDE DEF q
<1>11. CASE D = {}
  BY <1>6, <1>8, <1>9, <1>10, <1>11
<1>12. CASE D # {}
  <2> DEFINE c == checkClusters(q, p)
  <2>1. q \in StateType
    BY <1>8 DEF Good
  <2>2. c.route = q.route /\ c.table = q.table /\ c.out = q.out
    BY <2>1, CheckClustersIs
  <2>3. Clustered(c, p)
    BY <1>8, CheckedClustered
  <2> HIDE DEF c
  <2>4. Faithful(c, p, B)
    BY <1>8, <2>2, SameFaithful
  <2> QED BY <1>10, <1>12, <2>3, <2>4 DEF c
<1> QED BY <1>11, <1>12

----------------------------------------------------------------------------
(* The invariant while no peis restarts *)

LEMMA NumbersGrounded == ASSUME IInv PROVE Grounded(Numbers)
<1>1. \A y \in Peis \X Nat : y = <<y[1], y[2]>>
  OBVIOUS
<1>2. Numbers \subseteq Peis \X Nat
  BY DEF Numbers
<1>3. ASSUME NEW d, NEW x, <<d, x>> \in Numbers
      PROVE  <<d, 0>> \in Numbers
  <2>1. d \in Peis /\ d \in DOMAIN node[d].route
    BY <1>3 DEF Numbers
  <2>2. node[d].route[d].seq \in Nat
    BY <2>1, NodeIs, OwnSeq
  <2> QED BY <2>1, <2>2 DEF Numbers
<1> QED BY <1>2, <1>3 DEF Grounded

\* To reach a number of another and to have given it oneself are the same.
LEMMA ReachedNumbers ==
  ASSUME IInv, NEW p \in Peis, NEW d, NEW x \in Nat, Reaches(node[p], p, Numbers, d, x)
  PROVE  <<d, x>> \in Numbers
BY DEF Reaches, Numbers

\* What a step has to show: each peis is as faithful to the old numbers.
LEMMA CalmStep ==
  ASSUME IInv, CalmInv, deadMail' = {},
         \A m \in Peis : Faithful(node'[m], m, Numbers) /\ Clustered(node'[m], m)
  PROVE  CalmInv'
<1> DEFINE new == {y \in Peis \X Nat : /\ y[1] \in DOMAIN node'[y[1]].route
                                       /\ y[2] <= node'[y[1]].route[y[1]].seq}
<1>1. Numbers' = new
  BY DEF Numbers
<1>2. Numbers \subseteq new
  <2> SUFFICES ASSUME NEW m \in Peis, NEW x \in Nat, <<m, x>> \in Numbers
               PROVE  <<m, x>> \in new
    BY DEF Numbers
  <2>1. Reaches(node'[m], m, Numbers, m, x)
    BY DEF Faithful
  <2> QED BY <2>1 DEF Reaches
<1>3. ASSUME NEW m \in Peis
      PROVE  Faithful(node'[m], m, new)
  <2> DEFINE s == node'[m]
  <2>1. Faithful(s, m, Numbers)
    OBVIOUS
  <2>2. \A x : <<m, x>> \in new => Reaches(s, m, new, m, x)
    BY DEF Reaches
  <2> HIDE DEF s, new
  <2>3. \A d, x : Reaches(s, m, Numbers, d, x) => Reaches(s, m, new, d, x)
    BY <1>2 DEF Reaches
  <2>4. \A f : Honest(f, s, m, Numbers) => Honest(f, s, m, new)
    BY <2>3 DEF Honest
  <2>5. Faithful(s, m, new)
    BY <2>1, <2>2, <2>4 DEF Faithful
  <2> QED BY <2>5 DEF s
<1> HIDE DEF new
<1> QED BY <1>1, <1>3 DEF CalmInv

\* One peis changes its state.
LEMMA BecomeFaithful ==
  ASSUME IInv, CalmInv, NEW p \in Peis, NEW q, Faithful(q, p, Numbers), Clustered(q, p),
         node' = [node EXCEPT ![p] = q], deadMail' = deadMail
  PROVE  CalmInv'
<1>1. \A m \in Peis : node'[m] = IF m = p THEN q ELSE node[m]
  BY DEF IInv
<1>2. \A m \in Peis : Faithful(node'[m], m, Numbers) /\ Clustered(node'[m], m)
  BY <1>1 DEF CalmInv
<1> QED BY <1>2, CalmStep DEF CalmInv

LEMMA CalmNode ==
  ASSUME IInv, CalmInv, NEW p \in Peis
  PROVE  /\ Faithful(node[p], p, Numbers) /\ Clustered(node[p], p)
         /\ Good(node[p], p, {}) /\ node[p] \in StateType /\ Grounded(Numbers)
BY NodeIs, NumbersGrounded DEF CalmInv

\* The table is sent on a connection that opens.
LEMMA OpenFaithful ==
  ASSUME IInv, CalmInv, NEW p \in Peis, NEW n \in Peis, n # p,
         NEW x \in {"offered", "unnamed", "open"}, NEW N
  PROVE  LET s == [node[p] EXCEPT !.link[n] = x]
             q == do_routing(s, p, N)
         IN  /\ Faithful(s, p, Numbers) /\ Clustered(s, p)
             /\ Faithful(q, p, Numbers) /\ Clustered(q, p)
<1> DEFINE s == [node[p] EXCEPT !.link[n] = x]
           q == do_routing(s, p, N)
<1>1. /\ Faithful(node[p], p, Numbers) /\ Clustered(node[p], p) /\ Good(node[p], p, {})
      /\ node[p] \in StateType /\ Grounded(Numbers)
  BY CalmNode
<1>2. /\ Good(s, p, {}) /\ s.route = node[p].route /\ s.table = node[p].table
      /\ s.out = node[p].out /\ s.cluster = node[p].cluster
  <2>1. Good(s, p, {})
    BY <1>1, OpenedGood
  <2>2. /\ s.route = node[p].route /\ s.table = node[p].table
        /\ s.out = node[p].out /\ s.cluster = node[p].cluster
    BY <1>1 DEF StateType
  <2> QED BY <2>1, <2>2
<1> HIDE DEF s
<1>3. Faithful(s, p, Numbers) /\ s \in StateType
  <2>1. Faithful(s, p, Numbers)
    BY <1>1, <1>2, SameFaithful
  <2> QED BY <1>2, <2>1 DEF Good
<1>4. Sends(s, q, p)
  BY <1>3, DoRoutingSends
<1> HIDE DEF q
<1>5. Faithful(q, p, Numbers)
  BY <1>1, <1>3, <1>4, SendsFaithful
<1>6. Clustered(s, p)
  BY <1>1, <1>2, SendsClustered
<1>7. Clustered(q, p)
  <2>1. q.cluster = s.cluster /\ {p} \cup DOMAIN q.route = {p} \cup DOMAIN s.route
    BY <1>4 DEF Sends
  <2> QED BY <1>6, <2>1, SendsClustered
<1> QED BY <1>3, <1>5, <1>6, <1>7 DEF q, s

LEMMA ConnectFaithful ==
  ASSUME IInv, CalmInv, NEW p \in Peis, NEW n \in Peis, connect(p, n)
  PROVE  CalmInv'
<1> DEFINE q == do_routing([node[p] EXCEPT !.link[n] = "offered"], p, {n})
<1>1. node' = [node EXCEPT ![p] = q] /\ deadMail' = deadMail /\ n # p
  BY DEF connect, Become
<1>2. Faithful(q, p, Numbers) /\ Clustered(q, p)
  BY <1>1, OpenFaithful
<1> HIDE DEF q
<1> QED BY <1>1, <1>2, BecomeFaithful

LEMMA AcceptFaithful ==
  ASSUME IInv, CalmInv, NEW p \in Peis, NEW n \in Peis, accept(p, n)
  PROVE  CalmInv'
<1> DEFINE q == do_routing([node[p] EXCEPT !.link[n] = "open"], p, {n})
           r == [node[n] EXCEPT !.link[p] = "unnamed"]
<1>1. n # p /\ p # n
  BY NodeIs DEF accept
<1>2. node' = [node EXCEPT ![p] = q, ![n].link[p] = "unnamed"] /\ deadMail' = deadMail
  BY DEF accept
<1>3. Faithful(q, p, Numbers) /\ Clustered(q, p)
  BY <1>1, OpenFaithful
<1>4. Faithful(r, n, Numbers) /\ Clustered(r, n)
  BY <1>1, OpenFaithful
<1> HIDE DEF q
<1>5. \A m \in Peis : node'[m] = IF m = p THEN q ELSE IF m = n THEN r ELSE node[m]
  BY <1>1, <1>2 DEF IInv
<1> HIDE DEF r
<1>6. \A m \in Peis : Faithful(node'[m], m, Numbers) /\ Clustered(node'[m], m)
  BY <1>3, <1>4, <1>5 DEF CalmInv
<1>7. deadMail' = {}
  BY <1>2 DEF CalmInv
<1> QED BY <1>6, <1>7, CalmStep

LEMMA ReadFaithful ==
  ASSUME NEW p \in Peis, NEW B, NEW s \in StateType, Faithful(s, p, B), Clustered(s, p),
         NEW n \in Peis, s.out[n] # <<>>
  PROVE  LET q == [s EXCEPT !.out[n] = Tail(@)] IN
         Faithful(q, p, B) /\ Clustered(q, p) /\ Honest(Head(s.out[n]), s, p, B)
<1> DEFINE out == [s.out EXCEPT ![n] = Tail(s.out[n])]
           q == [s EXCEPT !.out = out]
           L == s.out[n]
<1>1. s.out \in [Peis -> Seq(Partial(PackageType))] /\ L \in Seq(Partial(PackageType)) /\ L # <<>>
  BY StateIs
<1>2. /\ out[n] = Tail(L) /\ \A m \in Peis : m # n => out[m] = s.out[m]
  BY <1>1
<1>3. q.route = s.route /\ q.table = s.table /\ q.cluster = s.cluster /\ q.out = out
  BY DEF StateType
<1>4. \A d, x : Reaches(q, p, B, d, x) <=> Reaches(s, p, B, d, x)
  BY <1>3 DEF Reaches
<1>5. \A f : Honest(f, q, p, B) <=> Honest(f, s, p, B)
  BY <1>4 DEF Honest
<1>6. \A i \in DOMAIN L : Honest(L[i], s, p, B)
  BY DEF Faithful
<1> HIDE DEF q, out, L
<1>7. 1 \in DOMAIN L /\ Head(L) = L[1]
  BY <1>1
<1>8. \A i \in DOMAIN Tail(L) : i + 1 \in DOMAIN L /\ Tail(L)[i] = L[i + 1]
  BY <1>1
<1>9. \A m \in Peis : \A i \in DOMAIN q.out[m] : Honest(q.out[m][i], q, p, B)
  <2> SUFFICES ASSUME NEW m \in Peis, NEW i \in DOMAIN q.out[m]
               PROVE  Honest(q.out[m][i], s, p, B)
    BY <1>5
  <2>1. CASE m = n
    BY <1>2, <1>3, <1>6, <1>8, <2>1
  <2>2. CASE m # n
    BY <1>2, <1>3, <2>2 DEF Faithful
  <2> QED BY <2>1, <2>2
<1>10. Faithful(q, p, B)
  BY <1>3, <1>4, <1>5, <1>9 DEF Faithful
<1>11. Clustered(q, p)
  BY <1>3 DEF Clustered
<1>12. Honest(Head(L), s, p, B)
  BY <1>6, <1>7
<1> QED BY <1>10, <1>11, <1>12 DEF q, out, L

LEMMA HookRoutingFaithful ==
  ASSUME IInv, CalmInv, NEW p \in Peis, NEW n \in Peis, hook_routing(p, n)
  PROVE  CalmInv'
<1> DEFINE s == [node[p] EXCEPT !.link[n] = "open"]
           T == Head(node[n].out[p])
           q == decodeRoutingPages(s, p, n, T)
           r == [node[n] EXCEPT !.out[p] = Tail(@)]
<1>1. n # p
  BY NodeIs DEF hook_routing
<1>2. node' = [node EXCEPT ![p] = q, ![n].out[p] = Tail(@)] /\ deadMail' = deadMail
      /\ node[n].out[p] # <<>>
  BY DEF hook_routing
<1>3. /\ Faithful(node[n], n, Numbers) /\ Clustered(node[n], n) /\ Good(node[n], n, {})
      /\ node[n] \in StateType /\ Grounded(Numbers)
  BY CalmNode
<1>4. Faithful(r, n, Numbers) /\ Clustered(r, n) /\ Honest(T, node[n], n, Numbers)
  BY <1>2, <1>3, ReadFaithful
<1>5. T \in Partial(PackageType)
  BY <1>2, <1>3, OutGood
<1> HIDE DEF T
<1>6. Told(T, Numbers)
  <2> SUFFICES ASSUME NEW d \in DOMAIN T
               PROVE  <<d, T[d].seq>> \in Numbers
    BY DEF Told
  <2>1. Reaches(node[n], n, Numbers, d, T[d].seq)
    BY <1>4 DEF Honest
  <2>2. T[d].seq \in Nat
    BY <1>5, OfferedIs
  <2> QED BY <2>1, <2>2, ReachedNumbers
<1>7. Faithful(s, p, Numbers)
  BY <1>1, OpenFaithful
<1>8. Good(s, p, {}) /\ s.link[n] = "open"
  <2>1. Good(node[p], p, {}) /\ node[p] \in StateType
    BY NodeIs
  <2>2. Good(s, p, {})
    BY <1>1, <2>1, OpenedGood
  <2>3. s.link[n] = "open"
    BY <2>1 DEF StateType
  <2> QED BY <2>2, <2>3
<1> HIDE DEF s
<1>9. Faithful(q, p, Numbers) /\ Clustered(q, p)
  <2>1. s.link[n] # "closed"
    BY <1>8
  <2> QED BY <1>3, <1>5, <1>6, <1>7, <1>8, <2>1, DecodeFaithful
<1> HIDE DEF q
<1>10. \A m \in Peis : node'[m] = IF m = p THEN q ELSE IF m = n THEN r ELSE node[m]
  BY <1>1, <1>2 DEF IInv
<1> HIDE DEF r
<1>11. \A m \in Peis : Faithful(node'[m], m, Numbers) /\ Clustered(node'[m], m)
  BY <1>4, <1>9, <1>10 DEF CalmInv
<1>12. deadMail' = {}
  BY <1>2 DEF CalmInv
<1> QED BY <1>11, <1>12, CalmStep

LEMMA CloseStepFaithful ==
  ASSUME IInv, CalmInv, NEW p \in Peis, NEW n \in Peis, close(p, n)
  PROVE  CalmInv'
<1> DEFINE s == node[p]
           q == closeConnection(s, p, n)
<1>1. node' = [node EXCEPT ![p] = q] /\ deadMail' = deadMail
  BY DEF close, Become
<1>2. Faithful(s, p, Numbers) /\ Clustered(s, p) /\ Good(s, p, {}) /\ Grounded(Numbers)
  BY CalmNode
<1> HIDE DEF s
<1>3. /\ Faithful(q, p, Numbers) /\ q.cluster = s.cluster
      /\ DOMAIN q.route = DOMAIN s.route \cup {p}
  BY <1>2, CloseFaithful
<1> HIDE DEF q
<1>4. Clustered(q, p)
  <2>1. {p} \cup DOMAIN q.route = {p} \cup DOMAIN s.route
    BY <1>3
  <2> QED BY <1>2, <1>3, <2>1, SendsClustered
<1> QED BY <1>1, <1>3, <1>4, BecomeFaithful

\* A lost route names no connection, so nobody is told that its peis is dead.
LEMMA PeriodicFaithful ==
  ASSUME Restarting = {}, IInv, CalmInv, NEW p \in Peis, periodic_routing(p)
  PROVE  CalmInv'
<1> DEFINE s == do_routing(node[p], p, Neighbours(node[p]))
           told == {d \in Dead(s, p) : s.link[d] # "open" /\ s.route[d].via \in Neighbours(s)}
<1>1. node' = [node EXCEPT ![p] = Routed(p)] /\ deadMail' = deadMail \cup {<<p, d>> : d \in told}
  BY PeriodicIs
<1>2. /\ Faithful(node[p], p, Numbers) /\ Clustered(node[p], p) /\ Good(node[p], p, {})
      /\ Grounded(Numbers)
  BY CalmNode
<1>3. Good(s, p, {})
  BY <1>2, DoRoutingGood
<1> HIDE DEF s
<1>4. told = {}
  <2> SUFFICES ASSUME NEW d \in Dead(s, p), s.route[d].via \in Neighbours(s)
               PROVE  FALSE
    OBVIOUS
  <2>1. d \in DOMAIN s.route /\ s.route[d].hops >= LOST
    BY DEF Dead, Aging
  <2>2. Sound(s, p, d, s.route[d])
    BY <1>3, <2>1 DEF Good
  <2>3. s.route[d].via = NoConn
    BY <2>1, <2>2 DEF Sound
  <2> QED BY <2>3, Constants DEF Neighbours
<1> HIDE DEF told
<1>5. deadMail' = deadMail
  BY <1>1, <1>4
<1>6. Faithful(Routed(p), p, Numbers) /\ Clustered(Routed(p), p)
  BY <1>2, RoutedFaithful
<1> QED BY <1>1, <1>5, <1>6, BecomeFaithful

\* Nobody was reborn.
LEMMA HookHostInfoFaithful ==
  ASSUME Restarting = {}, IInv, CalmInv, NEW p \in Peis, NEW d \in Peis,
         NEW m \in 0 .. node[d].magic, hook_hostInfo(p, d, m)
  PROVE  CalmInv'
<1> DEFINE s == node[p]
           known == [h \in DOMAIN s.known \cup {d} |-> IF h = d THEN m ELSE s.known[h]]
           q == [s EXCEPT !.known = known]
<1>1. m = 0
  <2>1. node[d].magic \in Magics
    BY NodeIs, StateIs
  <2> QED BY <2>1 DEF Magics
<1>2. d \in DOMAIN s.known => s.known[d] = m
  <2>1. s.known \in Partial(Magics)
    BY NodeIs, StateIs
  <2>2. d \in DOMAIN s.known => s.known[d] \in Magics
    BY <2>1, PartialIs
  <2> QED BY <1>1, <2>2 DEF Magics
<1>3. node' = [node EXCEPT ![p] = q] /\ deadMail' = deadMail
  BY <1>2 DEF hook_hostInfo, Become
<1>4. Faithful(s, p, Numbers) /\ Clustered(s, p) /\ s \in StateType
  BY CalmNode
<1> HIDE DEF s, known
<1>5. q.route = s.route /\ q.table = s.table /\ q.out = s.out /\ q.cluster = s.cluster
  BY <1>4 DEF StateType
<1> HIDE DEF q
<1>6. Faithful(q, p, Numbers)
  BY <1>4, <1>5, SameFaithful
<1>7. Clustered(q, p)
  BY <1>4, <1>5, SendsClustered
<1> QED BY <1>3, <1>6, <1>7, BecomeFaithful

LEMMA CalmInit == Init => CalmInv
<1> SUFFICES ASSUME Init
             PROVE  CalmInv
  OBVIOUS
<1>1. IInv
  BY InitGood
<1>2. node = [p \in Peis |-> Booted(p, 0)] /\ deadMail = {}
  BY DEF Init
<1>3. Numbers = {}
  <2>1. \A p \in Peis : DOMAIN node[p].route = {}
    BY <1>2 DEF Booted, Empty
  <2> QED BY <2>1 DEF Numbers
<1>4. ASSUME NEW p \in Peis
      PROVE  Faithful(node[p], p, {}) /\ Clustered(node[p], p)
  <2> DEFINE s == node[p]
  <2>1. /\ DOMAIN s.route = {} /\ s.cluster = p
        /\ \A n \in Peis : DOMAIN s.table[n] = {} /\ s.out[n] = <<>>
    BY <1>2 DEF Booted, Empty
  <2> HIDE DEF s
  <2>2. \A n \in Peis : DOMAIN s.out[n] = {}
    BY <2>1
  <2>3. Faithful(s, p, {})
    BY <2>1, <2>2 DEF Faithful, Honest
  <2>4. Clustered(s, p)
    <3>1. {p} \subseteq Nat /\ {p} \cup DOMAIN s.route = {p}
      BY <2>1, Constants
    <3>2. Min({p}) = p
      BY <3>1, MinProperties
    <3> QED BY <2>1, <3>1, <3>2 DEF Clustered
  <2> QED BY <2>3, <2>4 DEF s
<1> QED BY <1>2, <1>3, <1>4 DEF CalmInv

LEMMA CalmNext ==
  ASSUME Restarting = {}
  PROVE  IInv /\ CalmInv /\ [Next]_vars => CalmInv'
<1> SUFFICES ASSUME IInv, CalmInv, [Next]_vars
             PROVE  CalmInv'
  OBVIOUS
<1>1. ASSUME NEW p \in Peis, periodic_routing(p)
      PROVE  CalmInv'
  BY <1>1, PeriodicFaithful
<1>2. ASSUME NEW p \in Peis, restart(p)
      PROVE  CalmInv'
  BY <1>2 DEF restart
<1>3. ASSUME NEW p \in Peis, NEW n \in Peis, connect(p, n)
      PROVE  CalmInv'
  BY <1>3, ConnectFaithful
<1>4. ASSUME NEW p \in Peis, NEW n \in Peis, accept(p, n)
      PROVE  CalmInv'
  BY <1>4, AcceptFaithful
<1>5. ASSUME NEW p \in Peis, NEW n \in Peis, hook_routing(p, n)
      PROVE  CalmInv'
  BY <1>5, HookRoutingFaithful
<1>6. ASSUME NEW p \in Peis, NEW n \in Peis, close(p, n)
      PROVE  CalmInv'
  BY <1>6, CloseStepFaithful
<1>7. ASSUME NEW p \in Peis, NEW n \in Peis, hook_deadHost(p, n)
      PROVE  CalmInv'
  BY <1>7 DEF hook_deadHost, CalmInv
<1>8. ASSUME NEW p \in Peis, NEW d \in Peis, NEW m \in 0 .. node[d].magic, hook_hostInfo(p, d, m)
      PROVE  CalmInv'
  BY <1>8, HookHostInfoFaithful
<1>9. ASSUME NEW mail \in deadMail, lose(mail)
      PROVE  CalmInv'
  BY <1>9 DEF CalmInv
<1>10. CASE UNCHANGED vars
  BY <1>10 DEF vars, CalmInv, Numbers
<1> QED BY <1>1, <1>2, <1>3, <1>4, <1>5, <1>6, <1>7, <1>8, <1>9, <1>10 DEF Next

LEMMA CalmAlways == ASSUME Restarting = {} PROVE Spec => []CalmInv
<1>1. IInv /\ CalmInv /\ [Next]_vars => CalmInv'
  BY CalmNext
<1> QED BY <1>1, CalmInit, IInvAlways, PTL DEF Spec

\* While no peis restarts, none is talked out of its route to itself: no neighbour
\* offers it with a higher number, nor with as high a number and no hops
\* (the assertion at services.c:579).
THEOREM OwnRouteAlways == ASSUME Restarting = {} PROVE Spec => []OwnRoute
<1>1. CalmInv => OwnRoute
  BY DEF CalmInv, Faithful, OwnRoute
<1> QED BY <1>1, CalmAlways, PTL

\* While no peis restarts, the sequence numbers that are believed, stored or under
\* way are ones their peis has reached (services.c:976).
THEOREM NumbersHonest == ASSUME Restarting = {} PROVE Spec => []SeqHonest
<1>1. IInv /\ CalmInv => SeqHonest
  <2> SUFFICES ASSUME IInv, CalmInv, NEW p \in Peis, NEW d \in Peis, d \in DOMAIN node[p].route
               PROVE  d \in DOMAIN node[d].route /\ node[p].route[d].seq <= node[d].route[d].seq
    BY DEF SeqHonest
  <2>1. Reaches(node[p], p, Numbers, d, node[p].route[d].seq)
    BY DEF CalmInv, Faithful, Honest
  <2>2. node[p].route[d].seq \in Nat
    BY NodeIs, OwnSeq
  <2>3. <<d, node[p].route[d].seq>> \in Numbers
    BY <2>1, <2>2, ReachedNumbers
  <2> QED BY <2>3 DEF Numbers
<1> QED BY <1>1, IInvAlways, CalmAlways, PTL

\* While no peis restarts, every handler that changes which peis are known makes the
\* cluster follow (services.c:308).
THEOREM ClusterAlwaysCurrent == ASSUME Restarting = {} PROVE Spec => []ClusterCurrent
<1>1. IInv /\ CalmInv => ClusterCurrent
  <2> SUFFICES ASSUME IInv, CalmInv, NEW p \in Peis
               PROVE  /\ node[p].cluster \in {p} \cup DOMAIN node[p].route
                      /\ node[p].cluster <= p
                      /\ \A d \in DOMAIN node[p].route :
                           node[p].route[d].hops < LOST => node[p].cluster <= d
    BY DEF ClusterCurrent
  <2> DEFINE S == {p} \cup DOMAIN node[p].route
  <2>1. node[p].cluster = Min(S)
    BY DEF CalmInv, Clustered
  <2>2. DOMAIN node[p].route \subseteq Peis
    BY NodeIs DEF StateType, Partial
  <2>a. Peis \subseteq Nat
    BY RoutingAssumption
  <2>b. p \in Nat /\ DOMAIN node[p].route \subseteq Nat
    BY <2>a, <2>2
  <2>3. S \subseteq Nat /\ S # {}
    BY <2>b
  <2> HIDE DEF S
  <2>4. Min(S) \in S /\ \A x \in S : Min(S) <= x
    BY <2>3, MinProperties
  <2> QED BY <2>1, <2>4 DEF S
<1> QED BY <1>1, IInvAlways, CalmAlways, PTL
=============================================================================
