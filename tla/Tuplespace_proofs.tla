-------------------------- MODULE Tuplespace_proofs --------------------------
(***************************************************************************)
(* Theorems about Tuplespace, for every finite set of hosts, tuples and    *)
(* prototypes and every value of the limits.                               *)
(***************************************************************************)
EXTENDS Tuplespace, Integers, SequenceTheorems, FiniteSetTheorems, TLAPS

----------------------------------------------------------------------------
(* Types *)

\* Functions from some of the elements of A to B.
Partial(A, B) == UNION {[D -> B] : D \in SUBSET A}

Tuples == [seqno : Nat, data : Seq(Nat), expired : BOOLEAN]
PushBodies == [name : Names, tuple : Tuples]
AppendBodies == [name : Names, seqno : Nat, diff : Nat]
Bodies == PushBodies \cup AppendBodies \cup Prototypes \cup Names \cup Hosts
Kinds == {"push", "append", "set", "subscribe", "unsubscribe", "dead", "reborn"}
Statuses == {"owed", "unconfirmed", "late"}
MessageType == [kind : Kinds, from : Hosts, to : Hosts, body : Bodies, status : Statuses]

\* A message is to another host, and only owners send values.
WellFormed(m) ==
  /\ m \in MessageType
  /\ m.from # m.to
  /\ m.kind = "push" => m.body \in PushBodies /\ OwnerOf[m.body.name] = m.from
  /\ m.kind = "append" => m.body \in AppendBodies /\ OwnerOf[m.body.name] = m.from
  /\ m.kind \in {"subscribe", "unsubscribe"} => m.body \in Prototypes
  /\ m.kind = "set" => m.body \in Names /\ OwnerOf[m.body] = m.to
  /\ m.status = "unconfirmed" => Hooked(m)

Failures == [to : Hosts, tries : 1 .. TRIES]

WritesT == writes \in [Names -> Nat]
SpaceT == space \in [Hosts -> Partial(Names, Tuples)]
OwnT == own \in [Hosts -> SUBSET Prototypes]
SubsT ==
  /\ subs \in [Hosts -> SUBSET (Hosts \X Prototypes)]
  /\ \A h \in Hosts : \A x \in subs[h] : x[1] # h
KnownT ==
  /\ known \in [Hosts -> Partial(Hosts, Nat)]
  /\ magic \in [Hosts -> Nat]
  /\ \A h \in Hosts : h \notin DOMAIN known[h]
GivenT ==
  /\ given \in [Hosts -> SUBSET Hosts]
  /\ \A h \in Hosts : given[h] \subseteq DOMAIN known[h]
FailedT ==
  /\ failed \in [Hosts -> Partial(Names, Failures)]
  /\ \A h \in Hosts : \A n \in DOMAIN failed[h] : OwnerOf[n] = h /\ failed[h][n].to # h
MishapsT == mishaps \in [count : 0 .. MaxMishaps, oneSided : BOOLEAN]
NetT == \A m \in net : WellFormed(m)

TypeInv ==
  /\ WritesT /\ SpaceT /\ OwnT /\ SubsT /\ KnownT /\ GivenT /\ FailedT /\ MishapsT /\ NetT

----------------------------------------------------------------------------
(* The invariants *)

Absent(kind) == \A m \in net : m.kind # kind

\* No host is known by a magic number it did not have yet.  Until one side
\* lost the other, no host is told that it is dead; unless hosts crash, none
\* is reborn either.
PromiseInv ==
  /\ \A h \in Hosts : \A g \in DOMAIN known[h] : known[h][g] <= magic[g]
  /\ ~ mishaps.oneSided => Absent("dead")
  /\ ~ mishaps.oneSided /\ "crash" \notin Mishaps =>
       Absent("reborn") /\ \A h \in Hosts : magic[h] = 0
  /\ "unsubscribe" \notin Uses => Absent("unsubscribe")

GivenInv == PromiseInv /\ GivenMeansSubscribed

Spaces == [Hosts -> Partial(Names, Tuples)]

\* With the tuples s of all hosts, t is a value the owner of n gave it: not newer
\* than the owner's, and if it has the owner's number, the same value with less
\* appended.
Fits(s, n, t) ==
  LET S == s[OwnerOf[n]] IN
  /\ n \in DOMAIN S
  /\ ~ t.expired /\ t.data # <<>>
  /\ t.seqno <= S[n].seqno
  /\ t.seqno = S[n].seqno => /\ Head(t.data) = Head(S[n].data)
                             /\ Range(t.data) \subseteq Range(S[n].data)

\* What is to be appended to the owner's value was appended by the owner.
AppendFits(s, a) ==
  LET S == s[OwnerOf[a.name]] IN
  /\ a.name \in DOMAIN S
  /\ a.seqno <= S[a.name].seqno
  /\ a.seqno = S[a.name].seqno => a.diff \in Range(S[a.name].data)

MessageFits(s, m) ==
  /\ m.kind \notin {"dead", "reborn"}
  /\ m.kind = "push" => Fits(s, m.body.name, m.body.tuple)
  /\ m.kind = "append" => AppendFits(s, m.body)

\* Nobody restarts or is lost; every copy and every message fits.
CopiesFit == \A h \in Hosts : \A n \in DOMAIN space[h] : Fits(space, n, space[h][n])
NumberInv ==
  /\ \A h \in Hosts : magic[h] = 0 /\ \A g \in DOMAIN known[h] : known[h][g] = 0
  /\ CopiesFit
  /\ \A m \in net : MessageFits(space, m)

----------------------------------------------------------------------------
(* Functions and messages *)

LEMMA PartialIs ==
  ASSUME NEW A, NEW B, NEW f \in Partial(A, B)
  PROVE  /\ DOMAIN f \subseteq A
         /\ f \in [DOMAIN f -> B]
         /\ \A x \in DOMAIN f : f[x] \in B
  BY DEF Partial

LEMMA IsPartial ==
  ASSUME NEW A, NEW B, NEW D \in SUBSET A, NEW f \in [D -> B]
  PROVE  f \in Partial(A, B) /\ DOMAIN f = D
  BY DEF Partial

LEMMA EmptyPartial ==
  ASSUME NEW A, NEW B
  PROVE  Empty \in Partial(A, B) /\ DOMAIN Empty = {}
<1>1. Empty \in [{} -> B] /\ {} \in SUBSET A
  BY DEF Empty
<1> QED BY <1>1, IsPartial

LEMMA WithoutPartial ==
  ASSUME NEW A, NEW B, NEW f \in Partial(A, B), NEW D
  PROVE  /\ Without(f, D) \in Partial(A, B)
         /\ DOMAIN Without(f, D) = DOMAIN f \ D
         /\ \A x \in DOMAIN f \ D : Without(f, D)[x] = f[x]
<1>1. DOMAIN f \ D \in SUBSET A /\ \A x \in DOMAIN f \ D : f[x] \in B
  BY PartialIs
<1>2. Without(f, D) \in [DOMAIN f \ D -> B]
  BY <1>1 DEF Without
<1>3. Without(f, D) \in Partial(A, B) /\ DOMAIN Without(f, D) = DOMAIN f \ D
  BY <1>1, <1>2, IsPartial
<1> QED BY <1>3 DEF Without

\* The fields of a message, and of one whose status changes.
LEMMA MessageFields ==
  ASSUME NEW kind, NEW from, NEW to, NEW body
  PROVE  LET m == Message(kind, from, to, body) IN
         /\ m.kind = kind /\ m.from = from /\ m.to = to /\ m.body = body /\ m.status = "owed"
         /\ kind \in Kinds /\ from \in Hosts /\ to \in Hosts /\ body \in Bodies =>
              m \in MessageType
  BY DEF Message, MessageType, Statuses

LEMMA OtherStatus ==
  ASSUME NEW m, WellFormed(m), NEW s \in Statuses, s = "unconfirmed" => Hooked(m)
  PROVE  LET k == [m EXCEPT !.status = s] IN
         /\ k.kind = m.kind /\ k.from = m.from /\ k.to = m.to /\ k.body = m.body /\ k.status = s
         /\ WellFormed(k)
<1> DEFINE k == [m EXCEPT !.status = s]
<1>1. m \in MessageType
  BY DEF WellFormed
<1>2. k.kind = m.kind /\ k.from = m.from /\ k.to = m.to /\ k.body = m.body /\ k.status = s
  BY <1>1 DEF MessageType
<1>3. k \in MessageType
  BY <1>1 DEF MessageType
<1> HIDE DEF k
<1>4. Hooked(k) <=> Hooked(m)
  BY <1>2 DEF Hooked
<1>5. WellFormed(k)
  BY <1>2, <1>3, <1>4 DEF WellFormed
<1> QED BY <1>2, <1>5 DEF k

LEMMA PushWellFormed ==
  ASSUME NEW h \in Hosts, NEW n \in Names, NEW d \in Hosts, NEW t \in Tuples,
         OwnerOf[n] = h, h # d
  PROVE  /\ WellFormed(Push(h, n, d, t))
         /\ Push(h, n, d, t).kind = "push" /\ Push(h, n, d, t).from = h /\ Push(h, n, d, t).to = d
         /\ Push(h, n, d, t).body.name = n /\ Push(h, n, d, t).body.tuple = t
         /\ Push(h, n, d, t).status = "owed"
<1> DEFINE b == [name |-> n, tuple |-> t]
<1>1. b \in PushBodies /\ b.name = n /\ b.tuple = t
  BY DEF PushBodies
<1>2. b \in Bodies
  BY <1>1 DEF Bodies
<1> HIDE DEF b
<1> DEFINE m == Message("push", h, d, b)
<1>3. /\ m.kind = "push" /\ m.from = h /\ m.to = d /\ m.body = b /\ m.status = "owed"
      /\ m \in MessageType
  <2>1. "push" \in Kinds
    BY DEF Kinds
  <2> QED BY <1>2, <2>1, MessageFields
<1> HIDE DEF m
<1>4. WellFormed(m)
  BY <1>1, <1>3 DEF WellFormed
<1>5. m = Push(h, n, d, t)
  BY DEF m, Push, b
<1> QED BY <1>1, <1>3, <1>4, <1>5

LEMMA SubscriptionWellFormed ==
  ASSUME NEW h \in Hosts, NEW p \in Prototypes, NEW d \in Hosts, h # d
  PROVE  LET m == Subscription(h, p, d) IN
         /\ WellFormed(m)
         /\ m.kind = "subscribe" /\ m.from = h /\ m.to = d /\ m.body = p /\ m.status = "owed"
<1> DEFINE m == Message("subscribe", h, d, p)
<1>1. /\ m.kind = "subscribe" /\ m.from = h /\ m.to = d /\ m.body = p /\ m.status = "owed"
      /\ m \in MessageType
  BY MessageFields DEF Kinds, Bodies
<1> HIDE DEF m
<1>2. WellFormed(m)
  BY <1>1 DEF WellFormed
<1>3. m = Subscription(h, p, d)
  BY DEF m, Subscription
<1> QED BY <1>1, <1>2, <1>3

\* The messages without a hook.
LEMMA NoticeWellFormed ==
  ASSUME NEW kind \in {"dead", "reborn", "unsubscribe", "set"}, NEW h \in Hosts, NEW d \in Hosts,
         NEW b \in Bodies, h # d,
         kind = "unsubscribe" => b \in Prototypes,
         kind = "set" => b \in Names /\ OwnerOf[b] = d
  PROVE  LET m == Message(kind, h, d, b) IN
         /\ WellFormed(m)
         /\ m.kind = kind /\ m.from = h /\ m.to = d /\ m.body = b /\ m.status = "owed"
<1> DEFINE m == Message(kind, h, d, b)
<1>1. /\ m.kind = kind /\ m.from = h /\ m.to = d /\ m.body = b /\ m.status = "owed"
      /\ m \in MessageType
  <2>1. kind \in Kinds
    BY DEF Kinds
  <2> QED BY <2>1, MessageFields
<1> HIDE DEF m
<1>2. WellFormed(m)
  BY <1>1 DEF WellFormed
<1> QED BY <1>1, <1>2 DEF m

----------------------------------------------------------------------------
(* What goes wrong is counted *)

LEMMA HappenCounts ==
  ASSUME MishapsT, NEW kind, NEW k \in Nat, Happen(kind, k)
  PROVE  /\ MishapsT'
         /\ mishaps.oneSided => mishaps'.oneSided
         /\ k > 0 => kind \in Mishaps
         /\ k > 0 /\ kind \in {"lose", "shutdown", "drop"} => mishaps'.oneSided
<1>1. /\ mishaps.count \in 0 .. MaxMishaps /\ mishaps.oneSided \in BOOLEAN
      /\ MaxMishaps \in Nat
  BY TuplespaceAssumption DEF MishapsT
<1>2. /\ k > 0 => kind \in Mishaps
      /\ mishaps.count + k <= MaxMishaps
      /\ mishaps' = [count |-> mishaps.count + k,
                     oneSided |-> mishaps.oneSided \/ (k > 0 /\ kind \in {"lose", "shutdown", "drop"})]
  BY DEF Happen
<1>3. mishaps.count + k \in 0 .. MaxMishaps
  BY <1>1, <1>2
<1> DEFINE b == mishaps.oneSided \/ (k > 0 /\ kind \in {"lose", "shutdown", "drop"})
           c == mishaps.count + k
<1>4. b \in BOOLEAN /\ mishaps' = [count |-> c, oneSided |-> b] /\ c \in 0 .. MaxMishaps
  BY <1>2, <1>3
<1>5. /\ mishaps.oneSided => b
      /\ k > 0 /\ kind \in {"lose", "shutdown", "drop"} => b
  OBVIOUS
<1> HIDE DEF b, c
<1>6. mishaps' \in [count : 0 .. MaxMishaps, oneSided : BOOLEAN] /\ mishaps'.oneSided = b
  BY <1>4
<1> QED BY <1>2, <1>5, <1>6 DEF MishapsT

LEMMA RefusalsCount ==
  ASSUME NEW h, NEW A, NEW B, IsFiniteSet(A), IsFiniteSet(B), NEW X \in SUBSET (A \X B)
  PROVE  Refusals(h, X) \in Nat /\ IsFiniteSet(X) /\ Cardinality(X) \in Nat
<1> DEFINE Y == {x \in X : x[2] \in DOMAIN known[h]}
<1>1. IsFiniteSet(A \X B) /\ Y \in SUBSET (A \X B)
  BY FS_Product
<1>2. IsFiniteSet(X) /\ IsFiniteSet(Y)
  BY <1>1, FS_Subset
<1>3. Cardinality(X) \in Nat /\ Cardinality(Y) \in Nat
  BY <1>2, FS_CardinalityType
<1> QED BY <1>2, <1>3 DEF Refusals

----------------------------------------------------------------------------
(* The tuples of a host *)

LEMMA NextNumber ==
  ASSUME NEW t \in Tuples, NEW k \in Nat
  PROVE  LET u == [t EXCEPT !.seqno = k] IN
         u \in Tuples /\ u.seqno = k /\ u.data = t.data /\ u.expired = t.expired
  BY DEF Tuples

LEMMA LocalSpaceType ==
  ASSUME NEW S \in Partial(Names, Tuples), NEW n \in Names, NEW t \in Tuples
  PROVE  /\ addToLocalSpace(S, n, t) \in Partial(Names, Tuples)
         /\ DOMAIN addToLocalSpace(S, n, t) = DOMAIN S \cup {n}
         /\ \A m \in DOMAIN S : m # n => addToLocalSpace(S, n, t)[m] = S[m]
<1> DEFINE v(m) == IF m # n THEN S[m]
                   ELSE IF n \in DOMAIN S /\ t.seqno = 0 THEN [t EXCEPT !.seqno = S[n].seqno + 1]
                   ELSE t
           D == DOMAIN S \cup {n}
<1>1. DOMAIN S \subseteq Names /\ \A m \in DOMAIN S : S[m] \in Tuples
  BY PartialIs
<1>2. D \in SUBSET Names
  BY <1>1
<1>3. \A m \in D : v(m) \in Tuples
  <2>1. CASE n \in DOMAIN S /\ t.seqno = 0
    <3>1. [t EXCEPT !.seqno = S[n].seqno + 1] \in Tuples
      BY <1>1, <2>1 DEF Tuples
    <3> QED BY <1>1, <2>1, <3>1
  <2>2. CASE ~ (n \in DOMAIN S /\ t.seqno = 0)
    BY <1>1, <2>2
  <2> QED BY <2>1, <2>2
<1>4. addToLocalSpace(S, n, t) = [m \in D |-> v(m)]
  BY DEF addToLocalSpace
<1>5. \A m \in DOMAIN S : m # n => v(m) = S[m]
  OBVIOUS
<1>6. DOMAIN S \subseteq D /\ D = DOMAIN S \cup {n}
  OBVIOUS
<1> HIDE DEF v, D
<1>7. addToLocalSpace(S, n, t) \in [D -> Tuples]
  BY <1>3, <1>4
<1>8. addToLocalSpace(S, n, t) \in Partial(Names, Tuples) /\ DOMAIN addToLocalSpace(S, n, t) = D
  BY <1>2, <1>7, IsPartial
<1>9. \A m \in D : addToLocalSpace(S, n, t)[m] = v(m)
  BY <1>4
<1> QED BY <1>5, <1>6, <1>8, <1>9

\* A tuple that comes with number 0 gets the next one.
LEMMA LocalSpaceValue ==
  ASSUME NEW S \in Partial(Names, Tuples), NEW n \in Names, NEW t \in Tuples,
         NEW u, u = addToLocalSpace(S, n, t)[n]
  PROVE  /\ ~ (n \in DOMAIN S /\ t.seqno = 0) => u = t
         /\ n \in DOMAIN S /\ t.seqno = 0 =>
              u.seqno = S[n].seqno + 1 /\ u.data = t.data /\ u.expired = t.expired
<1>1. u = IF n \in DOMAIN S /\ t.seqno = 0 THEN [t EXCEPT !.seqno = S[n].seqno + 1] ELSE t
  BY DEF addToLocalSpace
<1>2. CASE n \in DOMAIN S /\ t.seqno = 0
  <2> DEFINE k == S[n].seqno
  <2>1. S[n] \in Tuples
    BY <1>2, PartialIs
  <2>2. k \in Nat /\ k + 1 \in Nat
    BY <2>1 DEF Tuples
  <2>3. u = [t EXCEPT !.seqno = k + 1]
    BY <1>1, <1>2
  <2> HIDE DEF k
  <2>4. u.seqno = k + 1 /\ u.data = t.data /\ u.expired = t.expired
    BY <2>2, <2>3, NextNumber
  <2> QED BY <1>2, <2>4 DEF k
<1>3. CASE ~ (n \in DOMAIN S /\ t.seqno = 0)
  BY <1>1, <1>3
<1> QED BY <1>2, <1>3

LEMMA AppendedType ==
  ASSUME NEW S \in Partial(Names, Tuples), NEW n \in DOMAIN S, NEW w \in Nat
  PROVE  /\ Appended(S, n, w) \in Partial(Names, Tuples)
         /\ DOMAIN Appended(S, n, w) = DOMAIN S
         /\ \A m \in DOMAIN S : m # n => Appended(S, n, w)[m] = S[m]
         /\ Appended(S, n, w)[n].seqno = S[n].seqno
         /\ Appended(S, n, w)[n].expired = S[n].expired
         /\ Appended(S, n, w)[n].data = Append(S[n].data, w)
<1>1. DOMAIN S \in SUBSET Names /\ S \in [DOMAIN S -> Tuples] /\ S[n] \in Tuples
  BY PartialIs
<1> DEFINE u == [S[n] EXCEPT !.data = Append(@, w)]
<1>2. /\ u \in Tuples
      /\ u.seqno = S[n].seqno /\ u.expired = S[n].expired /\ u.data = Append(S[n].data, w)
  <2>1. S[n].data \in Seq(Nat)
    BY <1>1 DEF Tuples
  <2>2. Append(S[n].data, w) \in Seq(Nat)
    BY <2>1
  <2> QED BY <1>1, <2>2 DEF Tuples
<1>3. Appended(S, n, w) = [S EXCEPT ![n] = u]
  BY DEF Appended
<1> HIDE DEF u
<1>4. Appended(S, n, w) \in [DOMAIN S -> Tuples]
  BY <1>1, <1>2, <1>3
<1>5. Appended(S, n, w)[n] = u /\ \A m \in DOMAIN S : m # n => Appended(S, n, w)[m] = S[m]
  BY <1>1, <1>3
<1> QED BY <1>1, <1>2, <1>4, <1>5, IsPartial

\* A host is lost: its tuples expire.
LEMMA ExpiredType ==
  ASSUME NEW S \in Partial(Names, Tuples), NEW g
  PROVE  [n \in DOMAIN S |-> IF OwnerOf[n] = g THEN [S[n] EXCEPT !.expired = TRUE] ELSE S[n]]
           \in Partial(Names, Tuples)
<1>1. DOMAIN S \in SUBSET Names /\ \A n \in DOMAIN S : S[n] \in Tuples
  BY PartialIs
<1> DEFINE v(n) == IF OwnerOf[n] = g THEN [S[n] EXCEPT !.expired = TRUE] ELSE S[n]
           f == [n \in DOMAIN S |-> v(n)]
<1>2. ASSUME NEW n \in DOMAIN S
      PROVE  v(n) \in Tuples
  <2>1. S[n] \in Tuples /\ [S[n] EXCEPT !.expired = TRUE] \in Tuples
    BY <1>1 DEF Tuples
  <2> QED BY <2>1
<1> HIDE DEF v
<1>3. f \in [DOMAIN S -> Tuples]
  BY <1>2
<1>4. f \in Partial(Names, Tuples)
  <2> HIDE DEF f
  <2> QED BY <1>1, <1>3, IsPartial
<1> QED BY <1>4 DEF v

LEMMA InsertFailedType ==
  ASSUME NEW F \in Partial(Names, Failures), NEW T \in SUBSET Names, NEW to \in [T -> Hosts]
  PROVE  /\ insertFailedTuples(F, to) \in Partial(Names, Failures)
         /\ DOMAIN insertFailedTuples(F, to) = DOMAIN F \cup T
         /\ \A n \in DOMAIN F : insertFailedTuples(F, to)[n] = F[n]
         /\ \A n \in T \ DOMAIN F : insertFailedTuples(F, to)[n].to = to[n]
<1> DEFINE v(n) == IF n \in DOMAIN F THEN F[n] ELSE [to |-> to[n], tries |-> TRIES]
           D == DOMAIN F \cup T
<1>1. DOMAIN F \subseteq Names /\ \A n \in DOMAIN F : F[n] \in Failures
  BY PartialIs
<1>2. D \in SUBSET Names
  BY <1>1
<1>3. ASSUME NEW n \in D
      PROVE  v(n) \in Failures
  <2>1. CASE n \in DOMAIN F
    BY <1>1, <2>1
  <2>2. CASE n \notin DOMAIN F
    <3>1. n \in T /\ TRIES \in 1 .. TRIES
      BY <2>2, TuplespaceAssumption
    <3> QED BY <2>2, <3>1 DEF Failures
  <2> QED BY <2>1, <2>2
<1>4. insertFailedTuples(F, to) = [n \in D |-> v(n)]
  BY DEF insertFailedTuples
<1>5. /\ \A n \in DOMAIN F : n \in D /\ v(n) = F[n]
      /\ \A n \in T \ DOMAIN F : n \in D /\ v(n).to = to[n]
      /\ D = DOMAIN F \cup T
  OBVIOUS
<1> HIDE DEF v, D
<1>6. insertFailedTuples(F, to) \in [D -> Failures]
  BY <1>3, <1>4
<1>7. insertFailedTuples(F, to) \in Partial(Names, Failures) /\ DOMAIN insertFailedTuples(F, to) = D
  BY <1>2, <1>6, IsPartial
<1>8. \A n \in D : insertFailedTuples(F, to)[n] = v(n)
  BY <1>4
<1> QED BY <1>5, <1>7, <1>8

----------------------------------------------------------------------------
(* Pushing *)

\* What a step sends besides M.
OnlyPushes(h, S, P, M) ==
  /\ M \subseteq net'
  /\ \A m \in net' : m \in M \/ \E x \in P : m = Push(h, x[1], x[2], S[x[1]])

\* A host pushes its own tuples only, to others.
Pushable(h, S, P) ==
  /\ P \subseteq Names \X Hosts
  /\ \A x \in P : x[1] \in DOMAIN S /\ OwnerOf[x[1]] = h /\ x[2] # h

LEMMA PushedWellFormed ==
  ASSUME NEW h \in Hosts, NEW S \in Partial(Names, Tuples), NEW P, Pushable(h, S, P),
         NEW x \in P
  PROVE  LET m == Push(h, x[1], x[2], S[x[1]]) IN
         /\ WellFormed(m)
         /\ m.kind = "push" /\ m.from = h /\ m.to = x[2] /\ m.status = "owed"
         /\ m.body.name = x[1] /\ m.body.tuple = S[x[1]]
<1>1. /\ x[1] \in Names /\ x[2] \in Hosts /\ x[1] \in DOMAIN S /\ OwnerOf[x[1]] = h /\ h # x[2]
  BY DEF Pushable
<1>2. S[x[1]] \in Tuples
  BY <1>1, PartialIs
<1> QED BY <1>1, <1>2, PushWellFormed

LEMMA PushTuplesType ==
  ASSUME TypeInv, NEW h \in Hosts, NEW S \in Partial(Names, Tuples), NEW P, Pushable(h, S, P),
         NEW M, \A m \in M : WellFormed(m), PushTuples(h, S, P, M)
  PROVE  /\ NetT' /\ FailedT' /\ MishapsT'
         /\ mishaps.oneSided => mishaps'.oneSided
         /\ OnlyPushes(h, S, P, M)
<1>1. PICK R \in SUBSET P :
        /\ Happen("refuse", Refusals(h, R))
        /\ net' = M \cup {Push(h, x[1], x[2], S[x[1]]) : x \in P \ R}
        /\ \E to \in [{x[1] : x \in R} -> Hosts] :
             /\ \A n \in DOMAIN to : <<n, to[n]>> \in R
             /\ failed' = [failed EXCEPT ![h] = insertFailedTuples(@, to)]
  BY DEF PushTuples
<1>2. MishapsT' /\ (mishaps.oneSided => mishaps'.oneSided)
  <2>1. R \in SUBSET (Names \X Hosts)
    BY DEF Pushable
  <2>2. Refusals(h, R) \in Nat
    BY <2>1, RefusalsCount, TuplespaceAssumption
  <2>3. MishapsT
    BY DEF TypeInv
  <2> QED BY <1>1, <2>2, <2>3, HappenCounts
<1>3. OnlyPushes(h, S, P, M)
  BY <1>1 DEF OnlyPushes
<1>4. NetT'
  <2>1. \A m \in net' : WellFormed(m)
    BY <1>3, PushedWellFormed DEF OnlyPushes
  <2> QED BY <2>1 DEF NetT
<1>5. FailedT'
  <2> DEFINE T == {x[1] : x \in R}
  <2>1. PICK to \in [T -> Hosts] :
             /\ \A n \in DOMAIN to : <<n, to[n]>> \in R
             /\ failed' = [failed EXCEPT ![h] = insertFailedTuples(@, to)]
    BY <1>1
  <2>2. T \in SUBSET Names
    BY DEF Pushable
  <2>3. DOMAIN to = T
    OBVIOUS
  <2> HIDE DEF T
  <2>4. ASSUME NEW n \in T
        PROVE  OwnerOf[n] = h /\ to[n] # h
    <3>1. <<n, to[n]>> \in P
      BY <2>1, <2>3
    <3> QED BY <3>1 DEF Pushable
  <2>5. FailedT
    BY DEF TypeInv
  <2>6. failed[h] \in Partial(Names, Failures)
    BY <2>5 DEF FailedT
  <2> DEFINE G == insertFailedTuples(failed[h], to)
  <2>7. /\ G \in Partial(Names, Failures)
        /\ DOMAIN G = DOMAIN failed[h] \cup T
        /\ \A n \in DOMAIN failed[h] : G[n] = failed[h][n]
        /\ \A n \in T \ DOMAIN failed[h] : G[n].to = to[n]
    BY <2>2, <2>6, InsertFailedType
  <2>8. failed' = [failed EXCEPT ![h] = G]
    BY <2>1
  <2> HIDE DEF G
  <2>9. failed' \in [Hosts -> Partial(Names, Failures)]
    BY <2>5, <2>7, <2>8 DEF FailedT
  <2>10. ASSUME NEW g \in Hosts, NEW n \in DOMAIN failed'[g]
         PROVE  OwnerOf[n] = g /\ failed'[g][n].to # g
    <3>1. CASE g # h
      <4>1. failed'[g] = failed[g]
        BY <2>5, <2>8, <3>1 DEF FailedT
      <4> QED BY <2>5, <4>1 DEF FailedT
    <3>2. CASE g = h
      <4>1. failed'[g] = G
        BY <2>5, <2>8, <3>2 DEF FailedT
      <4>2. CASE n \in DOMAIN failed[h]
        BY <2>5, <2>7, <3>2, <4>1, <4>2 DEF FailedT
      <4>3. CASE n \notin DOMAIN failed[h]
        BY <2>4, <2>7, <3>2, <4>1, <4>3
      <4> QED BY <4>2, <4>3
    <3> QED BY <3>1, <3>2
  <2> QED BY <2>9, <2>10 DEF FailedT
<1> QED BY <1>2, <1>3, <1>4, <1>5

LEMMA SubscribersAreOthers ==
  ASSUME TypeInv, NEW n \in Names
  PROVE  OwnerOf[n] \in Hosts /\ Subscribers(OwnerOf[n], n) \subseteq Hosts \ {OwnerOf[n]}
<1> DEFINE h == OwnerOf[n]
<1>1. h \in Hosts
  BY TuplespaceAssumption
<1>2. subs[h] \subseteq Hosts \X Prototypes /\ \A x \in subs[h] : x[1] # h
  BY <1>1 DEF TypeInv, SubsT
<1> QED BY <1>1, <1>2 DEF Subscribers

LEMMA SubscribersPushable ==
  ASSUME TypeInv, NEW n \in Names, NEW S, n \in DOMAIN S
  PROVE  Pushable(OwnerOf[n], S, {n} \X Subscribers(OwnerOf[n], n))
BY SubscribersAreOthers DEF Pushable

\* The tuple a store makes, and what the owner's tuples are then.
Value(n, expired) == [seqno |-> 0, data |-> <<writes[n] + 1>>, expired |-> expired]
SpaceWith(n, expired) == addToLocalSpace(space[OwnerOf[n]], n, Value(n, expired))

LEMMA ValueType ==
  ASSUME TypeInv, NEW n \in Names, NEW expired \in BOOLEAN
  PROVE  /\ Value(n, expired) \in Tuples
         /\ SpaceWith(n, expired) \in Partial(Names, Tuples)
         /\ DOMAIN SpaceWith(n, expired) = DOMAIN space[OwnerOf[n]] \cup {n}
         /\ space[OwnerOf[n]] \in Partial(Names, Tuples)
         /\ OwnerOf[n] \in Hosts /\ writes[n] \in Nat
<1>1. OwnerOf[n] \in Hosts
  BY TuplespaceAssumption
<1>2. writes[n] \in Nat /\ space[OwnerOf[n]] \in Partial(Names, Tuples)
  BY <1>1 DEF TypeInv, WritesT, SpaceT
<1>3. Value(n, expired) \in Tuples
  <2>1. writes[n] + 1 \in Nat
    BY <1>2
  <2>2. <<writes[n] + 1>> \in Seq(Nat)
    BY <2>1
  <2> QED BY <2>2 DEF Value, Tuples
<1> QED BY <1>1, <1>2, <1>3, LocalSpaceType DEF SpaceWith

\* A store, in the terms of the lemmas.
LEMMA StoreSteps ==
  ASSUME TypeInv, NEW n \in Names, NEW expired \in BOOLEAN, NEW M, \A m \in M : WellFormed(m),
         Store(n, expired, M)
  PROVE  /\ writes' = [writes EXCEPT ![n] = @ + 1]
         /\ space' = [space EXCEPT ![OwnerOf[n]] = SpaceWith(n, expired)]
         /\ UNCHANGED <<own, subs, given, known, magic>>
         /\ OnlyPushes(OwnerOf[n], SpaceWith(n, expired), {n} \X Subscribers(OwnerOf[n], n), M)
         /\ NetT' /\ FailedT' /\ MishapsT'
         /\ mishaps.oneSided => mishaps'.oneSided
<1> DEFINE h == OwnerOf[n]
           S == SpaceWith(n, expired)
           P == {n} \X Subscribers(h, n)
<1>1. /\ writes' = [writes EXCEPT ![n] = @ + 1]
      /\ space' = [space EXCEPT ![h] = S]
      /\ PushTuples(h, S, P, M)
      /\ UNCHANGED <<own, subs, given, known, magic>>
  BY DEF Store, alertSubscribers, SpaceWith, Value
<1>2. S \in Partial(Names, Tuples) /\ n \in DOMAIN S /\ h \in Hosts
  BY ValueType
<1>3. Pushable(h, S, P)
  <2> HIDE DEF S
  <2> QED BY <1>2, SubscribersPushable
<1> HIDE DEF h, S, P
<1>4. /\ NetT' /\ FailedT' /\ MishapsT'
      /\ mishaps.oneSided => mishaps'.oneSided
      /\ OnlyPushes(h, S, P, M)
  BY <1>1, <1>2, <1>3, PushTuplesType
<1> QED BY <1>1, <1>4 DEF h, S, P

LEMMA StoreType ==
  ASSUME TypeInv, NEW n \in Names, NEW expired \in BOOLEAN, NEW M, \A m \in M : WellFormed(m),
         Store(n, expired, M)
  PROVE  TypeInv'
<1>1. /\ writes' = [writes EXCEPT ![n] = @ + 1]
      /\ space' = [space EXCEPT ![OwnerOf[n]] = SpaceWith(n, expired)]
      /\ UNCHANGED <<own, subs, given, known, magic>>
      /\ NetT' /\ FailedT' /\ MishapsT'
  BY StoreSteps
<1>2. SpaceWith(n, expired) \in Partial(Names, Tuples) /\ OwnerOf[n] \in Hosts
  BY ValueType
<1>3. WritesT'
  BY <1>1 DEF TypeInv, WritesT
<1>4. SpaceT'
  BY <1>1, <1>2 DEF TypeInv, SpaceT
<1>5. OwnT' /\ SubsT' /\ KnownT' /\ GivenT'
  BY <1>1 DEF TypeInv, OwnT, SubsT, KnownT, GivenT
<1> QED BY <1>1, <1>3, <1>4, <1>5 DEF TypeInv

LEMMA AppendSteps ==
  ASSUME TypeInv, NEW n \in Names, appendTuple(n)
  PROVE  /\ TypeInv'
         /\ mishaps.oneSided => mishaps'.oneSided
         /\ n \in DOMAIN space[OwnerOf[n]]
         /\ space' = [space EXCEPT ![OwnerOf[n]] = Appended(space[OwnerOf[n]], n, writes[n] + 1)]
         /\ UNCHANGED <<own, subs, given, known, magic>>
         /\ net \subseteq net'
         /\ \A m \in net' \ net :
              /\ m.kind = "append" /\ m.status = "owed"
              /\ m.body = [name |-> n, seqno |-> space[OwnerOf[n]][n].seqno, diff |-> writes[n] + 1]
<1> DEFINE h == OwnerOf[n]
           w == writes[n] + 1
           b == [name |-> n, seqno |-> space[h][n].seqno, diff |-> w]
<1>1. /\ n \in DOMAIN space[h]
      /\ writes' = [writes EXCEPT ![n] = @ + 1]
      /\ UNCHANGED <<own, subs, given, failed, known, magic>>
  BY DEF appendTuple
<1>2. h \in Hosts /\ writes[n] \in Nat /\ w \in Nat /\ space[h] \in Partial(Names, Tuples)
  <2>1. h \in Hosts
    BY TuplespaceAssumption
  <2> QED BY <2>1 DEF TypeInv, WritesT, SpaceT
<1>3. writes'[n] = w
  BY <1>1, <1>2 DEF TypeInv, WritesT
<1>4. PICK R \in SUBSET Subscribers(h, n) :
        /\ Happen("refuse", Refusals(h, {<<n, d>> : d \in R}))
        /\ net' = net \cup {Message("append", h, d, b) : d \in Subscribers(h, n) \ R}
  BY <1>3 DEF appendTuple
<1>5. space' = [space EXCEPT ![h] = Appended(space[h], n, w)]
  BY <1>3 DEF appendTuple
<1>6. Subscribers(h, n) \subseteq Hosts \ {h}
  BY SubscribersAreOthers
<1>7. b \in AppendBodies /\ b.name = n
  <2>1. space[h][n] \in Tuples
    BY <1>1, <1>2, PartialIs
  <2>2. space[h][n].seqno \in Nat
    BY <2>1 DEF Tuples
  <2> QED BY <1>2, <2>2 DEF AppendBodies
<1> HIDE DEF b, w
<1>8. \A m \in net' \ net : m.kind = "append" /\ m.status = "owed" /\ m.body = b /\ WellFormed(m)
  <2> SUFFICES ASSUME NEW m \in net' \ net
               PROVE  m.kind = "append" /\ m.status = "owed" /\ m.body = b /\ WellFormed(m)
    OBVIOUS
  <2>1. \E d \in Hosts \ {h} : m = Message("append", h, d, b)
    BY <1>4, <1>6
  <2>2. PICK d \in Hosts \ {h} : m = Message("append", h, d, b)
    BY <2>1
  <2>3. "append" \in Kinds /\ b \in Bodies
    BY <1>7 DEF Kinds, Bodies
  <2>4. /\ m.kind = "append" /\ m.from = h /\ m.to = d /\ m.body = b /\ m.status = "owed"
        /\ m \in MessageType
    BY <1>2, <2>2, <2>3, MessageFields
  <2>5. m.from # m.to /\ OwnerOf[m.body.name] = m.from
    BY <1>7, <2>2, <2>4
  <2> QED BY <1>7, <2>4, <2>5 DEF WellFormed
<1>9. NetT' /\ net \subseteq net'
  <2>1. net \subseteq net'
    BY <1>4
  <2>2. \A m \in net : WellFormed(m)
    BY DEF TypeInv, NetT
  <2>3. \A m \in net' : WellFormed(m)
    BY <1>8, <2>2
  <2> QED BY <2>1, <2>3 DEF NetT
<1>10. MishapsT' /\ (mishaps.oneSided => mishaps'.oneSided)
  <2> DEFINE X == {<<n, d>> : d \in R}
  <2>1. X \in SUBSET (Names \X Hosts)
    BY <1>6
  <2> HIDE DEF X
  <2>2. Refusals(h, X) \in Nat
    BY <2>1, RefusalsCount, TuplespaceAssumption
  <2>3. Happen("refuse", Refusals(h, X)) /\ MishapsT
    BY <1>4 DEF X, TypeInv
  <2> QED BY <2>2, <2>3, HappenCounts
<1>11. SpaceT'
  <2>1. Appended(space[h], n, w) \in Partial(Names, Tuples)
    BY <1>1, <1>2, AppendedType DEF w
  <2> QED BY <1>2, <1>5, <2>1 DEF TypeInv, SpaceT
<1>12. WritesT'
  BY <1>1 DEF TypeInv, WritesT
<1>13. OwnT' /\ SubsT' /\ KnownT' /\ GivenT' /\ FailedT'
  BY <1>1 DEF TypeInv, OwnT, SubsT, KnownT, GivenT, FailedT
<1>14. TypeInv'
  BY <1>9, <1>10, <1>11, <1>12, <1>13 DEF TypeInv
<1> QED BY <1>1, <1>5, <1>8, <1>9, <1>10, <1>14 DEF b, w

LEMMA SetRemoteType ==
  ASSUME TypeInv, NEW h \in Hosts, NEW n \in Names, setRemoteTuple(h, n)
  PROVE  /\ TypeInv'
         /\ net \subseteq net' /\ \A m \in net' \ net : m.kind = "set"
<1> DEFINE m == Message("set", h, OwnerOf[n], n)
<1>1. h # OwnerOf[n] /\ net' = net \cup {m} /\ UNCHANGED <<writes, hostVars, mishaps>>
  BY DEF setRemoteTuple
<1>2. WellFormed(m) /\ m.kind = "set"
  <2>1. OwnerOf[n] \in Hosts /\ n \in Bodies
    BY TuplespaceAssumption DEF Bodies
  <2> QED BY <1>1, <2>1, NoticeWellFormed
<1> HIDE DEF m
<1>3. NetT'
  BY <1>1, <1>2 DEF TypeInv, NetT
<1>4. WritesT' /\ SpaceT' /\ OwnT' /\ SubsT' /\ KnownT' /\ GivenT' /\ FailedT' /\ MishapsT'
  BY <1>1 DEF TypeInv, hostVars, WritesT, SpaceT, OwnT, SubsT, KnownT, GivenT, FailedT, MishapsT
<1> QED BY <1>1, <1>2, <1>3, <1>4 DEF TypeInv

----------------------------------------------------------------------------
(* Subscriptions and periodic functions *)

LEMMA TargetsAreOthers ==
  ASSUME TypeInv, NEW h \in Hosts, NEW p \in Prototypes
  PROVE  Targets(h, p) \subseteq Hosts \ {h}
<1>1. DOMAIN known[h] \subseteq Hosts \ {h}
  BY PartialIs DEF TypeInv, KnownT
<1>2. TargetOf[p] # AnyHost => TargetOf[p] \in Hosts
  BY TuplespaceAssumption
<1> QED BY <1>1, <1>2 DEF Targets

LEMMA SubscribeSteps ==
  ASSUME TypeInv, NEW h \in Hosts, NEW p \in Prototypes, subscribe(h, p)
  PROVE  /\ TypeInv'
         /\ mishaps.oneSided => mishaps'.oneSided
         /\ own' = [own EXCEPT ![h] = @ \cup {p}]
         /\ UNCHANGED <<writes, space, subs, failed, known, magic>>
         /\ net \subseteq net' /\ \A m \in net' \ net : m.kind = "subscribe"
         /\ \E R \in SUBSET Targets(h, p) :
              /\ given' = [given EXCEPT ![h] = @ \ R]
              /\ \A d \in Targets(h, p) \ R : Subscription(h, p, d) \in net'
<1>1. /\ own' = [own EXCEPT ![h] = @ \cup {p}]
      /\ UNCHANGED <<writes, space, subs, failed, known, magic>>
  BY DEF subscribe
<1>2. PICK R \in SUBSET Targets(h, p) :
        /\ Happen("refuse", Refusals(h, {<<p, d>> : d \in R}))
        /\ net' = net \cup {Subscription(h, p, d) : d \in Targets(h, p) \ R}
        /\ given' = [given EXCEPT ![h] = @ \ R]
  BY DEF subscribe
<1>3. \A d \in Targets(h, p) : WellFormed(Subscription(h, p, d)) /\ Subscription(h, p, d).kind = "subscribe"
  BY TargetsAreOthers, SubscriptionWellFormed
<1>4. net \subseteq net' /\ \A m \in net' \ net : m.kind = "subscribe" /\ WellFormed(m)
  BY <1>2, <1>3
<1>5. NetT'
  BY <1>4 DEF TypeInv, NetT
<1>6. MishapsT' /\ (mishaps.oneSided => mishaps'.oneSided)
  <2> DEFINE X == {<<p, d>> : d \in R}
  <2>1. X \in SUBSET (Prototypes \X Hosts)
    BY TargetsAreOthers
  <2> HIDE DEF X
  <2>2. Refusals(h, X) \in Nat
    BY <2>1, RefusalsCount, TuplespaceAssumption
  <2>3. Happen("refuse", Refusals(h, X)) /\ MishapsT
    BY <1>2 DEF X, TypeInv
  <2> QED BY <2>2, <2>3, HappenCounts
<1>7. OwnT'
  BY <1>1 DEF TypeInv, OwnT
<1>8. GivenT'
  BY <1>1, <1>2 DEF TypeInv, GivenT
<1>9. WritesT' /\ SpaceT' /\ SubsT' /\ KnownT' /\ FailedT'
  BY <1>1 DEF TypeInv, WritesT, SpaceT, SubsT, KnownT, FailedT
<1>10. TypeInv'
  BY <1>5, <1>6, <1>7, <1>8, <1>9 DEF TypeInv
<1>11. \E Q \in SUBSET Targets(h, p) :
         /\ given' = [given EXCEPT ![h] = @ \ Q]
         /\ \A d \in Targets(h, p) \ Q : Subscription(h, p, d) \in net'
  BY <1>2
<1> QED BY <1>1, <1>4, <1>6, <1>10, <1>11

LEMMA UnsubscribeSteps ==
  ASSUME TypeInv, NEW h \in Hosts, NEW p \in Prototypes, unsubscribe(h, p)
  PROVE  /\ TypeInv'
         /\ own' = [own EXCEPT ![h] = @ \ {p}]
         /\ UNCHANGED <<writes, space, subs, given, failed, known, magic, mishaps>>
         /\ net \subseteq net' /\ \A m \in net' \ net : m.kind = "unsubscribe"
<1>1. /\ own' = [own EXCEPT ![h] = @ \ {p}]
      /\ net' = net \cup {Message("unsubscribe", h, d, p) : d \in Targets(h, p)}
      /\ UNCHANGED <<writes, space, subs, given, failed, known, magic, mishaps>>
  BY DEF unsubscribe
<1>2. \A d \in Targets(h, p) : LET m == Message("unsubscribe", h, d, p) IN
                               WellFormed(m) /\ m.kind = "unsubscribe"
  <2>1. p \in Bodies
    BY DEF Bodies
  <2> QED BY <2>1, TargetsAreOthers, NoticeWellFormed
<1>3. net \subseteq net' /\ \A m \in net' \ net : m.kind = "unsubscribe" /\ WellFormed(m)
  BY <1>1, <1>2
<1>4. NetT'
  BY <1>3 DEF TypeInv, NetT
<1>5. OwnT'
  BY <1>1 DEF TypeInv, OwnT
<1>6. WritesT' /\ SpaceT' /\ SubsT' /\ KnownT' /\ GivenT' /\ FailedT' /\ MishapsT'
  BY <1>1 DEF TypeInv, WritesT, SpaceT, SubsT, KnownT, GivenT, FailedT, MishapsT
<1> QED BY <1>1, <1>3, <1>4, <1>5, <1>6 DEF TypeInv

\* What periodic_tuples sends again, and the subscriptions it sends.
Due(h, retransmit) ==
  IF retransmit THEN {n \in DOMAIN failed[h] : failed[h][n].to \in DOMAIN known[h] /\ Found(h, n)}
  ELSE {}
NewHosts(h) == DOMAIN known[h] \ given[h]
News(h) == {x \in own[h] \X NewHosts(h) : TargetOf[x[1]] \in {AnyHost, x[2]}}

LEMMA PeriodicSteps ==
  ASSUME TypeInv, NEW h \in Hosts, NEW retransmit \in BOOLEAN, periodic_tuples(h, retransmit)
  PROVE  /\ TypeInv'
         /\ mishaps.oneSided => mishaps'.oneSided
         /\ UNCHANGED <<writes, space, own, subs, known, magic>>
         /\ net \subseteq net'
         /\ \A m \in net' \ net : \/ m.kind = "subscribe"
                                  \/ /\ m.kind = "push" /\ m.from = h /\ Found(h, m.body.name)
                                     /\ m.body.tuple = space[h][m.body.name]
         /\ \E Q \in SUBSET News(h) :
              /\ given' = [given EXCEPT ![h] = (@ \cup NewHosts(h)) \ {x[2] : x \in Q}]
              /\ \A x \in News(h) \ Q : Subscription(h, x[1], x[2]) \in net'
<1> DEFINE F == failed[h]
           due == Due(h, retransmit)
<1>1. PICK R \in SUBSET due, Q \in SUBSET News(h) :
        /\ Happen("refuse", Cardinality(R) + Cardinality(Q))
        /\ net' = net \cup {Push(h, n, F[n].to, space[h][n]) : n \in due \ R}
                      \cup {Subscription(h, x[1], x[2]) : x \in News(h) \ Q}
        /\ failed' = IF ~ retransmit THEN failed
                     ELSE [failed EXCEPT ![h] =
                             [n \in {n \in DOMAIN F : n \notin due \ R /\ F[n].tries > 1} |->
                                [F[n] EXCEPT !.tries = @ - 1]]]
        /\ given' = [given EXCEPT ![h] = (@ \cup NewHosts(h)) \ {x[2] : x \in Q}]
        /\ UNCHANGED <<writes, space, own, subs, known, magic>>
  BY DEF periodic_tuples, Due, News, NewHosts
<1>2. /\ F \in Partial(Names, Failures)
      /\ \A n \in DOMAIN F : OwnerOf[n] = h /\ F[n].to # h
      /\ space[h] \in Partial(Names, Tuples)
      /\ known[h] \in Partial(Hosts, Nat) /\ h \notin DOMAIN known[h]
      /\ own[h] \subseteq Prototypes
  BY DEF TypeInv, FailedT, SpaceT, KnownT, OwnT
<1>3. DOMAIN F \subseteq Names /\ \A n \in DOMAIN F : F[n] \in Failures
  BY <1>2, PartialIs
<1>4. DOMAIN known[h] \subseteq Hosts /\ \A n \in DOMAIN space[h] : space[h][n] \in Tuples
  BY <1>2, PartialIs
<1>5. ASSUME NEW n \in due
      PROVE  LET m == Push(h, n, F[n].to, space[h][n]) IN
             /\ WellFormed(m)
             /\ m.kind = "push" /\ m.from = h /\ m.body.name = n
             /\ m.body.tuple = space[h][n] /\ Found(h, n)
  <2>1. n \in DOMAIN F /\ Found(h, n) /\ n \in DOMAIN space[h]
    BY DEF Due, Found
  <2>2. F[n].to \in Hosts /\ n \in Names /\ OwnerOf[n] = h /\ h # F[n].to /\ space[h][n] \in Tuples
    BY <1>2, <1>3, <1>4, <2>1 DEF Failures
  <2> QED BY <2>1, <2>2, PushWellFormed
<1>6. ASSUME NEW x \in News(h)
      PROVE  LET m == Subscription(h, x[1], x[2]) IN WellFormed(m) /\ m.kind = "subscribe"
  <2>1. x[1] \in Prototypes /\ x[2] \in Hosts /\ h # x[2]
    BY <1>2, <1>4 DEF News, NewHosts
  <2> QED BY <2>1, SubscriptionWellFormed
<1>7. News(h) \in SUBSET (Prototypes \X Hosts)
  BY <1>2, <1>4 DEF News, NewHosts
<1>8. due \in SUBSET Names
  BY <1>3 DEF Due
<1> HIDE DEF due
<1>9. /\ net \subseteq net'
      /\ \A m \in net' \ net :
           /\ WellFormed(m)
           /\ \/ m.kind = "subscribe"
              \/ /\ m.kind = "push" /\ m.from = h /\ Found(h, m.body.name)
                 /\ m.body.tuple = space[h][m.body.name]
  <2>1. net \subseteq net'
    BY <1>1
  <2>2. ASSUME NEW m \in net' \ net
        PROVE  \/ \E n \in due : m = Push(h, n, F[n].to, space[h][n])
               \/ \E x \in News(h) : m = Subscription(h, x[1], x[2])
    BY <1>1
  <2> QED BY <1>5, <1>6, <2>1, <2>2
<1>10. NetT'
  BY <1>9 DEF TypeInv, NetT
<1>11. MishapsT' /\ (mishaps.oneSided => mishaps'.oneSided)
  <2>1. IsFiniteSet(R) /\ IsFiniteSet(Q)
    <3>1. R \in SUBSET Names /\ Q \in SUBSET (Prototypes \X Hosts)
      BY <1>7, <1>8
    <3>2. IsFiniteSet(R)
      BY <3>1, FS_Subset, TuplespaceAssumption
    <3> QED BY <3>1, <3>2, RefusalsCount, TuplespaceAssumption
  <2>2. Cardinality(R) \in Nat /\ Cardinality(Q) \in Nat
    BY <2>1, FS_CardinalityType
  <2>3. Cardinality(R) + Cardinality(Q) \in Nat /\ MishapsT
    BY <2>2 DEF TypeInv
  <2> QED BY <1>1, <2>3, HappenCounts
<1>12. GivenT'
  <2>1. \A g \in Hosts : given'[g] \subseteq DOMAIN known[g]
    BY <1>1 DEF NewHosts, TypeInv, GivenT
  <2>2. (given[h] \cup NewHosts(h)) \ {x[2] : x \in Q} \in SUBSET Hosts
    BY <1>4 DEF NewHosts, TypeInv, GivenT
  <2>3. given' \in [Hosts -> SUBSET Hosts]
    BY <1>1, <2>2 DEF TypeInv, GivenT
  <2> QED BY <1>1, <2>1, <2>3 DEF GivenT
<1>13. FailedT'
  <2> DEFINE D == {n \in DOMAIN F : n \notin due \ R /\ F[n].tries > 1}
             G == [n \in D |-> [F[n] EXCEPT !.tries = @ - 1]]
  <2>1. CASE ~ retransmit
    <3>1. failed' = failed
      BY <1>1, <2>1
    <3> QED BY <3>1 DEF TypeInv, FailedT
  <2>2. CASE retransmit
    <3>1. failed' = [failed EXCEPT ![h] = G]
      BY <1>1, <2>2
    <3>2. D \in SUBSET Names
      BY <1>3
    <3>3. ASSUME NEW n \in D
          PROVE  /\ [F[n] EXCEPT !.tries = @ - 1] \in Failures
                 /\ [F[n] EXCEPT !.tries = @ - 1].to = F[n].to
      <4>1. F[n] \in Failures /\ F[n].tries > 1
        BY <1>3
      <4>2. F[n].tries \in 1 .. TRIES /\ TRIES \in Nat
        BY <4>1, TuplespaceAssumption DEF Failures
      <4>3. F[n].tries - 1 \in 1 .. TRIES
        BY <4>1, <4>2
      <4> QED BY <4>1, <4>3 DEF Failures
    <3>4. D \subseteq DOMAIN F
      OBVIOUS
    <3> HIDE DEF D
    <3>5. G \in [D -> Failures] /\ \A n \in D : G[n].to = F[n].to
      BY <3>3
    <3> HIDE DEF G
    <3>6. G \in Partial(Names, Failures) /\ DOMAIN G = D
      BY <3>2, <3>5, IsPartial
    <3>7. failed' \in [Hosts -> Partial(Names, Failures)]
      BY <3>1, <3>6 DEF TypeInv, FailedT
    <3>8. \A n \in DOMAIN G : OwnerOf[n] = h /\ G[n].to # h
      BY <1>2, <3>4, <3>5, <3>6
    <3>9. \A g \in Hosts : \A n \in DOMAIN failed'[g] : OwnerOf[n] = g /\ failed'[g][n].to # g
      <4> SUFFICES ASSUME NEW g \in Hosts, NEW n \in DOMAIN failed'[g]
                   PROVE  OwnerOf[n] = g /\ failed'[g][n].to # g
        OBVIOUS
      <4>1. CASE g = h
        <5>1. failed'[g] = G
          BY <3>1, <4>1 DEF TypeInv, FailedT
        <5> QED BY <3>8, <4>1, <5>1
      <4>2. CASE g # h
        <5>1. failed'[g] = failed[g]
          BY <3>1, <4>2 DEF TypeInv, FailedT
        <5> QED BY <5>1 DEF TypeInv, FailedT
      <4> QED BY <4>1, <4>2
    <3> QED BY <3>7, <3>9 DEF FailedT
  <2> QED BY <2>1, <2>2
<1>14. WritesT' /\ SpaceT' /\ OwnT' /\ SubsT' /\ KnownT'
  BY <1>1 DEF TypeInv, WritesT, SpaceT, OwnT, SubsT, KnownT
<1>15. TypeInv'
  BY <1>10, <1>11, <1>12, <1>13, <1>14 DEF TypeInv
<1>16. \E Y \in SUBSET News(h) :
         /\ given' = [given EXCEPT ![h] = (@ \cup NewHosts(h)) \ {x[2] : x \in Y}]
         /\ \A x \in News(h) \ Y : Subscription(h, x[1], x[2]) \in net'
  BY <1>1
<1> QED BY <1>1, <1>9, <1>11, <1>15, <1>16

LEMMA ExpireSteps ==
  ASSUME TypeInv, NEW h \in Hosts, periodic_expireTuples(h)
  PROVE  /\ TypeInv'
         /\ UNCHANGED <<writes, own, subs, given, failed, known, magic, net, mishaps>>
         /\ DOMAIN space' = Hosts
         /\ \A g \in Hosts \ {h} : space'[g] = space[g]
         /\ DOMAIN space'[h] = {n \in DOMAIN space[h] : ~ space[h][n].expired}
         /\ \A n \in DOMAIN space'[h] : space'[h][n] = space[h][n]
<1> DEFINE D == {n \in DOMAIN space[h] : space[h][n].expired}
           S == Without(space[h], D)
<1>1. /\ space' = [space EXCEPT ![h] = S]
      /\ UNCHANGED <<writes, own, subs, given, failed, known, magic, net, mishaps>>
  BY DEF periodic_expireTuples
<1>2. space \in [Hosts -> Partial(Names, Tuples)] /\ space[h] \in Partial(Names, Tuples)
  BY DEF TypeInv, SpaceT
<1>3. /\ S \in Partial(Names, Tuples)
      /\ DOMAIN S = DOMAIN space[h] \ D
      /\ \A n \in DOMAIN space[h] \ D : S[n] = space[h][n]
  <2>1. \A X : /\ Without(space[h], X) \in Partial(Names, Tuples)
               /\ DOMAIN Without(space[h], X) = DOMAIN space[h] \ X
               /\ \A n \in DOMAIN space[h] \ X : Without(space[h], X)[n] = space[h][n]
    BY <1>2, WithoutPartial
  <2> HIDE DEF D
  <2> QED BY <2>1
<1>4. DOMAIN space[h] \ D = {n \in DOMAIN space[h] : ~ space[h][n].expired}
  OBVIOUS
<1> HIDE DEF D, S
<1>5. SpaceT'
  BY <1>1, <1>2, <1>3 DEF SpaceT
<1>6. WritesT' /\ OwnT' /\ SubsT' /\ KnownT' /\ GivenT' /\ FailedT' /\ MishapsT' /\ NetT'
  BY <1>1 DEF TypeInv, WritesT, OwnT, SubsT, KnownT, GivenT, FailedT, MishapsT, NetT
<1>7. DOMAIN space' = Hosts /\ space'[h] = S /\ \A g \in Hosts \ {h} : space'[g] = space[g]
  BY <1>1, <1>2
<1> QED BY <1>1, <1>3, <1>4, <1>5, <1>6, <1>7 DEF TypeInv

----------------------------------------------------------------------------
(* Messages that arrive *)

LEMMA PushArrives ==
  ASSUME TypeInv, NEW m, WellFormed(m), NEW M, \A k \in M : WellFormed(k), hook_pushTuple(m, M),
         UNCHANGED mishaps
  PROVE  /\ TypeInv'
         /\ net' = M
         /\ UNCHANGED <<writes, own, subs, given, failed, known, magic>>
         /\ m.kind = "push" /\ m.to \in Hosts /\ m.body.name \in Names /\ m.body.tuple \in Tuples
         /\ OwnerOf[m.body.name] = m.from
         /\ space' = IF Takes(m.to, m.body.name, m.body.tuple)
                     THEN [space EXCEPT ![m.to] =
                             addToLocalSpace(space[m.to], m.body.name, m.body.tuple)]
                     ELSE space
<1> DEFINE n == m.body.name
           t == m.body.tuple
<1>1. /\ m.kind = "push" /\ net' = M
      /\ UNCHANGED <<writes, own, subs, given, failed, known, magic>>
      /\ space' = IF Takes(m.to, n, t)
                  THEN [space EXCEPT ![m.to] = addToLocalSpace(space[m.to], n, t)] ELSE space
  BY DEF hook_pushTuple
<1>2. m.to \in Hosts /\ m.body \in PushBodies /\ OwnerOf[n] = m.from
  BY <1>1 DEF WellFormed, MessageType
<1>3. n \in Names /\ t \in Tuples
  BY <1>2 DEF PushBodies
<1>4. space[m.to] \in Partial(Names, Tuples)
  BY <1>2 DEF TypeInv, SpaceT
<1>5. addToLocalSpace(space[m.to], n, t) \in Partial(Names, Tuples)
  BY <1>3, <1>4, LocalSpaceType
<1>6. SpaceT'
  BY <1>1, <1>2, <1>5 DEF TypeInv, SpaceT
<1>7. WritesT' /\ OwnT' /\ SubsT' /\ KnownT' /\ GivenT' /\ FailedT' /\ MishapsT' /\ NetT'
  BY <1>1 DEF TypeInv, WritesT, OwnT, SubsT, KnownT, GivenT, FailedT, MishapsT, NetT
<1> QED BY <1>1, <1>2, <1>3, <1>6, <1>7 DEF TypeInv

LEMMA AppendArrives ==
  ASSUME TypeInv, NEW m, WellFormed(m), NEW M, \A k \in M : WellFormed(k),
         hook_pushAppendedTuple(m, M), UNCHANGED mishaps
  PROVE  /\ TypeInv'
         /\ net' = M
         /\ UNCHANGED <<writes, own, subs, given, failed, known, magic>>
         /\ m.kind = "append" /\ m.to \in Hosts /\ m.body \in AppendBodies
         /\ OwnerOf[m.body.name] = m.from /\ m.from # m.to
         /\ space' = IF Belongs(m.to, m.body.name, m.body.seqno)
                     THEN [space EXCEPT ![m.to] = Appended(space[m.to], m.body.name, m.body.diff)]
                     ELSE space
<1> DEFINE n == m.body.name
<1>1. /\ m.kind = "append" /\ net' = M
      /\ UNCHANGED <<writes, own, subs, given, failed, known, magic>>
      /\ space' = IF Belongs(m.to, n, m.body.seqno)
                  THEN [space EXCEPT ![m.to] = Appended(space[m.to], n, m.body.diff)] ELSE space
  BY DEF hook_pushAppendedTuple
<1>2. m.to \in Hosts /\ m.body \in AppendBodies /\ OwnerOf[n] = m.from /\ m.from # m.to
  BY <1>1 DEF WellFormed, MessageType
<1>3. n \in Names /\ m.body.diff \in Nat
  BY <1>2 DEF AppendBodies
<1>4. space[m.to] \in Partial(Names, Tuples)
  BY <1>2 DEF TypeInv, SpaceT
<1>5. SpaceT'
  <2>1. CASE Belongs(m.to, n, m.body.seqno)
    <3>1. n \in DOMAIN space[m.to]
      BY <2>1 DEF Belongs
    <3>2. Appended(space[m.to], n, m.body.diff) \in Partial(Names, Tuples)
      BY <1>3, <1>4, <3>1, AppendedType
    <3> QED BY <1>1, <1>2, <2>1, <3>2 DEF TypeInv, SpaceT
  <2>2. CASE ~ Belongs(m.to, n, m.body.seqno)
    BY <1>1, <2>2 DEF TypeInv, SpaceT
  <2> QED BY <2>1, <2>2
<1>6. WritesT' /\ OwnT' /\ SubsT' /\ KnownT' /\ GivenT' /\ FailedT' /\ MishapsT' /\ NetT'
  BY <1>1 DEF TypeInv, WritesT, OwnT, SubsT, KnownT, GivenT, FailedT, MishapsT, NetT
<1> QED BY <1>1, <1>2, <1>5, <1>6 DEF TypeInv

\* The tuples a subscriber is sent.
Covered(h, p, d) == {<<n, d>> : n \in {n \in DOMAIN space[h] \cap Covers[p] : OwnerOf[n] = h}}

LEMMA SubscriptionArrives ==
  ASSUME TypeInv, NEW m, WellFormed(m), NEW M, \A k \in M : WellFormed(k), hook_subscribe(m, M)
  PROVE  /\ TypeInv'
         /\ mishaps.oneSided => mishaps'.oneSided
         /\ UNCHANGED <<writes, space, own, given, known, magic>>
         /\ m.kind = "subscribe" /\ m.to \in Hosts /\ m.from \in Hosts /\ m.body \in Prototypes
         /\ subs' = [subs EXCEPT ![m.to] = @ \cup {<<m.from, m.body>>}]
         /\ Pushable(m.to, space[m.to], Covered(m.to, m.body, m.from))
         /\ OnlyPushes(m.to, space[m.to], Covered(m.to, m.body, m.from), M)
<1> DEFINE h == m.to
           P == Covered(m.to, m.body, m.from)
<1>1. /\ m.kind = "subscribe"
      /\ subs' = [subs EXCEPT ![h] = @ \cup {<<m.from, m.body>>}]
      /\ PushTuples(h, space[h], P, M)
      /\ UNCHANGED <<writes, space, own, given, known, magic>>
  BY DEF hook_subscribe, alertSubscriber, Covered
<1>2. h \in Hosts /\ m.from \in Hosts /\ m.body \in Prototypes /\ m.from # h
  BY <1>1 DEF WellFormed, MessageType
<1>3. space[h] \in Partial(Names, Tuples)
  BY <1>2 DEF TypeInv, SpaceT
<1>4. Pushable(h, space[h], P)
  <2>1. DOMAIN space[h] \subseteq Names
    BY <1>3, PartialIs
  <2>2. P \subseteq Names \X Hosts
    BY <1>2, <2>1 DEF Covered
  <2>3. \A x \in P : x[1] \in DOMAIN space[h] /\ OwnerOf[x[1]] = h /\ x[2] # h
    BY <1>2 DEF Covered
  <2> QED BY <2>2, <2>3 DEF Pushable
<1> HIDE DEF h, P
<1>5. /\ NetT' /\ FailedT' /\ MishapsT'
      /\ mishaps.oneSided => mishaps'.oneSided
      /\ OnlyPushes(h, space[h], P, M)
  BY <1>1, <1>2, <1>3, <1>4, PushTuplesType
<1>6. SubsT'
  <2>1. subs \in [Hosts -> SUBSET (Hosts \X Prototypes)] /\ \A g \in Hosts : \A x \in subs[g] : x[1] # g
    BY DEF TypeInv, SubsT
  <2>2. subs[h] \cup {<<m.from, m.body>>} \in SUBSET (Hosts \X Prototypes)
    BY <1>2, <2>1
  <2>3. subs' \in [Hosts -> SUBSET (Hosts \X Prototypes)]
    BY <1>1, <2>1, <2>2
  <2>4. \A g \in Hosts : \A x \in subs'[g] : x[1] # g
    BY <1>1, <1>2, <2>1
  <2> QED BY <2>3, <2>4 DEF SubsT
<1>7. WritesT' /\ SpaceT' /\ OwnT' /\ KnownT' /\ GivenT'
  BY <1>1 DEF TypeInv, WritesT, SpaceT, OwnT, KnownT, GivenT
<1>8. TypeInv'
  BY <1>5, <1>6, <1>7 DEF TypeInv
<1> QED BY <1>1, <1>2, <1>4, <1>5, <1>8 DEF h, P

LEMMA UnsubscribeArrives ==
  ASSUME TypeInv, NEW m, WellFormed(m), NEW M, \A k \in M : WellFormed(k), hook_unsubscribe(m, M),
         UNCHANGED mishaps
  PROVE  /\ TypeInv'
         /\ net' = M
         /\ UNCHANGED <<writes, space, own, given, failed, known, magic>>
         /\ m.kind = "unsubscribe"
         /\ Typed = {} => subs' = subs
<1>1. PICK x \in SUBSET ({m.body} \cap Typed) : subs' = [subs EXCEPT ![m.to] = @ \ ({m.from} \X x)]
  BY DEF hook_unsubscribe
<1>2. m.kind = "unsubscribe" /\ net' = M /\ UNCHANGED <<writes, space, own, given, failed, known, magic>>
  BY DEF hook_unsubscribe
<1>3. m.to \in Hosts
  BY DEF WellFormed, MessageType
<1>4. SubsT'
  BY <1>1, <1>3 DEF TypeInv, SubsT
<1>5. ASSUME Typed = {}
      PROVE  subs' = subs
  <2>1. {m.from} \X x = {}
    BY <1>5
  <2> QED BY <1>1, <2>1 DEF TypeInv, SubsT
<1>6. WritesT' /\ SpaceT' /\ OwnT' /\ KnownT' /\ GivenT' /\ FailedT' /\ MishapsT' /\ NetT'
  BY <1>2 DEF TypeInv, WritesT, SpaceT, OwnT, KnownT, GivenT, FailedT, MishapsT, NetT
<1> QED BY <1>2, <1>4, <1>5, <1>6 DEF TypeInv

LEMMA DeleteHostType ==
  ASSUME TypeInv, NEW h \in Hosts, NEW g \in Hosts, deleteHost(h, g)
  PROVE  /\ WritesT' /\ SpaceT' /\ OwnT' /\ SubsT' /\ FailedT'
         /\ given' \in [Hosts -> SUBSET Hosts]
         /\ given' = [given EXCEPT ![h] = @ \ {g}]
         /\ subs' = [subs EXCEPT ![h] = {x \in @ : x[1] # g}]
         /\ UNCHANGED <<writes, own, failed, magic>>
<1> DEFINE S == [n \in DOMAIN space[h] |-> IF OwnerOf[n] = g THEN [space[h][n] EXCEPT !.expired = TRUE]
                                           ELSE space[h][n]]
<1>1. /\ space' = [space EXCEPT ![h] = S]
      /\ subs' = [subs EXCEPT ![h] = {x \in @ : x[1] # g}]
      /\ given' = [given EXCEPT ![h] = @ \ {g}]
      /\ UNCHANGED <<writes, own, failed, magic>>
  BY DEF deleteHost, deleteHostFromTuplespace, deleteHostFromSentSubscriptions
<1>2. S \in Partial(Names, Tuples)
  BY ExpiredType DEF TypeInv, SpaceT
<1> HIDE DEF S
<1>3. SpaceT'
  BY <1>1, <1>2 DEF TypeInv, SpaceT
<1>4. SubsT'
  BY <1>1 DEF TypeInv, SubsT
<1>5. given' \in [Hosts -> SUBSET Hosts]
  BY <1>1 DEF TypeInv, GivenT
<1>6. WritesT' /\ OwnT' /\ FailedT'
  BY <1>1 DEF TypeInv, WritesT, OwnT, FailedT
<1> QED BY <1>1, <1>3, <1>4, <1>5, <1>6

\* A host that is forgotten is no longer marked.
LEMMA ForgetType ==
  ASSUME TypeInv, NEW h \in Hosts, NEW g \in Hosts, deleteHost(h, g),
         known' = [known EXCEPT ![h] = Without(@, {g})]
  PROVE  /\ WritesT' /\ SpaceT' /\ OwnT' /\ SubsT' /\ FailedT' /\ KnownT' /\ GivenT'
         /\ \A x \in Hosts : /\ DOMAIN known'[x] \subseteq DOMAIN known[x]
                             /\ \A y \in DOMAIN known'[x] : known'[x][y] = known[x][y]
<1>1. /\ WritesT' /\ SpaceT' /\ OwnT' /\ SubsT' /\ FailedT'
      /\ given' \in [Hosts -> SUBSET Hosts]
      /\ given' = [given EXCEPT ![h] = @ \ {g}]
      /\ UNCHANGED magic
  BY DeleteHostType
<1>2. known \in [Hosts -> Partial(Hosts, Nat)] /\ known[h] \in Partial(Hosts, Nat)
  BY DEF TypeInv, KnownT
<1> DEFINE K == Without(known[h], {g})
<1>3. /\ K \in Partial(Hosts, Nat)
      /\ DOMAIN K = DOMAIN known[h] \ {g}
      /\ \A x \in DOMAIN known[h] \ {g} : K[x] = known[h][x]
  BY <1>2, WithoutPartial
<1>4. known' = [known EXCEPT ![h] = K]
  OBVIOUS
<1> HIDE DEF K
<1>5. known'[h] = K /\ \A x \in Hosts : x # h => known'[x] = known[x]
  BY <1>2, <1>4
<1>6. KnownT'
  <2>1. known' \in [Hosts -> Partial(Hosts, Nat)]
    BY <1>2, <1>3, <1>4
  <2>2. \A x \in Hosts : x \notin DOMAIN known'[x]
    BY <1>3, <1>5 DEF TypeInv, KnownT
  <2> QED BY <1>1, <2>1, <2>2 DEF TypeInv, KnownT
<1>7. GivenT'
  <2>1. \A x \in Hosts : given'[x] \subseteq DOMAIN known'[x]
    BY <1>1, <1>3, <1>5 DEF TypeInv, GivenT
  <2> QED BY <1>1, <2>1 DEF GivenT
<1>8. \A x \in Hosts : /\ DOMAIN known'[x] \subseteq DOMAIN known[x]
                       /\ \A y \in DOMAIN known'[x] : known'[x][y] = known[x][y]
  BY <1>3, <1>5
<1> QED BY <1>1, <1>6, <1>7, <1>8

LEMMA DeadArrives ==
  ASSUME TypeInv, NEW m, WellFormed(m), NEW M, \A k \in M : WellFormed(k), hook_deadHost(m, M),
         UNCHANGED mishaps
  PROVE  /\ TypeInv'
         /\ net' = M
         /\ m.kind = "dead"
         /\ UNCHANGED magic
         /\ \A x \in Hosts : /\ DOMAIN known'[x] \subseteq DOMAIN known[x]
                             /\ \A y \in DOMAIN known'[x] : known'[x][y] = known[x][y]
<1>1. /\ m.kind = "dead" /\ net' = M /\ deleteHost(m.to, m.from)
      /\ known' = [known EXCEPT ![m.to] = Without(@, {m.from})]
  BY DEF hook_deadHost
<1>2. m.to \in Hosts /\ m.from \in Hosts
  BY DEF WellFormed, MessageType
<1>3. /\ WritesT' /\ SpaceT' /\ OwnT' /\ SubsT' /\ FailedT' /\ KnownT' /\ GivenT'
      /\ \A x \in Hosts : /\ DOMAIN known'[x] \subseteq DOMAIN known[x]
                          /\ \A y \in DOMAIN known'[x] : known'[x][y] = known[x][y]
  BY <1>1, <1>2, ForgetType
<1>4. MishapsT' /\ NetT'
  BY <1>1 DEF TypeInv, MishapsT, NetT
<1> QED BY <1>1, <1>3, <1>4 DEF TypeInv, deleteHost

LEMMA RebornArrives ==
  ASSUME TypeInv, NEW m, WellFormed(m), NEW M, \A k \in M : WellFormed(k), hook_rebornHost(m, M),
         UNCHANGED mishaps
  PROVE  /\ TypeInv'
         /\ net' = M
         /\ m.kind = "reborn" /\ m.to \in Hosts
         /\ UNCHANGED <<writes, space, own, subs, failed, known, magic>>
         /\ BigEndian => given' = [given EXCEPT ![m.to] = @ \ {m.from}]
<1>1. /\ m.kind = "reborn" /\ net' = M
      /\ UNCHANGED <<writes, space, own, subs, failed, known, magic>>
      /\ given' = IF BigEndian THEN [given EXCEPT ![m.to] = @ \ {m.from}] ELSE given
  BY DEF hook_rebornHost
<1>2. m.to \in Hosts
  BY DEF WellFormed, MessageType
<1>3. GivenT'
  BY <1>1, <1>2 DEF TypeInv, GivenT
<1>4. WritesT' /\ SpaceT' /\ OwnT' /\ SubsT' /\ KnownT' /\ FailedT' /\ MishapsT' /\ NetT'
  BY <1>1 DEF TypeInv, WritesT, SpaceT, OwnT, SubsT, KnownT, FailedT, MishapsT, NetT
<1> QED BY <1>1, <1>2, <1>3, <1>4 DEF TypeInv

LEMMA SetArrives ==
  ASSUME TypeInv, NEW m, WellFormed(m), NEW M, \A k \in M : WellFormed(k), hook_setTuple(m, M)
  PROVE  TypeInv' /\ m.kind = "set" /\ m.body \in Names /\ Store(m.body, FALSE, M)
<1>1. m.kind = "set" /\ Store(m.body, FALSE, M) /\ FALSE \in BOOLEAN
  BY DEF hook_setTuple
<1>2. m.body \in Names
  BY <1>1 DEF WellFormed
<1> QED BY <1>1, <1>2, StoreType

\* What is left of a message that arrives.
Rest(m) == {net \ {m}} \cup
           (IF m.status = "owed" /\ Hooked(m)
            THEN {(net \ {m}) \cup {[m EXCEPT !.status = "unconfirmed"]}} ELSE {})

LEMMA RestIs ==
  ASSUME TypeInv, NEW m \in net, NEW M \in Rest(m)
  PROVE  /\ WellFormed(m) /\ \A k \in M : WellFormed(k)
         /\ net \ {m} \subseteq M
         /\ \A k \in M \ net : k.kind = m.kind /\ k.body = m.body /\ k.status = "unconfirmed"
<1>1. WellFormed(m) /\ \A k \in net : WellFormed(k)
  BY DEF TypeInv, NetT
<1>2. CASE M = net \ {m}
  BY <1>1, <1>2
<1>3. CASE Hooked(m) /\ M = (net \ {m}) \cup {[m EXCEPT !.status = "unconfirmed"]}
  <2> DEFINE u == [m EXCEPT !.status = "unconfirmed"]
  <2>1. u.kind = m.kind /\ u.body = m.body /\ u.status = "unconfirmed" /\ WellFormed(u)
    BY <1>1, <1>3, OtherStatus DEF Statuses
  <2> HIDE DEF u
  <2>2. M = (net \ {m}) \cup {u}
    BY <1>3 DEF u
  <2> QED BY <1>1, <2>1, <2>2
<1> QED BY <1>2, <1>3 DEF Rest

LEMMA DeliverHandles ==
  ASSUME NEW m, Deliver(m)
  PROVE  \E M \in Rest(m) : Handle(m, M)
BY DEF Deliver, Rest

LEMMA DeliverType ==
  ASSUME TypeInv, NEW m \in net, Deliver(m)
  PROVE  TypeInv'
<1>1. PICK M \in Rest(m) : Handle(m, M)
  BY DeliverHandles
<1>2. WellFormed(m) /\ \A k \in M : WellFormed(k)
  BY RestIs
<1>3. CASE hook_subscribe(m, M)
  BY <1>2, <1>3, SubscriptionArrives
<1>4. CASE hook_setTuple(m, M)
  BY <1>2, <1>4, SetArrives
<1>5. CASE hook_pushTuple(m, M) /\ UNCHANGED mishaps
  BY <1>2, <1>5, PushArrives
<1>6. CASE hook_pushAppendedTuple(m, M) /\ UNCHANGED mishaps
  BY <1>2, <1>6, AppendArrives
<1>7. CASE hook_unsubscribe(m, M) /\ UNCHANGED mishaps
  BY <1>2, <1>7, UnsubscribeArrives
<1>8. CASE hook_deadHost(m, M) /\ UNCHANGED mishaps
  BY <1>2, <1>8, DeadArrives
<1>9. CASE hook_rebornHost(m, M) /\ UNCHANGED mishaps
  BY <1>2, <1>9, RebornArrives
<1> QED BY <1>1, <1>3, <1>4, <1>5, <1>6, <1>7, <1>8, <1>9 DEF Handle

----------------------------------------------------------------------------
(* Failures, lost hosts and restarts *)

\* Confirm and Vanish take a message away.
LEMMA RemoveType ==
  ASSUME TypeInv, NEW m, net' = net \ {m}, UNCHANGED <<writes, hostVars, mishaps>>
  PROVE  TypeInv'
<1>1. NetT'
  BY DEF TypeInv, NetT
<1>2. WritesT' /\ SpaceT' /\ OwnT' /\ SubsT' /\ KnownT' /\ GivenT' /\ FailedT' /\ MishapsT'
  BY DEF TypeInv, hostVars, WritesT, SpaceT, OwnT, SubsT, KnownT, GivenT, FailedT, MishapsT
<1> QED BY <1>1, <1>2 DEF TypeInv

\* What a step that fails message m may send: m, late, or what the tuple is now.
Resent(m, k) ==
  \/ k.kind = m.kind /\ k.body = m.body /\ k.status = "late"
  \/ /\ k.kind = "push" /\ k.from = m.from /\ Found(m.from, k.body.name)
     /\ k.body.tuple = space[m.from][k.body.name]

LEMMA FailSteps ==
  ASSUME TypeInv, NEW m \in net, Fail(m)
  PROVE  /\ TypeInv'
         /\ mishaps.oneSided => mishaps'.oneSided
         /\ ~ Hooked(m) => mishaps'.oneSided
         /\ UNCHANGED <<writes, space, own, subs, known, magic>>
         /\ net \ {m} \subseteq net'
         /\ \A k \in net' \ net : Resent(m, k)
         /\ given' = IF m.kind = "subscribe" THEN [given EXCEPT ![m.from] = @ \ {m.to}] ELSE given
<1> DEFINE late == [m EXCEPT !.status = "late"]
           h == m.from
           n == m.body.name
<1>1. WellFormed(m)
  BY DEF TypeInv, NetT
<1>2. h \in Hosts /\ m.to \in Hosts /\ h # m.to
  BY <1>1 DEF WellFormed, MessageType
<1>3. PICK L \in {net \ {m}, (net \ {m}) \cup {late}} :
        \/ m.kind = "push" /\ pushTupleAckHook(m, L) /\ UNCHANGED given
        \/ m.kind = "subscribe" /\ subscriptionAckHook(m) /\ net' = L /\ UNCHANGED failed
        \/ ~ Hooked(m) /\ net' = L /\ UNCHANGED <<given, failed>>
  BY DEF Fail
<1>4. /\ UNCHANGED <<writes, space, own, subs, known, magic>>
      /\ Happen(IF Hooked(m) THEN "fail" ELSE "drop", 1)
  BY DEF Fail
<1>5. late.kind = m.kind /\ late.body = m.body /\ late.status = "late" /\ WellFormed(late)
  BY <1>1, OtherStatus DEF Statuses
<1> HIDE DEF late
<1>6. /\ net \ {m} \subseteq L
      /\ \A k \in L : WellFormed(k)
      /\ \A k \in L \ net : Resent(m, k)
  <2>1. \A k \in net : WellFormed(k)
    BY DEF TypeInv, NetT
  <2>2. Resent(m, late)
    BY <1>5 DEF Resent
  <2> QED BY <1>5, <2>1, <2>2
<1>7. /\ MishapsT'
      /\ mishaps.oneSided => mishaps'.oneSided
      /\ ~ Hooked(m) => mishaps'.oneSided
  <2> DEFINE kind == IF Hooked(m) THEN "fail" ELSE "drop"
  <2>1. ~ Hooked(m) => kind = "drop"
    OBVIOUS
  <2>2. Happen(kind, 1) /\ 1 \in Nat /\ 1 > 0 /\ MishapsT
    BY <1>4 DEF TypeInv
  <2> HIDE DEF kind
  <2>3. /\ MishapsT'
        /\ mishaps.oneSided => mishaps'.oneSided
        /\ kind \in {"lose", "shutdown", "drop"} => mishaps'.oneSided
    BY <2>2, HappenCounts
  <2> QED BY <2>1, <2>3
<1>8. /\ NetT' /\ FailedT'
      /\ net \ {m} \subseteq net'
      /\ \A k \in net' \ net : Resent(m, k)
  <2>1. CASE net' = L /\ UNCHANGED failed
    BY <1>6, <2>1 DEF TypeInv, FailedT, NetT
  <2>2. CASE m.kind = "push" /\ pushTupleAckHook(m, L) /\ ~ (net' = L /\ UNCHANGED failed)
    <3>1. m.body \in PushBodies /\ OwnerOf[n] = h /\ n \in Names
      BY <1>1, <2>2 DEF WellFormed, PushBodies
    <3>2. ~ Obsolete(h, n, m.body.tuple)
      BY <2>2 DEF pushTupleAckHook
    <3>3. Found(h, n)
      BY <3>2 DEF Obsolete
    <3>4. space[h][n] \in Tuples
      BY <1>2, <3>3, PartialIs DEF TypeInv, SpaceT, Found
    <3>5. CASE net' = L \cup {Push(h, n, m.to, space[h][n])} /\ UNCHANGED failed
      <4> DEFINE k == Push(h, n, m.to, space[h][n])
      <4>1. /\ WellFormed(k) /\ k.kind = "push" /\ k.from = h
            /\ k.body.name = n /\ k.body.tuple = space[h][n]
        BY <1>2, <3>1, <3>4, PushWellFormed
      <4> HIDE DEF k
      <4>2. Resent(m, k)
        BY <3>3, <4>1 DEF Resent
      <4>3. net' = L \cup {k}
        BY <3>5 DEF k
      <4>4. FailedT'
        BY <3>5 DEF TypeInv, FailedT
      <4> QED BY <1>6, <4>1, <4>2, <4>3, <4>4 DEF NetT
    <3>6. CASE /\ net' = L
               /\ failed' = [failed EXCEPT ![h] = insertFailedTuples(@, [x \in {n} |-> m.to])]
      <4> DEFINE to == [x \in {n} |-> m.to]
                 G == insertFailedTuples(failed[h], to)
      <4>1. to \in [{n} -> Hosts] /\ {n} \in SUBSET Names /\ to[n] = m.to
        BY <1>2, <3>1
      <4> HIDE DEF to
      <4>2. failed \in [Hosts -> Partial(Names, Failures)] /\ failed[h] \in Partial(Names, Failures)
        BY <1>2 DEF TypeInv, FailedT
      <4>3. /\ G \in Partial(Names, Failures)
            /\ DOMAIN G = DOMAIN failed[h] \cup {n}
            /\ \A x \in DOMAIN failed[h] : G[x] = failed[h][x]
            /\ \A x \in {n} \ DOMAIN failed[h] : G[x].to = to[x]
        BY <4>1, <4>2, InsertFailedType
      <4>4. failed' = [failed EXCEPT ![h] = G]
        BY <3>6 DEF to
      <4> HIDE DEF G
      <4>5. failed' \in [Hosts -> Partial(Names, Failures)]
        BY <4>2, <4>3, <4>4
      <4>6. \A x \in DOMAIN G : OwnerOf[x] = h /\ G[x].to # h
        <5>1. \A x \in DOMAIN failed[h] : OwnerOf[x] = h /\ failed[h][x].to # h
          BY <1>2 DEF TypeInv, FailedT
        <5> QED BY <1>2, <3>1, <4>1, <4>3, <5>1
      <4>7. \A g \in Hosts : \A x \in DOMAIN failed'[g] : OwnerOf[x] = g /\ failed'[g][x].to # g
        <5>1. \A g \in Hosts : failed'[g] = IF g = h THEN G ELSE failed[g]
          BY <4>2, <4>4
        <5> QED BY <4>6, <5>1 DEF TypeInv, FailedT
      <4>8. FailedT'
        BY <4>5, <4>7 DEF FailedT
      <4> QED BY <1>6, <3>6, <4>8 DEF NetT
    <3> QED BY <2>2, <3>2, <3>5, <3>6 DEF pushTupleAckHook
  <2> QED BY <1>3, <2>1, <2>2
<1>9. given' = IF m.kind = "subscribe" THEN [given EXCEPT ![m.from] = @ \ {m.to}] ELSE given
  BY <1>3 DEF subscriptionAckHook, Hooked
<1>10. GivenT'
  BY <1>2, <1>4, <1>9 DEF TypeInv, GivenT
<1>11. WritesT' /\ SpaceT' /\ OwnT' /\ SubsT' /\ KnownT'
  BY <1>4 DEF TypeInv, WritesT, SpaceT, OwnT, SubsT, KnownT
<1>12. TypeInv'
  BY <1>7, <1>8, <1>10, <1>11 DEF TypeInv
<1> QED BY <1>4, <1>7, <1>8, <1>9, <1>12

LEMMA HostInfoSteps ==
  ASSUME TypeInv, NEW h \in Hosts, NEW g \in Hosts, hook_hostInfo(h, g)
  PROVE  /\ TypeInv'
         /\ h # g
         /\ UNCHANGED <<own, failed, magic, mishaps>>
         /\ \A x \in Hosts \ {h} : known'[x] = known[x]
         /\ DOMAIN known'[h] = DOMAIN known[h] \cup {g}
         /\ known'[h][g] = magic[g]
         /\ \A x \in DOMAIN known[h] : x # g => known'[h][x] = known[h][x]
         /\ ~ (g \in DOMAIN known[h] /\ known[h][g] # magic[g]) =>
              UNCHANGED <<writes, space, subs, given, net>>
         /\ g \in DOMAIN known[h] /\ known[h][g] # magic[g] =>
              /\ given' = [given EXCEPT ![h] = @ \ {g}]
              /\ subs' = [subs EXCEPT ![h] = {x \in @ : x[1] # g}]
              /\ net' = net \cup {Message("reborn", h, g, g)}
<1> DEFINE v(x) == IF x = g THEN magic[g] ELSE known[h][x]
           D == DOMAIN known[h] \cup {g}
           K == [x \in D |-> v(x)]
           reborn == g \in DOMAIN known[h] /\ known[h][g] # magic[g]
<1>1. /\ h # g /\ known' = [known EXCEPT ![h] = K] /\ UNCHANGED mishaps
      /\ IF reborn THEN /\ deleteHost(h, g)
                        /\ net' = net \cup {Message("reborn", h, g, g)}
         ELSE UNCHANGED <<writes, space, own, subs, given, failed, magic, net>>
  BY DEF hook_hostInfo
<1>2. /\ known \in [Hosts -> Partial(Hosts, Nat)] /\ known[h] \in Partial(Hosts, Nat)
      /\ magic \in [Hosts -> Nat]
      /\ \A x \in Hosts : x \notin DOMAIN known[x]
  BY DEF TypeInv, KnownT
<1>3. DOMAIN known[h] \subseteq Hosts /\ \A x \in DOMAIN known[h] : known[h][x] \in Nat
  BY <1>2, PartialIs
<1>4. D \in SUBSET Hosts /\ \A x \in D : v(x) \in Nat
  BY <1>2, <1>3
<1>5. D = DOMAIN known[h] \cup {g} /\ v(g) = magic[g] /\ \A x \in D : x # g => v(x) = known[h][x]
  OBVIOUS
<1> HIDE DEF v, D
<1>6. K \in [D -> Nat] /\ \A x \in D : K[x] = v(x)
  BY <1>4
<1> HIDE DEF K
<1>7. K \in Partial(Hosts, Nat) /\ DOMAIN K = D
  BY <1>4, <1>6, IsPartial
<1>8. known'[h] = K /\ \A x \in Hosts \ {h} : known'[x] = known[x]
  BY <1>1, <1>2
<1>9. known' \in [Hosts -> Partial(Hosts, Nat)]
  BY <1>1, <1>2, <1>7
<1>10. \A x \in Hosts : x \notin DOMAIN known'[x]
  BY <1>1, <1>2, <1>5, <1>7, <1>8
<1>11. CASE ~ reborn
  <2>1. UNCHANGED <<writes, space, own, subs, given, failed, magic, net>>
    BY <1>1, <1>11
  <2>2. KnownT'
    BY <1>2, <1>9, <1>10, <2>1 DEF KnownT
  <2>3. GivenT'
    <3>1. given \in [Hosts -> SUBSET Hosts] /\ \A x \in Hosts : given[x] \subseteq DOMAIN known[x]
      BY DEF TypeInv, GivenT
    <3>2. \A x \in Hosts : given'[x] \subseteq DOMAIN known'[x]
      BY <1>5, <1>7, <1>8, <2>1, <3>1
    <3> QED BY <2>1, <3>1, <3>2 DEF GivenT
  <2>4. WritesT' /\ SpaceT' /\ OwnT' /\ SubsT' /\ FailedT' /\ MishapsT' /\ NetT'
    BY <1>1, <2>1 DEF TypeInv, WritesT, SpaceT, OwnT, SubsT, FailedT, MishapsT, NetT
  <2> QED BY <1>1, <1>5, <1>6, <1>7, <1>8, <1>11, <2>1, <2>2, <2>3, <2>4 DEF TypeInv
<1>12. CASE reborn
  <2>1. deleteHost(h, g) /\ net' = net \cup {Message("reborn", h, g, g)}
    BY <1>1, <1>12
  <2>2. /\ WritesT' /\ SpaceT' /\ OwnT' /\ SubsT' /\ FailedT'
        /\ given' \in [Hosts -> SUBSET Hosts]
        /\ given' = [given EXCEPT ![h] = @ \ {g}]
        /\ subs' = [subs EXCEPT ![h] = {x \in @ : x[1] # g}]
        /\ UNCHANGED <<writes, own, failed, magic>>
    BY <2>1, DeleteHostType
  <2>3. KnownT'
    BY <1>2, <1>9, <1>10, <2>2 DEF KnownT
  <2>4. GivenT'
    <3>1. given \in [Hosts -> SUBSET Hosts] /\ \A x \in Hosts : given[x] \subseteq DOMAIN known[x]
      BY DEF TypeInv, GivenT
    <3>2. \A x \in Hosts : given'[x] \subseteq DOMAIN known'[x]
      BY <1>5, <1>7, <1>8, <2>2, <3>1
    <3> QED BY <2>2, <3>2 DEF GivenT
  <2>5. MishapsT'
    BY <1>1 DEF TypeInv, MishapsT
  <2>6. NetT'
    <3>1. WellFormed(Message("reborn", h, g, g))
      <4>1. g \in Bodies
        BY DEF Bodies
      <4> QED BY <1>1, <4>1, NoticeWellFormed
    <3> QED BY <2>1, <3>1 DEF TypeInv, NetT
  <2> QED BY <1>1, <1>5, <1>6, <1>7, <1>8, <1>12, <2>1, <2>2, <2>3, <2>4, <2>5, <2>6 DEF TypeInv
<1> QED BY <1>11, <1>12

LEMMA LoseSteps ==
  ASSUME TypeInv, NEW h \in Hosts, NEW g \in Hosts, loseHost(h, g)
  PROVE  /\ TypeInv'
         /\ "lose" \in Mishaps /\ mishaps'.oneSided
         /\ UNCHANGED magic
         /\ net \subseteq net' /\ \A m \in net' \ net : m.kind = "dead"
         /\ \A x \in Hosts : /\ DOMAIN known'[x] \subseteq DOMAIN known[x]
                             /\ \A y \in DOMAIN known'[x] : known'[x][y] = known[x][y]
<1>1. /\ g \in DOMAIN known[h] /\ Happen("lose", 1) /\ deleteHost(h, g)
      /\ known' = [known EXCEPT ![h] = Without(@, {g})]
      /\ net' \in {net, net \cup {Message("dead", h, g, g)}}
  BY DEF loseHost
<1>2. h # g
  BY <1>1 DEF TypeInv, KnownT
<1>3. /\ WritesT' /\ SpaceT' /\ OwnT' /\ SubsT' /\ FailedT' /\ KnownT' /\ GivenT'
      /\ \A x \in Hosts : /\ DOMAIN known'[x] \subseteq DOMAIN known[x]
                          /\ \A y \in DOMAIN known'[x] : known'[x][y] = known[x][y]
  BY <1>1, ForgetType
<1>4. NetT' /\ net \subseteq net' /\ \A m \in net' \ net : m.kind = "dead"
  <2> DEFINE told == Message("dead", h, g, g)
  <2>1. WellFormed(told) /\ told.kind = "dead"
    <3>1. g \in Bodies
      BY DEF Bodies
    <3> QED BY <1>2, <3>1, NoticeWellFormed
  <2> HIDE DEF told
  <2>2. net' \in {net, net \cup {told}}
    BY <1>1 DEF told
  <2> QED BY <2>1, <2>2 DEF TypeInv, NetT
<1>5. MishapsT' /\ "lose" \in Mishaps /\ mishaps'.oneSided
  <2>1. MishapsT /\ 1 \in Nat /\ 1 > 0
    BY DEF TypeInv
  <2> QED BY <1>1, <2>1, HappenCounts
<1> QED BY <1>1, <1>3, <1>4, <1>5 DEF TypeInv, deleteHost

LEMMA RestartSteps ==
  ASSUME TypeInv, NEW h \in Hosts, NEW how \in {"crash", "shutdown"}, restart(h, how)
  PROVE  /\ TypeInv'
         /\ how \in Mishaps
         /\ mishaps.oneSided => mishaps'.oneSided
         /\ how = "shutdown" => mishaps'.oneSided
         /\ magic' = [magic EXCEPT ![h] = @ + 1]
         /\ own' = [own EXCEPT ![h] = Interests[h]]
         /\ subs' = [subs EXCEPT ![h] = {}]
         /\ given' = [given EXCEPT ![h] = {}]
         /\ known' = [known EXCEPT ![h] = Empty]
         /\ \A m \in net : m.from # h => m \in net'
         /\ \A k \in net' \ net : (k.kind = "dead" /\ how = "shutdown") \/ \E m \in net : m.kind = k.kind
<1>1. /\ Happen(how, 1)
      /\ magic' = [magic EXCEPT ![h] = @ + 1]
      /\ space' = [space EXCEPT ![h] = Empty]
      /\ own' = [own EXCEPT ![h] = Interests[h]]
      /\ subs' = [subs EXCEPT ![h] = {}]
      /\ given' = [given EXCEPT ![h] = {}]
      /\ failed' = [failed EXCEPT ![h] = Empty]
      /\ known' = [known EXCEPT ![h] = Empty]
      /\ UNCHANGED writes
  BY DEF restart
<1> DEFINE Kept == {m \in net : m.from = h /\ m.status # "unconfirmed"}
           late(m) == [m EXCEPT !.status = "late"]
           told(d) == Message("dead", h, d, h)
           Heard == IF how = "crash" THEN {} ELSE Hosts \ {h}
<1>2. net' = {m \in net : m.from # h} \cup {late(m) : m \in Kept} \cup {told(d) : d \in Heard}
  BY DEF restart
<1>3. \A m \in net : WellFormed(m)
  BY DEF TypeInv, NetT
<1>4. \A m \in net : WellFormed(late(m)) /\ late(m).kind = m.kind
  BY <1>3, OtherStatus DEF Statuses
<1>5. \A d \in Hosts \ {h} : WellFormed(told(d))
  <2>1. h \in Bodies
    BY DEF Bodies
  <2> QED BY <2>1, NoticeWellFormed
<1>6. Kept \subseteq net /\ Heard \subseteq Hosts \ {h} /\ (Heard # {} => how = "shutdown")
  OBVIOUS
<1> HIDE DEF Kept, late, told, Heard
<1>7. \A k \in net' \ net : \/ \E m \in Kept : k = late(m)
                            \/ \E d \in Heard : k = told(d)
  BY <1>2
<1>8. NetT'
  <2>1. \A k \in net' : WellFormed(k)
    BY <1>3, <1>4, <1>5, <1>6, <1>7
  <2> QED BY <2>1 DEF NetT
<1>9. \A k \in net' \ net : (k.kind = "dead" /\ how = "shutdown") \/ \E m \in net : m.kind = k.kind
  <2>1. \A d \in Heard : told(d).kind = "dead"
    BY MessageFields DEF told
  <2> QED BY <1>4, <1>6, <1>7, <2>1
<1>10. \A m \in net : m.from # h => m \in net'
  BY <1>2
<1>11. /\ MishapsT' /\ how \in Mishaps
       /\ mishaps.oneSided => mishaps'.oneSided
       /\ how = "shutdown" => mishaps'.oneSided
  <2>1. MishapsT /\ 1 \in Nat /\ 1 > 0
    BY DEF TypeInv
  <2> QED BY <1>1, <2>1, HappenCounts
<1>12. SpaceT'
  BY <1>1, EmptyPartial DEF TypeInv, SpaceT
<1>13. OwnT'
  <2>1. Interests[h] \in SUBSET Prototypes
    BY TuplespaceAssumption
  <2> QED BY <1>1, <2>1 DEF TypeInv, OwnT
<1>14. SubsT'
  BY <1>1 DEF TypeInv, SubsT
<1>15. FailedT'
  <2>1. failed' \in [Hosts -> Partial(Names, Failures)]
    BY <1>1, EmptyPartial DEF TypeInv, FailedT
  <2>2. \A g \in Hosts : failed'[g] = IF g = h THEN Empty ELSE failed[g]
    BY <1>1 DEF TypeInv, FailedT
  <2> QED BY <2>1, <2>2, EmptyPartial DEF TypeInv, FailedT
<1>16. KnownT' /\ GivenT'
  <2>1. known' \in [Hosts -> Partial(Hosts, Nat)]
    BY <1>1, EmptyPartial DEF TypeInv, KnownT
  <2>2. \A g \in Hosts : known'[g] = IF g = h THEN Empty ELSE known[g]
    BY <1>1 DEF TypeInv, KnownT
  <2>3. \A g \in Hosts : g \notin DOMAIN known'[g]
    BY <2>2, EmptyPartial DEF TypeInv, KnownT
  <2>4. magic' \in [Hosts -> Nat]
    BY <1>1 DEF TypeInv, KnownT
  <2>5. given' \in [Hosts -> SUBSET Hosts] /\ \A g \in Hosts : given'[g] = IF g = h THEN {} ELSE given[g]
    BY <1>1 DEF TypeInv, GivenT
  <2>6. \A g \in Hosts : given'[g] \subseteq DOMAIN known'[g]
    BY <2>2, <2>5 DEF TypeInv, GivenT
  <2> QED BY <2>1, <2>3, <2>4, <2>5, <2>6 DEF KnownT, GivenT
<1>17. WritesT'
  BY <1>1 DEF TypeInv, WritesT
<1>18. TypeInv'
  BY <1>8, <1>11, <1>12, <1>13, <1>14, <1>15, <1>16, <1>17 DEF TypeInv
<1> QED BY <1>1, <1>9, <1>10, <1>11, <1>18

----------------------------------------------------------------------------
(* Types hold *)

LEMMA InitType ==
  ASSUME Init
  PROVE  TypeInv
<1>1. WritesT /\ OwnT /\ SubsT /\ NetT
  BY TuplespaceAssumption DEF Init, WritesT, OwnT, SubsT, NetT
<1>2. SpaceT
  BY EmptyPartial DEF Init, SpaceT
<1>3. FailedT
  BY EmptyPartial DEF Init, FailedT
<1>4. KnownT /\ GivenT
  <2> DEFINE K(h) == [g \in Hosts \ {h} |-> 0]
  <2>1. \A h \in Hosts : K(h) \in [Hosts \ {h} -> Nat] /\ Hosts \ {h} \in SUBSET Hosts
    OBVIOUS
  <2>2. known = [h \in Hosts |-> K(h)]
    BY DEF Init
  <2> HIDE DEF K
  <2>3. \A h \in Hosts : K(h) \in Partial(Hosts, Nat) /\ DOMAIN K(h) = Hosts \ {h}
    BY <2>1, IsPartial
  <2>4. known \in [Hosts -> Partial(Hosts, Nat)] /\ \A h \in Hosts : h \notin DOMAIN known[h]
    BY <2>2, <2>3
  <2>5. magic \in [Hosts -> Nat] /\ given = [h \in Hosts |-> {}]
    BY DEF Init
  <2> QED BY <2>4, <2>5 DEF KnownT, GivenT
<1>5. MishapsT
  BY TuplespaceAssumption DEF Init, MishapsT
<1> QED BY <1>1, <1>2, <1>3, <1>4, <1>5 DEF TypeInv

LEMMA StepType ==
  ASSUME TypeInv, [Next]_vars
  PROVE  TypeInv'
<1>1. ASSUME NEW n \in Names, setTuple(n)
      PROVE  TypeInv'
  <2>1. \A m \in net : WellFormed(m)
    BY DEF TypeInv, NetT
  <2>2. Store(n, FALSE, net) /\ FALSE \in BOOLEAN
    BY <1>1 DEF setTuple
  <2> QED BY <2>1, <2>2, StoreType
<1>2. ASSUME NEW n \in Names, deleteTuple(n)
      PROVE  TypeInv'
  <2>1. \A m \in net : WellFormed(m)
    BY DEF TypeInv, NetT
  <2>2. Store(n, TRUE, net) /\ TRUE \in BOOLEAN
    BY <1>2 DEF deleteTuple
  <2> QED BY <2>1, <2>2, StoreType
<1>3. ASSUME NEW n \in Names, appendTuple(n)
      PROVE  TypeInv'
  BY <1>3, AppendSteps
<1>4. ASSUME NEW n \in Names, NEW h \in Hosts, setRemoteTuple(h, n)
      PROVE  TypeInv'
  BY <1>4, SetRemoteType
<1>5. ASSUME NEW h \in Hosts, NEW p \in Prototypes, subscribe(h, p)
      PROVE  TypeInv'
  BY <1>5, SubscribeSteps
<1>6. ASSUME NEW h \in Hosts, NEW p \in Prototypes, unsubscribe(h, p)
      PROVE  TypeInv'
  BY <1>6, UnsubscribeSteps
<1>7. ASSUME NEW h \in Hosts, NEW retransmit \in BOOLEAN, periodic_tuples(h, retransmit)
      PROVE  TypeInv'
  BY <1>7, PeriodicSteps
<1>8. ASSUME NEW h \in Hosts, periodic_expireTuples(h)
      PROVE  TypeInv'
  BY <1>8, ExpireSteps
<1>9. ASSUME NEW h \in Hosts, NEW how \in {"crash", "shutdown"}, restart(h, how)
      PROVE  TypeInv'
  BY <1>9, RestartSteps
<1>10. ASSUME NEW h \in Hosts, NEW g \in Hosts, hook_hostInfo(h, g)
       PROVE  TypeInv'
  BY <1>10, HostInfoSteps
<1>11. ASSUME NEW h \in Hosts, NEW g \in Hosts, loseHost(h, g)
       PROVE  TypeInv'
  BY <1>11, LoseSteps
<1>12. ASSUME NEW m \in net, Deliver(m)
       PROVE  TypeInv'
  BY <1>12, DeliverType
<1>13. ASSUME NEW m \in net, Confirm(m) \/ Vanish(m)
       PROVE  TypeInv'
  BY <1>13, RemoveType DEF Confirm, Vanish
<1>14. ASSUME NEW m \in net, Fail(m)
       PROVE  TypeInv'
  BY <1>14, FailSteps
<1>15. CASE UNCHANGED vars
  BY <1>15 DEF vars, hostVars, TypeInv, WritesT, SpaceT, OwnT, SubsT, KnownT, GivenT, FailedT,
               MishapsT, NetT
<1> QED BY <1>1, <1>2, <1>3, <1>4, <1>5, <1>6, <1>7, <1>8, <1>9, <1>10, <1>11, <1>12, <1>13,
           <1>14, <1>15 DEF Next

LEMMA TypesHold == Spec => []TypeInv
<1>1. Init => TypeInv
  BY InitType
<1>2. TypeInv /\ [Next]_vars => TypeInv'
  BY StepType
<1> QED BY <1>1, <1>2, PTL DEF Spec

\* Whatever is lost, refused, restarted or late: hosts remember subscriptions
\* of others only, a host is marked as given the subscriptions only while it is
\* known, and only owners send again what failed, TRIES passes at most.
THEOREM OnlyKnownAreGiven == Spec => []TypeOK
<1>1. TypeInv => TypeOK
  <2> SUFFICES ASSUME TypeInv
               PROVE  TypeOK
    OBVIOUS
  <2>1. mishaps.count \in 0 .. MaxMishaps
    BY DEF TypeInv, MishapsT
  <2>2. ASSUME NEW h \in Hosts
        PROVE  /\ DOMAIN space[h] \subseteq Names
               /\ subs[h] \subseteq (Hosts \ {h}) \X Prototypes
               /\ given[h] \subseteq DOMAIN known[h]
    <3>1. DOMAIN space[h] \subseteq Names
      BY PartialIs DEF TypeInv, SpaceT
    <3>2. subs[h] \subseteq Hosts \X Prototypes /\ \A x \in subs[h] : x[1] # h
      BY DEF TypeInv, SubsT
    <3> QED BY <3>1, <3>2 DEF TypeInv, GivenT
  <2>3. ASSUME NEW h \in Hosts, NEW n \in DOMAIN failed[h]
        PROVE  OwnerOf[n] = h /\ failed[h][n].tries \in 1 .. TRIES
    <3>1. failed[h][n] \in Failures
      BY PartialIs DEF TypeInv, FailedT
    <3> QED BY <3>1 DEF TypeInv, FailedT, Failures
  <2> QED BY <2>1, <2>2, <2>3 DEF TypeOK
<1> QED BY <1>1, TypesHold, PTL

----------------------------------------------------------------------------
(* Marked as given *)

\* Is m the message that h waits for: its subscription p is under way to g, or
\* g tells h that it was reborn.
Awaited(m, h, g, p) ==
  /\ m.status = "owed"
  /\ \/ m.from = h /\ m.to = g /\ m.kind = "subscribe" /\ m.body = p
     \/ m.from = g /\ m.to = h /\ m.kind = "reborn"

Served(h, g, p) ==
  \/ <<h, p>> \in subs[g]
  \/ known[h][g] # magic[g]
  \/ \E m \in net : Awaited(m, h, g, p)

Concerns(g, p) == TargetOf[p] \in {AnyHost, g}

LEMMA GivenIs ==
  GivenMeansSubscribed <=>
    (~ mishaps.oneSided =>
       \A h \in Hosts : \A g \in given[h], p \in own[h] : Concerns(g, p) => Served(h, g, p))
BY DEF GivenMeansSubscribed, Served, Concerns, Awaited

LEMMA GivenIsNext ==
  GivenMeansSubscribed' <=>
    (~ mishaps'.oneSided =>
       \A h \in Hosts : \A g \in given'[h], p \in own'[h] : Concerns(g, p) => Served(h, g, p)')
BY DEF GivenMeansSubscribed, Served, Concerns, Awaited

\* Messages of these kinds are sent only where others have this effect too.
Rare == {"dead", "reborn", "unsubscribe"}
NoneRarer == \A m \in net' \ net : m.kind \in Rare => \E k \in net : k.kind = m.kind

LEMMA PromiseKept ==
  ASSUME PromiseInv, UNCHANGED magic, mishaps.oneSided => mishaps'.oneSided, NoneRarer,
         \A h \in Hosts : /\ DOMAIN known'[h] \subseteq DOMAIN known[h]
                          /\ \A g \in DOMAIN known'[h] : known'[h][g] = known[h][g]
  PROVE  PromiseInv'
<1>1. \A h \in Hosts : \A g \in DOMAIN known'[h] : known'[h][g] <= magic'[g]
  BY DEF PromiseInv
<1>2. \A kind \in Rare : Absent(kind) => Absent(kind)'
  BY DEF NoneRarer, Absent
<1>3. "dead" \in Rare /\ "reborn" \in Rare /\ "unsubscribe" \in Rare
  BY DEF Rare
<1>4. /\ ~ mishaps'.oneSided => Absent("dead")'
      /\ ~ mishaps'.oneSided /\ "crash" \notin Mishaps =>
           Absent("reborn")' /\ \A h \in Hosts : magic'[h] = 0
      /\ "unsubscribe" \notin Uses => Absent("unsubscribe")'
  BY <1>2, <1>3 DEF PromiseInv
<1> QED BY <1>1, <1>4 DEF PromiseInv

\* Nothing is claimed any more.
LEMMA OneSidedGiven ==
  ASSUME mishaps'.oneSided,
         \A h \in Hosts : \A g \in DOMAIN known'[h] : known'[h][g] <= magic'[g],
         "unsubscribe" \notin Uses => Absent("unsubscribe")'
  PROVE  GivenInv'
BY DEF GivenInv, PromiseInv, GivenMeansSubscribed

\* A step that takes no promise back.
LEMMA GivenKept ==
  ASSUME TypeInv, TypeInv', GivenInv, UNCHANGED <<known, magic>>,
         mishaps.oneSided => mishaps'.oneSided,
         \A h \in Hosts : /\ given'[h] \subseteq given[h]
                          /\ own'[h] \subseteq own[h]
                          /\ subs[h] \subseteq subs'[h],
         \A m \in net : m.kind \in {"subscribe", "reborn"} /\ m.status = "owed" => m \in net',
         NoneRarer
  PROVE  GivenInv'
<1>1. PromiseInv'
  BY PromiseKept DEF GivenInv
<1>3. GivenMeansSubscribed'
  <2> SUFFICES ASSUME ~ mishaps'.oneSided, NEW h \in Hosts, NEW g \in given'[h], NEW p \in own'[h],
                      Concerns(g, p)
               PROVE  Served(h, g, p)'
    BY GivenIsNext
  <2>1. g \in given[h] /\ p \in own[h] /\ ~ mishaps.oneSided /\ GivenMeansSubscribed
    BY DEF GivenInv
  <2>2. Served(h, g, p)
    BY <2>1, GivenIs
  <2>3. g \in Hosts
    BY <2>1 DEF TypeInv, GivenT
  <2>4. CASE <<h, p>> \in subs[g]
    BY <2>3, <2>4 DEF Served
  <2>5. CASE known[h][g] # magic[g]
    BY <2>5 DEF Served
  <2>6. CASE \E m \in net : Awaited(m, h, g, p)
    <3>1. PICK m \in net : Awaited(m, h, g, p)
      BY <2>6
    <3>2. m \in net'
      BY <3>1 DEF Awaited
    <3> QED BY <3>1, <3>2 DEF Served
  <2> QED BY <2>2, <2>4, <2>5, <2>6 DEF Served
<1> QED BY <1>1, <1>3 DEF GivenInv

LEMMA SubscribeGiven ==
  ASSUME TypeInv, GivenInv, NEW h \in Hosts, NEW p \in Prototypes, subscribe(h, p)
  PROVE  GivenInv'
<1>1. /\ TypeInv'
      /\ mishaps.oneSided => mishaps'.oneSided
      /\ own' = [own EXCEPT ![h] = @ \cup {p}]
      /\ UNCHANGED <<writes, space, subs, failed, known, magic>>
      /\ net \subseteq net' /\ \A m \in net' \ net : m.kind = "subscribe"
      /\ \E R \in SUBSET Targets(h, p) :
           /\ given' = [given EXCEPT ![h] = @ \ R]
           /\ \A d \in Targets(h, p) \ R : Subscription(h, p, d) \in net'
  BY SubscribeSteps
<1>2. PICK R \in SUBSET Targets(h, p) :
           /\ given' = [given EXCEPT ![h] = @ \ R]
           /\ \A d \in Targets(h, p) \ R : Subscription(h, p, d) \in net'
  BY <1>1
<1>3. NoneRarer
  BY <1>1 DEF NoneRarer, Rare
<1>4. PromiseInv'
  BY <1>1, <1>3, PromiseKept DEF GivenInv
<1>5. GivenMeansSubscribed'
  <2> SUFFICES ASSUME ~ mishaps'.oneSided, NEW x \in Hosts, NEW g \in given'[x], NEW q \in own'[x],
                      Concerns(g, q)
               PROVE  Served(x, g, q)'
    BY GivenIsNext
  <2>1. /\ own \in [Hosts -> SUBSET Prototypes] /\ given \in [Hosts -> SUBSET Hosts]
        /\ \A y \in Hosts : given[y] \subseteq DOMAIN known[y]
        /\ h \notin DOMAIN known[h]
    BY DEF TypeInv, OwnT, GivenT, KnownT
  <2>2. g \in given[x]
    BY <1>2, <2>1
  <2>3. CASE q \in own[x]
    <3>1. Served(x, g, q)
      BY <1>1, <2>2, <2>3, GivenIs DEF GivenInv
    <3>2. \A m \in net : m \in net'
      BY <1>1
    <3> QED BY <1>1, <3>1, <3>2 DEF Served
  <2>4. CASE q \notin own[x]
    <3>1. x = h /\ q = p
      BY <1>1, <2>1, <2>4
    <3>2. g \notin R /\ g \in DOMAIN known[h] /\ g # h /\ g \in Hosts
      BY <1>2, <2>1, <2>2, <3>1
    <3>3. g \in Targets(h, p)
      BY <3>1, <3>2 DEF Targets, Concerns
    <3>4. Subscription(h, p, g) \in net'
      BY <1>2, <3>2, <3>3
    <3>5. Awaited(Subscription(h, p, g), h, g, p)
      <4> DEFINE m == Subscription(h, p, g)
      <4>1. /\ m.kind = "subscribe" /\ m.from = h /\ m.to = g /\ m.body = p /\ m.status = "owed"
        BY <3>2, SubscriptionWellFormed
      <4> HIDE DEF m
      <4>2. Awaited(m, h, g, p)
        BY <4>1 DEF Awaited
      <4> QED BY <4>2 DEF m
    <3> QED BY <3>1, <3>4, <3>5 DEF Served
  <2> QED BY <2>3, <2>4
<1> QED BY <1>4, <1>5 DEF GivenInv

LEMMA PeriodicGiven ==
  ASSUME TypeInv, GivenInv, NEW h \in Hosts, NEW retransmit \in BOOLEAN,
         periodic_tuples(h, retransmit)
  PROVE  GivenInv'
<1>1. /\ mishaps.oneSided => mishaps'.oneSided
      /\ UNCHANGED <<writes, space, own, subs, known, magic>>
      /\ net \subseteq net'
      /\ \A m \in net' \ net : m.kind \in {"subscribe", "push"}
      /\ \E Q \in SUBSET News(h) :
           /\ given' = [given EXCEPT ![h] = (@ \cup NewHosts(h)) \ {x[2] : x \in Q}]
           /\ \A x \in News(h) \ Q : Subscription(h, x[1], x[2]) \in net'
  BY PeriodicSteps
<1>2. PICK Q \in SUBSET News(h) :
           /\ given' = [given EXCEPT ![h] = (@ \cup NewHosts(h)) \ {x[2] : x \in Q}]
           /\ \A x \in News(h) \ Q : Subscription(h, x[1], x[2]) \in net'
  BY <1>1
<1>3. NoneRarer
  BY <1>1 DEF NoneRarer, Rare
<1>4. PromiseInv'
  BY <1>1, <1>3, PromiseKept DEF GivenInv
<1>5. GivenMeansSubscribed'
  <2> SUFFICES ASSUME ~ mishaps'.oneSided, NEW x \in Hosts, NEW g \in given'[x], NEW q \in own'[x],
                      Concerns(g, q)
               PROVE  Served(x, g, q)'
    BY GivenIsNext
  <2>1. /\ own \in [Hosts -> SUBSET Prototypes] /\ given \in [Hosts -> SUBSET Hosts]
        /\ DOMAIN known[h] \subseteq Hosts \ {h}
    BY PartialIs DEF TypeInv, OwnT, GivenT, KnownT
  <2>2. q \in own[x]
    BY <1>1
  <2>3. CASE g \in given[x]
    <3>1. Served(x, g, q)
      BY <1>1, <2>2, <2>3, GivenIs DEF GivenInv
    <3>2. \A m \in net : m \in net'
      BY <1>1
    <3> QED BY <1>1, <3>1, <3>2 DEF Served
  <2>4. CASE g \notin given[x]
    <3>1. x = h /\ g \in NewHosts(h) /\ g \notin {y[2] : y \in Q}
      BY <1>2, <2>1, <2>4
    <3>2. <<q, g>> \in News(h)
      BY <2>2, <3>1 DEF News, Concerns
    <3>3. <<q, g>> \notin Q
      BY <3>1
    <3>4. Subscription(h, q, g) \in net'
      BY <1>2, <3>2, <3>3
    <3>5. g \in Hosts /\ g # h /\ q \in Prototypes
      BY <2>1, <2>2, <3>1 DEF NewHosts
    <3>6. Awaited(Subscription(h, q, g), h, g, q)
      <4> DEFINE m == Subscription(h, q, g)
      <4>1. /\ m.kind = "subscribe" /\ m.from = h /\ m.to = g /\ m.body = q /\ m.status = "owed"
        BY <3>5, SubscriptionWellFormed
      <4> HIDE DEF m
      <4>2. Awaited(m, h, g, q)
        BY <4>1 DEF Awaited
      <4> QED BY <4>2 DEF m
    <3> QED BY <3>1, <3>4, <3>6 DEF Served
  <2> QED BY <2>3, <2>4
<1> QED BY <1>4, <1>5 DEF GivenInv

\* The subscription is where it was sent to.
LEMMA SubscriptionArrivesGiven ==
  ASSUME TypeInv, GivenInv, NEW m \in net, NEW M \in Rest(m), hook_subscribe(m, M)
  PROVE  GivenInv'
<1>1. WellFormed(m) /\ (\A k \in M : WellFormed(k)) /\ net \ {m} \subseteq M
      /\ \A k \in M \ net : k.kind = m.kind
  BY RestIs
<1>2. /\ TypeInv'
      /\ mishaps.oneSided => mishaps'.oneSided
      /\ UNCHANGED <<writes, space, own, given, known, magic>>
      /\ m.kind = "subscribe" /\ m.to \in Hosts /\ m.from \in Hosts /\ m.body \in Prototypes
      /\ subs' = [subs EXCEPT ![m.to] = @ \cup {<<m.from, m.body>>}]
      /\ Pushable(m.to, space[m.to], Covered(m.to, m.body, m.from))
      /\ OnlyPushes(m.to, space[m.to], Covered(m.to, m.body, m.from), M)
  BY <1>1, SubscriptionArrives
<1>3. space[m.to] \in Partial(Names, Tuples)
  BY <1>2 DEF TypeInv, SpaceT
<1>4. M \subseteq net' /\ \A k \in net' \ M : k.kind = "push"
  BY <1>2, <1>3, PushedWellFormed DEF OnlyPushes
<1>5. NoneRarer
  BY <1>1, <1>2, <1>4 DEF NoneRarer, Rare
<1>6. PromiseInv'
  BY <1>2, <1>5, PromiseKept DEF GivenInv
<1>7. GivenMeansSubscribed'
  <2> SUFFICES ASSUME ~ mishaps'.oneSided, NEW h \in Hosts, NEW g \in given'[h], NEW p \in own'[h],
                      Concerns(g, p)
               PROVE  Served(h, g, p)'
    BY GivenIsNext
  <2>1. Served(h, g, p)
    BY <1>2, GivenIs DEF GivenInv
  <2>2. g \in Hosts /\ subs \in [Hosts -> SUBSET (Hosts \X Prototypes)]
    BY <1>2 DEF TypeInv, GivenT, SubsT
  <2>3. subs[g] \subseteq subs'[g] /\ <<m.from, m.body>> \in subs'[m.to]
    BY <1>2, <2>2
  <2>4. CASE <<h, p>> \in subs[g]
    BY <2>3, <2>4 DEF Served
  <2>5. CASE known[h][g] # magic[g]
    BY <1>2, <2>5 DEF Served
  <2>6. CASE \E k \in net : Awaited(k, h, g, p)
    <3>1. PICK k \in net : Awaited(k, h, g, p)
      BY <2>6
    <3>2. CASE k = m
      <4>1. m.from = h /\ m.to = g /\ m.body = p
        BY <1>2, <3>1, <3>2 DEF Awaited
      <4> QED BY <2>3, <4>1 DEF Served
    <3>3. CASE k # m
      <4>1. k \in net'
        BY <1>1, <1>4, <3>3
      <4> QED BY <3>1, <4>1 DEF Served
    <3> QED BY <3>2, <3>3
  <2> QED BY <2>1, <2>4, <2>5, <2>6 DEF Served
<1> QED BY <1>6, <1>7 DEF GivenInv

\* A host that hears that another was reborn marks it as not given.
LEMMA RebornArrivesGiven ==
  ASSUME BigEndian, TypeInv, GivenInv, NEW m \in net, NEW M \in Rest(m), hook_rebornHost(m, M),
         UNCHANGED mishaps
  PROVE  GivenInv'
<1>1. WellFormed(m) /\ (\A k \in M : WellFormed(k)) /\ net \ {m} \subseteq M
      /\ \A k \in M \ net : k.kind = m.kind
  BY RestIs
<1>2. /\ net' = M
      /\ m.kind = "reborn" /\ m.to \in Hosts
      /\ UNCHANGED <<writes, space, own, subs, failed, known, magic>>
      /\ given' = [given EXCEPT ![m.to] = @ \ {m.from}]
  BY <1>1, RebornArrives
<1>3. NoneRarer
  BY <1>1, <1>2 DEF NoneRarer
<1>4. PromiseInv'
  BY <1>2, <1>3, PromiseKept DEF GivenInv
<1>5. GivenMeansSubscribed'
  <2> SUFFICES ASSUME ~ mishaps'.oneSided, NEW h \in Hosts, NEW g \in given'[h], NEW p \in own'[h],
                      Concerns(g, p)
               PROVE  Served(h, g, p)'
    BY GivenIsNext
  <2>1. given \in [Hosts -> SUBSET Hosts]
    BY DEF TypeInv, GivenT
  <2>2. g \in given[h] /\ ~ (h = m.to /\ g = m.from)
    BY <1>2, <2>1
  <2>3. Served(h, g, p)
    BY <1>2, <2>2, GivenIs DEF GivenInv
  <2>4. CASE <<h, p>> \in subs[g] \/ known[h][g] # magic[g]
    BY <1>2, <2>4 DEF Served
  <2>5. CASE \E k \in net : Awaited(k, h, g, p)
    <3>1. PICK k \in net : Awaited(k, h, g, p)
      BY <2>5
    <3>2. k # m
      BY <1>2, <2>2, <3>1 DEF Awaited
    <3>3. k \in net'
      BY <1>1, <1>2, <3>2
    <3> QED BY <3>1, <3>3 DEF Served
  <2> QED BY <2>3, <2>4, <2>5 DEF Served
<1> QED BY <1>4, <1>5 DEF GivenInv

\* A failed subscription takes the mark back; any other loss that matters is
\* on one side only.
LEMMA FailGiven ==
  ASSUME TypeInv, GivenInv, NEW m \in net, Fail(m)
  PROVE  GivenInv'
<1>1. /\ TypeInv'
      /\ mishaps.oneSided => mishaps'.oneSided
      /\ ~ Hooked(m) => mishaps'.oneSided
      /\ UNCHANGED <<writes, space, own, subs, known, magic>>
      /\ net \ {m} \subseteq net'
      /\ \A k \in net' \ net : Resent(m, k)
      /\ given' = IF m.kind = "subscribe" THEN [given EXCEPT ![m.from] = @ \ {m.to}] ELSE given
  BY FailSteps
<1>2. PromiseInv'
  <2>1. NoneRarer
    BY <1>1 DEF NoneRarer, Rare, Resent
  <2> QED BY <1>1, <2>1, PromiseKept DEF GivenInv
<1>3. CASE ~ Hooked(m)
  BY <1>1, <1>2, <1>3, OneSidedGiven DEF PromiseInv
<1>4. CASE Hooked(m)
  <2>1. m.kind \in {"push", "subscribe"}
    BY <1>4 DEF Hooked
  <2>3. GivenMeansSubscribed'
    <3> SUFFICES ASSUME ~ mishaps'.oneSided, NEW h \in Hosts, NEW g \in given'[h], NEW p \in own'[h],
                        Concerns(g, p)
                 PROVE  Served(h, g, p)'
      BY GivenIsNext
    <3>1. given \in [Hosts -> SUBSET Hosts]
      BY DEF TypeInv, GivenT
    <3>2. g \in given[h] /\ ~ (m.kind = "subscribe" /\ h = m.from /\ g = m.to)
      BY <1>1, <3>1
    <3>3. Served(h, g, p)
      BY <1>1, <3>2, GivenIs DEF GivenInv
    <3>4. CASE <<h, p>> \in subs[g] \/ known[h][g] # magic[g]
      BY <1>1, <3>4 DEF Served
    <3>5. CASE \E k \in net : Awaited(k, h, g, p)
      <4>1. PICK k \in net : Awaited(k, h, g, p)
        BY <3>5
      <4>2. k # m
        BY <2>1, <3>2, <4>1 DEF Awaited
      <4>3. k \in net'
        BY <1>1, <4>2
      <4> QED BY <4>1, <4>3 DEF Served
    <3> QED BY <3>3, <3>4, <3>5 DEF Served
  <2> QED BY <1>2, <2>3 DEF GivenInv
<1> QED BY <1>3, <1>4

\* A host that notices that another was reborn takes its mark back, forgets
\* what it subscribed to, and tells it so.
LEMMA HostInfoGiven ==
  ASSUME TypeInv, GivenInv, NEW h \in Hosts, NEW g \in Hosts, hook_hostInfo(h, g)
  PROVE  GivenInv'
<1> DEFINE reborn == g \in DOMAIN known[h] /\ known[h][g] # magic[g]
           told == Message("reborn", h, g, g)
<1>1. /\ h # g
      /\ UNCHANGED <<own, failed, magic, mishaps>>
      /\ \A x \in Hosts \ {h} : known'[x] = known[x]
      /\ DOMAIN known'[h] = DOMAIN known[h] \cup {g}
      /\ known'[h][g] = magic[g]
      /\ \A x \in DOMAIN known[h] : x # g => known'[h][x] = known[h][x]
      /\ ~ reborn => UNCHANGED <<writes, space, subs, given, net>>
      /\ reborn => /\ given' = [given EXCEPT ![h] = @ \ {g}]
                   /\ subs' = [subs EXCEPT ![h] = {x \in @ : x[1] # g}]
                   /\ net' = net \cup {told}
  BY HostInfoSteps
<1>2. told.kind = "reborn" /\ told.from = h /\ told.to = g /\ told.status = "owed"
  BY MessageFields
<1> HIDE DEF reborn, told
<1>3. /\ magic \in [Hosts -> Nat]
      /\ given \in [Hosts -> SUBSET Hosts]
      /\ subs \in [Hosts -> SUBSET (Hosts \X Prototypes)]
      /\ \A x \in Hosts : given[x] \subseteq DOMAIN known[x]
  BY DEF TypeInv, KnownT, GivenT, SubsT
<1>4. \A x \in Hosts : \A y \in DOMAIN known'[x] : known'[x][y] <= magic'[y]
  <2> SUFFICES ASSUME NEW x \in Hosts, NEW y \in DOMAIN known'[x]
               PROVE  known'[x][y] <= magic[y]
    BY <1>1
  <2>1. CASE x # h
    BY <1>1, <2>1 DEF GivenInv, PromiseInv
  <2>2. CASE x = h /\ y # g
    BY <1>1, <2>2 DEF GivenInv, PromiseInv
  <2>3. CASE x = h /\ y = g
    <3>1. magic[g] \in Nat
      BY <1>3
    <3> QED BY <1>1, <2>3, <3>1
  <2> QED BY <2>1, <2>2, <2>3
<1>5. net \subseteq net' /\ \A m \in net' \ net : m = told /\ reborn
  BY <1>1
<1>6. PromiseInv'
  <2>1. ~ mishaps.oneSided => Absent("dead")'
    BY <1>2, <1>5 DEF GivenInv, PromiseInv, Absent
  <2>2. "unsubscribe" \notin Uses => Absent("unsubscribe")'
    BY <1>2, <1>5 DEF GivenInv, PromiseInv, Absent
  <2>3. ASSUME ~ mishaps.oneSided, "crash" \notin Mishaps
        PROVE  Absent("reborn")' /\ \A x \in Hosts : magic'[x] = 0
    <3>1. Absent("reborn") /\ \A x \in Hosts : magic[x] = 0
      BY <2>3 DEF GivenInv, PromiseInv
    <3>2. g \in DOMAIN known[h] => known[h][g] \in Nat /\ known[h][g] <= magic[g]
      BY PartialIs DEF GivenInv, PromiseInv, TypeInv, KnownT
    <3>3. ~ reborn
      BY <3>1, <3>2 DEF reborn
    <3> QED BY <1>1, <1>5, <3>1, <3>3 DEF Absent
  <2> QED BY <1>1, <1>4, <2>1, <2>2, <2>3 DEF PromiseInv
<1>7. GivenMeansSubscribed'
  <2> SUFFICES ASSUME ~ mishaps'.oneSided, NEW x \in Hosts, NEW y \in given'[x], NEW p \in own'[x],
                      Concerns(y, p)
               PROVE  Served(x, y, p)'
    BY GivenIsNext
  <2>1. y \in given[x] /\ ~ (reborn /\ x = h /\ y = g)
    BY <1>1, <1>3
  <2>2. Served(x, y, p) /\ y \in DOMAIN known[x] /\ y \in Hosts
    BY <1>1, <1>3, <2>1, GivenIs DEF GivenInv
  <2>3. known'[x][y] = known[x][y]
    <3>1. CASE x # h
      BY <1>1, <3>1
    <3>2. CASE x = h /\ y # g
      BY <1>1, <2>2, <3>2
    <3>3. CASE x = h /\ y = g
      BY <1>1, <2>1, <2>2, <3>3 DEF reborn
    <3> QED BY <3>1, <3>2, <3>3
  <2>4. CASE <<x, p>> \in subs[y]
    <3>1. CASE <<x, p>> \in subs'[y]
      BY <3>1 DEF Served
    <3>2. CASE <<x, p>> \notin subs'[y]
      <4>1. reborn /\ y = h /\ x = g
        BY <1>1, <1>3, <2>2, <2>4, <3>2
      <4>2. told \in net'
        BY <1>1, <4>1
      <4>3. Awaited(told, x, y, p)
        BY <1>2, <4>1 DEF Awaited
      <4> QED BY <4>2, <4>3 DEF Served
    <3> QED BY <3>1, <3>2
  <2>5. CASE known[x][y] # magic[y]
    BY <1>1, <2>3, <2>5 DEF Served
  <2>6. CASE \E m \in net : Awaited(m, x, y, p)
    BY <1>5, <2>6 DEF Served
  <2> QED BY <2>2, <2>4, <2>5, <2>6 DEF Served
<1> QED BY <1>6, <1>7 DEF GivenInv

\* Who restarts has nothing marked, and is known by an old number.
LEMMA RestartGiven ==
  ASSUME TypeInv, GivenInv, NEW h \in Hosts, NEW how \in {"crash", "shutdown"}, restart(h, how)
  PROVE  GivenInv'
<1>1. /\ mishaps.oneSided => mishaps'.oneSided
      /\ how = "shutdown" => mishaps'.oneSided
      /\ magic' = [magic EXCEPT ![h] = @ + 1]
      /\ own' = [own EXCEPT ![h] = Interests[h]]
      /\ subs' = [subs EXCEPT ![h] = {}]
      /\ given' = [given EXCEPT ![h] = {}]
      /\ known' = [known EXCEPT ![h] = Empty]
      /\ \A m \in net : m.from # h => m \in net'
      /\ \A k \in net' \ net : (k.kind = "dead" /\ how = "shutdown") \/ \E m \in net : m.kind = k.kind
      /\ how \in Mishaps
  BY RestartSteps
<1>2. /\ magic \in [Hosts -> Nat] /\ known \in [Hosts -> Partial(Hosts, Nat)]
      /\ given \in [Hosts -> SUBSET Hosts] /\ own \in [Hosts -> SUBSET Prototypes]
      /\ subs \in [Hosts -> SUBSET (Hosts \X Prototypes)]
      /\ \A x \in Hosts : given[x] \subseteq DOMAIN known[x]
  BY DEF TypeInv, KnownT, GivenT, OwnT, SubsT
<1>3. \A x \in Hosts : \A y \in DOMAIN known[x] : y \in Hosts /\ known[x][y] \in Nat
  BY <1>2, PartialIs
<1>4. \A x \in Hosts : magic[x] \in Nat /\ magic'[x] = IF x = h THEN magic[x] + 1 ELSE magic[x]
  BY <1>1, <1>2
<1>5. \A x \in Hosts : known'[x] = IF x = h THEN Empty ELSE known[x]
  BY <1>1, <1>2
<1>6. \A x \in Hosts : \A y \in DOMAIN known'[x] : known'[x][y] <= magic'[y]
  <2> SUFFICES ASSUME NEW x \in Hosts, NEW y \in DOMAIN known'[x]
               PROVE  known'[x][y] <= magic'[y]
    OBVIOUS
  <2>1. x # h
    BY <1>5, EmptyPartial
  <2>2. y \in DOMAIN known[x] /\ known'[x][y] = known[x][y]
    BY <1>5, <2>1
  <2>3. known[x][y] <= magic[y] /\ y \in Hosts /\ known[x][y] \in Nat
    BY <1>3, <2>2 DEF GivenInv, PromiseInv
  <2> QED BY <1>4, <2>2, <2>3
<1>7. PromiseInv'
  <2>1. ~ mishaps'.oneSided => Absent("dead")'
    BY <1>1 DEF GivenInv, PromiseInv, Absent
  <2>2. "unsubscribe" \notin Uses => Absent("unsubscribe")'
    BY <1>1 DEF GivenInv, PromiseInv, Absent
  <2>3. mishaps'.oneSided \/ "crash" \in Mishaps
    BY <1>1
  <2> QED BY <1>6, <2>1, <2>2, <2>3 DEF PromiseInv
<1>8. GivenMeansSubscribed'
  <2> SUFFICES ASSUME ~ mishaps'.oneSided, NEW x \in Hosts, NEW y \in given'[x], NEW p \in own'[x],
                      Concerns(y, p)
               PROVE  Served(x, y, p)'
    BY GivenIsNext
  <2>1. x # h /\ y \in given[x] /\ p \in own[x] /\ ~ mishaps.oneSided
    BY <1>1, <1>2
  <2>2. known'[x] = known[x] /\ y \in DOMAIN known[x] /\ y \in Hosts
    BY <1>2, <1>5, <2>1
  <2>3. CASE y = h
    <3>1. known[x][h] <= magic[h] /\ known[x][h] \in Nat
      BY <1>3, <2>2, <2>3 DEF GivenInv, PromiseInv
    <3>2. known'[x][y] # magic'[y]
      BY <1>4, <2>2, <2>3, <3>1
    <3> QED BY <3>2 DEF Served
  <2>4. CASE y # h
    <3>1. Served(x, y, p)
      BY <2>1, GivenIs DEF GivenInv
    <3>2. subs'[y] = subs[y] /\ magic'[y] = magic[y]
      BY <1>1, <1>2, <2>2, <2>4
    <3>3. CASE \E m \in net : Awaited(m, x, y, p)
      <4>1. PICK m \in net : Awaited(m, x, y, p)
        BY <3>3
      <4>2. m \in net'
        BY <1>1, <2>1, <2>4, <4>1 DEF Awaited
      <4> QED BY <4>1, <4>2 DEF Served
    <3> QED BY <2>2, <3>1, <3>2, <3>3 DEF Served
  <2> QED BY <2>3, <2>4
<1> QED BY <1>7, <1>8 DEF GivenInv

LEMMA StoreGiven ==
  ASSUME TypeInv, GivenInv, NEW n \in Names, NEW expired \in BOOLEAN, NEW M,
         \A k \in M : WellFormed(k), Store(n, expired, M),
         \A k \in net : k.kind \in {"subscribe", "reborn"} => k \in M,
         \A k \in M \ net : k.kind \notin Rare
  PROVE  GivenInv'
<1> DEFINE h == OwnerOf[n]
           S == SpaceWith(n, expired)
           P == {n} \X Subscribers(h, n)
<1>1. /\ UNCHANGED <<own, subs, given, known, magic>>
      /\ OnlyPushes(h, S, P, M)
      /\ mishaps.oneSided => mishaps'.oneSided
  BY StoreSteps
<1>2. S \in Partial(Names, Tuples) /\ n \in DOMAIN S /\ h \in Hosts
  BY ValueType
<1> HIDE DEF S
<1>3. Pushable(h, S, P)
  BY <1>2, SubscribersPushable
<1> HIDE DEF h, P
<1>4. M \subseteq net' /\ \A k \in net' \ M : k.kind = "push"
  BY <1>1, <1>2, <1>3, PushedWellFormed DEF OnlyPushes
<1>5. TypeInv'
  BY StoreType
<1>6. \A k \in net : k.kind \in {"subscribe", "reborn"} /\ k.status = "owed" => k \in net'
  BY <1>4
<1>7. NoneRarer
  BY <1>4 DEF NoneRarer, Rare
<1>8. \A x \in Hosts : given'[x] \subseteq given[x] /\ own'[x] \subseteq own[x] /\ subs[x] \subseteq subs'[x]
  BY <1>1
<1> QED BY <1>1, <1>5, <1>6, <1>7, <1>8, GivenKept

\* On a little endian host hook_rebornHost marks nothing (services.c:1139), so
\* that it is enough only if no host is ever reborn.
RebirthIsTold == BigEndian \/ "crash" \notin Mishaps

\* A message to unsubscribe may arrive after a later one to subscribe, but has
\* an effect on prototypes with a MIME type only (tuples.c:1386).
SubscriptionsStay == Typed = {} \/ "unsubscribe" \notin Uses

LEMMA DeliverGiven ==
  ASSUME RebirthIsTold, SubscriptionsStay, TypeInv, GivenInv, NEW m \in net, Deliver(m)
  PROVE  GivenInv'
<1>1. PICK M \in Rest(m) : Handle(m, M)
  BY DeliverHandles
<1>2. WellFormed(m) /\ (\A k \in M : WellFormed(k)) /\ net \ {m} \subseteq M
      /\ \A k \in M \ net : k.kind = m.kind
  BY RestIs
<1>3. CASE hook_subscribe(m, M)
  BY <1>3, SubscriptionArrivesGiven
<1>4. CASE hook_setTuple(m, M)
  <2>1. m.kind = "set" /\ m.body \in Names /\ Store(m.body, FALSE, M) /\ FALSE \in BOOLEAN
    BY <1>2, <1>4, SetArrives
  <2>2. /\ \A k \in net : k.kind \in {"subscribe", "reborn"} => k \in M
        /\ \A k \in M \ net : k.kind \notin Rare
    BY <1>2, <2>1 DEF Rare
  <2> QED BY <1>2, <2>1, <2>2, StoreGiven
<1>5. CASE hook_pushTuple(m, M) /\ UNCHANGED mishaps
  <2>1. TypeInv' /\ net' = M /\ m.kind = "push" /\ UNCHANGED <<own, subs, given, known, magic>>
    BY <1>2, <1>5, PushArrives
  <2>2. /\ \A k \in net : k.kind \in {"subscribe", "reborn"} /\ k.status = "owed" => k \in net'
        /\ NoneRarer
    BY <1>2, <2>1 DEF NoneRarer
  <2>3. \A x \in Hosts : given'[x] \subseteq given[x] /\ own'[x] \subseteq own[x] /\ subs[x] \subseteq subs'[x]
    BY <2>1
  <2> QED BY <1>5, <2>1, <2>2, <2>3, GivenKept
<1>6. CASE hook_pushAppendedTuple(m, M) /\ UNCHANGED mishaps
  <2>1. TypeInv' /\ net' = M /\ m.kind = "append" /\ UNCHANGED <<own, subs, given, known, magic>>
    BY <1>2, <1>6, AppendArrives
  <2>2. /\ \A k \in net : k.kind \in {"subscribe", "reborn"} /\ k.status = "owed" => k \in net'
        /\ NoneRarer
    BY <1>2, <2>1 DEF NoneRarer
  <2>3. \A x \in Hosts : given'[x] \subseteq given[x] /\ own'[x] \subseteq own[x] /\ subs[x] \subseteq subs'[x]
    BY <2>1
  <2> QED BY <1>6, <2>1, <2>2, <2>3, GivenKept
<1>7. CASE hook_unsubscribe(m, M) /\ UNCHANGED mishaps
  <2>0. Typed = {}
    BY <1>7 DEF SubscriptionsStay, GivenInv, PromiseInv, Absent, hook_unsubscribe
  <2>1. TypeInv' /\ net' = M /\ m.kind = "unsubscribe" /\ UNCHANGED <<own, subs, given, known, magic>>
    BY <1>2, <1>7, <2>0, UnsubscribeArrives
  <2>2. /\ \A k \in net : k.kind \in {"subscribe", "reborn"} /\ k.status = "owed" => k \in net'
        /\ NoneRarer
    BY <1>2, <2>1 DEF NoneRarer
  <2>3. \A x \in Hosts : given'[x] \subseteq given[x] /\ own'[x] \subseteq own[x] /\ subs[x] \subseteq subs'[x]
    BY <2>1
  <2> QED BY <1>7, <2>1, <2>2, <2>3, GivenKept
<1>8. CASE hook_deadHost(m, M) /\ UNCHANGED mishaps
  <2>1. /\ m.kind = "dead" /\ UNCHANGED magic
        /\ \A x \in Hosts : /\ DOMAIN known'[x] \subseteq DOMAIN known[x]
                            /\ \A y \in DOMAIN known'[x] : known'[x][y] = known[x][y]
    BY <1>2, <1>8, DeadArrives
  <2>2. mishaps'.oneSided
    BY <1>8, <2>1 DEF GivenInv, PromiseInv, Absent
  <2>3. NoneRarer
    BY <1>2, <1>8, DeadArrives DEF NoneRarer
  <2>4. PromiseInv'
    BY <1>8, <2>1, <2>3, PromiseKept DEF GivenInv
  <2> QED BY <2>2, <2>4, OneSidedGiven DEF PromiseInv
<1>9. CASE hook_rebornHost(m, M) /\ UNCHANGED mishaps
  <2>1. CASE BigEndian
    BY <1>9, <2>1, RebornArrivesGiven
  <2>2. CASE ~ BigEndian
    <3>1. /\ net' = M /\ m.kind = "reborn" /\ UNCHANGED <<known, magic>>
      BY <1>2, <1>9, RebornArrives
    <3>2. mishaps'.oneSided
      BY <1>9, <2>2, <3>1 DEF RebirthIsTold, GivenInv, PromiseInv, Absent
    <3>3. NoneRarer
      BY <1>2, <3>1 DEF NoneRarer
    <3>4. PromiseInv'
      BY <1>9, <3>1, <3>3, PromiseKept DEF GivenInv
    <3> QED BY <3>2, <3>4, OneSidedGiven DEF PromiseInv
  <2> QED BY <2>1, <2>2
<1> QED BY <1>1, <1>3, <1>4, <1>5, <1>6, <1>7, <1>8, <1>9 DEF Handle

LEMMA InitGiven ==
  ASSUME Init
  PROVE  GivenInv
<1>1. /\ net = {} /\ given = [h \in Hosts |-> {}] /\ magic = [h \in Hosts |-> 0]
      /\ known = [h \in Hosts |-> [g \in Hosts \ {h} |-> 0]]
  BY DEF Init
<1>2. \A h \in Hosts : \A g \in DOMAIN known[h] : known[h][g] <= magic[g]
  BY <1>1
<1>3. GivenMeansSubscribed
  BY <1>1 DEF GivenMeansSubscribed
<1>4. PromiseInv
  BY <1>1, <1>2 DEF PromiseInv, Absent
<1> QED BY <1>3, <1>4 DEF GivenInv

LEMMA StepGiven ==
  ASSUME RebirthIsTold, SubscriptionsStay, TypeInv, GivenInv, [Next]_vars
  PROVE  GivenInv'
<1>1. ASSUME NEW n \in Names, setTuple(n) \/ deleteTuple(n)
      PROVE  GivenInv'
  <2>1. \A m \in net : WellFormed(m)
    BY DEF TypeInv, NetT
  <2>2. \E expired \in BOOLEAN : Store(n, expired, net)
    BY <1>1 DEF setTuple, deleteTuple
  <2>3. PICK expired \in BOOLEAN : Store(n, expired, net)
    BY <2>2
  <2>4. \A k \in net \ net : k.kind \notin Rare
    OBVIOUS
  <2> QED BY <2>1, <2>3, <2>4, StoreGiven
<1>2. ASSUME NEW n \in Names, appendTuple(n)
      PROVE  GivenInv'
  <2>1. /\ TypeInv' /\ (mishaps.oneSided => mishaps'.oneSided)
        /\ UNCHANGED <<own, subs, given, known, magic>>
        /\ net \subseteq net' /\ \A m \in net' \ net : m.kind = "append"
    BY <1>2, AppendSteps
  <2>2. NoneRarer
    BY <2>1 DEF NoneRarer, Rare
  <2> QED BY <2>1, <2>2, GivenKept
<1>3. ASSUME NEW n \in Names, NEW h \in Hosts, setRemoteTuple(h, n)
      PROVE  GivenInv'
  <2>1. TypeInv' /\ net \subseteq net' /\ \A m \in net' \ net : m.kind = "set"
    BY <1>3, SetRemoteType
  <2>2. UNCHANGED <<own, subs, given, known, magic, mishaps>>
    BY <1>3 DEF setRemoteTuple, hostVars
  <2>3. NoneRarer
    BY <2>1 DEF NoneRarer, Rare
  <2> QED BY <2>1, <2>2, <2>3, GivenKept
<1>4. ASSUME NEW h \in Hosts, NEW p \in Prototypes, subscribe(h, p)
      PROVE  GivenInv'
  BY <1>4, SubscribeGiven
<1>5. ASSUME NEW h \in Hosts, NEW p \in Prototypes, unsubscribe(h, p)
      PROVE  GivenInv'
  <2>1. /\ TypeInv'
        /\ own' = [own EXCEPT ![h] = @ \ {p}]
        /\ UNCHANGED <<writes, space, subs, given, failed, known, magic, mishaps>>
        /\ net \subseteq net' /\ \A m \in net' \ net : m.kind = "unsubscribe"
    BY <1>5, UnsubscribeSteps
  <2>2. \A x \in Hosts : own'[x] \subseteq own[x]
    BY <2>1 DEF TypeInv, OwnT
  <2>3. PromiseInv'
    <3>1. /\ Absent("dead") => Absent("dead")'
          /\ Absent("reborn") => Absent("reborn")'
      BY <2>1 DEF Absent
    <3>2. "unsubscribe" \in Uses
      BY <1>5 DEF unsubscribe
    <3> QED BY <2>1, <3>1, <3>2 DEF GivenInv, PromiseInv
  <2>4. GivenMeansSubscribed'
    <3> SUFFICES ASSUME ~ mishaps'.oneSided, NEW x \in Hosts, NEW g \in given'[x],
                        NEW q \in own'[x], Concerns(g, q)
                 PROVE  Served(x, g, q)'
      BY GivenIsNext
    <3>1. Served(x, g, q)
      BY <2>1, <2>2, GivenIs DEF GivenInv
    <3> QED BY <2>1, <3>1 DEF Served
  <2> QED BY <2>3, <2>4 DEF GivenInv
<1>6. ASSUME NEW h \in Hosts, NEW retransmit \in BOOLEAN, periodic_tuples(h, retransmit)
      PROVE  GivenInv'
  BY <1>6, PeriodicGiven
<1>7. ASSUME NEW h \in Hosts, periodic_expireTuples(h)
      PROVE  GivenInv'
  <2>1. TypeInv' /\ UNCHANGED <<own, subs, given, known, magic, net, mishaps>>
    BY <1>7, ExpireSteps
  <2>2. NoneRarer
    BY <2>1 DEF NoneRarer
  <2> QED BY <2>1, <2>2, GivenKept
<1>8. ASSUME NEW h \in Hosts, NEW how \in {"crash", "shutdown"}, restart(h, how)
      PROVE  GivenInv'
  BY <1>8, RestartGiven
<1>9. ASSUME NEW h \in Hosts, NEW g \in Hosts, hook_hostInfo(h, g)
      PROVE  GivenInv'
  BY <1>9, HostInfoGiven
<1>10. ASSUME NEW h \in Hosts, NEW g \in Hosts, loseHost(h, g)
       PROVE  GivenInv'
  <2>1. /\ mishaps'.oneSided /\ UNCHANGED magic
        /\ net \subseteq net' /\ \A m \in net' \ net : m.kind = "dead"
        /\ \A x \in Hosts : /\ DOMAIN known'[x] \subseteq DOMAIN known[x]
                            /\ \A y \in DOMAIN known'[x] : known'[x][y] = known[x][y]
    BY <1>10, LoseSteps
  <2>2. \A x \in Hosts : \A y \in DOMAIN known'[x] : known'[x][y] <= magic'[y]
    BY <2>1 DEF GivenInv, PromiseInv
  <2>3. "unsubscribe" \notin Uses => Absent("unsubscribe")'
    BY <2>1 DEF GivenInv, PromiseInv, Absent
  <2> QED BY <2>1, <2>2, <2>3, OneSidedGiven
<1>11. ASSUME NEW m \in net, Deliver(m)
       PROVE  GivenInv'
  BY <1>11, DeliverGiven
<1>12. ASSUME NEW m \in net, Confirm(m) \/ Vanish(m)
       PROVE  GivenInv'
  <2>1. /\ net' = net \ {m} /\ UNCHANGED <<writes, hostVars, mishaps>>
        /\ m.status # "owed" \/ m.kind = "dead"
    BY <1>12 DEF Confirm, Vanish
  <2>2. TypeInv'
    BY <2>1, RemoveType
  <2>3. UNCHANGED <<own, subs, given, known, magic, mishaps>>
    BY <2>1 DEF hostVars
  <2>4. \A k \in net : k.kind \in {"subscribe", "reborn"} /\ k.status = "owed" => k \in net'
    BY <2>1
  <2>5. NoneRarer
    BY <2>1 DEF NoneRarer
  <2> QED BY <2>2, <2>3, <2>4, <2>5, GivenKept
<1>13. ASSUME NEW m \in net, Fail(m)
       PROVE  GivenInv'
  BY <1>13, FailGiven
<1>14. CASE UNCHANGED vars
  <2>1. UNCHANGED <<own, subs, given, known, magic, mishaps, net>>
    BY <1>14 DEF vars, hostVars
  <2>2. TypeInv'
    BY StepType
  <2>3. NoneRarer
    BY <2>1 DEF NoneRarer
  <2> QED BY <2>1, <2>2, <2>3, GivenKept
<1> QED BY <1>1, <1>2, <1>3, <1>4, <1>5, <1>6, <1>7, <1>8, <1>9, <1>10, <1>11, <1>12, <1>13,
           <1>14 DEF Next

\* A host marked as given the subscriptions has them, is sent them, or was
\* reborn and this will be noticed or told (tuples.c:104-117), whatever fails,
\* is refused or crashes in any order: for programs that do not unsubscribe
\* from tuples with a MIME type, on hosts of which none is reborn or for which
\* ntohl() is the identity.
THEOREM GivenAlwaysServed ==
  ASSUME RebirthIsTold, SubscriptionsStay
  PROVE  Spec => []GivenMeansSubscribed
<1>1. Init => TypeInv /\ GivenInv
  BY InitType, InitGiven
<1>2. TypeInv /\ GivenInv /\ [Next]_vars => TypeInv' /\ GivenInv'
  BY StepType, StepGiven
<1>3. GivenInv => GivenMeansSubscribed
  BY DEF GivenInv
<1> QED BY <1>1, <1>2, <1>3, PTL DEF Spec

----------------------------------------------------------------------------
(* Numbers *)

\* The owner's value of n is replaced by a later one, or only appended to.
Grows(s, u, n) ==
  LET S == s[OwnerOf[n]]
      U == u[OwnerOf[n]] IN
  n \in DOMAIN S =>
    /\ n \in DOMAIN U
    /\ \/ U[n].seqno > S[n].seqno
       \/ /\ U[n].seqno = S[n].seqno
          /\ Head(U[n].data) = Head(S[n].data)
          /\ Range(S[n].data) \subseteq Range(U[n].data)

LEMMA SameGrows ==
  ASSUME NEW s \in Spaces, NEW u \in Spaces, NEW n \in Names,
         n \in DOMAIN s[OwnerOf[n]] =>
           n \in DOMAIN u[OwnerOf[n]] /\ u[OwnerOf[n]][n] = s[OwnerOf[n]][n]
  PROVE  Grows(s, u, n)
BY DEF Grows

LEMMA TupleNumbers ==
  ASSUME NEW s \in Spaces, NEW h \in Hosts, NEW n \in DOMAIN s[h]
  PROVE  n \in Names /\ s[h][n] \in Tuples /\ s[h][n].seqno \in Nat /\ s[h][n].data \in Seq(Nat)
<1>1. s[h] \in Partial(Names, Tuples)
  BY DEF Spaces
<1>2. n \in Names /\ s[h][n] \in Tuples
  BY <1>1, PartialIs
<1> QED BY <1>2 DEF Tuples

LEMMA FitsGrow ==
  ASSUME NEW s \in Spaces, NEW u \in Spaces, NEW n \in Names, NEW t \in Tuples,
         Grows(s, u, n), Fits(s, n, t)
  PROVE  Fits(u, n, t)
<1> DEFINE h == OwnerOf[n]
<1>1. h \in Hosts
  BY TuplespaceAssumption
<1>2. n \in DOMAIN s[h] /\ n \in DOMAIN u[h]
  BY DEF Fits, Grows
<1>3. s[h][n].seqno \in Nat /\ u[h][n].seqno \in Nat /\ t.seqno \in Nat
  <2>1. t.seqno \in Nat
    BY DEF Tuples
  <2> QED BY <1>1, <1>2, <2>1, TupleNumbers
<1>4. CASE u[h][n].seqno > s[h][n].seqno
  <2>1. t.seqno < u[h][n].seqno
    BY <1>3, <1>4 DEF Fits
  <2>2. t.seqno <= u[h][n].seqno /\ t.seqno # u[h][n].seqno
    BY <1>3, <2>1
  <2> QED BY <1>2, <2>2 DEF Fits
<1>5. CASE /\ u[h][n].seqno = s[h][n].seqno
           /\ Head(u[h][n].data) = Head(s[h][n].data)
           /\ Range(s[h][n].data) \subseteq Range(u[h][n].data)
  BY <1>2, <1>5 DEF Fits
<1> QED BY <1>2, <1>4, <1>5 DEF Grows

LEMMA AppendFitsGrow ==
  ASSUME NEW s \in Spaces, NEW u \in Spaces, NEW a \in AppendBodies,
         Grows(s, u, a.name), AppendFits(s, a)
  PROVE  AppendFits(u, a)
<1> DEFINE n == a.name
           h == OwnerOf[n]
<1>1. n \in Names /\ h \in Hosts /\ a.seqno \in Nat
  BY TuplespaceAssumption DEF AppendBodies
<1>2. n \in DOMAIN s[h] /\ n \in DOMAIN u[h]
  BY DEF AppendFits, Grows
<1>3. s[h][n].seqno \in Nat /\ u[h][n].seqno \in Nat
  BY <1>1, <1>2, TupleNumbers
<1>4. CASE u[h][n].seqno > s[h][n].seqno
  <2>1. a.seqno < u[h][n].seqno
    BY <1>1, <1>3, <1>4 DEF AppendFits
  <2>2. a.seqno <= u[h][n].seqno /\ a.seqno # u[h][n].seqno
    BY <1>1, <1>3, <2>1
  <2> QED BY <1>2, <2>2 DEF AppendFits
<1>5. CASE /\ u[h][n].seqno = s[h][n].seqno
           /\ Head(u[h][n].data) = Head(s[h][n].data)
           /\ Range(s[h][n].data) \subseteq Range(u[h][n].data)
  BY <1>2, <1>5 DEF AppendFits
<1> QED BY <1>2, <1>4, <1>5 DEF Grows

LEMMA MessageFitsGrow ==
  ASSUME NEW s \in Spaces, NEW u \in Spaces, NEW m, WellFormed(m),
         \A n \in Names : Grows(s, u, n), MessageFits(s, m)
  PROVE  MessageFits(u, m)
<1>1. ASSUME m.kind = "push"
      PROVE  Fits(u, m.body.name, m.body.tuple)
  <2>1. m.body.name \in Names /\ m.body.tuple \in Tuples
    BY <1>1 DEF WellFormed, PushBodies
  <2>2. Fits(s, m.body.name, m.body.tuple)
    BY <1>1 DEF MessageFits
  <2> QED BY <2>1, <2>2, FitsGrow
<1>2. ASSUME m.kind = "append"
      PROVE  AppendFits(u, m.body)
  <2>1. m.body \in AppendBodies /\ m.body.name \in Names
    BY <1>2 DEF WellFormed, AppendBodies
  <2>2. AppendFits(s, m.body)
    BY <1>2 DEF MessageFits
  <2> QED BY <2>1, <2>2, AppendFitsGrow
<1> QED BY <1>1, <1>2 DEF MessageFits

\* The owner's value fits itself.
LEMMA OwnFits ==
  ASSUME NEW s \in Spaces, NEW n \in Names, n \in DOMAIN s[OwnerOf[n]],
         ~ s[OwnerOf[n]][n].expired, s[OwnerOf[n]][n].data # <<>>
  PROVE  Fits(s, n, s[OwnerOf[n]][n])
<1>1. OwnerOf[n] \in Hosts
  BY TuplespaceAssumption
<1>2. s[OwnerOf[n]][n].seqno \in Nat
  BY <1>1, TupleNumbers
<1> QED BY <1>2 DEF Fits

LEMMA AppendedData ==
  ASSUME NEW d \in Seq(Nat), d # <<>>, NEW w \in Nat
  PROVE  /\ Append(d, w) # <<>>
         /\ Head(Append(d, w)) = Head(d)
         /\ Range(Append(d, w)) = Range(d) \cup {w}
<1>1. Len(d) \in Nat \ {0}
  BY EmptySeq, LenProperties
<1>2. /\ Append(d, w) \in Seq(Nat) /\ Len(Append(d, w)) = Len(d) + 1
      /\ \A i \in 1 .. Len(d) : Append(d, w)[i] = d[i]
      /\ Append(d, w)[Len(d) + 1] = w
  BY AppendProperties
<1>3. Append(d, w) # <<>>
  BY <1>1, <1>2
<1>4. Head(d) = d[1] /\ Head(Append(d, w)) = Append(d, w)[1]
  BY <1>3, HeadTailProperties
<1>5. DOMAIN d = 1 .. Len(d) /\ DOMAIN Append(d, w) = 1 .. (Len(d) + 1)
  BY <1>2
<1>6. \A i \in DOMAIN Append(d, w) : i \in DOMAIN d \/ i = Len(d) + 1
  BY <1>1, <1>5
<1>7. \A i \in DOMAIN d : i \in DOMAIN Append(d, w) /\ Append(d, w)[i] = d[i]
  BY <1>1, <1>2, <1>5
<1>8. Len(d) + 1 \in DOMAIN Append(d, w)
  BY <1>1, <1>5
<1>9. Range(Append(d, w)) = Range(d) \cup {w}
  BY <1>2, <1>6, <1>7, <1>8 DEF Range
<1> QED BY <1>1, <1>2, <1>3, <1>4, <1>9

\* A step after which every owner's value has grown, every other copy is one
\* that there was or fits, and so do the messages that are new.
LEMMA NumberKept ==
  ASSUME TypeInv, TypeInv', NumberInv,
         \A h \in Hosts : magic'[h] = 0 /\ \A g \in DOMAIN known'[h] : known'[h][g] = 0,
         \A n \in Names : Grows(space, space', n),
         \A h \in Hosts : \A n \in DOMAIN space'[h] :
            \/ n \in DOMAIN space[h] /\ space'[h][n] = space[h][n]
            \/ Fits(space', n, space'[h][n]),
         \A m \in net' : m \in net \/ MessageFits(space, m) \/ MessageFits(space', m)
  PROVE  NumberInv'
<1>1. space \in Spaces /\ space' \in Spaces
  BY DEF TypeInv, SpaceT, Spaces
<1>2. ASSUME NEW h \in Hosts, NEW n \in DOMAIN space'[h]
      PROVE  Fits(space', n, space'[h][n])
  <2>1. CASE n \in DOMAIN space[h] /\ space'[h][n] = space[h][n]
    <3>1. n \in Names /\ space[h][n] \in Tuples
      BY <1>1, <2>1, TupleNumbers
    <3>2. Fits(space, n, space[h][n])
      BY <2>1 DEF NumberInv, CopiesFit
    <3>3. Fits(space', n, space[h][n])
      BY <1>1, <3>1, <3>2, FitsGrow
    <3> QED BY <2>1, <3>3
  <2> QED BY <2>1
<1>3. ASSUME NEW m \in net'
      PROVE  MessageFits(space', m)
  <2>1. WellFormed(m)
    BY DEF TypeInv, NetT
  <2>2. CASE MessageFits(space, m)
    BY <1>1, <2>1, <2>2, MessageFitsGrow
  <2>3. CASE m \in net
    <3>1. MessageFits(space, m)
      BY <2>3 DEF NumberInv
    <3> QED BY <2>2, <3>1
  <2> QED BY <2>2, <2>3
<1> QED BY <1>2, <1>3 DEF NumberInv, CopiesFit

\* No peis restarts or loses another, and no tuple is deleted.
NobodyLeaves == Mishaps \cap {"lose", "crash", "shutdown"} = {} /\ "delete" \notin Uses

LEMMA SpacesNow ==
  ASSUME TypeInv, TypeInv'
  PROVE  space \in Spaces /\ space' \in Spaces
BY DEF TypeInv, SpaceT, Spaces

\* A step that leaves tuples and hosts alone.
LEMMA NumberQuiet ==
  ASSUME TypeInv, TypeInv', NumberInv, UNCHANGED <<space, known, magic>>,
         \A m \in net' : m \in net \/ MessageFits(space, m)
  PROVE  NumberInv'
<1>1. \A n \in Names : Grows(space, space', n)
  BY SpacesNow, SameGrows
<1>2. \A h \in Hosts : magic'[h] = 0 /\ \A g \in DOMAIN known'[h] : known'[h][g] = 0
  BY DEF NumberInv
<1> QED BY <1>1, <1>2, NumberKept

\* What a host pushes of its own tuples fits.
LEMMA PushFits ==
  ASSUME NEW s \in Spaces, NEW h \in Hosts, NEW P, Pushable(h, s[h], P), NEW x \in P,
         Fits(s, x[1], s[h][x[1]])
  PROVE  MessageFits(s, Push(h, x[1], x[2], s[h][x[1]]))
<1> DEFINE m == Push(h, x[1], x[2], s[h][x[1]])
<1>1. s[h] \in Partial(Names, Tuples)
  BY DEF Spaces
<1>2. m.kind = "push" /\ m.body.name = x[1] /\ m.body.tuple = s[h][x[1]]
  BY <1>1, PushedWellFormed
<1> HIDE DEF m
<1>3. MessageFits(s, m)
  BY <1>2 DEF MessageFits
<1> QED BY <1>3 DEF m

LEMMA StoreNumbers ==
  ASSUME TypeInv, NumberInv, NEW n \in Names, NEW M, \A k \in M : WellFormed(k),
         Store(n, FALSE, M), \A k \in M : MessageFits(space, k)
  PROVE  NumberInv'
<1> DEFINE h == OwnerOf[n]
           S == SpaceWith(n, FALSE)
           t == Value(n, FALSE)
           P == {n} \X Subscribers(h, n)
<1>1. /\ space' = [space EXCEPT ![h] = S]
      /\ UNCHANGED <<own, subs, given, known, magic>>
      /\ OnlyPushes(h, S, P, M)
  <2>1. FALSE \in BOOLEAN
    OBVIOUS
  <2> QED BY <2>1, StoreSteps
<1>2. TypeInv'
  <2>1. FALSE \in BOOLEAN
    OBVIOUS
  <2> QED BY <2>1, StoreType
<1>3. space \in Spaces /\ space' \in Spaces
  BY <1>2, SpacesNow
<1>4. /\ t \in Tuples /\ S \in Partial(Names, Tuples) /\ space[h] \in Partial(Names, Tuples)
      /\ h \in Hosts
  <2>1. FALSE \in BOOLEAN
    OBVIOUS
  <2> QED BY <2>1, ValueType
<1>5. t.seqno = 0 /\ ~ t.expired /\ t.data # <<>>
  <2>1. t.seqno = 0 /\ t.expired = FALSE /\ t.data = <<writes[n] + 1>>
    BY DEF Value
  <2>2. <<writes[n] + 1>> # <<>>
    OBVIOUS
  <2> HIDE DEF t
  <2> QED BY <2>1, <2>2
<1>6. S = addToLocalSpace(space[h], n, t)
  BY DEF SpaceWith
<1> HIDE DEF S, t
<1>7. /\ DOMAIN S = DOMAIN space[h] \cup {n}
      /\ \A m \in DOMAIN space[h] : m # n => S[m] = space[h][m]
  BY <1>4, <1>6, LocalSpaceType
<1>8. /\ ~ S[n].expired /\ S[n].data # <<>>
      /\ n \in DOMAIN space[h] => S[n].seqno > space[h][n].seqno
  <2> DEFINE u == S[n]
             k == space[h][n].seqno
  <2>1. u = addToLocalSpace(space[h], n, t)[n]
    BY <1>6
  <2> HIDE DEF u
  <2>2. /\ ~ (n \in DOMAIN space[h] /\ t.seqno = 0) => u = t
        /\ n \in DOMAIN space[h] /\ t.seqno = 0 =>
             u.seqno = k + 1 /\ u.data = t.data /\ u.expired = t.expired
    BY <1>4, <2>1, LocalSpaceValue
  <2>3. ~ u.expired /\ u.data # <<>>
    BY <1>5, <2>2
  <2>4. ASSUME n \in DOMAIN space[h]
        PROVE  u.seqno > k
    <3>1. k \in Nat
      BY <1>3, <1>4, <2>4, TupleNumbers
    <3>2. u.seqno = k + 1
      BY <1>5, <2>2, <2>4
    <3> HIDE DEF k
    <3> QED BY <3>1, <3>2
  <2> QED BY <2>3, <2>4 DEF u
<1>9. space'[h] = S /\ \A x \in Hosts : x # h => space'[x] = space[x]
  BY <1>1, <1>3, <1>4 DEF Spaces
<1>10. n \in DOMAIN space'[h] /\ space'[h][n] = S[n]
  BY <1>7, <1>9
<1>11. Fits(space', n, space'[h][n])
  BY <1>3, <1>8, <1>10, OwnFits
<1>12. ASSUME NEW k \in Names
       PROVE  Grows(space, space', k)
  <2>1. OwnerOf[k] \in Hosts
    BY TuplespaceAssumption
  <2>2. CASE k = n
    BY <1>8, <1>10, <2>2 DEF Grows
  <2>3. CASE k # n
    <3>1. k \in DOMAIN space[OwnerOf[k]] =>
            k \in DOMAIN space'[OwnerOf[k]] /\ space'[OwnerOf[k]][k] = space[OwnerOf[k]][k]
      <4> HIDE DEF h
      <4>1. CASE OwnerOf[k] = h
        BY <1>7, <1>9, <2>3, <4>1
      <4>2. CASE OwnerOf[k] # h
        BY <1>9, <2>1, <4>2
      <4> QED BY <4>1, <4>2
    <3> QED BY <1>3, <3>1, SameGrows
  <2> QED BY <2>2, <2>3
<1>13. ASSUME NEW x \in Hosts, NEW k \in DOMAIN space'[x]
       PROVE  \/ k \in DOMAIN space[x] /\ space'[x][k] = space[x][k]
              \/ Fits(space', k, space'[x][k])
  <2>1. CASE x # h
    BY <1>9, <2>1
  <2>2. CASE x = h /\ k = n
    BY <1>11, <2>2
  <2>3. CASE x = h /\ k # n
    BY <1>7, <1>9, <2>3
  <2> QED BY <2>1, <2>2, <2>3
<1>14. Pushable(h, S, P)
  BY <1>7, SubscribersPushable
<1>15. ASSUME NEW m \in net'
       PROVE  MessageFits(space, m) \/ MessageFits(space', m)
  <2>1. CASE m \in M
    BY <2>1
  <2>2. CASE \E x \in P : m = Push(h, x[1], x[2], S[x[1]])
    <3>1. PICK x \in P : m = Push(h, x[1], x[2], S[x[1]])
      BY <2>2
    <3>2. x[1] = n
      OBVIOUS
    <3> HIDE DEF P
    <3>3. MessageFits(space', Push(h, x[1], x[2], space'[h][x[1]]))
      BY <1>3, <1>4, <1>9, <1>11, <1>14, <3>2, PushFits
    <3> QED BY <1>9, <3>1, <3>3
  <2> QED BY <1>1, <2>1, <2>2 DEF OnlyPushes
<1>16. \A x \in Hosts : magic'[x] = 0 /\ \A g \in DOMAIN known'[x] : known'[x][g] = 0
  BY <1>1 DEF NumberInv
<1> QED BY <1>2, <1>12, <1>13, <1>15, <1>16, NumberKept

\* A host x gets tuple n, of another, or something is appended to it.
LEMMA CopyNumbers ==
  ASSUME TypeInv, TypeInv', NumberInv, UNCHANGED <<known, magic>>,
         NEW n \in Names, NEW x \in Hosts, x # OwnerOf[n],
         NEW S, DOMAIN S = DOMAIN space[x] \cup {n},
         \A k \in DOMAIN space[x] : k # n => S[k] = space[x][k],
         space' = [space EXCEPT ![x] = S],
         Fits(space, n, S[n]),
         \A m \in net' : m \in net \/ MessageFits(space, m)
  PROVE  NumberInv'
<1>1. space \in Spaces /\ space' \in Spaces
  BY SpacesNow
<1>2. space'[x] = S /\ \A y \in Hosts : y # x => space'[y] = space[y]
  BY <1>1 DEF Spaces
<1>3. ASSUME NEW k \in Names
      PROVE  Grows(space, space', k)
  <2>1. k \in DOMAIN space[OwnerOf[k]] =>
          k \in DOMAIN space'[OwnerOf[k]] /\ space'[OwnerOf[k]][k] = space[OwnerOf[k]][k]
    <3>1. OwnerOf[k] \in Hosts
      BY TuplespaceAssumption
    <3>2. CASE OwnerOf[k] = x
      <4>1. k # n
        BY <3>2
      <4> QED BY <1>2, <3>2, <4>1
    <3>3. CASE OwnerOf[k] # x
      BY <1>2, <3>1, <3>3
    <3> QED BY <3>2, <3>3
  <2> QED BY <1>1, <2>1, SameGrows
<1>4. n \in DOMAIN space'[x] /\ space'[x][n] = S[n]
  BY <1>2
<1>5. Fits(space', n, space'[x][n])
  <2>1. S[n] \in Tuples
    BY <1>1, <1>4, TupleNumbers
  <2> QED BY <1>1, <1>3, <1>4, <2>1, FitsGrow
<1>6. ASSUME NEW y \in Hosts, NEW k \in DOMAIN space'[y]
      PROVE  \/ k \in DOMAIN space[y] /\ space'[y][k] = space[y][k]
             \/ Fits(space', k, space'[y][k])
  <2>1. CASE y # x
    BY <1>2, <2>1
  <2>2. CASE y = x /\ k = n
    BY <1>5, <2>2
  <2>3. CASE y = x /\ k # n
    BY <1>2, <2>3
  <2> QED BY <2>1, <2>2, <2>3
<1>7. \A y \in Hosts : magic'[y] = 0 /\ \A g \in DOMAIN known'[y] : known'[y][g] = 0
  BY DEF NumberInv
<1> QED BY <1>3, <1>6, <1>7, NumberKept

LEMMA PushNumbers ==
  ASSUME TypeInv, NumberInv, NEW m \in net, NEW M \in Rest(m), hook_pushTuple(m, M),
         UNCHANGED mishaps, \A k \in M : MessageFits(space, k)
  PROVE  NumberInv'
<1> DEFINE n == m.body.name
           t == m.body.tuple
           x == m.to
<1>1. WellFormed(m) /\ \A k \in M : WellFormed(k)
  BY RestIs
<1>2. /\ TypeInv'
      /\ net' = M
      /\ UNCHANGED <<writes, own, subs, given, failed, known, magic>>
      /\ m.kind = "push" /\ x \in Hosts /\ n \in Names /\ t \in Tuples
      /\ OwnerOf[n] = m.from
      /\ space' = IF Takes(x, n, t) THEN [space EXCEPT ![x] = addToLocalSpace(space[x], n, t)]
                  ELSE space
  BY <1>1, PushArrives
<1>3. x # OwnerOf[n]
  BY <1>1, <1>2 DEF WellFormed
<1>4. \A k \in net' : k \in net \/ MessageFits(space, k)
  BY <1>2
<1>5. CASE ~ Takes(x, n, t)
  BY <1>2, <1>4, <1>5, NumberQuiet
<1>6. CASE Takes(x, n, t)
  <2> DEFINE S == addToLocalSpace(space[x], n, t)
  <2>1. space[x] \in Partial(Names, Tuples)
    BY <1>2 DEF TypeInv, SpaceT
  <2>2. /\ DOMAIN S = DOMAIN space[x] \cup {n}
        /\ \A k \in DOMAIN space[x] : k # n => S[k] = space[x][k]
        /\ ~ (n \in DOMAIN space[x] /\ t.seqno = 0) => S[n] = t
    <3> DEFINE s == space[x]
               u == S[n]
    <3>1. s \in Partial(Names, Tuples) /\ S = addToLocalSpace(s, n, t)
      BY <2>1
    <3> HIDE DEF s, S, n, t, x
    <3>2. /\ DOMAIN S = DOMAIN s \cup {n}
          /\ \A k \in DOMAIN s : k # n => S[k] = s[k]
      BY <1>2, <3>1, LocalSpaceType
    <3>3. ~ (n \in DOMAIN s /\ t.seqno = 0) => S[n] = t
      BY <1>2, <3>1, LocalSpaceValue
    <3> QED BY <3>2, <3>3 DEF s
  <2>3. ~ (n \in DOMAIN space[x] /\ t.seqno = 0)
    <3> SUFFICES ASSUME n \in DOMAIN space[x]
                 PROVE  t.seqno # 0
      OBVIOUS
    <3>1. ~ space[x][n].expired
      BY <1>2 DEF NumberInv, CopiesFit, Fits
    <3>2. space[x][n].seqno < t.seqno
      BY <1>6, <3>1 DEF Takes, Found
    <3>3. space[x][n].seqno \in Nat /\ t.seqno \in Nat
      <4>1. space[x][n] \in Tuples
        BY <2>1, PartialIs
      <4> QED BY <1>2, <4>1 DEF Tuples
    <3> QED BY <3>2, <3>3
  <2>4. space' = [space EXCEPT ![x] = S]
    BY <1>2, <1>6
  <2>5. Fits(space, n, S[n])
    <3>1. Fits(space, n, t)
      BY <1>2 DEF NumberInv, MessageFits
    <3> QED BY <2>2, <2>3, <3>1
  <2> HIDE DEF S
  <2> HIDE DEF n, t, x
  <2> QED BY <1>2, <1>3, <1>4, <2>2, <2>4, <2>5, CopyNumbers
<1> QED BY <1>5, <1>6

LEMMA AppendArrivesNumbers ==
  ASSUME TypeInv, NumberInv, NEW m \in net, NEW M \in Rest(m), hook_pushAppendedTuple(m, M),
         UNCHANGED mishaps, \A k \in M : MessageFits(space, k)
  PROVE  NumberInv'
<1> DEFINE n == m.body.name
           w == m.body.diff
           x == m.to
           g == OwnerOf[n]
<1>1. WellFormed(m) /\ \A k \in M : WellFormed(k)
  BY RestIs
<1>2. /\ TypeInv'
      /\ net' = M
      /\ UNCHANGED <<writes, own, subs, given, failed, known, magic>>
      /\ m.kind = "append" /\ x \in Hosts /\ m.body \in AppendBodies
      /\ g = m.from /\ m.from # x
      /\ space' = IF Belongs(x, n, m.body.seqno) THEN [space EXCEPT ![x] = Appended(space[x], n, w)]
                  ELSE space
  BY <1>1, AppendArrives
<1>3. n \in Names /\ w \in Nat /\ g \in Hosts
  BY <1>2, TuplespaceAssumption DEF AppendBodies
<1>4. \A k \in net' : k \in net \/ MessageFits(space, k)
  BY <1>2
<1>5. CASE ~ Belongs(x, n, m.body.seqno)
  BY <1>2, <1>4, <1>5, NumberQuiet
<1>6. CASE Belongs(x, n, m.body.seqno)
  <2> DEFINE S == Appended(space[x], n, w)
             old == space[x][n]
  <2>1. space[x] \in Partial(Names, Tuples) /\ n \in DOMAIN space[x] /\ old.seqno = m.body.seqno
    BY <1>2, <1>6 DEF TypeInv, SpaceT, Belongs
  <2>2. /\ DOMAIN S = DOMAIN space[x]
        /\ \A k \in DOMAIN space[x] : k # n => S[k] = space[x][k]
        /\ S[n].seqno = old.seqno /\ S[n].expired = old.expired
        /\ S[n].data = Append(old.data, w)
    BY <1>3, <2>1, AppendedType
  <2>3. space' = [space EXCEPT ![x] = S]
    BY <1>2, <1>6
  <2>4. Fits(space, n, old)
    BY <1>2, <2>1 DEF NumberInv, CopiesFit
  <2>5. old.data \in Seq(Nat) /\ old.data # <<>>
    <3>1. old \in Tuples
      BY <2>1, PartialIs
    <3> QED BY <2>4, <3>1 DEF Tuples, Fits
  <2>6. /\ S[n].data # <<>>
        /\ Head(S[n].data) = Head(old.data)
        /\ Range(S[n].data) = Range(old.data) \cup {w}
    BY <1>3, <2>2, <2>5, AppendedData
  <2>7. AppendFits(space, m.body)
    BY <1>2 DEF NumberInv, MessageFits
  <2>8. Fits(space, n, S[n])
    <3> HIDE DEF S
    <3>1. S[n].seqno = space[g][n].seqno => w \in Range(space[g][n].data)
      BY <2>1, <2>2, <2>7 DEF AppendFits
    <3> QED BY <2>2, <2>4, <2>6, <3>1 DEF Fits
  <2>9. DOMAIN S = DOMAIN space[x] \cup {n}
    BY <2>1, <2>2
  <2> HIDE DEF S
  <2>10. x # OwnerOf[n]
    BY <1>2
  <2> HIDE DEF n, w, x
  <2> QED BY <1>2, <1>3, <1>4, <2>2, <2>3, <2>8, <2>9, <2>10, CopyNumbers
<1> QED BY <1>5, <1>6

\* The owner appends to its own value.
LEMMA AppendNumbers ==
  ASSUME TypeInv, NumberInv, NEW n \in Names, appendTuple(n)
  PROVE  NumberInv'
<1> DEFINE h == OwnerOf[n]
           w == writes[n] + 1
           S == Appended(space[h], n, w)
           old == space[h][n]
           b == [name |-> n, seqno |-> old.seqno, diff |-> w]
<1>1. /\ TypeInv'
      /\ n \in DOMAIN space[h]
      /\ space' = [space EXCEPT ![h] = S]
      /\ UNCHANGED <<own, subs, given, known, magic>>
      /\ \A m \in net' \ net : m.kind = "append" /\ m.body = b
  BY AppendSteps
<1>2. space \in Spaces /\ space' \in Spaces
  BY <1>1, SpacesNow
<1>3. h \in Hosts /\ w \in Nat
  <2>1. h \in Hosts /\ writes[n] \in Nat
    BY TuplespaceAssumption DEF TypeInv, WritesT
  <2> QED BY <2>1
<1>4. b.name = n /\ b.seqno = old.seqno /\ b.diff = w
  OBVIOUS
<1> HIDE DEF w, b
<1>5. space[h] \in Partial(Names, Tuples)
  BY <1>2, <1>3 DEF Spaces
<1>6. /\ DOMAIN S = DOMAIN space[h]
      /\ \A k \in DOMAIN space[h] : k # n => S[k] = space[h][k]
      /\ S[n].seqno = old.seqno /\ S[n].expired = old.expired
      /\ S[n].data = Append(old.data, w)
  BY <1>1, <1>3, <1>5, AppendedType
<1> HIDE DEF S
<1>7. Fits(space, n, old)
  BY <1>1, <1>3 DEF NumberInv, CopiesFit
<1>8. old.data \in Seq(Nat) /\ old.seqno \in Nat /\ old.data # <<>> /\ ~ old.expired
  BY <1>1, <1>2, <1>3, <1>7, TupleNumbers DEF Fits
<1>9. /\ S[n].data # <<>>
      /\ Head(S[n].data) = Head(old.data)
      /\ Range(S[n].data) = Range(old.data) \cup {w}
  BY <1>3, <1>6, <1>8, AppendedData
<1>10. space'[h] = S /\ \A x \in Hosts : x # h => space'[x] = space[x]
  BY <1>1, <1>2, <1>3 DEF Spaces
<1>11. n \in DOMAIN space'[h] /\ space'[h][n] = S[n]
  BY <1>1, <1>6, <1>10
<1>12. Fits(space', n, space'[h][n])
  BY <1>2, <1>6, <1>8, <1>9, <1>11, OwnFits
<1>13. ASSUME NEW k \in Names
       PROVE  Grows(space, space', k)
  <2>1. OwnerOf[k] \in Hosts
    BY TuplespaceAssumption
  <2>2. CASE k = n
    BY <1>6, <1>9, <1>11, <2>2 DEF Grows
  <2>3. CASE k # n
    <3>1. k \in DOMAIN space[OwnerOf[k]] =>
            k \in DOMAIN space'[OwnerOf[k]] /\ space'[OwnerOf[k]][k] = space[OwnerOf[k]][k]
      <4> HIDE DEF h
      <4>1. CASE OwnerOf[k] = h
        BY <1>6, <1>10, <2>3, <4>1
      <4>2. CASE OwnerOf[k] # h
        BY <1>10, <2>1, <4>2
      <4> QED BY <4>1, <4>2
    <3> QED BY <1>2, <3>1, SameGrows
  <2> QED BY <2>2, <2>3
<1>14. ASSUME NEW x \in Hosts, NEW k \in DOMAIN space'[x]
       PROVE  \/ k \in DOMAIN space[x] /\ space'[x][k] = space[x][k]
              \/ Fits(space', k, space'[x][k])
  <2>1. CASE x # h
    BY <1>10, <2>1
  <2>2. CASE x = h /\ k = n
    BY <1>12, <2>2
  <2>3. CASE x = h /\ k # n
    BY <1>6, <1>10, <2>3
  <2> QED BY <2>1, <2>2, <2>3
<1>15. ASSUME NEW m \in net'
       PROVE  m \in net \/ MessageFits(space', m)
  <2> SUFFICES ASSUME m \notin net
               PROVE  MessageFits(space', m)
    OBVIOUS
  <2>1. m.kind = "append" /\ m.body = b
    BY <1>1
  <2>2. AppendFits(space', b)
    <3>1. space'[h][n].seqno = old.seqno /\ w \in Range(space'[h][n].data)
      <4>1. w \in Range(S[n].data)
        BY <1>9
      <4> QED BY <1>6, <1>11, <4>1
    <3>4. \A k \in Nat : k <= k
      OBVIOUS
    <3>5. old.seqno <= old.seqno
      BY <1>8, <3>4
    <3>2. OwnerOf[b.name] = h /\ b.name \in DOMAIN space'[h]
      BY <1>4, <1>11
    <3>3. b.seqno <= space'[h][b.name].seqno /\ b.diff \in Range(space'[h][b.name].data)
      BY <1>4, <3>1, <3>5
    <3> HIDE DEF h
    <3> QED BY <3>2, <3>3 DEF AppendFits
  <2> QED BY <2>1, <2>2 DEF MessageFits
<1>16. \A x \in Hosts : magic'[x] = 0 /\ \A g \in DOMAIN known'[x] : known'[x][g] = 0
  BY <1>1 DEF NumberInv
<1> QED BY <1>1, <1>13, <1>14, <1>15, <1>16, NumberKept

LEMMA SubscriptionNumbers ==
  ASSUME TypeInv, NumberInv, NEW m \in net, NEW M \in Rest(m), hook_subscribe(m, M),
         \A k \in M : MessageFits(space, k)
  PROVE  NumberInv'
<1> DEFINE h == m.to
           P == Covered(m.to, m.body, m.from)
<1>1. WellFormed(m) /\ \A k \in M : WellFormed(k)
  BY RestIs
<1>2. /\ TypeInv'
      /\ UNCHANGED <<writes, space, own, given, known, magic>>
      /\ h \in Hosts
      /\ Pushable(h, space[h], P)
      /\ OnlyPushes(h, space[h], P, M)
  BY <1>1, SubscriptionArrives
<1> HIDE DEF h, P
<1>3. space \in Spaces
  BY <1>2, SpacesNow
<1>4. ASSUME NEW k \in net'
      PROVE  MessageFits(space, k)
  <2>1. CASE \E x \in P : k = Push(h, x[1], x[2], space[h][x[1]])
    <3>1. PICK x \in P : k = Push(h, x[1], x[2], space[h][x[1]])
      BY <2>1
    <3>2. x[1] \in DOMAIN space[h]
      BY <1>2 DEF Pushable
    <3>3. Fits(space, x[1], space[h][x[1]])
      BY <1>2, <3>2 DEF NumberInv, CopiesFit
    <3>4. MessageFits(space, Push(h, x[1], x[2], space[h][x[1]]))
      BY <1>2, <1>3, <3>3, PushFits
    <3> QED BY <3>1, <3>4
  <2> QED BY <1>2, <2>1 DEF OnlyPushes
<1> QED BY <1>2, <1>4, NumberQuiet

LEMMA DeliverNumbers ==
  ASSUME TypeInv, NumberInv, NEW m \in net, Deliver(m)
  PROVE  NumberInv'
<1>1. PICK M \in Rest(m) : Handle(m, M)
  BY DeliverHandles
<1>2. /\ WellFormed(m) /\ \A k \in M : WellFormed(k)
      /\ \A k \in M \ net : k.kind = m.kind /\ k.body = m.body
  BY RestIs
<1>3. ASSUME NEW k \in M
      PROVE  MessageFits(space, k)
  <2>1. MessageFits(space, m)
    BY DEF NumberInv
  <2>2. k \in net => MessageFits(space, k)
    BY DEF NumberInv
  <2> QED BY <1>2, <2>1, <2>2 DEF MessageFits
<1>4. CASE hook_subscribe(m, M)
  BY <1>3, <1>4, SubscriptionNumbers
<1>5. CASE hook_setTuple(m, M)
  <2>1. m.body \in Names /\ Store(m.body, FALSE, M)
    BY <1>2, <1>5, SetArrives
  <2> QED BY <1>2, <1>3, <2>1, StoreNumbers
<1>6. CASE hook_pushTuple(m, M) /\ UNCHANGED mishaps
  BY <1>3, <1>6, PushNumbers
<1>7. CASE hook_pushAppendedTuple(m, M) /\ UNCHANGED mishaps
  BY <1>3, <1>7, AppendArrivesNumbers
<1>8. CASE hook_unsubscribe(m, M) /\ UNCHANGED mishaps
  <2>1. TypeInv' /\ net' = M /\ UNCHANGED <<space, known, magic>>
    BY <1>2, <1>8, UnsubscribeArrives
  <2> QED BY <1>3, <2>1, NumberQuiet
<1>9. CASE hook_deadHost(m, M) \/ hook_rebornHost(m, M)
  <2>1. m.kind \in {"dead", "reborn"}
    BY <1>9 DEF hook_deadHost, hook_rebornHost
  <2> QED BY <2>1 DEF NumberInv, MessageFits
<1> QED BY <1>1, <1>4, <1>5, <1>6, <1>7, <1>8, <1>9 DEF Handle

LEMMA InitNumbers ==
  ASSUME Init
  PROVE  NumberInv
<1>1. /\ space = [h \in Hosts |-> Empty] /\ net = {} /\ magic = [h \in Hosts |-> 0]
      /\ known = [h \in Hosts |-> [g \in Hosts \ {h} |-> 0]]
  BY DEF Init
<1>2. CopiesFit
  BY <1>1, EmptyPartial DEF CopiesFit
<1> QED BY <1>1, <1>2 DEF NumberInv

LEMMA StepNumbers ==
  ASSUME NobodyLeaves, TypeInv, NumberInv, [Next]_vars
  PROVE  NumberInv'
<1>1. TypeInv'
  BY StepType
<1>2. \A m \in net : MessageFits(space, m) /\ WellFormed(m)
  BY DEF NumberInv, TypeInv, NetT
<1>3. ASSUME NEW n \in Names, setTuple(n)
      PROVE  NumberInv'
  BY <1>2, <1>3, StoreNumbers DEF setTuple
<1>4. ASSUME NEW n \in Names, deleteTuple(n)
      PROVE  NumberInv'
  BY <1>4 DEF deleteTuple, NobodyLeaves
<1>5. ASSUME NEW n \in Names, appendTuple(n)
      PROVE  NumberInv'
  BY <1>5, AppendNumbers
<1>6. ASSUME NEW n \in Names, NEW h \in Hosts, setRemoteTuple(h, n)
      PROVE  NumberInv'
  <2>1. UNCHANGED <<space, known, magic>>
    BY <1>6 DEF setRemoteTuple, hostVars
  <2>2. \A m \in net' : m \in net \/ m.kind = "set"
    BY <1>6, SetRemoteType
  <2>3. \A m \in net' : m \in net \/ MessageFits(space, m)
    BY <2>2 DEF MessageFits
  <2> QED BY <1>1, <2>1, <2>3, NumberQuiet
<1>7. ASSUME NEW h \in Hosts, NEW p \in Prototypes, subscribe(h, p)
      PROVE  NumberInv'
  <2>1. UNCHANGED <<space, known, magic>> /\ \A m \in net' : m \in net \/ m.kind = "subscribe"
    BY <1>7, SubscribeSteps
  <2>2. \A m \in net' : m \in net \/ MessageFits(space, m)
    BY <2>1 DEF MessageFits
  <2> QED BY <1>1, <2>1, <2>2, NumberQuiet
<1>8. ASSUME NEW h \in Hosts, NEW p \in Prototypes, unsubscribe(h, p)
      PROVE  NumberInv'
  <2>1. UNCHANGED <<space, known, magic>> /\ \A m \in net' : m \in net \/ m.kind = "unsubscribe"
    BY <1>8, UnsubscribeSteps
  <2>2. \A m \in net' : m \in net \/ MessageFits(space, m)
    BY <2>1 DEF MessageFits
  <2> QED BY <1>1, <2>1, <2>2, NumberQuiet
<1>9. ASSUME NEW h \in Hosts, NEW retransmit \in BOOLEAN, periodic_tuples(h, retransmit)
      PROVE  NumberInv'
  <2>1. /\ UNCHANGED <<space, known, magic>>
        /\ \A m \in net' \ net : \/ m.kind = "subscribe"
                                 \/ /\ m.kind = "push" /\ m.from = h /\ Found(h, m.body.name)
                                    /\ m.body.tuple = space[h][m.body.name]
    BY <1>9, PeriodicSteps
  <2>2. \A m \in net' : m \in net \/ MessageFits(space, m)
    BY <2>1 DEF MessageFits, NumberInv, CopiesFit, Found
  <2> QED BY <1>1, <2>1, <2>2, NumberQuiet
<1>10. ASSUME NEW h \in Hosts, periodic_expireTuples(h)
       PROVE  NumberInv'
  <2>1. /\ UNCHANGED <<writes, own, subs, given, failed, known, magic, net, mishaps>>
        /\ \A g \in Hosts \ {h} : space'[g] = space[g]
        /\ DOMAIN space'[h] = {n \in DOMAIN space[h] : ~ space[h][n].expired}
        /\ \A n \in DOMAIN space'[h] : space'[h][n] = space[h][n]
    BY <1>10, ExpireSteps
  <2>2. \A n \in DOMAIN space[h] : ~ space[h][n].expired
    BY DEF NumberInv, CopiesFit, Fits
  <2>3. DOMAIN space'[h] = DOMAIN space[h]
    BY <2>1, <2>2
  <2>4. \A g \in Hosts : /\ DOMAIN space'[g] = DOMAIN space[g]
                         /\ \A n \in DOMAIN space[g] : space'[g][n] = space[g][n]
    BY <2>1, <2>3
  <2>5. \A n \in Names : Grows(space, space', n)
    <3> SUFFICES ASSUME NEW n \in Names
                 PROVE  Grows(space, space', n)
      OBVIOUS
    <3>1. OwnerOf[n] \in Hosts
      BY TuplespaceAssumption
    <3> QED BY <1>1, <2>4, <3>1, SpacesNow, SameGrows
  <2>6. \A g \in Hosts : magic'[g] = 0 /\ \A x \in DOMAIN known'[g] : known'[g][x] = 0
    BY <2>1 DEF NumberInv
  <2>7. \A g \in Hosts : \A n \in DOMAIN space'[g] : n \in DOMAIN space[g] /\ space'[g][n] = space[g][n]
    BY <2>4
  <2> QED BY <1>1, <2>1, <2>5, <2>6, <2>7, NumberKept
<1>11. ASSUME NEW h \in Hosts, NEW how \in {"crash", "shutdown"}, restart(h, how)
       PROVE  NumberInv'
  BY <1>11, RestartSteps DEF NobodyLeaves
<1>12. ASSUME NEW h \in Hosts, NEW g \in Hosts, hook_hostInfo(h, g)
       PROVE  NumberInv'
  <2>1. /\ UNCHANGED magic
        /\ \A x \in Hosts \ {h} : known'[x] = known[x]
        /\ DOMAIN known'[h] = DOMAIN known[h] \cup {g}
        /\ known'[h][g] = magic[g]
        /\ \A x \in DOMAIN known[h] : x # g => known'[h][x] = known[h][x]
        /\ ~ (g \in DOMAIN known[h] /\ known[h][g] # magic[g]) =>
             UNCHANGED <<writes, space, subs, given, net>>
    BY <1>12, HostInfoSteps
  <2>2. UNCHANGED <<space, net>>
    BY <2>1 DEF NumberInv
  <2>3. \A x \in Hosts : magic'[x] = 0 /\ \A y \in DOMAIN known'[x] : known'[x][y] = 0
    <3> SUFFICES ASSUME NEW x \in Hosts, NEW y \in DOMAIN known'[x]
                 PROVE  known'[x][y] = 0
      BY <2>1 DEF NumberInv
    <3>1. CASE x # h
      BY <2>1, <3>1 DEF NumberInv
    <3>2. CASE x = h /\ y = g
      BY <2>1, <3>2 DEF NumberInv
    <3>3. CASE x = h /\ y # g
      BY <2>1, <3>3 DEF NumberInv
    <3> QED BY <3>1, <3>2, <3>3
  <2>4. \A n \in Names : Grows(space, space', n)
    BY <1>1, <2>2, SpacesNow, SameGrows
  <2> QED BY <1>1, <2>2, <2>3, <2>4, NumberKept
<1>13. ASSUME NEW h \in Hosts, NEW g \in Hosts, loseHost(h, g)
       PROVE  NumberInv'
  BY <1>13, LoseSteps DEF NobodyLeaves
<1>14. ASSUME NEW m \in net, Deliver(m)
       PROVE  NumberInv'
  BY <1>14, DeliverNumbers
<1>15. ASSUME NEW m \in net, Confirm(m) \/ Vanish(m)
       PROVE  NumberInv'
  <2>1. UNCHANGED <<space, known, magic>> /\ \A k \in net' : k \in net
    BY <1>15 DEF Confirm, Vanish, hostVars
  <2> QED BY <1>1, <2>1, NumberQuiet
<1>16. ASSUME NEW m \in net, Fail(m)
       PROVE  NumberInv'
  <2>1. UNCHANGED <<space, known, magic>> /\ \A k \in net' \ net : Resent(m, k)
    BY <1>16, FailSteps
  <2>2. m.from \in Hosts
    BY <1>2 DEF WellFormed, MessageType
  <2>3. \A k \in net' : k \in net \/ MessageFits(space, k)
    BY <1>2, <2>1, <2>2 DEF Resent, MessageFits, NumberInv, CopiesFit, Found
  <2> QED BY <1>1, <2>1, <2>3, NumberQuiet
<1>17. CASE UNCHANGED vars
  <2>1. UNCHANGED <<space, known, magic, net>>
    BY <1>17 DEF vars, hostVars
  <2> QED BY <1>1, <2>1, NumberQuiet
<1> QED BY <1>3, <1>4, <1>5, <1>6, <1>7, <1>8, <1>9, <1>10, <1>11, <1>12, <1>13,
           <1>14, <1>15, <1>16, <1>17 DEF Next

\* A copy with the owner's number has its value, and nothing was appended to it
\* that the owner's does not hold, whatever is refused, fails, is repeated or
\* comes late: as long as no peis restarts or is taken for lost and no tuple is
\* deleted, after which an owner numbers from zero again (tuples.c:409) and a
\* copy that expired is renumbered by a late push (tuples.c:434).
THEOREM NumbersNameValues ==
  ASSUME NobodyLeaves
  PROVE  Spec => []SameNumberSameValue
<1>1. Init => TypeInv /\ NumberInv
  BY InitType, InitNumbers
<1>2. TypeInv /\ NumberInv /\ [Next]_vars => TypeInv' /\ NumberInv'
  BY StepType, StepNumbers
<1>3. TypeInv /\ NumberInv => SameNumberSameValue
  <2> SUFFICES ASSUME NumberInv, NEW n \in Names, NEW h \in Hosts,
                      Found(h, n), Found(OwnerOf[n], n),
                      space[h][n].seqno = space[OwnerOf[n]][n].seqno
               PROVE  /\ Holds(h, n) = Holds(OwnerOf[n], n)
                      /\ Range(space[h][n].data) \subseteq Range(space[OwnerOf[n]][n].data)
    BY DEF SameNumberSameValue
  <2>1. Fits(space, n, space[h][n])
    BY DEF NumberInv, CopiesFit, Found
  <2> QED BY <2>1 DEF Fits, Holds
<1> QED BY <1>1, <1>2, <1>3, PTL DEF Spec
=============================================================================
