------------------- MODULE ReliableTransfer_service_proofs -------------------
(***************************************************************************)
(* What ReliableTransfer guarantees its users and its pool, on top of the  *)
(* invariant of ReliableTransfer_proofs: no accepted message is forgotten, *)
(* only refusals leak, messages arrive once, and every step is a step of   *)
(* MessageService.                                                         *)
(***************************************************************************)
EXTENDS ReliableTransfer_proofs, FiniteSetTheorems

----------------------------------------------------------------------------
(* What the steps do to the structures in use *)

\* Structures G leave the lists for the free list, and the hooks of the
\* messages of D are called: all of G that could still have been acknowledged.
Released(G, D, v) ==
  /\ G \subseteq InUse /\ D \subseteq G
  /\ InUse' = InUse \ G
  /\ Release(G) /\ Answer(Carried(D), v)
  /\ UNCHANGED <<fresh, result>>
  /\ \A p \in G \ D : message[p] \notin Reliable

\* No list grows.
Shrinking == \A c \in Conns : Held(c)' \subseteq Held(c)

LEMMA HeldIs ==
  \A c, p : p \in Held(c) <=> p \in pending[c] \/ \E q \in Queues : p \in Elems(fifo[c][q])
  BY DEF Held, Queued

LEMMA HeldIsNext ==
  \A c, p : p \in Held(c)' <=> p \in pending'[c] \/ \E q \in Queues : p \in Elems(fifo'[c][q])
  BY DEF Held, Queued

\* The structures of a connection that others do not touch leave use.
LEMMA InUseWithout ==
  ASSUME IInv, NEW G \in SUBSET InUse, Shrinking,
         \A c \in Conns : \A p \in Held(c) : p \in G \/ p \in Held(c)',
         \A p \in G : p \notin InUse'
  PROVE  InUse' = InUse \ G
<1>1. \A p : p \in InUse <=> \E c \in Conns : p \in Held(c)
  BY DEF InUse
<1>2. \A p : p \in InUse' <=> \E c \in Conns : p \in Held(c)'
  BY DEF InUse
<1> QED BY <1>1, <1>2 DEF Shrinking

\* A queue is its first n elements and the rest.
LEMMA SplitQueue ==
  ASSUME NEW S, NEW s \in Seq(S), NEW n \in 0 .. Len(s)
  PROVE  Elems(s) = {s[i] : i \in 1 .. n} \cup Elems(SubSeq(s, n + 1, Len(s)))
<1> DEFINE t == SubSeq(s, n + 1, Len(s))
<1>1. /\ DOMAIN t = 1 .. Len(s) - n
      /\ \A i \in DOMAIN t : t[i] = s[n + i] /\ n + i \in DOMAIN s
  BY SuffixElems
<1>2. DOMAIN s = 1 .. Len(s) /\ Len(s) \in Nat
  BY ElemsType
<1> HIDE DEF t
<1>3. ASSUME NEW j \in DOMAIN s
      PROVE  s[j] \in {s[i] : i \in 1 .. n} \/ s[j] \in Elems(t)
  <2>1. CASE j <= n
    BY <1>2, <2>1
  <2>2. CASE j > n
    <3>1. j - n \in DOMAIN t /\ n + (j - n) = j
      BY <1>1, <1>2, <2>2
    <3> QED BY <1>1, <3>1 DEF Elems
  <2> QED BY <1>2, <2>1, <2>2
<1>4. \A i \in 1 .. n : i \in DOMAIN s
  BY <1>2
<1>5. Elems(t) \subseteq Elems(s)
  BY <1>1 DEF Elems
<1>6. Elems(s) = {s[i] : i \in 1 .. n} \cup Elems(t)
  BY <1>3, <1>4, <1>5 DEF Elems
<1> QED BY <1>6 DEF t

\* A pass releases what it gives up and the unreliable packages it sends.
LEMMA PassReleases ==
  ASSUME IInv, IInv', NEW c \in Conns, NEW due \in SUBSET pending[c], NEW n \in [Queues -> Nat],
         \A q \in Queues : n[q] <= Len(fifo[c][q]),
         Pass(c, due, n)
  PROVE  /\ Shrinking
         /\ \E G, D : Released(G, D, FALSE)
<1> DEFINE taken(q) == {fifo[c][q][i] : i \in 1 .. n[q]}
           first == UNION {taken(q) : q \in Queues}
           dead == {p \in due : GivenUp(p)}
           waiting == {p \in first : AwaitsAck(p)}
           G == dead \cup (first \ waiting)
<1>0. /\ fifo' = [fifo EXCEPT ![c] =
                    [q \in Queues |-> SubSeq(fifo[c][q], n[q] + 1, Len(fifo[c][q]))]]
      /\ pending' = [pending EXCEPT ![c] = (pending[c] \ dead) \cup waiting]
      /\ Answer(Carried(dead), FALSE) /\ Release(G)
      /\ UNCHANGED <<fresh, result>>
  BY DEF Pass
<1>1. /\ fifo \in [Conns -> [Queues -> Seq(Packages)]]
      /\ pending \in [Conns -> SUBSET Packages]
  BY DEF IInv, TypeOK
<1>2. ASSUME NEW q \in Queues
      PROVE  Elems(fifo[c][q]) = taken(q) \cup Elems(fifo'[c][q])
  <2> DEFINE s == fifo[c][q]
  <2>1. s \in Seq(Packages) /\ n[q] \in Nat /\ n[q] <= Len(s)
    BY <1>1
  <2>2. fifo'[c][q] = SubSeq(s, n[q] + 1, Len(s))
    BY <1>0, <1>1
  <2> HIDE DEF s
  <2>3. n[q] \in 0 .. Len(s)
    BY <2>1
  <2>4. Elems(s) = {s[i] : i \in 1 .. n[q]} \cup Elems(SubSeq(s, n[q] + 1, Len(s)))
    BY <2>1, <2>3, SplitQueue
  <2> QED BY <2>2, <2>4 DEF s
<1>3. \A p : p \in first <=> \E q \in Queues : p \in taken(q)
  OBVIOUS
<1>4. dead \subseteq pending[c] /\ waiting \subseteq first
  OBVIOUS
<1>5. pending'[c] = (pending[c] \ dead) \cup waiting
  <2> HIDE DEF dead, waiting
  <2> QED BY <1>0, <1>1
<1>6. \A d \in Conns \ {c} : fifo'[d] = fifo[d] /\ pending'[d] = pending[d]
  <2> HIDE DEF dead, waiting
  <2> QED BY <1>0, <1>1
<1>7. \A p \in first \ waiting : message[p] \notin Reliable
  BY DEF AwaitsAck
<1>8. G = dead \cup (first \ waiting)
  OBVIOUS
<1> HIDE DEF taken, first, dead, waiting, G
<1>9. \A p : p \in Held(c) <=>
        p \in pending[c] \/ p \in first \/ \E q \in Queues : p \in Elems(fifo'[c][q])
  BY <1>2, <1>3, HeldIs
<1>10. \A p : p \in Held(c)' <=>
         p \in pending[c] \ dead \/ p \in waiting \/ \E q \in Queues : p \in Elems(fifo'[c][q])
  BY <1>5, HeldIsNext
<1>11. \A d \in Conns \ {c} : Held(d)' = Held(d)
  BY <1>6 DEF Held, Queued
<1>12. Shrinking
  <2>1. Held(c)' \subseteq Held(c)
    BY <1>4, <1>9, <1>10
  <2> QED BY <1>11, <2>1 DEF Shrinking
<1>13. G \subseteq InUse
  <2>1. G \subseteq Held(c)
    BY <1>4, <1>8, <1>9
  <2> QED BY <2>1 DEF InUse
<1>14. \A d \in Conns : \A p \in Held(d) : p \in G \/ p \in Held(d)'
  <2>1. \A p \in Held(c) : p \in G \/ p \in Held(c)'
    BY <1>8, <1>9, <1>10
  <2> QED BY <1>11, <2>1
<1>15. \A p \in G : p \notin InUse'
  <2>1. G \subseteq free'
    BY <1>0 DEF Release
  <2> QED BY <2>1 DEF IInv, PackageHeldOnce
<1>16. InUse' = InUse \ G
  BY <1>12, <1>13, <1>14, <1>15, InUseWithout
<1>17. Released(G, dead, FALSE)
  BY <1>0, <1>7, <1>8, <1>13, <1>16 DEF Released
<1> QED BY <1>12, <1>17

\* A connection that closes releases all it holds.
LEMMA CloseReleases ==
  ASSUME IInv, IInv', NEW c \in Conns, closeConnection(c)
  PROVE  /\ Shrinking
         /\ Held(c)' = {}
         /\ \E G, D : Released(G, D, FALSE)
<1> DEFINE G == Held(c)
<1>0. /\ fifo \in [Conns -> [Queues -> Seq(Packages)]] /\ pending \in [Conns -> SUBSET Packages]
      /\ fifo' = [fifo EXCEPT ![c] = NoQueues] /\ pending' = [pending EXCEPT ![c] = {}]
      /\ Answer(Carried(G), FALSE) /\ Release(G)
      /\ UNCHANGED <<fresh, result>>
  BY DEF IInv, TypeOK, closeConnection
<1>1. /\ \A q \in Queues : fifo'[c][q] = <<>>
      /\ pending'[c] = {}
      /\ \A d \in Conns \ {c} : fifo'[d] = fifo[d] /\ pending'[d] = pending[d]
  BY <1>0, EmptiedQueues
<1>2. Held(c)' = {}
  BY <1>1, EmptyList, HeldIsNext
<1>3. \A d \in Conns \ {c} : Held(d)' = Held(d)
  BY <1>1 DEF Held, Queued
<1>4. Shrinking
  BY <1>2, <1>3 DEF Shrinking
<1>5. G \subseteq InUse
  BY DEF InUse
<1>6. \A d \in Conns : \A p \in Held(d) : p \in G \/ p \in Held(d)'
  BY <1>3
<1> HIDE DEF G
<1>7. \A p \in G : p \notin InUse'
  <2>1. G \subseteq free'
    BY <1>0 DEF Release
  <2> QED BY <2>1 DEF IInv, PackageHeldOnce
<1>8. InUse' = InUse \ G
  BY <1>4, <1>5, <1>6, <1>7, InUseWithout
<1>9. Released(G, G, FALSE)
  BY <1>0, <1>5, <1>8 DEF Released
<1> QED BY <1>2, <1>4, <1>9

\* Acknowledgements release the pending packages they match; those were
\* delivered.
LEMMA AckReleases ==
  ASSUME IInv, IInv', NEW acks \in ackWire, AckArrives(acks)
  PROVE  /\ Shrinking
         /\ \E G, D : /\ Released(G, D, TRUE)
                      /\ \A m \in Carried(D) : delivered[m] > 0
<1> DEFINE match(c) == {p \in pending[c] : message[p] \in acks /\ state[c] # "free"}
           G == UNION {match(c) : c \in Conns}
<1>0. /\ pending' = [c \in Conns |-> pending[c] \ match(c)]
      /\ Answer(Carried(G), TRUE) /\ Release(G)
      /\ UNCHANGED <<fifo, fresh, result>>
  BY DEF AckArrives
<1>1. \A p : p \in G <=> \E c \in Conns : p \in match(c)
  OBVIOUS
<1>2. \A p \in G : message[p] \in acks
  OBVIOUS
<1>3. \A c \in Conns : match(c) \subseteq pending[c]
  OBVIOUS
<1> HIDE DEF match, G
<1>4. \A c \in Conns : pending'[c] = pending[c] \ match(c)
  BY <1>0
<1>5. Shrinking
  BY <1>0, <1>4, HeldIs, HeldIsNext DEF Shrinking
<1>6. G \subseteq InUse
  BY <1>1, <1>3, InUseIsPlaced DEF Placed
<1>7. \A c \in Conns : \A p \in Held(c) : p \in G \/ p \in Held(c)'
  BY <1>0, <1>1, <1>4, HeldIs, HeldIsNext
<1>8. \A p \in G : p \notin InUse'
  <2>1. G \subseteq free'
    BY <1>0 DEF Release
  <2> QED BY <2>1 DEF IInv, PackageHeldOnce
<1>9. InUse' = InUse \ G
  BY <1>5, <1>6, <1>7, <1>8, InUseWithout
<1>10. Released(G, G, TRUE)
  BY <1>0, <1>6, <1>9 DEF Released
<1>11. \A m \in Carried(G) : delivered[m] > 0
  BY <1>2 DEF Carried, IInv, Evidence
<1> QED BY <1>5, <1>10, <1>11

\* A package that is queued takes a structure into use.
Taken(p, m) ==
  /\ p \in free \cup fresh
  /\ free' = free \ {p} /\ fresh' = fresh \ {p}
  /\ InUse' = InUse \cup {p}
  /\ message' = [message EXCEPT ![p] = m]
  /\ result' = [result EXCEPT ![m] = "queued"]
  /\ answers' = answers

LEMMA EnqueueTakes ==
  ASSUME IInv, NEW m \in Messages, NEW c \in Conns, Enqueue(m, c)
  PROVE  /\ \A d \in Conns \ {c} : Held(d)' = Held(d)
         /\ \E p \in Packages : Taken(p, m)
<1> DEFINE q == QueueOf(m)
           s == fifo[c][q]
<1>0. q \in Queues
  BY DEF QueueOf, Queues
<1>1. PICK p \in Obtainable :
        /\ free' = free \ {p} /\ fresh' = fresh \ {p}
        /\ fifo' = [fifo EXCEPT ![c][q] = Append(@, p)]
        /\ message' = [message EXCEPT ![p] = m]
        /\ result' = [result EXCEPT ![m] = "queued"]
        /\ UNCHANGED <<pending, answers>>
  BY DEF Enqueue, Obtain
<1>2. p \in Packages /\ p \in free \cup fresh
  BY DEF Obtainable, IInv, TypeOK
<1> HIDE DEF q
<1>3. s \in Seq(Packages) /\ fifo \in [Conns -> [Queues -> Seq(Packages)]]
  BY <1>0 DEF IInv, TypeOK
<1>4. \A d \in Conns \ {c} : fifo'[d] = fifo[d]
  BY <1>1, <1>3
<1>5. \A r \in Queues : fifo'[c][r] = IF r = q THEN Append(s, p) ELSE fifo[c][r]
  <2>1. fifo'[c] = [fifo[c] EXCEPT ![q] = Append(s, p)]
    BY <1>1, <1>3
  <2>2. fifo[c] \in [Queues -> Seq(Packages)]
    BY <1>3
  <2> HIDE DEF s
  <2> QED BY <2>1, <2>2
<1>6. s = fifo[c][q]
  OBVIOUS
<1> HIDE DEF s
<1>7. Elems(Append(s, p)) = Elems(s) \cup {p}
  BY <1>2, <1>3, AppendElems
<1>8. \A d \in Conns \ {c} : Held(d)' = Held(d)
  BY <1>1, <1>4 DEF Held, Queued
<1>9. \A x : x \in Held(c)' <=> x \in Held(c) \/ x = p
  <2>1. \A x, r : r \in Queues => (x \in Elems(fifo'[c][r]) <=>
                                   x \in Elems(fifo[c][r]) \/ (r = q /\ x = p))
    BY <1>5, <1>6, <1>7
  <2> QED BY <1>0, <1>1, <2>1, HeldIs, HeldIsNext
<1>10. InUse' = InUse \cup {p}
  <2>1. \A x : x \in InUse <=> \E d \in Conns : x \in Held(d)
    BY DEF InUse
  <2>2. \A x : x \in InUse' <=> \E d \in Conns : x \in Held(d)'
    BY DEF InUse
  <2>3. \A x : x \in InUse' <=> x \in InUse \/ x = p
    BY <1>8, <1>9, <2>1, <2>2
  <2> QED BY <2>3
<1>11. Taken(p, m)
  BY <1>1, <1>2, <1>10 DEF Taken
<1> QED BY <1>2, <1>8, <1>11

----------------------------------------------------------------------------
(* Nothing accepted is forgotten, nothing but a refusal leaks *)

\* Messages are only sent along connections in use.
RouteOpen == route # NoConn => state[route] = "open"

\* An entry of connections[] that is not in use holds nothing.
FreeIsEmpty == \A c \in Conns : state[c] = "free" => Held(c) = {}

\* A reliable message whose hook is still to be called is in some list.
Kept ==
  \A m \in Reliable \cap Hooked :
    result[m] = "queued" /\ answers[m] = <<>> => m \in Carried(InUse)

\* What a step does to the structures: none is mislaid unless it refuses a message.
Placing ==
  \/ Nowhere' \subseteq Nowhere
  \/ \E m \in Messages : result[m] = "none" /\ result'[m] = "refused"

Custody == RouteOpen /\ FreeIsEmpty /\ Kept

\* What a call of hooks leaves of those it is not for, and does to the others.
LEMMA AnswerExactly ==
  ASSUME answers \in [Messages -> Seq(BOOLEAN)], NEW M, NEW v \in BOOLEAN, Answer(M, v)
  PROVE  \A m \in Messages :
           /\ m \notin M \cap Hooked => answers'[m] = answers[m]
           /\ m \in M \cap Hooked => /\ answers'[m] # <<>>
                                     /\ Elems(answers'[m]) = Elems(answers[m]) \cup {v}
<1> SUFFICES ASSUME NEW m \in Messages
             PROVE  /\ m \notin M \cap Hooked => answers'[m] = answers[m]
                    /\ m \in M \cap Hooked => /\ answers'[m] # <<>>
                                              /\ Elems(answers'[m]) = Elems(answers[m]) \cup {v}
  OBVIOUS
<1>1. answers'[m] = IF m \in M \cap Hooked THEN Append(answers[m], v) ELSE answers[m]
  BY DEF Answer
<1> DEFINE s == answers[m]
<1>2. s \in Seq(BOOLEAN)
  OBVIOUS
<1> HIDE DEF s
<1>3. Elems(Append(s, v)) = Elems(s) \cup {v}
  BY <1>2, AppendElems
<1>4. Append(s, v) # <<>>
  <2>1. v \in Elems(Append(s, v))
    BY <1>3
  <2> QED BY <2>1, EmptyList
<1> QED BY <1>1, <1>3, <1>4 DEF s

LEMMA InUsePackages ==
  ASSUME TypeOK
  PROVE  InUse \subseteq Packages
  BY InUseIsPlaced, TypeLists DEF ListsOK, Placed

\* What is released is given up, acknowledged or unreliable; the pool gets it.
LEMMA ReleaseKeeps ==
  ASSUME IInv, Kept, NEW G, NEW D, NEW v \in BOOLEAN, Released(G, D, v)
  PROVE  Kept' /\ Placing
<1>0. /\ G \subseteq InUse /\ D \subseteq G /\ InUse' = InUse \ G
      /\ Release(G) /\ Answer(Carried(D), v) /\ UNCHANGED <<fresh, result>>
      /\ \A p \in G \ D : message[p] \notin Reliable
  BY DEF Released
<1>1. InUse \subseteq Packages
  BY InUsePackages DEF IInv
<1>2. Kept'
  <2> SUFFICES ASSUME NEW m \in Reliable \cap Hooked, result'[m] = "queued", answers'[m] = <<>>
               PROVE  m \in Carried(InUse)'
    BY DEF Kept
  <2>1. m \in Messages
    BY TransferAssumption
  <2>2. answers[m] = <<>> /\ m \notin Carried(D)
    <3>1. answers \in [Messages -> Seq(BOOLEAN)]
      BY DEF IInv, TypeOK
    <3> QED BY <1>0, <2>1, <3>1, AnswerExactly
  <2>3. PICK p \in InUse : message[p] = m
    BY <1>0, <2>2 DEF Kept, Carried
  <2>4. p \notin G
    BY <1>0, <2>2, <2>3 DEF Carried
  <2>5. p \in InUse' /\ message'[p] = m
    BY <1>0, <1>1, <2>3, <2>4 DEF Release
  <2> QED BY <2>5 DEF Carried
<1>3. Nowhere' = Nowhere
  BY <1>0 DEF Nowhere, Release
<1> QED BY <1>2, <1>3 DEF Placing

LEMMA TakingKeeps ==
  ASSUME IInv, Kept, NEW m \in Messages, result[m] = "none",
         NEW p \in Packages, Taken(p, m)
  PROVE  Kept' /\ Placing
<1>1. /\ p \in free \cup fresh
      /\ free' = free \ {p} /\ fresh' = fresh \ {p} /\ InUse' = InUse \cup {p}
      /\ message' = [message EXCEPT ![p] = m]
      /\ result' = [result EXCEPT ![m] = "queued"]
      /\ answers' = answers
  BY DEF Taken
<1>2. /\ message \in [Packages -> Messages \cup {NoMessage}]
      /\ result \in [Messages -> Results]
      /\ InUse \subseteq Packages
  BY InUsePackages DEF IInv, TypeOK
<1>3. p \notin InUse
  BY <1>1 DEF IInv, PackageHeldOnce
<1>4. Kept'
  <2> SUFFICES ASSUME NEW k \in Reliable \cap Hooked, result'[k] = "queued", answers'[k] = <<>>
               PROVE  \E x \in InUse' : message'[x] = k
    BY DEF Kept, Carried
  <2>1. CASE k = m
    <3>1. message'[p] = m /\ p \in InUse'
      BY <1>1, <1>2
    <3> QED BY <2>1, <3>1
  <2>2. CASE k # m
    <3>1. result[k] = "queued" /\ answers[k] = <<>>
      BY <1>1, <1>2, <2>2, TransferAssumption
    <3>2. PICK x \in InUse : message[x] = k
      BY <3>1 DEF Kept, Carried
    <3>3. message'[x] = k /\ x \in InUse'
      BY <1>1, <1>2, <1>3, <3>2
    <3> QED BY <3>3
  <2> QED BY <2>1, <2>2
<1>5. Nowhere' = Nowhere
  BY <1>1, <1>3 DEF Nowhere
<1> QED BY <1>4, <1>5 DEF Placing

\* The one step that may mislay a structure: a message is refused.
LEMMA RefusalMislays ==
  ASSUME IInv, Kept, NEW m \in Messages, result[m] = "none", NEW c \in Conns,
         Refuse(m, c)
  PROVE  Kept' /\ Placing
<1>1. PICK p \in Obtainable :
        /\ free' = free \ {p} /\ fresh' = fresh \ {p}
        /\ result' = [result EXCEPT ![m] = "refused"]
        /\ Answer({m}, FALSE)
        /\ UNCHANGED <<fifo, pending, message>>
  BY DEF Refuse, Obtain
<1>2. p \in Packages /\ p \in free \cup fresh
  BY DEF Obtainable, IInv, TypeOK
<1>3. /\ result \in [Messages -> Results]
      /\ answers \in [Messages -> Seq(BOOLEAN)]
  BY DEF IInv, TypeOK
<1>4. InUse' = InUse
  BY <1>1 DEF InUse, Held, Queued
<1>5. Kept'
  <2>1. \A k \in Messages : k # m => answers'[k] = answers[k] /\ result'[k] = result[k]
    <3>1. FALSE \in BOOLEAN /\ Answer({m}, FALSE)
      BY <1>1
    <3>2. \A k \in Messages : k \notin {m} \cap Hooked => answers'[k] = answers[k]
      BY <1>3, <3>1, AnswerExactly
    <3> QED BY <1>1, <1>3, <3>2
  <2>2. result'[m] = "refused"
    BY <1>1, <1>3
  <2>3. Carried(InUse)' = Carried(InUse)
    BY <1>1, <1>4 DEF Carried
  <2> QED BY <2>1, <2>2, <2>3, TransferAssumption DEF Kept
<1>6. Placing
  BY <1>1, <1>3 DEF Placing
<1> QED BY <1>5, <1>6

LEMMA InUseStays ==
  ASSUME Kept,
         InUse' = InUse, UNCHANGED <<free, fresh, message, result, answers>>
  PROVE  Kept' /\ Placing
<1>1. Nowhere' = Nowhere /\ Carried(InUse)' = Carried(InUse)
  BY DEF Nowhere, Carried
<1> QED BY <1>1 DEF Kept, Placing

LEMMA CustodyInit == Init => Custody
<1> SUFFICES ASSUME Init
             PROVE  Custody
  OBVIOUS
<1>1. InUse = {}
  BY InUseIsPlaced, EmptyList DEF Init, NoQueues, Placed
<1>2. FreeIsEmpty
  BY HeldIs, EmptyList DEF Init, NoQueues, FreeIsEmpty
<1>3. RouteOpen /\ Kept
  BY TransferAssumption DEF RouteOpen, Kept, Init
<1> QED BY <1>2, <1>3 DEF Custody

\* Calls of the send functions.
LEMMA SendKeepsCustody ==
  ASSUME IInv, Custody, NEW m \in Messages, sendMessage(m) \/ \E c \in Conns : sendLinkPackage(m, c)
  PROVE  Custody' /\ Placing
<1>1. result[m] = "none" /\ UNCHANGED connVars
  BY DEF sendMessage, sendLinkPackage, connection_sendPackage, Enqueue, Refuse, FailCall
<1>2. \/ \E c \in Conns : state[c] # "free" /\ connection_sendPackage(m, c)
      \/ FailCall(m, "no route")
  BY DEF sendMessage, sendLinkPackage, Custody, RouteOpen, IInv, TypeOK
<1>3. RouteOpen'
  BY <1>1 DEF connVars, Custody, RouteOpen
<1>4. ASSUME NEW c \in Conns, state[c] # "free", Enqueue(m, c)
      PROVE  FreeIsEmpty' /\ Kept' /\ Placing
  <2>1. \A d \in Conns \ {c} : Held(d)' = Held(d)
    BY <1>4, EnqueueTakes
  <2>2. FreeIsEmpty'
    BY <1>1, <1>4, <2>1 DEF connVars, Custody, FreeIsEmpty
  <2>3. PICK p \in Packages : Taken(p, m)
    BY <1>4, EnqueueTakes
  <2>4. Kept' /\ Placing
    BY <1>1, <2>3, TakingKeeps DEF Custody
  <2> QED BY <2>2, <2>4
<1>5. ASSUME NEW c \in Conns, Refuse(m, c)
      PROVE  FreeIsEmpty' /\ Kept' /\ Placing
  <2>1. Kept' /\ Placing
    BY <1>1, <1>5, RefusalMislays DEF Custody
  <2>2. \A d \in Conns : Held(d)' = Held(d)
    BY <1>5 DEF Refuse, Held, Queued
  <2>3. FreeIsEmpty'
    BY <1>1, <2>2 DEF connVars, Custody, FreeIsEmpty
  <2> QED BY <2>1, <2>3
<1>6. ASSUME NEW why \in {"no memory", "no route"}, FailCall(m, why)
      PROVE  FreeIsEmpty' /\ Kept' /\ Placing
  <2>1. /\ UNCHANGED <<state, fifo, pending, free, fresh, message, answers>>
        /\ result' = [result EXCEPT ![m] = why] /\ result \in [Messages -> Results]
    BY <1>6 DEF FailCall, connVars, queueVars, IInv, TypeOK
  <2>2. \A d \in Conns : Held(d)' = Held(d)
    BY <2>1 DEF Held, Queued
  <2>3. FreeIsEmpty'
    BY <2>1, <2>2 DEF Custody, FreeIsEmpty
  <2>4. InUse' = InUse
    <3>1. \A p : p \in InUse' <=> p \in InUse
      BY <2>1, InUseIsPlaced, InUseIsPlacedNext DEF Placed
    <3> QED BY <3>1
  <2>5. Carried(InUse)' = Carried(InUse) /\ Nowhere' = Nowhere
    BY <2>1, <2>4 DEF Carried, Nowhere
  <2>7. \A k \in Messages : result'[k] = "queued" => result[k] = "queued"
    BY <2>1
  <2>8. Kept'
    BY <2>1, <2>5, <2>7, TransferAssumption DEF Custody, Kept
  <2> QED BY <2>3, <2>5, <2>8 DEF Placing
<1>7. CASE FailCall(m, "no route")
  BY <1>3, <1>6, <1>7 DEF Custody
<1>8. CASE \E c \in Conns : state[c] # "free" /\ connection_sendPackage(m, c)
  <2>1. PICK c \in Conns : state[c] # "free" /\ connection_sendPackage(m, c)
    BY <1>8
  <2> QED BY <1>3, <1>4, <1>5, <1>6, <2>1 DEF connection_sendPackage, Custody
<1> QED BY <1>2, <1>7, <1>8

\* Steps that release structures on a connection, without using others.
LEMMA ReleaseKeepsCustody ==
  ASSUME IInv, Custody, Shrinking, RouteOpen',
         \A c \in Conns : state'[c] = "free" => state[c] = "free" \/ Held(c)' = {},
         NEW G, NEW D, NEW v \in BOOLEAN, Released(G, D, v)
  PROVE  Custody' /\ Placing
<1>1. Kept' /\ Placing
  BY ReleaseKeeps DEF Custody
<1>2. FreeIsEmpty'
  BY DEF Custody, FreeIsEmpty, Shrinking
<1> QED BY <1>1, <1>2 DEF Custody

\* Steps that leave the lists alone; connections may be taken into use.
LEMMA ListsStayCustody ==
  ASSUME IInv, Custody, RouteOpen',
         \A c \in Conns : Held(c)' = Held(c),
         \A c \in Conns : state'[c] = "free" => state[c] = "free",
         UNCHANGED <<free, fresh, message, result, answers>>
  PROVE  Custody' /\ Placing
<1>1. InUse' = InUse
  <2>1. \A p : p \in InUse <=> \E c \in Conns : p \in Held(c)
    BY DEF InUse
  <2>2. \A p : p \in InUse' <=> \E c \in Conns : p \in Held(c)'
    BY DEF InUse
  <2>3. \A p : p \in InUse' <=> p \in InUse
    BY <2>1, <2>2
  <2> QED BY <2>3
<1>2. Kept' /\ Placing
  BY <1>1, InUseStays DEF Custody
<1>3. FreeIsEmpty'
  BY DEF Custody, FreeIsEmpty
<1> QED BY <1>2, <1>3 DEF Custody

\* Without bluetooth connections, whose abort forgets their queues, every
\* step keeps custody.
LEMMA CustodyNext ==
  ASSUME Bluetooth = {}, IInv, IInv', Custody, [Next]_vars
  PROVE  Custody' /\ Placing
<1>1. CASE \E m \in Messages : sendMessage(m) \/ \E c \in Conns : sendLinkPackage(m, c)
  BY <1>1, SendKeepsCustody
<1>2. CASE \E acks \in ackWire : AckArrives(acks)
  <2>1. PICK acks \in ackWire : AckArrives(acks)
    BY <1>2
  <2>2. RouteOpen' /\ state' = state
    BY <2>1 DEF AckArrives, connVars, Custody, RouteOpen
  <2>3. Shrinking
    BY <2>1, AckReleases
  <2>4. PICK G, D : Released(G, D, TRUE)
    BY <2>1, AckReleases
  <2>5. \A c \in Conns : state'[c] = "free" => state[c] = "free" \/ Held(c)' = {}
    BY <2>2
  <2>6. TRUE \in BOOLEAN
    OBVIOUS
  <2> QED BY <2>2, <2>3, <2>4, <2>5, <2>6, ReleaseKeepsCustody
<1>3. CASE \E c \in Conns : processOutgoing(c)
  <2>1. PICK c \in Conns : processOutgoing(c)
    BY <1>3
  <2>2. PICK due \in SUBSET pending[c], n \in Stops(c) : Pass(c, due, n)
    BY <2>1 DEF processOutgoing
  <2>3. n \in [Queues -> Nat] /\ \A q \in Queues : n[q] <= Len(fifo[c][q])
    BY <2>2, TransferAssumption DEF Stops
  <2>4. Shrinking /\ \E G, D : Released(G, D, FALSE)
    BY <2>2, <2>3, PassReleases
  <2>5. PICK G, D : Released(G, D, FALSE)
    BY <2>4
  <2>6. RouteOpen' /\ state' = state
    BY <2>2 DEF Pass, connVars, Custody, RouteOpen
  <2>7. \A d \in Conns : state'[d] = "free" => state[d] = "free" \/ Held(d)' = {}
    BY <2>6
  <2>8. FALSE \in BOOLEAN
    OBVIOUS
  <2> QED BY <2>4, <2>5, <2>6, <2>7, <2>8, ReleaseKeepsCustody
<1>4. CASE \E c \in Conns : closeConnection(c)
  <2>1. PICK c \in Conns : closeConnection(c)
    BY <1>4
  <2>2. /\ Shrinking /\ Held(c)' = {}
        /\ \E G, D : Released(G, D, FALSE)
    BY <2>1, CloseReleases
  <2>3. PICK G, D : Released(G, D, FALSE)
    BY <2>2
  <2>4. /\ state \in [Conns -> {"free", "connecting", "open"}]
        /\ state' = [state EXCEPT ![c] = "free"]
        /\ route' \in RouteWithout(c)
    BY <2>1 DEF closeConnection, IInv, TypeOK
  <2>5. \A d \in Conns : state'[d] = "free" => state[d] = "free" \/ Held(d)' = {}
    BY <2>2, <2>4
  <2>6. RouteOpen'
    BY <2>4 DEF RouteWithout, Routable, Custody, RouteOpen, IInv, TypeOK
  <2>7. FALSE \in BOOLEAN
    OBVIOUS
  <2> QED BY <2>2, <2>3, <2>5, <2>6, <2>7, ReleaseKeepsCustody
<1>5. CASE \E c \in Conns : newConnection(c)
  <2>1. PICK c \in Conns : newConnection(c)
    BY <1>5
  <2>2. /\ state[c] = "free" /\ state' = [state EXCEPT ![c] = "connecting"]
        /\ fifo' = [fifo EXCEPT ![c] = NoQueues] /\ pending' = [pending EXCEPT ![c] = {}]
        /\ UNCHANGED <<route, free, fresh, message, result, answers>>
    BY <2>1 DEF newConnection, callVars
  <2>3. /\ state \in [Conns -> {"free", "connecting", "open"}]
        /\ fifo \in [Conns -> [Queues -> Seq(Packages)]]
        /\ pending \in [Conns -> SUBSET Packages]
    BY DEF IInv, TypeOK
  <2>4. /\ \A q \in Queues : fifo'[c][q] = <<>>
        /\ pending'[c] = {}
        /\ \A d \in Conns \ {c} : fifo'[d] = fifo[d] /\ pending'[d] = pending[d]
    BY <2>2, <2>3, EmptiedQueues
  <2>5. Held(c)' = {} /\ Held(c) = {}
    BY <2>2, <2>4, EmptyList, HeldIsNext DEF Custody, FreeIsEmpty
  <2>6. \A d \in Conns : Held(d)' = Held(d)
    BY <2>4, <2>5 DEF Held, Queued
  <2>7. /\ \A d \in Conns : state'[d] = "free" => state[d] = "free"
        /\ RouteOpen'
    BY <2>2, <2>3 DEF Custody, RouteOpen, IInv, TypeOK
  <2> QED BY <2>2, <2>6, <2>7, ListsStayCustody
<1>6. CASE \/ \E c \in Conns : connectFinished(c)
           \/ \E c \in Conns \cup {NoConn} : Reroute(c)
  <2>1. UNCHANGED <<queueVars, callVars>>
    BY <1>6 DEF connectFinished, Reroute
  <2>2. \A d \in Conns : Held(d)' = Held(d)
    BY <2>1 DEF queueVars, Held, Queued
  <2>3. \A d \in Conns : state'[d] = "free" => state[d] = "free"
    BY <1>6 DEF connectFinished, Reroute, IInv, TypeOK
  <2>4. RouteOpen'
    BY <1>6 DEF connectFinished, Reroute, Routable, Custody, RouteOpen, IInv, TypeOK
  <2> QED BY <2>1, <2>2, <2>3, <2>4, ListsStayCustody DEF queueVars, callVars
<1>7. CASE ReceiverNext \/ NetworkNext \/ UNCHANGED vars
  <2>1. UNCHANGED <<connVars, queueVars, callVars>>
    BY <1>7 DEF ReceiverNext, NetworkNext, vars, sendAcknowledgementsNow, processIncomming,
         LosePackage, LoseAcks
  <2>2. \A d \in Conns : Held(d)' = Held(d)
    BY <2>1 DEF queueVars, Held, Queued
  <2>3. RouteOpen' /\ \A d \in Conns : state'[d] = "free" => state[d] = "free"
    BY <2>1 DEF connVars, Custody, RouteOpen
  <2> QED BY <2>1, <2>2, <2>3, ListsStayCustody DEF queueVars, callVars
<1>8. ~ \E c \in Conns : abortConnect(c)
  BY DEF abortConnect
<1> QED BY <1>1, <1>2, <1>3, <1>4, <1>5, <1>6, <1>7, <1>8 DEF Next, SenderNext

LEMMA CustodyInvariance ==
  ASSUME Bluetooth = {}
  PROVE  Spec => [](IInv /\ Custody)
<1>1. Init => IInv /\ Custody
  BY InitIInv, CustodyInit
<1>2. IInv /\ Custody /\ [Next]_vars => IInv' /\ Custody'
  BY NextIInv, CustodyNext
<1> QED BY <1>1, <1>2, PTL DEF Spec

\* On a host without bluetooth connections, a message whose hook is still to
\* be called is queued or pending on a connection in use: no handler forgets it.
THEOREM AcceptedIsHeld ==
  ASSUME Bluetooth = {}
  PROVE  Spec => []UnansweredIsHeld
<1>1. IInv /\ Custody => UnansweredIsHeld
  <2> SUFFICES ASSUME IInv, Custody, NEW m \in Reliable \cap Hooked,
                      result[m] = "queued", answers[m] = <<>>
               PROVE  \E c \in Conns : state[c] # "free" /\ m \in Carried(Held(c))
    BY DEF UnansweredIsHeld
  <2>1. PICK p \in InUse : message[p] = m
    BY DEF Custody, Kept, Carried
  <2>2. PICK c \in Conns : p \in Held(c)
    BY <2>1 DEF InUse
  <2>3. state[c] # "free"
    BY <2>2 DEF Custody, FreeIsEmpty
  <2> QED BY <2>1, <2>2, <2>3 DEF Carried
<1> QED BY <1>1, CustodyInvariance, PTL

\* On such a host no handler mislays a structure, except that a refused call may.
THEOREM RefusalsMislay ==
  ASSUME Bluetooth = {}
  PROVE  Spec => OnlyRefusalsMislay
<1>1. IInv /\ IInv' /\ Custody /\ [Next]_vars => Placing
  BY CustodyNext
<1>2. Spec => [](IInv /\ Custody)
  BY CustodyInvariance
<1> QED BY <1>1, <1>2, PTL DEF Spec, OnlyRefusalsMislay, Placing

----------------------------------------------------------------------------
(* Every step is a step of MessageService *)

\* The phase that a result r and the calls a of the hook make.
PhaseFrom(r, a) ==
  CASE r = "none"                       -> "unsent"
    [] r # "none" /\ a = <<>>           -> IF r = "queued" THEN "accepted" ELSE "rejected"
    [] r # "none" /\ a # <<>>           -> IF TRUE \in Elems(a) THEN "succeeded" ELSE "failed"

\* A hook called once was told one thing.
LEMMA OneAnswer ==
  ASSUME NEW a \in Seq(BOOLEAN), Len(a) <= 1
  PROVE  /\ a = <<>> => TRUE \notin Elems(a) /\ FALSE \notin Elems(a)
         /\ a # <<>> => (TRUE \in Elems(a) <=> FALSE \notin Elems(a))
<1>1. a = <<>> => TRUE \notin Elems(a) /\ FALSE \notin Elems(a)
  BY EmptyList
<1>2. ASSUME a # <<>>
      PROVE  TRUE \in Elems(a) <=> FALSE \notin Elems(a)
  <2>1. Len(a) = 1 /\ DOMAIN a = {1} /\ a[1] \in BOOLEAN
    <3>1. Len(a) \in Nat /\ DOMAIN a = 1 .. Len(a)
      BY ElemsType
    <3>2. Len(a) # 0
      BY <1>2, EmptySeq
    <3>3. Len(a) = 1 /\ 1 .. 1 = {1}
      BY <3>1, <3>2
    <3>4. a[1] \in BOOLEAN
      BY <3>1, <3>3, ElementOfSeq
    <3> QED BY <3>1, <3>3, <3>4
  <2>2. Elems(a) = {a[1]}
    BY <2>1 DEF Elems
  <2> QED BY <2>1, <2>2
<1> QED BY <1>1, <1>2

LEMMA PhaseCases ==
  ASSUME NEW r, NEW a \in Seq(BOOLEAN), Len(a) <= 1
  PROVE  PhaseFrom(r, a) =
           CASE r = "none"                                -> "unsent"
             [] r # "none" /\ TRUE \in Elems(a)   -> "succeeded"
             [] r # "none" /\ FALSE \in Elems(a)  -> "failed"
             [] r = "queued" /\ a = <<>>          -> "accepted"
             [] OTHER                             -> "rejected"
<1>1. /\ a = <<>> => TRUE \notin Elems(a) /\ FALSE \notin Elems(a)
      /\ a # <<>> => (TRUE \in Elems(a) <=> FALSE \notin Elems(a))
  BY OneAnswer
<1>2. CASE r = "none"
  BY <1>2 DEF PhaseFrom
<1>3. CASE r # "none" /\ a = <<>>
  BY <1>1, <1>3 DEF PhaseFrom
<1>4. CASE r # "none" /\ a # <<>> /\ TRUE \in Elems(a)
  BY <1>1, <1>4 DEF PhaseFrom
<1>5. CASE r # "none" /\ a # <<>> /\ TRUE \notin Elems(a)
  BY <1>1, <1>5 DEF PhaseFrom
<1> QED BY <1>2, <1>3, <1>4, <1>5

\* The refinement mapping.
LEMMA PhaseIs ==
  ASSUME TypeOK, HookCalledOnce
  PROVE  phase = [m \in Messages |-> PhaseFrom(result[m], answers[m])]
<1>1. ASSUME NEW m \in Messages
      PROVE  phase[m] = PhaseFrom(result[m], answers[m])
  <2> DEFINE r == result[m]
             a == answers[m]
  <2>1. a \in Seq(BOOLEAN) /\ Len(a) <= 1
    BY DEF TypeOK, HookCalledOnce
  <2>2. phase[m] =
          CASE r = "none"                         -> "unsent"
            [] r # "none" /\ TRUE \in Elems(a)   -> "succeeded"
            [] r # "none" /\ FALSE \in Elems(a)  -> "failed"
            [] r = "queued" /\ a = <<>>          -> "accepted"
            [] OTHER                             -> "rejected"
    BY DEF phase
  <2> HIDE DEF r, a
  <2> QED BY <2>1, <2>2, PhaseCases DEF r, a
<1> QED BY <1>1 DEF phase

LEMMA PhaseIsNext ==
  ASSUME TypeOK', HookCalledOnce'
  PROVE  phase' = [m \in Messages |-> PhaseFrom(result'[m], answers'[m])]
<1>1. ASSUME NEW m \in Messages
      PROVE  phase'[m] = PhaseFrom(result'[m], answers'[m])
  <2> DEFINE r == result'[m]
             a == answers'[m]
  <2>1. a \in Seq(BOOLEAN) /\ Len(a) <= 1
    BY DEF TypeOK, HookCalledOnce
  <2>2. phase'[m] =
          CASE r = "none"                         -> "unsent"
            [] r # "none" /\ TRUE \in Elems(a)   -> "succeeded"
            [] r # "none" /\ FALSE \in Elems(a)  -> "failed"
            [] r = "queued" /\ a = <<>>          -> "accepted"
            [] OTHER                             -> "rejected"
    BY DEF phase
  <2> HIDE DEF r, a
  <2> QED BY <2>1, <2>2, PhaseCases DEF r, a
<1> QED BY <1>1 DEF phase

\* Steps the users of the service do not see.
Unseen ==
  /\ UNCHANGED <<result, answers>>
  /\ \A m \in Messages : delivered'[m] > 0 <=> delivered[m] > 0

LEMMA UnseenStutters ==
  ASSUME IInv, IInv', Unseen
  PROVE  UNCHANGED Service!vars
<1>1. phase' = phase
  BY PhaseIs, PhaseIsNext DEF IInv, Unseen
<1>2. [m \in Messages |-> delivered'[m] > 0] = [m \in Messages |-> delivered[m] > 0]
  BY DEF Unseen
<1> QED BY <1>1, <1>2 DEF Service!vars

\* A send call decides the phase of its message.
LEMMA SendIsSend ==
  ASSUME IInv, IInv', NEW m \in Messages, sendMessage(m) \/ \E c \in Conns : sendLinkPackage(m, c)
  PROVE  Service!Send(m)
<1> DEFINE call == \/ \E c \in Conns : Enqueue(m, c) \/ Refuse(m, c)
                   \/ \E why \in {"no memory", "no route"} : FailCall(m, why)
<1>1. result[m] = "none" /\ call
  BY DEF sendMessage, sendLinkPackage, connection_sendPackage, IInv, TypeOK
<1>2. /\ result \in [Messages -> Results] /\ answers \in [Messages -> Seq(BOOLEAN)]
      /\ answers[m] = <<>>
  BY <1>1 DEF IInv, TypeOK, Labels
<1>3. delivered' = delivered
  BY <1>1 DEF Enqueue, Refuse, FailCall, recvVars
<1>4. /\ result'[m] \in {"queued", "refused", "no memory", "no route"}
      /\ result'[m] # "refused" => answers'[m] = <<>>
      /\ result'[m] = "refused" => TRUE \notin Elems(answers'[m])
      /\ \A k \in Messages : k # m => result'[k] = result[k] /\ answers'[k] = answers[k]
  <2>1. ASSUME NEW c \in Conns, Enqueue(m, c)
        PROVE  result' = [result EXCEPT ![m] = "queued"] /\ answers' = answers
    BY <2>1 DEF Enqueue
  <2>2. ASSUME NEW why \in {"no memory", "no route"}, FailCall(m, why)
        PROVE  result' = [result EXCEPT ![m] = why] /\ answers' = answers
    BY <2>2 DEF FailCall
  <2>3. ASSUME NEW c \in Conns, Refuse(m, c)
        PROVE  /\ result' = [result EXCEPT ![m] = "refused"]
               /\ TRUE \notin Elems(answers'[m])
               /\ \A k \in Messages : k # m => answers'[k] = answers[k]
    <3>1. result' = [result EXCEPT ![m] = "refused"] /\ Answer({m}, FALSE) /\ FALSE \in BOOLEAN
      BY <2>3 DEF Refuse
    <3>2. \A k \in Messages :
            /\ k \notin {m} => answers'[k] = answers[k]
            /\ TRUE \in Elems(answers'[k]) =>
                 TRUE \in Elems(answers[k]) \/ (FALSE = TRUE /\ k \in {m})
      BY <1>2, <3>1, AnswerProperties
    <3>3. TRUE \notin Elems(answers[m])
      BY <1>2, EmptyList
    <3> QED BY <3>1, <3>2, <3>3
  <2>4. CASE \E c \in Conns : Enqueue(m, c)
    BY <1>2, <2>1, <2>4
  <2>5. CASE \E c \in Conns : Refuse(m, c)
    BY <1>2, <2>3, <2>5
  <2>6. CASE \E why \in {"no memory", "no route"} : FailCall(m, why)
    BY <1>2, <2>2, <2>6
  <2> QED BY <1>1, <2>4, <2>5, <2>6
<1> HIDE DEF call
<1>5. /\ phase = [k \in Messages |-> PhaseFrom(result[k], answers[k])]
      /\ phase' = [k \in Messages |-> PhaseFrom(result'[k], answers'[k])]
  BY PhaseIs, PhaseIsNext DEF IInv
<1>6. phase[m] = "unsent"
  BY <1>1, <1>5 DEF PhaseFrom
<1>7. phase'[m] \in {"rejected", "accepted", "failed"}
  <2>1. phase'[m] = PhaseFrom(result'[m], answers'[m])
    BY <1>5
  <2>2. CASE answers'[m] = <<>>
    BY <1>4, <2>1, <2>2 DEF PhaseFrom
  <2>3. CASE answers'[m] # <<>>
    BY <1>4, <2>1, <2>3 DEF PhaseFrom
  <2> QED BY <2>2, <2>3
<1>8. phase' = [phase EXCEPT ![m] = phase'[m]]
  <2>1. \A k \in Messages : k # m => phase'[k] = phase[k]
    BY <1>4, <1>5
  <2> DEFINE f == phase
             g == phase'
  <2>2. f = [k \in Messages |-> f[k]] /\ g = [k \in Messages |-> g[k]]
    BY <1>5
  <2> HIDE DEF f, g
  <2>3. \A k \in Messages : k # m => g[k] = f[k]
    BY <2>1 DEF f, g
  <2>4. g = [f EXCEPT ![m] = g[m]]
    BY <2>2, <2>3
  <2> QED BY <2>4 DEF f, g
<1>9. [k \in Messages |-> delivered'[k] > 0] = [k \in Messages |-> delivered[k] > 0]
  BY <1>3
<1> QED BY <1>6, <1>7, <1>8, <1>9 DEF Service!Send

\* The hooks called when structures are released report one outcome, and a
\* success only of what was delivered.
LEMMA ReleaseReports ==
  ASSUME IInv, IInv', NEW G, NEW D, NEW v \in BOOLEAN, Released(G, D, v),
         delivered' = delivered,
         v = TRUE => \A m \in Carried(D) : delivered[m] > 0
  PROVE  (\E M \in SUBSET Messages : Service!Settle(M)) \/ UNCHANGED Service!vars
<1> DEFINE M == Carried(D) \cap Hooked
           outcome == IF v THEN "succeeded" ELSE "failed"
<1>0. /\ D \subseteq InUse /\ Answer(Carried(D), v) /\ result' = result
  BY DEF Released
<1>1. M \in SUBSET Messages /\ D \subseteq Packages
  BY <1>0, InUsePackages, TransferAssumption DEF IInv
<1>2. \A m \in M : result[m] = "queued" /\ answers[m] = <<>>
  BY <1>0, <1>1, TransferAssumption DEF Carried, IInv, Labels
<1>3. \A m \in Messages :
        /\ m \notin M => answers'[m] = answers[m]
        /\ m \in M => /\ answers'[m] # <<>>
                      /\ Elems(answers'[m]) = Elems(answers[m]) \cup {v}
  BY <1>0, AnswerExactly DEF IInv, TypeOK
<1>4. \A m \in M : v = TRUE => delivered[m] > 0
  OBVIOUS
<1> HIDE DEF M
<1>5. /\ phase = [k \in Messages |-> PhaseFrom(result[k], answers[k])]
      /\ phase' = [k \in Messages |-> PhaseFrom(result'[k], answers'[k])]
  BY PhaseIs, PhaseIsNext DEF IInv
<1>6. \A m \in M : phase[m] = "accepted"
  BY <1>1, <1>2, <1>5 DEF PhaseFrom
<1>7. \A m \in Messages : m \notin M => phase'[m] = phase[m]
  BY <1>0, <1>3, <1>5
<1>8. ASSUME NEW m \in M
      PROVE  phase'[m] = outcome
  <2>1. m \in Messages /\ result'[m] = "queued" /\ answers'[m] # <<>>
    BY <1>0, <1>1, <1>2, <1>3
  <2>2. TRUE \in Elems(answers'[m]) <=> v = TRUE
    <3>1. Elems(answers'[m]) = {v}
      BY <1>1, <1>2, <1>3, EmptyList
    <3> QED BY <3>1
  <2>3. phase'[m] = PhaseFrom(result'[m], answers'[m])
    BY <1>5, <2>1
  <2> QED BY <2>1, <2>2, <2>3 DEF PhaseFrom
<1>9. [k \in Messages |-> delivered'[k] > 0] = [k \in Messages |-> delivered[k] > 0]
  OBVIOUS
<1>10. phase' = [m \in Messages |-> IF m \in M THEN outcome ELSE phase[m]]
  <2> HIDE DEF outcome
  <2> DEFINE f == phase
             g == phase'
  <2>1. g = [k \in Messages |-> g[k]]
    BY <1>5
  <2>2. \A k \in Messages : g[k] = IF k \in M THEN outcome ELSE f[k]
    BY <1>7, <1>8
  <2> HIDE DEF f, g
  <2>3. g = [k \in Messages |-> IF k \in M THEN outcome ELSE f[k]]
    BY <2>1, <2>2
  <2> QED BY <2>3 DEF f, g
<1>11. CASE M = {}
  <2>1. phase' = phase
    <3>1. \A k \in Messages : phase'[k] = phase[k]
      BY <1>7, <1>11
    <3> DEFINE f == phase
               g == phase'
    <3>2. f = [k \in Messages |-> f[k]] /\ g = [k \in Messages |-> g[k]]
      BY <1>5
    <3> HIDE DEF f, g
    <3>3. \A k \in Messages : g[k] = f[k]
      BY <3>1 DEF f, g
    <3>4. g = f
      BY <3>2, <3>3
    <3> QED BY <3>4 DEF f, g
  <2> QED BY <1>9, <2>1 DEF Service!vars
<1>12. CASE M # {}
  <2>1. outcome \in {"succeeded", "failed"} /\ (outcome = "succeeded" => v = TRUE)
    OBVIOUS
  <2> HIDE DEF outcome
  <2>2. \A m \in M : /\ phase[m] = "accepted"
                     /\ outcome = "succeeded" => [k \in Messages |-> delivered[k] > 0][m]
    BY <1>1, <1>4, <1>6, <2>1
  <2>3. Service!Report(M, outcome)
    BY <1>9, <1>10, <1>12, <2>2 DEF Service!Report
  <2> QED BY <1>1, <2>1, <2>3 DEF Service!Settle
<1> QED BY <1>11, <1>12

\* Only messages that were accepted are transmitted.
WireQueued == \A t \in wire : result[t[1]] = "queued"

LEMMA WireQueuedNext ==
  ASSUME IInv, WireQueued, [Next]_vars
  PROVE  WireQueued'
<1>1. wire \subseteq Transmissions /\ result \in [Messages -> Results]
  BY DEF IInv, TypeOK
<1>2. CASE \E m \in Messages : sendMessage(m) \/ \E c \in Conns : sendLinkPackage(m, c)
  <2>1. PICK m \in Messages : sendMessage(m) \/ \E c \in Conns : sendLinkPackage(m, c)
    BY <1>2
  <2>2. /\ result[m] = "none" /\ wire' = wire
        /\ \A k \in Messages : k # m => result'[k] = result[k]
    BY <1>1, <2>1 DEF sendMessage, sendLinkPackage, connection_sendPackage, Enqueue, Refuse,
         FailCall, netVars
  <2> QED BY <1>1, <2>2 DEF WireQueued, Transmissions
<1>3. CASE \E c \in Conns : processOutgoing(c)
  <2>1. PICK c \in Conns : processOutgoing(c)
    BY <1>3
  <2>2. PICK due \in SUBSET pending[c], n \in Stops(c) : Pass(c, due, n)
    BY <2>1 DEF processOutgoing
  <2>3. n \in [Queues -> Nat] /\ \A q \in Queues : n[q] <= Len(fifo[c][q])
    BY <2>2, TransferAssumption DEF Stops
  <2>4. fifo[c] \in [Queues -> Seq(Packages)]
    BY DEF IInv, TypeOK
  <2>5. ASSUME NEW t \in wire', t \notin wire
        PROVE  result[t[1]] = "queued"
    <3>1. PICK p \in InUse : t[1] = message[p]
      BY <2>2, <2>3, <2>4, <2>5, TransmissionsOfPass
    <3>2. p \in Packages /\ message[p] \in Messages
      BY InUsePackages DEF IInv, Labels
    <3>3. message[p] # NoMessage
      BY <3>2, TransferAssumption
    <3> QED BY <3>1, <3>2, <3>3 DEF IInv, Labels
  <2>6. result' = result
    BY <2>2 DEF Pass
  <2> QED BY <2>5, <2>6 DEF WireQueued
<1>4. CASE \/ \E acks \in ackWire : AckArrives(acks)
           \/ \E c \in Conns : \/ newConnection(c) \/ connectFinished(c)
                               \/ abortConnect(c) \/ closeConnection(c)
           \/ \E c \in Conns \cup {NoConn} : Reroute(c)
           \/ ReceiverNext \/ NetworkNext \/ UNCHANGED vars
  <2>1. result' = result /\ wire' \subseteq wire
    BY <1>4 DEF AckArrives, newConnection, connectFinished, abortConnect, closeConnection, Reroute,
         ReceiverNext, NetworkNext, sendAcknowledgementsNow, processIncomming, LosePackage, LoseAcks,
         vars, callVars, netVars
  <2> QED BY <2>1 DEF WireQueued
<1> QED BY <1>2, <1>3, <1>4 DEF Next, SenderNext

\* An arriving transmission delivers an accepted message, or one whose hook
\* was told of a failure too early, or nothing that was not delivered before.
LEMMA ReceiveDelivers ==
  ASSUME IInv, IInv', WireQueued, NEW t \in wire, processIncomming(t)
  PROVE  (\E m \in Messages : Service!Deliver(m)) \/ UNCHANGED Service!vars
<1> DEFINE m == t[1]
<1>1. m \in Messages /\ result[m] = "queued"
  BY DEF WireQueued, IInv, TypeOK, Transmissions
<1>2. /\ UNCHANGED <<result, answers>>
      /\ delivered' = delivered \/ delivered' = [delivered EXCEPT ![m] = @ + 1]
  BY DEF processIncomming, callVars, recvVars
<1> HIDE DEF m
<1>3. delivered \in [Messages -> Nat] /\ delivered' \in [Messages -> Nat]
  BY DEF IInv, TypeOK
<1>4. /\ \A k \in Messages : k # m => delivered'[k] = delivered[k]
      /\ delivered'[m] = delivered[m] \/ delivered'[m] = delivered[m] + 1
  BY <1>1, <1>2, <1>3
<1>5. CASE delivered[m] > 0 \/ delivered'[m] = delivered[m]
  <2>1. \A k \in Messages : delivered'[k] > 0 <=> delivered[k] > 0
    BY <1>1, <1>3, <1>4, <1>5
  <2> QED BY <1>2, <2>1, UnseenStutters DEF Unseen
<1>6. CASE ~ (delivered[m] > 0) /\ delivered'[m] = delivered[m] + 1
  <2>1. phase' = phase /\ phase = [k \in Messages |-> PhaseFrom(result[k], answers[k])]
    BY <1>2, PhaseIs, PhaseIsNext DEF IInv
  <2>2. TRUE \notin Elems(answers[m])
    BY <1>1, <1>6 DEF IInv, Evidence, SuccessMeansDelivered
  <2>3. phase[m] \in {"accepted", "failed"}
    <3>1. phase[m] = PhaseFrom(result[m], answers[m])
      BY <1>1, <2>1
    <3>2. CASE answers[m] = <<>>
      BY <1>1, <3>1, <3>2 DEF PhaseFrom
    <3>3. CASE answers[m] # <<>>
      BY <1>1, <2>2, <3>1, <3>3 DEF PhaseFrom
    <3> QED BY <3>2, <3>3
  <2> DEFINE now == [k \in Messages |-> delivered[k] > 0]
             next == [k \in Messages |-> delivered'[k] > 0]
  <2>4. /\ \A k \in Messages : k # m => next[k] = now[k]
        /\ ~ now[m] /\ next[m] = TRUE
    <3>1. next[m] = (delivered'[m] > 0) /\ now[m] = (delivered[m] > 0)
      BY <1>1
    <3>2. (delivered'[m] > 0) = TRUE
      BY <1>1, <1>3, <1>6
    <3>3. \A k \in Messages : k # m => next[k] = now[k]
      BY <1>4
    <3> QED BY <1>6, <3>1, <3>2, <3>3
  <2>5. now = [k \in Messages |-> now[k]] /\ next = [k \in Messages |-> next[k]]
    OBVIOUS
  <2>6. next = [now EXCEPT ![m] = TRUE]
    <3> HIDE DEF now, next
    <3> QED BY <2>4, <2>5
  <2>7. Service!Deliver(m)
    BY <2>1, <2>3, <2>4, <2>6 DEF Service!Deliver
  <2> QED BY <1>1, <2>7
<1> QED BY <1>4, <1>5, <1>6

LEMMA StepImplements ==
  ASSUME IInv, IInv', WireQueued, [Next]_vars
  PROVE  [Service!Next]_(Service!vars)
<1> SUFFICES \/ \E m \in Messages : Service!Send(m) \/ Service!Deliver(m)
             \/ \E M \in SUBSET Messages : Service!Settle(M)
             \/ UNCHANGED Service!vars
  BY DEF Service!Next
<1>1. CASE \E m \in Messages : sendMessage(m) \/ \E c \in Conns : sendLinkPackage(m, c)
  BY <1>1, SendIsSend
<1>2. CASE \E acks \in ackWire : AckArrives(acks)
  <2>1. PICK acks \in ackWire : AckArrives(acks)
    BY <1>2
  <2>2. \E G, D : Released(G, D, TRUE) /\ \A m \in Carried(D) : delivered[m] > 0
    BY <2>1, AckReleases
  <2>3. PICK G, D : Released(G, D, TRUE) /\ \A m \in Carried(D) : delivered[m] > 0
    BY <2>2
  <2>4. delivered' = delivered /\ TRUE \in BOOLEAN
    BY <2>1 DEF AckArrives, recvVars
  <2> QED BY <2>3, <2>4, ReleaseReports
<1>3. CASE \E c \in Conns : processOutgoing(c)
  <2>1. PICK c \in Conns : processOutgoing(c)
    BY <1>3
  <2>2. PICK due \in SUBSET pending[c], n \in Stops(c) : Pass(c, due, n)
    BY <2>1 DEF processOutgoing
  <2>3. n \in [Queues -> Nat] /\ \A q \in Queues : n[q] <= Len(fifo[c][q])
    BY <2>2, TransferAssumption DEF Stops
  <2>4. \E G, D : Released(G, D, FALSE)
    BY <2>2, <2>3, PassReleases
  <2>5. PICK G, D : Released(G, D, FALSE)
    BY <2>4
  <2>6. delivered' = delivered /\ FALSE \in BOOLEAN /\ FALSE # TRUE
    BY <2>2 DEF Pass, recvVars
  <2> QED BY <2>5, <2>6, ReleaseReports
<1>4. CASE \E c \in Conns : closeConnection(c)
  <2>1. PICK c \in Conns : closeConnection(c)
    BY <1>4
  <2>2. \E G, D : Released(G, D, FALSE)
    BY <2>1, CloseReleases
  <2>3. PICK G, D : Released(G, D, FALSE)
    BY <2>2
  <2>4. delivered' = delivered /\ FALSE \in BOOLEAN /\ FALSE # TRUE
    BY <2>1 DEF closeConnection, recvVars
  <2> QED BY <2>3, <2>4, ReleaseReports
<1>5. CASE \E t \in wire : processIncomming(t)
  BY <1>5, ReceiveDelivers
<1>6. CASE \/ \E c \in Conns : newConnection(c) \/ connectFinished(c) \/ abortConnect(c)
           \/ \E c \in Conns \cup {NoConn} : Reroute(c)
           \/ sendAcknowledgementsNow \/ NetworkNext \/ UNCHANGED vars
  <2>1. UNCHANGED <<result, answers, delivered>>
    BY <1>6 DEF newConnection, connectFinished, abortConnect, Reroute, sendAcknowledgementsNow,
         NetworkNext, LosePackage, LoseAcks, vars, callVars, recvVars
  <2> QED BY <2>1, UnseenStutters DEF Unseen
<1> QED BY <1>1, <1>2, <1>3, <1>4, <1>5, <1>6 DEF Next, SenderNext, ReceiverNext

\* Queues, retries, acknowledgements, closing connections and whatever the
\* network does implement the message service: initially, and at every step.
\* Its fairness, that every guaranteed message is settled, is left to the runs.
THEOREM StepsOfTheService == Spec => Service!Init /\ [][Service!Next]_(Service!vars)
<1>1. Init => Service!Init
  <2> SUFFICES ASSUME Init
               PROVE  Service!Init
    OBVIOUS
  <2>1. IInv
    BY InitIInv
  <2>2. phase = [m \in Messages |-> PhaseFrom(result[m], answers[m])]
    BY <2>1, PhaseIs DEF IInv
  <2>3. phase = [m \in Messages |-> "unsent"]
    BY <2>2 DEF Init, PhaseFrom
  <2>4. [m \in Messages |-> delivered[m] > 0] = [m \in Messages |-> FALSE]
    <3>1. \A m \in Messages : delivered[m] = 0
      BY DEF Init
    <3>2. (0 > 0) = FALSE
      OBVIOUS
    <3>3. \A m \in Messages : (delivered[m] > 0) = FALSE
      BY <3>1, <3>2, Zenon
    <3> QED BY <3>3, Zenon
  <2> QED BY <2>3, <2>4 DEF Service!Init
<1>2. Init => IInv /\ WireQueued
  BY InitIInv DEF Init, WireQueued
<1>3. IInv /\ WireQueued /\ [Next]_vars => IInv' /\ WireQueued'
  BY NextIInv, WireQueuedNext
<1>4. IInv /\ IInv' /\ WireQueued /\ [Next]_vars => [Service!Next]_(Service!vars)
  BY StepImplements
<1> QED BY <1>1, <1>2, <1>3, <1>4, PTL DEF Spec

----------------------------------------------------------------------------
(* What the receiver remembers, and that messages arrive once *)

\* A sequence without repetition is not longer than its set of elements.
LEMMA DistinctLength ==
  ASSUME NEW S, IsFiniteSet(S), NEW w \in Seq(S), NoRepetition(w)
  PROVE  Len(w) <= Cardinality(S)
<1>1. Len(w) \in Nat /\ DOMAIN w = 1 .. Len(w) /\ w \in [1 .. Len(w) -> S]
  BY ElemsType, LenProperties
<1>2. w \in Injection(1 .. Len(w), S)
  BY <1>1 DEF NoRepetition, Injection, IsInjective
<1>3. Cardinality(1 .. Len(w)) <= Cardinality(S)
  BY <1>2, FS_Injection
<1>4. Cardinality(1 .. Len(w)) = Len(w)
  BY <1>1, FS_Interval
<1> QED BY <1>3, <1>4

\* A window that has room for every identifier forgets none.
LEMMA WindowKeeps ==
  ASSUME NEW S, IsFiniteSet(S), NEW size \in Nat \ {0}, Cardinality(S) <= size,
         NEW w \in Seq(S), NoRepetition(w), NEW id \in S
  PROVE  /\ MarkAsRepeated(size, w, id) \in Seq(S)
         /\ NoRepetition(MarkAsRepeated(size, w, id))
         /\ Remembered(MarkAsRepeated(size, w, id)) = Remembered(w) \cup {id}
<1>0. \A x : Remembered(x) = Elems(x)
  BY DEF Remembered, Elems
<1>1. CASE IsRepeated(w, id)
  BY <1>1 DEF MarkAsRepeated, IsRepeated
<1>2. CASE ~ IsRepeated(w, id)
  <2>1. id \notin Elems(w)
    BY <1>0, <1>2 DEF IsRepeated
  <2>2. /\ Append(w, id) \in Seq(S) /\ NoRepetition(Append(w, id))
        /\ Elems(Append(w, id)) = Elems(w) \cup {id}
        /\ Len(Append(w, id)) = Len(w) + 1
    BY <2>1, AppendNew, AppendElems
  <2>3. Len(w) + 1 <= Cardinality(S)
    <3> DEFINE v == Append(w, id)
    <3> HIDE DEF v
    <3>1. v \in Seq(S) /\ NoRepetition(v) /\ Len(v) = Len(w) + 1
      BY <2>2 DEF v
    <3>2. Len(v) <= Cardinality(S)
      BY <3>1, DistinctLength
    <3> QED BY <3>1, <3>2
  <2>4. Len(w) < size
    <3>1. Len(w) \in Nat /\ Cardinality(S) \in Nat
      BY ElemsType, FS_CardinalityType
    <3> QED BY <2>3, <3>1
  <2>5. MarkAsRepeated(size, w, id) = Append(w, id)
    BY <1>2, <2>4 DEF MarkAsRepeated
  <2> QED BY <1>0, <2>2, <2>5
<1> QED BY <1>1, <1>2

\* Pending packages are reliable ones, so others are transmitted once.
SentOnce ==
  /\ \A c \in Conns : \A p \in pending[c] : message[p] \in Reliable
  /\ \A t \in wire : t[1] \notin Reliable => t[2] = 1

\* The identifier that tells a delivered message from a new one.
Mark(m) == IF m \in Reliable THEN <<m, 0>> ELSE <<m, 1>>

\* What was delivered is remembered.
DeliveredIsSeen ==
  /\ NoRepetition(seen)
  /\ \A m \in Messages : delivered[m] > 0 => Mark(m) \in Remembered(seen)

\* Structures in use after a step that releases some carry what they carried.
LEMMA InUseKeepMessages ==
  ASSUME IInv, IInv', NEW G, Release(G)
  PROVE  \A p \in InUse' : message'[p] = message[p]
<1> SUFFICES ASSUME NEW p \in InUse'
             PROVE  message'[p] = message[p]
  OBVIOUS
<1>1. message'[p] # NoMessage
  BY TransferAssumption DEF IInv, Labels
<1>2. p \in Packages
  BY InUseIsPlacedNext, TypeListsNext DEF IInv, ListsOK, Placed
<1> QED BY <1>1, <1>2 DEF Release

LEMMA PassSendsOnce ==
  ASSUME IInv, IInv', SentOnce, NEW c \in Conns, NEW due \in SUBSET pending[c],
         NEW n \in [Queues -> Nat], \A q \in Queues : n[q] <= Len(fifo[c][q]),
         Pass(c, due, n)
  PROVE  SentOnce'
<1> DEFINE first == UNION {{fifo[c][q][i] : i \in 1 .. n[q]} : q \in Queues}
           dead == {p \in due : GivenUp(p)}
           again == due \ dead
           waiting == {p \in first : AwaitsAck(p)}
           G == dead \cup (first \ waiting)
<1>1. /\ pending' = [pending EXCEPT ![c] = (pending[c] \ dead) \cup waiting]
      /\ wire' = wire \cup {<<message[p], 1>> : p \in first}
                      \cup {<<message[p], retries[p] + 2>> : p \in again}
      /\ Release(G)
  BY DEF Pass
<1>2. \A p \in again : p \in pending[c]
  OBVIOUS
<1>3. \A p \in waiting : message[p] \in Reliable
  BY DEF AwaitsAck
<1>4. pending \in [Conns -> SUBSET Packages]
  BY DEF IInv, TypeOK
<1> HIDE DEF first, dead, again, waiting, G
<1>5. \A p \in InUse' : message'[p] = message[p]
  BY <1>1, InUseKeepMessages
<1>6. ASSUME NEW d \in Conns, NEW p \in pending'[d]
      PROVE  message'[p] \in Reliable
  <2>1. message[p] \in Reliable
    BY <1>1, <1>3, <1>4 DEF SentOnce
  <2>2. p \in InUse'
    BY InUseIsPlacedNext DEF Placed
  <2> QED BY <1>5, <2>1, <2>2
<1>7. ASSUME NEW t \in wire', t[1] \notin Reliable
      PROVE  t[2] = 1
  <2>1. CASE t \in wire
    BY <1>7, <2>1 DEF SentOnce
  <2>2. CASE \E p \in first : t = <<message[p], 1>>
    BY <2>2
  <2>3. CASE \E p \in again : t = <<message[p], retries[p] + 2>>
    BY <1>2, <1>7, <2>3 DEF SentOnce
  <2> QED BY <1>1, <2>1, <2>2, <2>3
<1> QED BY <1>6, <1>7 DEF SentOnce

LEMMA SentOnceNext ==
  ASSUME IInv, IInv', SentOnce, [Next]_vars
  PROVE  SentOnce'
<1>1. CASE \E m \in Messages : sendMessage(m) \/ \E c \in Conns : sendLinkPackage(m, c)
  <2>1. PICK m \in Messages : sendMessage(m) \/ \E c \in Conns : sendLinkPackage(m, c)
    BY <1>1
  <2>2. CASE \E c \in Conns : Enqueue(m, c)
    <3>1. PICK c \in Conns : Enqueue(m, c)
      BY <2>2
    <3>2. PICK p \in Packages : Taken(p, m)
      BY <3>1, EnqueueTakes
    <3>3. pending' = pending /\ wire' = wire
      BY <3>1 DEF Enqueue, netVars
    <3>4. \A c2 \in Conns : \A x \in pending[c2] : x # p /\ x \in Packages
      <4>1. p \notin InUse
        BY <3>2 DEF Taken, IInv, PackageHeldOnce
      <4> QED BY <4>1, InUseIsPlaced DEF Placed, IInv, TypeOK
    <3>5. \A x \in Packages : x # p => message'[x] = message[x]
      BY <3>2 DEF Taken, IInv, TypeOK
    <3> QED BY <3>3, <3>4, <3>5 DEF SentOnce
  <2>3. CASE ~ \E c \in Conns : Enqueue(m, c)
    <3>1. UNCHANGED <<pending, message, wire>>
      BY <2>1, <2>3 DEF sendMessage, sendLinkPackage, connection_sendPackage, Refuse, FailCall,
           queueVars, netVars, IInv, TypeOK
    <3> QED BY <3>1 DEF SentOnce
  <2> QED BY <2>2, <2>3
<1>2. CASE \E c \in Conns : processOutgoing(c)
  <2>1. PICK c \in Conns : processOutgoing(c)
    BY <1>2
  <2>2. PICK due \in SUBSET pending[c], n \in Stops(c) : Pass(c, due, n)
    BY <2>1 DEF processOutgoing
  <2>3. n \in [Queues -> Nat] /\ \A q \in Queues : n[q] <= Len(fifo[c][q])
    BY <2>2, TransferAssumption DEF Stops
  <2> QED BY <2>2, <2>3, PassSendsOnce
<1>3. ASSUME NEW G, Release(G), wire' = wire, \A c \in Conns : pending'[c] \subseteq pending[c]
      PROVE  SentOnce'
  <2>1. \A p \in InUse' : message'[p] = message[p]
    BY <1>3, InUseKeepMessages
  <2>2. \A c \in Conns : \A p \in pending'[c] : p \in InUse'
    BY InUseIsPlacedNext DEF Placed
  <2> QED BY <1>3, <2>1, <2>2 DEF SentOnce
<1>4. CASE \E acks \in ackWire : AckArrives(acks)
  <2>1. PICK acks \in ackWire : AckArrives(acks)
    BY <1>4
  <2>2. \E G : Release(G)
    BY <2>1 DEF AckArrives
  <2>3. wire' = wire /\ \A c \in Conns : pending'[c] \subseteq pending[c]
    BY <2>1 DEF AckArrives
  <2> QED BY <1>3, <2>2, <2>3
<1>5. CASE \E c \in Conns : closeConnection(c)
  <2>1. PICK c \in Conns : closeConnection(c)
    BY <1>5
  <2>2. \E G : Release(G)
    BY <2>1 DEF closeConnection
  <2>3. wire' = wire /\ \A d \in Conns : pending'[d] \subseteq pending[d]
    BY <2>1 DEF closeConnection, netVars, IInv, TypeOK
  <2> QED BY <1>3, <2>2, <2>3
<1>6. CASE \E c \in Conns : newConnection(c)
  <2>1. /\ UNCHANGED <<wire, message>>
        /\ \A d \in Conns : pending'[d] \subseteq pending[d]
    BY <1>6 DEF newConnection, netVars, IInv, TypeOK
  <2> QED BY <2>1 DEF SentOnce
<1>7. CASE \/ \E c \in Conns : connectFinished(c) \/ abortConnect(c)
           \/ \E c \in Conns \cup {NoConn} : Reroute(c)
           \/ ReceiverNext \/ NetworkNext \/ UNCHANGED vars
  <2>1. UNCHANGED <<pending, message>> /\ wire' \subseteq wire
    BY <1>7 DEF connectFinished, abortConnect, Reroute, ReceiverNext, NetworkNext, LosePackage,
         sendAcknowledgementsNow, processIncomming, LoseAcks, vars, queueVars, netVars
  <2> QED BY <2>1 DEF SentOnce
<1> QED BY <1>1, <1>2, <1>4, <1>5, <1>6, <1>7 DEF Next, SenderNext

\* With room for every identifier, an arriving transmission is delivered
\* exactly if nothing of its message was.
LEMMA ReceiveOnce ==
  ASSUME IsFiniteSet(Identifiers), Cardinality(Identifiers) <= LOOPINFO_SIZE,
         IInv, SentOnce, DeliveredIsSeen, DeliveredOnce,
         NEW t \in wire, processIncomming(t)
  PROVE  DeliveredIsSeen' /\ DeliveredOnce'
<1> DEFINE m == t[1]
           seen1 == MarkAsRepeated(LOOPINFO_SIZE, seen, t)
           again == Again(m, seen1)
<1>0. /\ seen \in Seq(Identifiers) /\ delivered \in [Messages -> Nat]
      /\ PENDING_MAX_RETRIES \in Nat /\ LOOPINFO_SIZE \in Nat \ {0}
      /\ NoRepetition(seen)
  BY TransferAssumption DEF IInv, TypeOK, DeliveredIsSeen
<1>1. /\ m \in Messages /\ t[2] \in Nat \ {0} /\ t = <<m, t[2]>>
      /\ t \in Identifiers
      /\ m \notin Reliable => t = <<m, 1>>
  <2>1. t \in Transmissions
    BY DEF IInv, TypeOK
  <2>2. m \in Messages /\ t[2] \in 1 .. PENDING_MAX_RETRIES + 2 /\ t = <<m, t[2]>>
    BY <2>1 DEF Transmissions
  <2>3. t[2] \in 0 .. PENDING_MAX_RETRIES + 2 /\ t[2] \in Nat \ {0}
    BY <1>0, <2>2
  <2>4. m \notin Reliable => t[2] = 1
    BY DEF SentOnce
  <2> QED BY <2>2, <2>3, <2>4 DEF Identifiers
<1>2. <<m, 0>> \in Identifiers
  BY <1>0, <1>1 DEF Identifiers
<1>3. IF IsRepeated(seen, t) THEN UNCHANGED recvVars
      ELSE /\ seen' = IF m \in Reliable /\ ~ again
                      THEN MarkAsRepeated(LOOPINFO_SIZE, seen1, <<m, 0>>)
                      ELSE seen1
           /\ delivered' = IF again THEN delivered ELSE [delivered EXCEPT ![m] = @ + 1]
  BY DEF processIncomming
<1>4. again <=> m \in Reliable /\ <<m, 0>> \in Remembered(seen1)
  BY DEF Again, IsRepeated
<1> HIDE DEF m, seen1, again
<1>5. /\ seen1 \in Seq(Identifiers) /\ NoRepetition(seen1)
      /\ Remembered(seen1) = Remembered(seen) \cup {t}
  BY <1>0, <1>1, WindowKeeps DEF seen1
<1>6. CASE IsRepeated(seen, t)
  BY <1>3, <1>6 DEF recvVars, DeliveredIsSeen, DeliveredOnce
<1>7. CASE ~ IsRepeated(seen, t) /\ again
  <2>1. seen' = seen1 /\ delivered' = delivered
    BY <1>3, <1>7
  <2> QED BY <1>5, <2>1 DEF DeliveredIsSeen, DeliveredOnce
<1>8. CASE ~ IsRepeated(seen, t) /\ ~ again
  <2>1. delivered[m] = 0
    <3>1. Mark(m) \notin Remembered(seen)
      BY <1>1, <1>4, <1>5, <1>8 DEF Mark, IsRepeated
    <3>2. ~ (delivered[m] > 0)
      BY <1>1, <3>1 DEF DeliveredIsSeen
    <3> QED BY <1>0, <1>1, <3>2
  <2>2. delivered' = [delivered EXCEPT ![m] = 1]
    BY <1>0, <1>1, <1>3, <1>8, <2>1
  <2>3. DeliveredOnce'
    BY <1>0, <1>1, <2>2 DEF DeliveredOnce
  <2>4. /\ NoRepetition(seen')
        /\ Remembered(seen') = Remembered(seen) \cup {t} \cup
             (IF m \in Reliable THEN {<<m, 0>>} ELSE {})
    <3>1. CASE m \in Reliable
      <4>1. seen' = MarkAsRepeated(LOOPINFO_SIZE, seen1, <<m, 0>>)
        BY <1>3, <1>8, <3>1
      <4>2. /\ NoRepetition(MarkAsRepeated(LOOPINFO_SIZE, seen1, <<m, 0>>))
            /\ Remembered(MarkAsRepeated(LOOPINFO_SIZE, seen1, <<m, 0>>))
                 = Remembered(seen1) \cup {<<m, 0>>}
        <5> DEFINE id == <<m, 0>>
        <5>1. id \in Identifiers
          BY <1>2
        <5> HIDE DEF id
        <5>2. /\ NoRepetition(MarkAsRepeated(LOOPINFO_SIZE, seen1, id))
              /\ Remembered(MarkAsRepeated(LOOPINFO_SIZE, seen1, id)) = Remembered(seen1) \cup {id}
          BY <1>0, <1>5, <5>1, WindowKeeps
        <5> QED BY <5>2 DEF id
      <4> QED BY <1>5, <3>1, <4>1, <4>2
    <3>2. CASE m \notin Reliable
      <4>1. seen' = seen1
        BY <1>3, <1>8, <3>2
      <4> QED BY <1>5, <3>2, <4>1
    <3> QED BY <3>1, <3>2
  <2>5. ASSUME NEW k \in Messages, delivered'[k] > 0
        PROVE  Mark(k) \in Remembered(seen')
    <3>1. CASE k = m
      BY <1>1, <2>4, <3>1 DEF Mark
    <3>2. CASE k # m
      <4>1. delivered[k] > 0
        BY <1>0, <2>2, <2>5, <3>2
      <4> QED BY <2>4, <4>1 DEF DeliveredIsSeen
    <3> QED BY <3>1, <3>2
  <2> QED BY <2>3, <2>4, <2>5 DEF DeliveredIsSeen
<1> QED BY <1>6, <1>7, <1>8

LEMMA IdentifiersFinite ==
  ASSUME IsFiniteSet(Messages)
  PROVE  IsFiniteSet(Identifiers)
<1>1. IsFiniteSet(0 .. PENDING_MAX_RETRIES + 2)
  <2>1. 0 \in Int /\ PENDING_MAX_RETRIES + 2 \in Int
    BY TransferAssumption
  <2> QED BY <2>1, FS_Interval
<1>2. IsFiniteSet(Messages \X (0 .. PENDING_MAX_RETRIES + 2))
  BY <1>1, FS_Product
<1> QED BY <1>2 DEF Identifiers

\* As long as the receiver's loop detection has room for the identifiers of
\* all transmissions and acknowledgements, no message, retransmitted or not,
\* reaches the hooks of its port twice.
THEOREM MessagesDeliveredOnce ==
  ASSUME IsFiniteSet(Messages), Cardinality(Identifiers) <= LOOPINFO_SIZE
  PROVE  Spec => []DeliveredOnce
<1> DEFINE Inv == IInv /\ SentOnce /\ DeliveredIsSeen /\ DeliveredOnce
<1>1. Init => Inv
  <2>1. Init => NoRepetition(seen)
    BY EmptyList DEF Init
  <2>2. Init => SentOnce /\ DeliveredOnce
    BY DEF Init, SentOnce, DeliveredOnce
  <2>3. Init => DeliveredIsSeen
    BY <2>1 DEF Init, DeliveredIsSeen
  <2> QED BY <2>2, <2>3, InitIInv
<1>2. Inv /\ [Next]_vars => Inv'
  <2> SUFFICES ASSUME Inv, [Next]_vars
               PROVE  Inv'
    OBVIOUS
  <2>1. IInv' /\ SentOnce'
    <3>1. IInv'
      BY NextIInv
    <3> QED BY <3>1, SentOnceNext
  <2>2. CASE \E t \in wire : processIncomming(t)
    <3>1. IsFiniteSet(Identifiers)
      BY IdentifiersFinite
    <3>2. DeliveredIsSeen' /\ DeliveredOnce'
      BY <2>2, <3>1, ReceiveOnce
    <3> QED BY <2>1, <3>2
  <2>3. CASE ~ \E t \in wire : processIncomming(t)
    <3>1. UNCHANGED <<seen, delivered>>
      BY <2>3 DEF Next, SenderNext, ReceiverNext, NetworkNext, vars, recvVars,
           sendMessage, sendLinkPackage, connection_sendPackage, Enqueue, Refuse, FailCall,
           processOutgoing, Pass, AckArrives, newConnection, connectFinished, abortConnect,
           closeConnection, Reroute, sendAcknowledgementsNow, LosePackage, LoseAcks
    <3> QED BY <2>1, <3>1 DEF DeliveredIsSeen, DeliveredOnce
  <2> QED BY <2>2, <2>3
<1>3. Inv => DeliveredOnce
  OBVIOUS
<1> QED BY <1>1, <1>2, <1>3, PTL DEF Spec
=============================================================================
