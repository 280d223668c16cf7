---------------------- MODULE ReliableTransfer_proofs ----------------------
(***************************************************************************)
(* Theorems about ReliableTransfer, for every set of messages,             *)
(* connections and packages and every value of the limits.                 *)
(***************************************************************************)
EXTENDS ReliableTransfer, SequenceTheorems, TLAPS

----------------------------------------------------------------------------
(* Sequences *)

\* The elements of a sequence of elements of S are elements of S.
LEMMA ElemsType ==
  ASSUME NEW S, NEW s \in Seq(S)
  PROVE  /\ Elems(s) \subseteq S
         /\ DOMAIN s = 1 .. Len(s)
         /\ Len(s) \in Nat
  BY DEF Elems

\* Appending an element adds it.
LEMMA AppendElems ==
  ASSUME NEW S, NEW s \in Seq(S), NEW e \in S
  PROVE  /\ Append(s, e) \in Seq(S)
         /\ Elems(Append(s, e)) = Elems(s) \cup {e}
         /\ Len(Append(s, e)) = Len(s) + 1
         /\ \A i \in 1 .. Len(s) : Append(s, e)[i] = s[i]
         /\ Append(s, e)[Len(s) + 1] = e
<1>1. /\ Append(s, e) \in Seq(S)
      /\ Len(Append(s, e)) = Len(s) + 1
      /\ \A i \in 1 .. Len(s) : Append(s, e)[i] = s[i]
      /\ Append(s, e)[Len(s) + 1] = e
  BY AppendProperties
<1>2. DOMAIN Append(s, e) = 1 .. Len(s) + 1 /\ DOMAIN s = 1 .. Len(s) /\ Len(s) \in Nat
  BY <1>1, ElemsType
<1>3. Elems(Append(s, e)) = Elems(s) \cup {e}
  BY <1>1, <1>2 DEF Elems
<1> QED BY <1>1, <1>3

\* What is left of a queue after its first n elements.
LEMMA SuffixElems ==
  ASSUME NEW S, NEW s \in Seq(S), NEW n \in 0 .. Len(s),
         NEW t, t = SubSeq(s, n + 1, Len(s))
  PROVE  /\ t \in Seq(S)
         /\ DOMAIN t = 1 .. Len(s) - n
         /\ \A i \in DOMAIN t : t[i] = s[n + i] /\ n + i \in DOMAIN s
<1>1. DOMAIN s = 1 .. Len(s) /\ Len(s) \in Nat
  BY ElemsType
<1>2. \A i \in n + 1 .. Len(s) : s[i] \in S
  BY <1>1, ElementOfSeq
<1>3. /\ t \in Seq(S)
      /\ Len(t) = IF n + 1 <= Len(s) THEN Len(s) - (n + 1) + 1 ELSE 0
      /\ \A i \in 1 .. Len(s) - (n + 1) + 1 : t[i] = s[(n + 1) + i - 1]
  BY <1>1, <1>2, SubSeqProperties
<1>4. /\ Len(t) = Len(s) - n
      /\ DOMAIN t = 1 .. Len(t)
  <2>1. Len(t) = IF n + 1 <= Len(s) THEN Len(s) - (n + 1) + 1 ELSE 0
    BY <1>3
  <2>2. Len(s) \in Nat /\ n \in Nat /\ n <= Len(s)
    BY <1>1
  <2>3. Len(t) = Len(s) - n
    BY <2>1, <2>2
  <2>4. DOMAIN t = 1 .. Len(t)
    BY <1>3, LenProperties
  <2> QED BY <2>3, <2>4
<1>5. ASSUME NEW i \in 1 .. Len(s) - n
      PROVE  t[i] = s[n + i] /\ n + i \in 1 .. Len(s)
  <2>1. t[i] = s[(n + 1) + i - 1]
    BY <1>1, <1>3
  <2>2. (n + 1) + i - 1 = n + i /\ n + i \in 1 .. Len(s)
    BY <1>1
  <2> QED BY <2>1, <2>2
<1> QED BY <1>1, <1>3, <1>4, <1>5

\* Marking an identifier adds no other.
LEMMA MarkRemembers ==
  ASSUME NEW S, NEW w \in Seq(S), NEW id \in S, NEW size \in Nat \ {0}
  PROVE  /\ MarkAsRepeated(size, w, id) \in Seq(S)
         /\ Remembered(MarkAsRepeated(size, w, id)) \subseteq Remembered(w) \cup {id}
<1>0. DOMAIN w = 1 .. Len(w) /\ Len(w) \in Nat
  BY ElemsType
<1>1. CASE IsRepeated(w, id)
  BY <1>1 DEF MarkAsRepeated
<1>2. CASE ~ IsRepeated(w, id) /\ Len(w) < size
  <2>1. MarkAsRepeated(size, w, id) = Append(w, id)
    BY <1>2 DEF MarkAsRepeated
  <2>2. Elems(Append(w, id)) = Elems(w) \cup {id} /\ Append(w, id) \in Seq(S)
    BY AppendElems
  <2> QED BY <2>1, <2>2 DEF Remembered, Elems
<1>3. CASE ~ IsRepeated(w, id) /\ ~ (Len(w) < size)
  <2>1. MarkAsRepeated(size, w, id) = Append(Tail(w), id)
    BY <1>3 DEF MarkAsRepeated
  <2>2. w # <<>>
    BY <1>3, <1>0
  <2>3. /\ Tail(w) \in Seq(S) /\ Len(Tail(w)) = Len(w) - 1
        /\ \A i \in 1 .. Len(Tail(w)) : Tail(w)[i] = w[i + 1]
    BY <2>2, HeadTailProperties
  <2>4. /\ Elems(Append(Tail(w), id)) = Elems(Tail(w)) \cup {id}
        /\ Append(Tail(w), id) \in Seq(S)
    <3> DEFINE v == Tail(w)
    <3>1. v \in Seq(S)
      BY <2>3
    <3> HIDE DEF v
    <3>2. Elems(Append(v, id)) = Elems(v) \cup {id} /\ Append(v, id) \in Seq(S)
      BY <3>1, AppendElems
    <3> QED BY <3>2 DEF v
  <2>5. DOMAIN Tail(w) = 1 .. Len(Tail(w))
    BY <2>3, ElemsType
  <2>6. Elems(Tail(w)) \subseteq Elems(w)
    BY <2>3, <2>5, <1>0 DEF Elems
  <2>7. \A x : Remembered(x) = Elems(x)
    BY DEF Remembered, Elems
  <2> QED BY <2>1, <2>4, <2>6, <2>7
<1> QED BY <1>1, <1>2, <1>3

----------------------------------------------------------------------------
(* Calling hooks *)

\* What becomes of the calls of the hooks when those of M are made.
LEMMA AnswerProperties ==
  ASSUME answers \in [Messages -> Seq(BOOLEAN)], NEW M, NEW v \in BOOLEAN, Answer(M, v)
  PROVE  /\ answers' \in [Messages -> Seq(BOOLEAN)]
         /\ \A m \in Messages :
              /\ m \notin M => answers'[m] = answers[m]
              /\ answers[m] = <<>> => Len(answers'[m]) <= 1
              /\ TRUE \in Elems(answers'[m]) =>
                   TRUE \in Elems(answers[m]) \/ (v = TRUE /\ m \in M)
<1>0. /\ answers \in [Messages -> Seq(BOOLEAN)]
      /\ answers' = [m \in Messages |->
           IF m \in M \cap Hooked THEN Append(answers[m], v) ELSE answers[m]]
  BY DEF Answer
<1>1. ASSUME NEW m \in Messages
      PROVE  /\ answers'[m] \in Seq(BOOLEAN)
             /\ m \notin M => answers'[m] = answers[m]
             /\ answers[m] = <<>> => Len(answers'[m]) <= 1
             /\ TRUE \in Elems(answers'[m]) => TRUE \in Elems(answers[m]) \/ (v = TRUE /\ m \in M)
  <2> DEFINE s == answers[m]
  <2>1. s \in Seq(BOOLEAN)
    BY <1>0
  <2>2. s = <<>> => Len(s) = 0
    OBVIOUS
  <2>3. answers'[m] = IF m \in M \cap Hooked THEN Append(s, v) ELSE s
    BY <1>0
  <2> HIDE DEF s
  <2>4. /\ Append(s, v) \in Seq(BOOLEAN)
        /\ Elems(Append(s, v)) = Elems(s) \cup {v}
        /\ Len(Append(s, v)) = Len(s) + 1
    BY <2>1, AppendElems
  <2>5. CASE m \in M \cap Hooked
    <3>1. answers'[m] = Append(s, v)
      BY <2>3, <2>5
    <3>2. ASSUME s = <<>>
          PROVE  Len(answers'[m]) <= 1
      <4>1. Len(s) = 0
        BY <2>2, <3>2
      <4>2. Len(answers'[m]) = 0 + 1
        BY <2>4, <3>1, <4>1, Zenon
      <4>3. 0 + 1 <= 1
        OBVIOUS
      <4> QED BY <4>2, <4>3, Zenon
    <3>3. TRUE \in Elems(answers'[m]) => TRUE \in Elems(s) \/ v = TRUE
      BY <2>4, <3>1, Zenon
    <3>4. m \in M /\ s = answers[m] /\ answers'[m] \in Seq(BOOLEAN)
      BY <2>4, <2>5, <3>1 DEF s
    <3> QED BY <3>2, <3>3, <3>4, Zenon
  <2>6. CASE m \notin M \cap Hooked
    <3>1. answers'[m] = s
      BY <2>3, <2>6
    <3>2. answers'[m] = answers[m]
      BY <3>1 DEF s
    <3>3. answers'[m] \in Seq(BOOLEAN)
      BY <2>1, <3>1
    <3>4. ASSUME answers[m] = <<>>
          PROVE  Len(answers'[m]) <= 1
      <4>1. Len(answers'[m]) = 0
        BY <2>2, <3>1, <3>4 DEF s
      <4> QED BY <4>1
    <3> QED BY <3>2, <3>3, <3>4
  <2> QED BY <2>5, <2>6
<1>2. answers' = [m \in Messages |-> answers'[m]]
  BY <1>0
<1> QED BY <1>1, <1>2

----------------------------------------------------------------------------
(* Where the structures are *)

\* Structure p is linked into one of the queues f or the pending lists w.
Placed(f, w, p) ==
  \E c \in Conns : p \in w[c] \/ \E q \in Queues : p \in Elems(f[c][q])

NoRepetition(s) == \A i, j \in DOMAIN s : s[i] = s[j] => i = j

\* PackageHeldOnce, structure by structure, of the queues f, the pending lists
\* w, the free list l and the unallocated structures u.
Apart(f, w, l, u) ==
  /\ \A c \in Conns, q \in Queues : NoRepetition(f[c][q])
  /\ \A c, d \in Conns, q, r \in Queues : \A p \in Packages :
       p \in Elems(f[c][q]) /\ p \in Elems(f[d][r]) => c = d /\ q = r
  /\ \A c, d \in Conns : \A p \in Packages : p \in w[c] /\ p \in w[d] => c = d
  /\ \A c, d \in Conns, q \in Queues : \A p \in Packages :
       p \in Elems(f[c][q]) => p \notin w[d]
  /\ \A p \in Packages : Placed(f, w, p) => p \notin l /\ p \notin u
  /\ \A p \in Packages : p \in l => p \notin u

\* The lists are lists of structures.
ListsOK(f, w, l, u) ==
  /\ \A c \in Conns, q \in Queues : Elems(f[c][q]) \subseteq Packages
  /\ \A c \in Conns : w[c] \subseteq Packages
  /\ l \subseteq Packages /\ u \subseteq Packages

LEMMA InUseIsPlaced == \A p : p \in InUse <=> Placed(fifo, pending, p)
  BY DEF InUse, Held, Queued, Placed

LEMMA InUseIsPlacedNext == \A p : p \in InUse' <=> Placed(fifo', pending', p)
  BY DEF InUse, Held, Queued, Placed

LEMMA HeldOnceIsApart ==
  ASSUME ListsOK(fifo, pending, free, fresh)
  PROVE  PackageHeldOnce <=> Apart(fifo, pending, free, fresh)
<1>1. ASSUME PackageHeldOnce
      PROVE  Apart(fifo, pending, free, fresh)
  BY <1>1, InUseIsPlaced DEF PackageHeldOnce, Apart, NoRepetition, Queued
<1>2. ASSUME Apart(fifo, pending, free, fresh)
      PROVE  PackageHeldOnce
  BY <1>2, InUseIsPlaced DEF PackageHeldOnce, Apart, NoRepetition, ListsOK, Queued
<1> QED BY <1>1, <1>2

\* Structures only leave the queues, for the pending list of the same
\* connection or for the free list: no structure gets to two places.
LEMMA LeavingKeepsApart ==
  ASSUME NEW gone \in SUBSET Packages,
         Apart(fifo, pending, free, fresh), free' = free \cup gone, fresh' = fresh,
         \A c \in Conns, q \in Queues : NoRepetition(fifo'[c][q]),
         \A c \in Conns, q \in Queues : Elems(fifo'[c][q]) \subseteq Elems(fifo[c][q]),
         \A c \in Conns : \A p \in pending'[c] :
           p \in pending[c] \/ \E q \in Queues : p \in Elems(fifo[c][q]),
         \A c \in Conns, q \in Queues : \A p \in Elems(fifo'[c][q]) : p \notin pending'[c],
         \A p \in gone : Placed(fifo, pending, p) /\ ~ Placed(fifo', pending', p)
  PROVE  Apart(fifo', pending', free', fresh')
<1>1. \A c, d \in Conns, q, r \in Queues : \A p \in Packages :
        p \in Elems(fifo'[c][q]) /\ p \in Elems(fifo'[d][r]) => c = d /\ q = r
  BY DEF Apart
<1>2. ASSUME NEW c \in Conns, NEW d \in Conns, NEW p \in Packages, p \in pending'[c], p \in pending'[d]
      PROVE  c = d
  BY <1>2 DEF Apart
<1>3. ASSUME NEW c \in Conns, NEW d \in Conns, NEW q \in Queues, NEW p \in Packages,
             p \in Elems(fifo'[c][q]), p \in pending'[d]
      PROVE  FALSE
  <2>1. p \in Elems(fifo[c][q])
    BY <1>3
  <2>2. c = d
    BY <1>3, <2>1 DEF Apart
  <2> QED BY <1>3, <2>2
<1>4. \A p \in Packages : Placed(fifo', pending', p) => Placed(fifo, pending, p)
  BY DEF Placed
<1>5. \A p \in Packages : Placed(fifo', pending', p) => p \notin free' /\ p \notin fresh'
  BY <1>4 DEF Apart
<1>6. \A p \in Packages : p \in free' => p \notin fresh'
  BY DEF Apart
<1> QED BY <1>1, <1>2, <1>3, <1>5, <1>6 DEF Apart

----------------------------------------------------------------------------
(* The inductive invariant *)

\* What the queued structures carry: a message each, no two the same, and only
\* messages whose call queued them and whose hook is still to be called.
Labels ==
  /\ \A p \in InUse : message[p] \in Messages
  /\ \A p, q \in Packages : message[p] = message[q] /\ message[p] # NoMessage => p = q
  /\ \A p \in Packages : message[p] # NoMessage =>
       result[message[p]] = "queued" /\ answers[message[p]] = <<>>
  /\ \A m \in Messages : result[m] = "none" => answers[m] = <<>>

\* Whatever says that a message arrived is true.
Evidence ==
  /\ \A A \in ackWire : \A m \in A : delivered[m] > 0
  /\ \A m \in Elems(ackList) : delivered[m] > 0
  /\ \A m \in Reliable : <<m, 0>> \in Remembered(seen) => delivered[m] > 0
  /\ SuccessMeansDelivered

IInv == TypeOK /\ PackageHeldOnce /\ Labels /\ HookCalledOnce /\ Evidence

\* The type invariant makes every list a list of structures.
LEMMA TypeLists ==
  ASSUME TypeOK
  PROVE  ListsOK(fifo, pending, free, fresh)
<1>1. ASSUME NEW c \in Conns, NEW q \in Queues
      PROVE  Elems(fifo[c][q]) \subseteq Packages
  <2>1. fifo[c][q] \in Seq(Packages)
    BY DEF TypeOK
  <2> DEFINE s == fifo[c][q]
  <2> HIDE DEF s
  <2>2. s \in Seq(Packages) => Elems(s) \subseteq Packages
    BY ElemsType
  <2> QED BY <2>1, <2>2 DEF s
<1>2. /\ \A c \in Conns : pending[c] \subseteq Packages
      /\ free \subseteq Packages /\ fresh \subseteq Packages
  BY DEF TypeOK
<1> QED BY <1>1, <1>2 DEF ListsOK

LEMMA TypeListsNext ==
  ASSUME TypeOK'
  PROVE  ListsOK(fifo', pending', free', fresh')
<1>1. ASSUME NEW c \in Conns, NEW q \in Queues
      PROVE  Elems(fifo'[c][q]) \subseteq Packages
  <2>1. fifo'[c][q] \in Seq(Packages)
    BY DEF TypeOK
  <2> DEFINE s == fifo'[c][q]
  <2> HIDE DEF s
  <2>2. s \in Seq(Packages) => Elems(s) \subseteq Packages
    BY ElemsType
  <2> QED BY <2>1, <2>2 DEF s
<1>2. /\ \A c \in Conns : pending'[c] \subseteq Packages
      /\ free' \subseteq Packages /\ fresh' \subseteq Packages
  BY DEF TypeOK
<1> QED BY <1>1, <1>2 DEF ListsOK

LEMMA ApartIsHeldOnceNext ==
  ASSUME TypeOK', Apart(fifo', pending', free', fresh')
  PROVE  PackageHeldOnce'
<1>1. ListsOK(fifo', pending', free', fresh')
  BY TypeListsNext
<1> QED
  BY <1>1, InUseIsPlacedNext DEF PackageHeldOnce, Apart, NoRepetition, ListsOK, Queued

\* The empty sequence, as every list starts.
LEMMA EmptyList ==
  /\ \A S : <<>> \in Seq(S)
  /\ Elems(<<>>) = {}
  /\ NoRepetition(<<>>)
  /\ Len(<<>>) = 0
  BY DEF Elems, NoRepetition

LEMMA InitIInv == Init => IInv
<1> SUFFICES ASSUME Init
             PROVE  IInv
  OBVIOUS
<1>0. PENDING_MAX_RETRIES \in Nat
  BY TransferAssumption
<1>1. TypeOK
  <2>1. fifo \in [Conns -> [Queues -> Seq(Packages)]]
    BY EmptyList DEF Init, NoQueues
  <2>2. answers \in [Messages -> Seq(BOOLEAN)] /\ seen \in Seq(Identifiers) /\ ackList \in Seq(Reliable)
    BY EmptyList DEF Init
  <2>3. retries \in [Packages -> 0 .. PENDING_MAX_RETRIES + 1]
    BY <1>0 DEF Init
  <2> QED BY <2>1, <2>2, <2>3 DEF Init, TypeOK, Results
<1>2. \A c \in Conns, q \in Queues : fifo[c][q] = <<>>
  BY DEF Init, NoQueues
<1>3. \A p : ~ Placed(fifo, pending, p)
  BY <1>2, EmptyList DEF Init, Placed
<1>4. PackageHeldOnce
  <2>1. Apart(fifo, pending, free, fresh)
    BY <1>2, <1>3, EmptyList DEF Apart, Init
  <2> QED BY <2>1, <1>1, TypeLists, HeldOnceIsApart
<1>5. Labels
  BY <1>3, InUseIsPlaced DEF Init, Labels
<1>6. HookCalledOnce
  BY EmptyList DEF Init, HookCalledOnce
<1>7. Evidence
  BY EmptyList DEF Init, Evidence, SuccessMeansDelivered, Remembered, Elems
<1> QED BY <1>1, <1>4, <1>5, <1>6, <1>7 DEF IInv

----------------------------------------------------------------------------
(* Steps that leave every list alone *)

LEMMA ListsUnchanged ==
  ASSUME PackageHeldOnce, UNCHANGED <<fifo, pending, free, fresh>>
  PROVE  PackageHeldOnce'
  BY DEF PackageHeldOnce, InUse, Held, Queued

LEMMA LabelsUnchanged ==
  ASSUME Labels, UNCHANGED <<fifo, pending, message, result, answers>>
  PROVE  Labels'
  BY DEF Labels, InUse, Held, Queued

LEMMA EvidenceUnchanged ==
  ASSUME Evidence, UNCHANGED <<ackWire, recvVars, answers>>
  PROVE  Evidence'
  BY DEF Evidence, SuccessMeansDelivered, recvVars, Remembered

\* A call that fails before it has a structure.
LEMMA FailCallStep ==
  ASSUME IInv, NEW m \in Messages, result[m] = "none", NEW why \in Results \ {"none", "queued"},
         FailCall(m, why)
  PROVE  IInv'
<1> USE DEF FailCall, connVars, queueVars, netVars, recvVars
<1>1. TypeOK'
  BY DEF IInv, TypeOK
<1>2. PackageHeldOnce'
  BY ListsUnchanged DEF IInv
<1>3. Labels'
  <2>1. \A p \in Packages : message[p] # NoMessage => message[p] # m
    BY DEF IInv, Labels
  <2>2. \A p \in Packages : message[p] \in Messages \cup {NoMessage}
    BY DEF IInv, TypeOK
  <2>3. \A p \in Packages : message[p] # NoMessage => result'[message[p]] = "queued"
    BY <2>1, <2>2 DEF IInv, Labels, TypeOK
  <2>4. InUse' = InUse
    BY DEF InUse, Held, Queued
  <2>5. \A n \in Messages : result'[n] = "none" => result[n] = "none"
    BY DEF IInv, TypeOK
  <2> QED BY <2>3, <2>4, <2>5 DEF IInv, Labels
<1>4. HookCalledOnce'
  BY DEF IInv, HookCalledOnce
<1>5. Evidence'
  BY EvidenceUnchanged DEF IInv
<1> QED BY <1>1, <1>2, <1>3, <1>4, <1>5 DEF IInv

\* A connection is connected or given up, or the route changes.
LEMMA ConnectionStep ==
  ASSUME IInv,
         \/ \E c \in Conns : connectFinished(c) \/ abortConnect(c)
         \/ \E c \in Conns \cup {NoConn} : Reroute(c)
  PROVE  IInv'
<1> USE DEF connectFinished, abortConnect, Reroute, queueVars, callVars, netVars, recvVars
<1>0. UNCHANGED <<queueVars, callVars, netVars, recvVars>>
  OBVIOUS
<1>1. TypeOK'
  <2>1. state' \in [Conns -> {"free", "connecting", "open"}]
    BY DEF IInv, TypeOK
  <2>2. route' \in Conns \cup {NoConn}
    BY DEF IInv, TypeOK, RouteWithout
  <2> QED BY <1>0, <2>1, <2>2 DEF IInv, TypeOK
<1>2. PackageHeldOnce'
  BY <1>0, ListsUnchanged DEF IInv
<1>3. Labels'
  BY <1>0, LabelsUnchanged DEF IInv
<1>4. HookCalledOnce'
  BY <1>0 DEF IInv, HookCalledOnce
<1>5. Evidence'
  BY <1>0, EvidenceUnchanged DEF IInv
<1> QED BY <1>1, <1>2, <1>3, <1>4, <1>5 DEF IInv

\* The network loses something, or nothing at all happens.
LEMMA NetworkStep ==
  ASSUME IInv,
         \/ \E t \in wire : LosePackage(t)
         \/ \E acks \in ackWire : LoseAcks(acks)
         \/ UNCHANGED vars
  PROVE  IInv'
<1> USE DEF LosePackage, LoseAcks, vars, connVars, queueVars, callVars, netVars, recvVars
<1>0. /\ UNCHANGED <<connVars, queueVars, callVars, recvVars>>
      /\ wire' \subseteq wire /\ ackWire' \subseteq ackWire
  OBVIOUS
<1>1. TypeOK'
  BY <1>0 DEF IInv, TypeOK
<1>2. PackageHeldOnce'
  BY <1>0, ListsUnchanged DEF IInv
<1>3. Labels'
  BY <1>0, LabelsUnchanged DEF IInv
<1>4. HookCalledOnce'
  BY <1>0 DEF IInv, HookCalledOnce
<1>5. Evidence'
  BY <1>0 DEF IInv, Evidence, SuccessMeansDelivered, Remembered
<1> QED BY <1>1, <1>2, <1>3, <1>4, <1>5 DEF IInv

----------------------------------------------------------------------------
(* The receiver's steps *)

LEMMA FlushStep ==
  ASSUME IInv, sendAcknowledgementsNow
  PROVE  IInv'
<1> USE DEF sendAcknowledgementsNow, connVars, queueVars, callVars
<1>0. Elems(ackList) \subseteq Reliable
  BY ElemsType DEF IInv, TypeOK
<1>1. TypeOK'
  <2>1. ackWire' \subseteq SUBSET Reliable
    BY <1>0 DEF IInv, TypeOK
  <2>2. ackList' \in Seq(Reliable)
    BY EmptyList
  <2> QED BY <2>1, <2>2 DEF IInv, TypeOK
<1>2. PackageHeldOnce'
  BY ListsUnchanged DEF IInv
<1>3. Labels'
  BY LabelsUnchanged DEF IInv
<1>4. HookCalledOnce'
  BY DEF IInv, HookCalledOnce
<1>5. Evidence'
  <2>1. \A A \in ackWire' : \A m \in A : delivered[m] > 0
    BY DEF IInv, Evidence
  <2>2. \A m \in Elems(ackList') : delivered[m] > 0
    BY EmptyList
  <2> QED BY <2>1, <2>2 DEF IInv, Evidence, SuccessMeansDelivered, Remembered
<1> QED BY <1>1, <1>2, <1>3, <1>4, <1>5 DEF IInv

\* An acknowledgement goes into the list or, with the list, onto the wire.
LEMMA NoteAckProperties ==
  ASSUME ackList \in Seq(Reliable), ackWire \subseteq SUBSET Reliable, NEW m \in Reliable,
         NoteAck(m)
  PROVE  /\ ackList' \in Seq(Reliable) /\ ackWire' \subseteq SUBSET Reliable
         /\ Elems(ackList') \subseteq Elems(ackList) \cup {m}
         /\ \A A \in ackWire' : A \in ackWire \/ A = Elems(ackList) \cup {m}
<1>0. Elems(ackList) \subseteq Reliable
  BY ElemsType
<1>1. CASE Len(ackList) + 1 >= MAX_ACK_PACKAGES
  <2>1. ackWire' = ackWire \cup {Elems(ackList) \cup {m}} /\ ackList' = <<>>
    BY <1>1 DEF NoteAck
  <2>2. ackList' \in Seq(Reliable) /\ Elems(ackList') = {}
    BY <2>1, EmptyList
  <2> QED BY <1>0, <2>1, <2>2
<1>2. CASE ~ (Len(ackList) + 1 >= MAX_ACK_PACKAGES)
  <2>1. ackWire' = ackWire /\ ackList' = Append(ackList, m)
    BY <1>2 DEF NoteAck
  <2>2. Append(ackList, m) \in Seq(Reliable) /\ Elems(Append(ackList, m)) = Elems(ackList) \cup {m}
    BY AppendElems
  <2> QED BY <2>1, <2>2
<1> QED BY <1>1, <1>2

LEMMA ReceiveStep ==
  ASSUME IInv, NEW t \in wire, processIncomming(t)
  PROVE  IInv'
<1> DEFINE m == t[1]
           seen1 == MarkAsRepeated(LOOPINFO_SIZE, seen, t)
           ackID == <<m, 0>>
<1>0. /\ t \in Messages \X (1 .. PENDING_MAX_RETRIES + 2)
      /\ m \in Messages /\ t \in Identifiers /\ ackID \in Identifiers
      /\ \A n : t # <<n, 0>>
  BY TransferAssumption DEF IInv, TypeOK, Transmissions, Identifiers
<1>1. /\ seen \in Seq(Identifiers)
      /\ LOOPINFO_SIZE \in Nat \ {0}
      /\ seen1 \in Seq(Identifiers)
      /\ Remembered(seen1) \subseteq Remembered(seen) \cup {t}
  BY <1>0, MarkRemembers, TransferAssumption DEF IInv, TypeOK
<1>2. UNCHANGED <<state, route, fifo, pending, free, fresh, message, retries, result, answers>>
  BY DEF processIncomming, connVars, queueVars, callVars
<1>3. wire' \subseteq wire
  BY DEF processIncomming
<1>4. \A n \in Reliable : <<n, 0>> \in Remembered(seen1) => delivered[n] > 0
  BY <1>0, <1>1 DEF IInv, Evidence
<1>5. /\ ackList \in Seq(Reliable) /\ ackWire \subseteq SUBSET Reliable
      /\ delivered \in [Messages -> Nat]
  BY DEF IInv, TypeOK
<1> HIDE DEF m, seen1, ackID
<1>6. /\ seen' \in Seq(Identifiers)
      /\ ackList' \in Seq(Reliable) /\ ackWire' \subseteq SUBSET Reliable
      /\ delivered' \in [Messages -> Nat]
      /\ \A n \in Messages : delivered[n] > 0 => delivered'[n] > 0
      /\ \A A \in ackWire' : \A n \in A : delivered'[n] > 0
      /\ \A n \in Elems(ackList') : delivered'[n] > 0
      /\ \A n \in Reliable : <<n, 0>> \in Remembered(seen') => delivered'[n] > 0
  <2>1. CASE IsRepeated(seen, t)
    <3>1. UNCHANGED <<ackWire, seen, ackList, delivered>>
      BY <2>1 DEF processIncomming, recvVars
    <3> QED BY <1>1, <1>5, <3>1 DEF IInv, Evidence, Remembered
  <2>2. CASE ~ IsRepeated(seen, t) /\ m \notin Reliable
    <3>1. /\ UNCHANGED <<ackWire, ackList>>
          /\ seen' = seen1
          /\ delivered' = [delivered EXCEPT ![m] = @ + 1]
      BY <2>2 DEF processIncomming, Again, m, seen1
    <3>2. /\ delivered' \in [Messages -> Nat]
          /\ \A n \in Messages : delivered'[n] >= delivered[n]
      BY <1>0, <1>5, <3>1
    <3>3. \A n \in Messages : delivered[n] > 0 => delivered'[n] > 0
      BY <1>5, <3>2
    <3>4. Elems(ackList) \subseteq Reliable /\ Reliable \subseteq Messages
      BY <1>5, ElemsType, TransferAssumption
    <3>5. \A n \in Reliable : <<n, 0>> \in Remembered(seen') => delivered'[n] > 0
      BY <1>4, <3>1, <3>3, <3>4
    <3>6. \A A \in ackWire' : \A n \in A : delivered'[n] > 0
      BY <1>5, <3>1, <3>3, <3>4 DEF IInv, Evidence
    <3>7. \A n \in Elems(ackList') : delivered'[n] > 0
      BY <1>5, <3>1, <3>3, <3>4 DEF IInv, Evidence
    <3> QED BY <1>1, <1>5, <3>1, <3>2, <3>3, <3>5, <3>6, <3>7
  <2>3. CASE ~ IsRepeated(seen, t) /\ m \in Reliable
    <3>1. /\ NoteAck(m)
          /\ seen' = IF ackID \notin Remembered(seen1)
                     THEN MarkAsRepeated(LOOPINFO_SIZE, seen1, ackID) ELSE seen1
          /\ delivered' = IF ackID \in Remembered(seen1) THEN delivered
                          ELSE [delivered EXCEPT ![m] = @ + 1]
      BY <2>3 DEF processIncomming, Again, IsRepeated, m, seen1, ackID
    <3>2. /\ delivered' \in [Messages -> Nat]
          /\ \A n \in Messages : delivered[n] > 0 => delivered'[n] > 0
          /\ delivered'[m] > 0
      <4>1. CASE ackID \in Remembered(seen1)
        BY <1>4, <1>5, <2>3, <3>1, <4>1 DEF ackID
      <4>2. CASE ackID \notin Remembered(seen1)
        BY <1>0, <1>5, <3>1, <4>2
      <4> QED BY <4>1, <4>2
    <3>3. /\ ackList' \in Seq(Reliable) /\ ackWire' \subseteq SUBSET Reliable
          /\ Elems(ackList') \subseteq Elems(ackList) \cup {m}
          /\ \A A \in ackWire' : A \in ackWire \/ A = Elems(ackList) \cup {m}
      BY <1>5, <2>3, <3>1, NoteAckProperties
    <3>4. /\ seen' \in Seq(Identifiers)
          /\ Remembered(seen') \subseteq Remembered(seen1) \cup {ackID}
      <4>1. /\ MarkAsRepeated(LOOPINFO_SIZE, seen1, ackID) \in Seq(Identifiers)
            /\ Remembered(MarkAsRepeated(LOOPINFO_SIZE, seen1, ackID))
                 \subseteq Remembered(seen1) \cup {ackID}
        BY <1>0, <1>1, MarkRemembers
      <4> QED BY <1>1, <3>1, <4>1
    <3>5. \A n \in Reliable : <<n, 0>> = ackID => n = m
      BY DEF ackID
    <3>6. Elems(ackList) \subseteq Reliable /\ Reliable \subseteq Messages
      BY <1>5, ElemsType, TransferAssumption
    <3>7. \A n \in Elems(ackList) \cup {m} : delivered'[n] > 0
      BY <3>2, <3>6 DEF IInv, Evidence
    <3>8. \A n \in Reliable : <<n, 0>> \in Remembered(seen') => delivered'[n] > 0
      BY <1>4, <3>2, <3>4, <3>5, <3>6
    <3>9. \A A \in ackWire' : \A n \in A : delivered'[n] > 0
      BY <1>5, <3>2, <3>3, <3>6, <3>7 DEF IInv, Evidence
    <3> QED BY <3>2, <3>3, <3>4, <3>7, <3>8, <3>9
  <2> QED BY <2>1, <2>2, <2>3
<1>7. TypeOK'
  BY <1>2, <1>3, <1>6 DEF IInv, TypeOK
<1>8. PackageHeldOnce'
  BY <1>2, ListsUnchanged DEF IInv
<1>9. Labels'
  BY <1>2, LabelsUnchanged DEF IInv
<1>10. HookCalledOnce'
  BY <1>2 DEF IInv, HookCalledOnce
<1>11. Evidence'
  BY <1>2, <1>6 DEF IInv, Evidence, SuccessMeansDelivered
<1> QED BY <1>7, <1>8, <1>9, <1>10, <1>11 DEF IInv

----------------------------------------------------------------------------
(* Sending *)

\* A structure that was free or unallocated joins one queue.
LEMMA JoiningKeepsApart ==
  ASSUME NEW c \in Conns, NEW q \in Queues, NEW p \in Packages,
         Apart(fifo, pending, free, fresh), p \in free \/ p \in fresh,
         free' = free \ {p}, fresh' = fresh \ {p}, pending' = pending,
         \A d \in Conns, r \in Queues : NoRepetition(fifo'[d][r]),
         \A d \in Conns, r \in Queues : \A x \in Elems(fifo'[d][r]) :
           x \in Elems(fifo[d][r]) \/ (d = c /\ r = q /\ x = p)
  PROVE  Apart(fifo', pending', free', fresh')
<1>1. ~ Placed(fifo, pending, p)
  BY DEF Apart
<1>2. ASSUME NEW d \in Conns, NEW e \in Conns, NEW r \in Queues, NEW t \in Queues, NEW x \in Packages,
             x \in Elems(fifo'[d][r]), x \in Elems(fifo'[e][t])
      PROVE  d = e /\ r = t
  <2>1. CASE x = p
    BY <1>1, <1>2, <2>1 DEF Placed
  <2>2. CASE x # p
    BY <1>2, <2>2 DEF Apart
  <2> QED BY <2>1, <2>2
<1>3. ASSUME NEW d \in Conns, NEW e \in Conns, NEW r \in Queues, NEW x \in Packages,
             x \in Elems(fifo'[d][r])
      PROVE  x \notin pending'[e]
  BY <1>1, <1>3 DEF Apart, Placed
<1>4. \A x \in Packages : Placed(fifo', pending', x) => Placed(fifo, pending, x) \/ x = p
  BY DEF Placed
<1>5. \A x \in Packages : Placed(fifo', pending', x) => x \notin free' /\ x \notin fresh'
  BY <1>4 DEF Apart
<1>6. \A x \in Packages : x \in free' => x \notin fresh'
  BY DEF Apart
<1>7. \A d, e \in Conns : \A x \in Packages : x \in pending'[d] /\ x \in pending'[e] => d = e
  BY DEF Apart
<1> QED BY <1>2, <1>3, <1>5, <1>6, <1>7 DEF Apart

\* A sequence stays without repetition when something new is appended.
LEMMA AppendNew ==
  ASSUME NEW S, NEW s \in Seq(S), NEW e \in S, NoRepetition(s), e \notin Elems(s)
  PROVE  NoRepetition(Append(s, e))
<1>1. /\ Append(s, e) \in Seq(S)
      /\ Len(Append(s, e)) = Len(s) + 1
      /\ \A i \in 1 .. Len(s) : Append(s, e)[i] = s[i]
      /\ Append(s, e)[Len(s) + 1] = e
  BY AppendElems
<1>2. DOMAIN s = 1 .. Len(s) /\ Len(s) \in Nat /\ DOMAIN Append(s, e) = 1 .. Len(s) + 1
  BY <1>1, ElemsType
<1>3. \A i \in 1 .. Len(s) : s[i] # e
  BY <1>2 DEF Elems
<1>4. \A i \in 1 .. Len(s) + 1 : i \in 1 .. Len(s) \/ i = Len(s) + 1
  BY <1>2
<1> QED BY <1>1, <1>2, <1>3, <1>4 DEF NoRepetition

LEMMA EnqueueStep ==
  ASSUME IInv, NEW m \in Messages, result[m] = "none", NEW c \in Conns, Enqueue(m, c)
  PROVE  IInv'
<1> DEFINE q == QueueOf(m)
           s == fifo[c][q]
<1>0. q \in Queues
  BY DEF QueueOf, Queues
<1>1. PICK p \in Obtainable :
        /\ free' = free \ {p} /\ fresh' = fresh \ {p}
        /\ fifo' = [fifo EXCEPT ![c][q] = Append(@, p)]
        /\ message' = [message EXCEPT ![p] = m]
        /\ retries' = [retries EXCEPT ![p] = 0]
        /\ result' = [result EXCEPT ![m] = "queued"]
        /\ UNCHANGED <<connVars, pending, answers, netVars, recvVars>>
  BY DEF Enqueue, Obtain
<1>2. p \in Packages /\ (p \in free \/ p \in fresh)
  BY DEF Obtainable, IInv, TypeOK
<1> HIDE DEF q
<1>3. s \in Seq(Packages) /\ fifo \in [Conns -> [Queues -> Seq(Packages)]]
  BY <1>0 DEF IInv, TypeOK
<1>4. \A d \in Conns, r \in Queues :
        fifo'[d][r] = IF d = c /\ r = q THEN Append(s, p) ELSE fifo[d][r]
  <2>1. \A d \in Conns : d # c => fifo'[d] = fifo[d]
    BY <1>1, <1>3
  <2>2. fifo'[c] = [fifo[c] EXCEPT ![q] = Append(s, p)]
    BY <1>1, <1>3
  <2>3. fifo[c] \in [Queues -> Seq(Packages)]
    BY <1>3
  <2> HIDE DEF s
  <2>4. \A r \in Queues : fifo'[c][r] = IF r = q THEN Append(s, p) ELSE fifo[c][r]
    BY <2>2, <2>3
  <2> QED BY <2>1, <2>4
<1>5. fifo' \in [Conns -> [Queues -> Seq(Packages)]]
  <2>1. Append(s, p) \in Seq(Packages)
    BY <1>2, <1>3, AppendElems
  <2> HIDE DEF s
  <2>2. \A d \in Conns, r \in Queues : fifo'[d][r] \in Seq(Packages)
    BY <1>3, <1>4, <2>1
  <2>3. fifo' = [d \in Conns |-> fifo'[d]] /\ \A d \in Conns : fifo'[d] = [r \in Queues |-> fifo'[d][r]]
    BY <1>1, <1>3
  <2> QED BY <2>2, <2>3
<1>6. TypeOK'
  <2>1. retries' \in [Packages -> 0 .. PENDING_MAX_RETRIES + 1]
    BY <1>1, <1>2, TransferAssumption DEF IInv, TypeOK
  <2>2. message' \in [Packages -> Messages \cup {NoMessage}] /\ result' \in [Messages -> Results]
    BY <1>1 DEF IInv, TypeOK, Results
  <2>3. free' \subseteq Packages /\ fresh' \subseteq Packages
    BY <1>1 DEF IInv, TypeOK
  <2> QED BY <1>1, <1>5, <2>1, <2>2, <2>3 DEF IInv, TypeOK, connVars, netVars, recvVars
<1>7. Apart(fifo, pending, free, fresh)
  BY TypeLists, HeldOnceIsApart DEF IInv
<1>8. ~ Placed(fifo, pending, p)
  BY <1>2, <1>7 DEF Apart
<1> HIDE DEF s
<1>9. NoRepetition(Append(s, p)) /\ Elems(Append(s, p)) = Elems(s) \cup {p}
  <2>1. p \notin Elems(s)
    BY <1>0, <1>8 DEF Placed, s
  <2>2. NoRepetition(s)
    BY <1>0, <1>7 DEF Apart, s
  <2> QED BY <1>2, <1>3, <2>1, <2>2, AppendNew, AppendElems
<1>10. \A d \in Conns, r \in Queues :
         /\ NoRepetition(fifo'[d][r])
         /\ \A x \in Elems(fifo'[d][r]) : x \in Elems(fifo[d][r]) \/ (d = c /\ r = q /\ x = p)
  BY <1>4, <1>7, <1>9 DEF Apart, s
<1>11. PackageHeldOnce'
  <2>1. Apart(fifo', pending', free', fresh')
    <3>1. \A d \in Conns, r \in Queues : NoRepetition(fifo'[d][r])
      BY <1>10
    <3>2. \A d \in Conns, r \in Queues : \A x \in Elems(fifo'[d][r]) :
            x \in Elems(fifo[d][r]) \/ (d = c /\ r = q /\ x = p)
      BY <1>10
    <3>3. free' = free \ {p} /\ fresh' = fresh \ {p} /\ pending' = pending
      BY <1>1
    <3> QED BY <1>0, <1>2, <1>7, <3>1, <3>2, <3>3, JoiningKeepsApart
  <2> QED BY <1>6, <2>1, ApartIsHeldOnceNext
<1>12. Labels'
  <2>1. \A x \in Packages : message[x] # NoMessage => message[x] # m
    BY DEF IInv, Labels
  <2>2. \A x \in Packages : /\ message[x] \in Messages \cup {NoMessage}
                            /\ message'[x] = IF x = p THEN m ELSE message[x]
    BY <1>1 DEF IInv, TypeOK
  <2>3. \A n \in Messages : result'[n] = IF n = m THEN "queued" ELSE result[n]
    BY <1>1 DEF IInv, TypeOK
  <2>4. \A x : Placed(fifo', pending', x) => Placed(fifo, pending, x) \/ x = p
    BY <1>1, <1>10 DEF Placed
  <2>5. \A x \in InUse' : x \in InUse \/ x = p
    BY <2>4, InUseIsPlaced, InUseIsPlacedNext
  <2>6. \A x \in InUse' : x \in Packages
    BY <1>2, <2>5, InUseIsPlaced, TypeLists DEF IInv, ListsOK, Placed
  <2>7. \A x \in InUse' : message'[x] \in Messages
    BY <2>2, <2>5, <2>6 DEF IInv, Labels
  <2>8. \A x, y \in Packages : message'[x] = message'[y] /\ message'[x] # NoMessage => x = y
    BY <2>1, <2>2 DEF IInv, Labels
  <2>9. \A x \in Packages : message'[x] # NoMessage =>
          result'[message'[x]] = "queued" /\ answers'[message'[x]] = <<>>
    BY <1>1, <2>2, <2>3 DEF IInv, Labels
  <2>10. \A n \in Messages : result'[n] = "none" => answers'[n] = <<>>
    BY <1>1, <2>3 DEF IInv, Labels
  <2> QED BY <2>7, <2>8, <2>9, <2>10 DEF Labels
<1>13. HookCalledOnce'
  BY <1>1 DEF IInv, HookCalledOnce
<1>14. Evidence'
  BY <1>1, EvidenceUnchanged DEF IInv, netVars
<1> QED BY <1>6, <1>11, <1>12, <1>13, <1>14 DEF IInv

LEMMA RefuseStep ==
  ASSUME IInv, NEW m \in Messages, result[m] = "none", NEW c \in Conns, Refuse(m, c)
  PROVE  IInv'
<1>1. PICK p \in Obtainable :
        /\ free' = free \ {p} /\ fresh' = fresh \ {p}
        /\ result' = [result EXCEPT ![m] = "refused"]
        /\ Answer({m}, FALSE)
        /\ UNCHANGED <<connVars, fifo, pending, message, retries, netVars, recvVars>>
  BY DEF Refuse, Obtain
<1>2. /\ answers \in [Messages -> Seq(BOOLEAN)]
      /\ answers[m] = <<>>
  BY DEF IInv, TypeOK, Labels
<1>3. /\ answers' \in [Messages -> Seq(BOOLEAN)]
      /\ \A n \in Messages :
           /\ n # m => answers'[n] = answers[n]
           /\ answers[n] = <<>> => Len(answers'[n]) <= 1
           /\ TRUE \in Elems(answers'[n]) => TRUE \in Elems(answers[n])
  <2>1. FALSE \in BOOLEAN /\ Answer({m}, FALSE)
    BY <1>1
  <2>2. /\ answers' \in [Messages -> Seq(BOOLEAN)]
        /\ \A n \in Messages :
             /\ n \notin {m} => answers'[n] = answers[n]
             /\ answers[n] = <<>> => Len(answers'[n]) <= 1
             /\ TRUE \in Elems(answers'[n]) =>
                  TRUE \in Elems(answers[n]) \/ (FALSE = TRUE /\ n \in {m})
    BY <1>2, <2>1, AnswerProperties
  <2> QED BY <2>2
<1>4. TypeOK'
  <2>1. result' \in [Messages -> Results]
    BY <1>1 DEF IInv, TypeOK, Results
  <2> QED BY <1>1, <1>3, <2>1 DEF IInv, TypeOK, connVars, netVars, recvVars
<1>5. PackageHeldOnce'
  <2>1. Apart(fifo, pending, free, fresh)
    BY TypeLists, HeldOnceIsApart DEF IInv
  <2>2. fifo' = fifo /\ pending' = pending /\ free' = free \ {p} /\ fresh' = fresh \ {p}
    BY <1>1
  <2>3. Apart(fifo', pending', free', fresh')
    BY <2>1, <2>2 DEF Apart
  <2> QED BY <1>4, <2>3, ApartIsHeldOnceNext
<1>6. Labels'
  <2>1. \A x \in Packages : message[x] # NoMessage => message[x] # m
    BY DEF IInv, Labels
  <2>2. \A x \in Packages : message[x] \in Messages \cup {NoMessage}
    BY DEF IInv, TypeOK
  <2>3. \A n \in Messages : result'[n] = IF n = m THEN "refused" ELSE result[n]
    BY <1>1 DEF IInv, TypeOK
  <2>4. InUse' = InUse /\ message' = message
    BY <1>1 DEF InUse, Held, Queued
  <2>5. \A x \in Packages : message[x] # NoMessage =>
          result'[message[x]] = "queued" /\ answers'[message[x]] = <<>>
    BY <1>3, <2>1, <2>2, <2>3 DEF IInv, Labels
  <2>6. \A n \in Messages : result'[n] = "none" => answers'[n] = <<>>
    BY <1>3, <2>3 DEF IInv, Labels
  <2> QED BY <2>4, <2>5, <2>6 DEF IInv, Labels
<1>7. HookCalledOnce'
  <2>1. \A n \in Messages : n # m => Len(answers'[n]) <= 1
    BY <1>3 DEF IInv, HookCalledOnce
  <2>2. Len(answers'[m]) <= 1
    BY <1>2, <1>3
  <2> QED BY <2>1, <2>2 DEF HookCalledOnce
<1>8. Evidence'
  BY <1>1, <1>3 DEF IInv, Evidence, SuccessMeansDelivered, netVars, recvVars, Remembered
<1> QED BY <1>4, <1>5, <1>6, <1>7, <1>8 DEF IInv

----------------------------------------------------------------------------
(* Structures that leave the queues *)

\* The structures G leave the lists of the connections for the free list and
\* the hooks of the messages of some of them, D, are called.
LEMMA LeavingStep ==
  ASSUME IInv, NEW G \in SUBSET InUse, NEW D \in SUBSET G, NEW v \in BOOLEAN,
         Release(G), Answer(Carried(D), v),
         UNCHANGED <<result, fresh>>,
         \A p : p \in InUse' => p \in InUse /\ p \notin G
  PROVE  /\ free' \subseteq Packages
         /\ message' \in [Packages -> Messages \cup {NoMessage}]
         /\ answers' \in [Messages -> Seq(BOOLEAN)]
         /\ Labels' /\ HookCalledOnce'
         /\ \A m \in Messages : TRUE \in Elems(answers'[m]) =>
              TRUE \in Elems(answers[m]) \/ (v = TRUE /\ m \in Carried(D))
<1>1. InUse \subseteq Packages
  BY InUseIsPlaced, TypeLists DEF IInv, ListsOK, Placed
<1>2. /\ answers \in [Messages -> Seq(BOOLEAN)]
      /\ message \in [Packages -> Messages \cup {NoMessage}]
      /\ free \subseteq Packages
  BY DEF IInv, TypeOK
<1>3. /\ answers' \in [Messages -> Seq(BOOLEAN)]
      /\ \A m \in Messages :
           /\ m \notin Carried(D) => answers'[m] = answers[m]
           /\ answers[m] = <<>> => Len(answers'[m]) <= 1
           /\ TRUE \in Elems(answers'[m]) =>
                TRUE \in Elems(answers[m]) \/ (v = TRUE /\ m \in Carried(D))
  BY <1>2, AnswerProperties
<1>4. /\ free' = free \cup G
      /\ message' = [p \in Packages |-> IF p \in G THEN NoMessage ELSE message[p]]
  BY DEF Release
<1>5. /\ free' \subseteq Packages
      /\ message' \in [Packages -> Messages \cup {NoMessage}]
  BY <1>1, <1>2, <1>4
<1>6. \A p \in Packages : /\ p \in G => message'[p] = NoMessage
                          /\ p \notin G => message'[p] = message[p]
  BY <1>4
<1>7. \A p \in Packages : message'[p] # NoMessage => message[p] \notin Carried(D)
  BY <1>1, <1>6 DEF Carried, IInv, Labels
<1>8. Labels'
  <2>1. \A p \in InUse' : message'[p] \in Messages
    BY <1>1, <1>6 DEF IInv, Labels
  <2>2. \A p, q \in Packages : message'[p] = message'[q] /\ message'[p] # NoMessage => p = q
    BY <1>6 DEF IInv, Labels
  <2>3. ASSUME NEW p \in Packages, message'[p] # NoMessage
        PROVE  result'[message'[p]] = "queued" /\ answers'[message'[p]] = <<>>
    <3>1. message'[p] = message[p] /\ message[p] \in Messages /\ message[p] \notin Carried(D)
      BY <1>2, <1>6, <1>7, <2>3
    <3>2. result[message[p]] = "queued" /\ answers[message[p]] = <<>>
      BY <2>3, <3>1 DEF IInv, Labels
    <3> QED BY <1>3, <3>1, <3>2
  <2>4. \A m \in Carried(D) : m \in Messages => result[m] = "queued"
    BY <1>1, TransferAssumption DEF Carried, IInv, Labels
  <2>5. \A m \in Messages : result'[m] = "none" => answers'[m] = <<>>
    BY <1>3, <2>4 DEF IInv, Labels
  <2> QED BY <2>1, <2>2, <2>3, <2>5 DEF Labels
<1>9. HookCalledOnce'
  <2>1. ASSUME NEW m \in Messages
        PROVE  Len(answers'[m]) <= 1
    <3>1. CASE m \in Carried(D)
      <4>1. answers[m] = <<>>
        BY <1>1, <3>1, TransferAssumption DEF Carried, IInv, Labels
      <4> QED BY <1>3, <4>1
    <3>2. CASE m \notin Carried(D)
      BY <1>3, <3>2 DEF IInv, HookCalledOnce
    <3> QED BY <3>1, <3>2
  <2> QED BY <2>1 DEF HookCalledOnce
<1> QED BY <1>3, <1>5, <1>8, <1>9

\* A connection's queues are emptied.
LEMMA EmptiedQueues ==
  ASSUME fifo \in [Conns -> [Queues -> Seq(Packages)]], pending \in [Conns -> SUBSET Packages],
         NEW c \in Conns,
         fifo' = [fifo EXCEPT ![c] = NoQueues], pending' = [pending EXCEPT ![c] = {}]
  PROVE  /\ fifo' \in [Conns -> [Queues -> Seq(Packages)]]
         /\ pending' \in [Conns -> SUBSET Packages]
         /\ \A q \in Queues : fifo'[c][q] = <<>>
         /\ pending'[c] = {}
         /\ \A d \in Conns \ {c} : fifo'[d] = fifo[d] /\ pending'[d] = pending[d]
<1>1. NoQueues \in [Queues -> Seq(Packages)] /\ \A q \in Queues : NoQueues[q] = <<>>
  BY EmptyList DEF NoQueues
<1>2. /\ fifo' \in [Conns -> [Queues -> Seq(Packages)]]
      /\ fifo'[c] = NoQueues
      /\ \A d \in Conns \ {c} : fifo'[d] = fifo[d]
  <2> DEFINE e == NoQueues
  <2>1. e \in [Queues -> Seq(Packages)] /\ fifo' = [fifo EXCEPT ![c] = e]
    BY <1>1
  <2> HIDE DEF e
  <2>2. /\ fifo' \in [Conns -> [Queues -> Seq(Packages)]]
        /\ fifo'[c] = e
        /\ \A d \in Conns \ {c} : fifo'[d] = fifo[d]
    BY <2>1
  <2> QED BY <2>2 DEF e
<1>3. /\ pending' \in [Conns -> SUBSET Packages]
      /\ pending'[c] = {}
      /\ \A d \in Conns \ {c} : pending'[d] = pending[d]
  OBVIOUS
<1> QED BY <1>1, <1>2, <1>3

\* What the lists look like once those of a connection are emptied.
LEMMA EmptiedPlaces ==
  ASSUME NEW c \in Conns,
         \A q \in Queues : fifo'[c][q] = <<>>,
         pending'[c] = {},
         \A d \in Conns \ {c} : fifo'[d] = fifo[d] /\ pending'[d] = pending[d],
         Apart(fifo, pending, free, fresh)
  PROVE  /\ \A d \in Conns, q \in Queues : /\ NoRepetition(fifo'[d][q])
                                           /\ Elems(fifo'[d][q]) \subseteq Elems(fifo[d][q])
         /\ \A d \in Conns : pending'[d] \subseteq pending[d]
         /\ \A d \in Conns, q \in Queues : \A p \in Packages :
              p \in Elems(fifo'[d][q]) => p \notin pending'[d]
         /\ \A p : Placed(fifo', pending', p) =>
              \E d \in Conns \ {c} : p \in pending[d] \/ \E q \in Queues : p \in Elems(fifo[d][q])
<1>1. \A q \in Queues : NoRepetition(fifo'[c][q]) /\ Elems(fifo'[c][q]) = {}
  BY EmptyList
<1>2. \A d \in Conns, q \in Queues : /\ NoRepetition(fifo'[d][q])
                                     /\ Elems(fifo'[d][q]) \subseteq Elems(fifo[d][q])
  BY <1>1 DEF Apart
<1>3. \A d \in Conns : pending'[d] \subseteq pending[d]
  OBVIOUS
<1>4. \A d \in Conns, q \in Queues : \A p \in Packages :
        p \in Elems(fifo'[d][q]) => p \notin pending'[d]
  BY <1>2, <1>3 DEF Apart
<1>5. \A p : Placed(fifo', pending', p) =>
        \E d \in Conns \ {c} : p \in pending[d] \/ \E q \in Queues : p \in Elems(fifo[d][q])
  BY <1>1 DEF Placed
<1> QED BY <1>2, <1>3, <1>4, <1>5

LEMMA NewConnectionStep ==
  ASSUME IInv, NEW c \in Conns, newConnection(c)
  PROVE  IInv'
<1> USE DEF newConnection, callVars, netVars, recvVars
<1>0. /\ fifo \in [Conns -> [Queues -> Seq(Packages)]] /\ pending \in [Conns -> SUBSET Packages]
      /\ fifo' = [fifo EXCEPT ![c] = NoQueues] /\ pending' = [pending EXCEPT ![c] = {}]
  BY DEF IInv, TypeOK
<1>1. /\ fifo' \in [Conns -> [Queues -> Seq(Packages)]]
      /\ pending' \in [Conns -> SUBSET Packages]
      /\ \A q \in Queues : fifo'[c][q] = <<>>
      /\ pending'[c] = {}
      /\ \A d \in Conns \ {c} : fifo'[d] = fifo[d] /\ pending'[d] = pending[d]
  BY <1>0, EmptiedQueues
<1>2. TypeOK'
  BY <1>1 DEF IInv, TypeOK
<1>3. Apart(fifo, pending, free, fresh)
  BY TypeLists, HeldOnceIsApart DEF IInv
<1>4. /\ \A d \in Conns, q \in Queues : /\ NoRepetition(fifo'[d][q])
                                        /\ Elems(fifo'[d][q]) \subseteq Elems(fifo[d][q])
      /\ \A d \in Conns : pending'[d] \subseteq pending[d]
      /\ \A d \in Conns, q \in Queues : \A p \in Packages :
           p \in Elems(fifo'[d][q]) => p \notin pending'[d]
  BY <1>1, <1>3, EmptiedPlaces
<1>5. \A d \in Conns, q \in Queues : Elems(fifo'[d][q]) \subseteq Packages
  BY <1>4, TypeLists DEF IInv, ListsOK
<1>6. PackageHeldOnce'
  <2>1. /\ free' = free \cup {} /\ fresh' = fresh
        /\ \A d \in Conns, q \in Queues : NoRepetition(fifo'[d][q])
        /\ \A d \in Conns, q \in Queues : Elems(fifo'[d][q]) \subseteq Elems(fifo[d][q])
        /\ \A d \in Conns : \A p \in pending'[d] :
             p \in pending[d] \/ \E q \in Queues : p \in Elems(fifo[d][q])
        /\ \A d \in Conns, q \in Queues : \A p \in Elems(fifo'[d][q]) : p \notin pending'[d]
    BY <1>4, <1>5
  <2>2. Apart(fifo', pending', free', fresh')
    BY <1>3, <2>1, LeavingKeepsApart
  <2> QED BY <1>2, <2>2, ApartIsHeldOnceNext
<1>7. Labels'
  <2>1. \A p : Placed(fifo', pending', p) => Placed(fifo, pending, p)
    BY <1>4 DEF Placed
  <2>2. InUse' \subseteq InUse
    BY <2>1, InUseIsPlaced, InUseIsPlacedNext
  <2> QED BY <2>2 DEF IInv, Labels
<1>8. HookCalledOnce'
  BY DEF IInv, HookCalledOnce
<1>9. Evidence'
  BY EvidenceUnchanged DEF IInv
<1> QED BY <1>2, <1>6, <1>7, <1>8, <1>9 DEF IInv

LEMMA CloseStep ==
  ASSUME IInv, NEW c \in Conns, closeConnection(c)
  PROVE  IInv'
<1> DEFINE G == Held(c)
<1>0. /\ fifo \in [Conns -> [Queues -> Seq(Packages)]] /\ pending \in [Conns -> SUBSET Packages]
      /\ fifo' = [fifo EXCEPT ![c] = NoQueues] /\ pending' = [pending EXCEPT ![c] = {}]
      /\ Answer(Carried(G), FALSE) /\ Release(G)
      /\ UNCHANGED <<fresh, retries, result, netVars, recvVars>>
  BY DEF IInv, TypeOK, closeConnection
<1>1. /\ fifo' \in [Conns -> [Queues -> Seq(Packages)]]
      /\ pending' \in [Conns -> SUBSET Packages]
      /\ \A q \in Queues : fifo'[c][q] = <<>>
      /\ pending'[c] = {}
      /\ \A d \in Conns \ {c} : fifo'[d] = fifo[d] /\ pending'[d] = pending[d]
  BY <1>0, EmptiedQueues
<1>2. Apart(fifo, pending, free, fresh)
  BY TypeLists, HeldOnceIsApart DEF IInv
<1>3. /\ \A d \in Conns, q \in Queues : /\ NoRepetition(fifo'[d][q])
                                        /\ Elems(fifo'[d][q]) \subseteq Elems(fifo[d][q])
      /\ \A d \in Conns : pending'[d] \subseteq pending[d]
      /\ \A d \in Conns, q \in Queues : \A p \in Packages :
           p \in Elems(fifo'[d][q]) => p \notin pending'[d]
      /\ \A p : Placed(fifo', pending', p) =>
           \E d \in Conns \ {c} : p \in pending[d] \/ \E q \in Queues : p \in Elems(fifo[d][q])
  BY <1>1, <1>2, EmptiedPlaces
<1>4. \A p : p \in G <=> p \in pending[c] \/ \E q \in Queues : p \in Elems(fifo[c][q])
  BY DEF Held, Queued
<1>5. G \in SUBSET InUse /\ G \in SUBSET Packages
  <2>1. G \subseteq InUse
    BY DEF InUse
  <2>2. G \subseteq Packages
    BY <1>4, TypeLists DEF IInv, ListsOK
  <2> QED BY <2>1, <2>2
<1> HIDE DEF G
<1>6. \A p \in G : ~ Placed(fifo', pending', p)
  BY <1>2, <1>3, <1>4, <1>5 DEF Apart
<1>7. \A p : Placed(fifo', pending', p) => Placed(fifo, pending, p) /\ p \notin G
  BY <1>3, <1>6 DEF Placed
<1>8. \A p : p \in InUse' => p \in InUse /\ p \notin G
  BY <1>7, InUseIsPlaced, InUseIsPlacedNext
<1>9. /\ free' \subseteq Packages
      /\ message' \in [Packages -> Messages \cup {NoMessage}]
      /\ answers' \in [Messages -> Seq(BOOLEAN)]
      /\ Labels' /\ HookCalledOnce'
      /\ \A m \in Messages : TRUE \in Elems(answers'[m]) =>
           TRUE \in Elems(answers[m]) \/ (FALSE = TRUE /\ m \in Carried(G))
  <2>1. G \in SUBSET InUse /\ G \in SUBSET G /\ FALSE \in BOOLEAN
    BY <1>5
  <2> QED BY <1>0, <1>8, <2>1, LeavingStep
<1>10. TypeOK'
  <2>1. state' \in [Conns -> {"free", "connecting", "open"}]
    BY DEF closeConnection, IInv, TypeOK
  <2>2. route' \in Conns \cup {NoConn}
    BY DEF closeConnection, RouteWithout, IInv, TypeOK
  <2> QED BY <1>0, <1>1, <1>9, <2>1, <2>2 DEF IInv, TypeOK, netVars, recvVars
<1>11. PackageHeldOnce'
  <2>1. /\ free' = free \cup G /\ fresh' = fresh
        /\ \A d \in Conns, q \in Queues : NoRepetition(fifo'[d][q])
        /\ \A d \in Conns, q \in Queues : Elems(fifo'[d][q]) \subseteq Elems(fifo[d][q])
        /\ \A d \in Conns : \A p \in pending'[d] :
             p \in pending[d] \/ \E q \in Queues : p \in Elems(fifo[d][q])
    BY <1>0, <1>3 DEF Release
  <2>2. \A d \in Conns, q \in Queues : \A p \in Elems(fifo'[d][q]) : p \notin pending'[d]
    BY <1>3, TypeLists DEF IInv, ListsOK
  <2>3. \A p \in G : Placed(fifo, pending, p) /\ ~ Placed(fifo', pending', p)
    BY <1>4, <1>6 DEF Placed
  <2>4. Apart(fifo', pending', free', fresh')
    BY <1>2, <1>5, <2>1, <2>2, <2>3, LeavingKeepsApart
  <2> QED BY <1>10, <2>4, ApartIsHeldOnceNext
<1>12. Evidence'
  <2>1. \A m \in Messages : TRUE \in Elems(answers'[m]) => TRUE \in Elems(answers[m])
    BY <1>9
  <2> QED BY <1>0, <2>1 DEF IInv, Evidence, SuccessMeansDelivered, netVars, recvVars, Remembered
<1> QED BY <1>9, <1>10, <1>11, <1>12 DEF IInv

LEMMA AckStep ==
  ASSUME IInv, NEW acks \in ackWire, AckArrives(acks)
  PROVE  IInv'
<1> DEFINE match(c) == {p \in pending[c] : message[p] \in acks /\ state[c] # "free"}
           G == UNION {match(c) : c \in Conns}
<1>0. /\ ackWire' = ackWire \ {acks}
      /\ pending' = [c \in Conns |-> pending[c] \ match(c)]
      /\ Answer(Carried(G), TRUE) /\ Release(G)
      /\ UNCHANGED <<connVars, fifo, fresh, retries, result, wire, recvVars>>
  BY DEF AckArrives
<1>1. \A p : p \in G <=> \E c \in Conns : p \in pending[c] /\ p \in match(c)
  OBVIOUS
<1>2. \A p \in G : message[p] \in acks
  OBVIOUS
<1>3. \A c \in Conns : pending'[c] \subseteq pending[c]
  BY <1>0
<1>4. Apart(fifo, pending, free, fresh) /\ ListsOK(fifo, pending, free, fresh)
  BY TypeLists, HeldOnceIsApart DEF IInv
<1>5. G \in SUBSET InUse /\ G \in SUBSET Packages
  <2>1. G \subseteq InUse
    BY <1>1, InUseIsPlaced DEF Placed
  <2>2. G \subseteq Packages
    BY <1>1, <1>4 DEF ListsOK
  <2> QED BY <2>1, <2>2
<1>6. \A c \in Conns : \A p \in G : p \notin pending'[c]
  <2> SUFFICES ASSUME NEW c \in Conns, NEW p \in G, p \in pending'[c]
               PROVE  FALSE
    OBVIOUS
  <2>1. p \in pending[c] /\ p \notin match(c)
    BY <1>0
  <2>2. PICK d \in Conns : p \in pending[d] /\ p \in match(d)
    BY <1>1
  <2>3. c = d
    BY <1>4, <1>5, <2>1, <2>2 DEF Apart
  <2> QED BY <2>1, <2>2, <2>3
<1>7. fifo' = fifo
  BY <1>0
<1>8. \A p \in G : Placed(fifo, pending, p) /\ ~ Placed(fifo', pending', p)
  <2>1. \A p \in G : \E c \in Conns : p \in pending[c]
    BY <1>1
  <2>2. \A p \in G : \A c \in Conns, q \in Queues : p \notin Elems(fifo[c][q])
    BY <1>4, <1>5, <2>1 DEF Apart
  <2> HIDE DEF G
  <2> QED BY <1>6, <1>7, <2>1, <2>2 DEF Placed
<1> HIDE DEF G
<1>9. \A p : p \in InUse' => p \in InUse /\ p \notin G
  <2>1. \A p : Placed(fifo', pending', p) => Placed(fifo, pending, p) /\ p \notin G
    BY <1>3, <1>7, <1>8 DEF Placed
  <2> QED BY <2>1, InUseIsPlaced, InUseIsPlacedNext
<1>10. /\ free' \subseteq Packages
       /\ message' \in [Packages -> Messages \cup {NoMessage}]
       /\ answers' \in [Messages -> Seq(BOOLEAN)]
       /\ Labels' /\ HookCalledOnce'
       /\ \A m \in Messages : TRUE \in Elems(answers'[m]) =>
            TRUE \in Elems(answers[m]) \/ (TRUE = TRUE /\ m \in Carried(G))
  <2>1. G \in SUBSET InUse /\ G \in SUBSET G /\ TRUE \in BOOLEAN
    BY <1>5
  <2> QED BY <1>0, <1>9, <2>1, LeavingStep
<1>11. TypeOK'
  <2>1. pending' \in [Conns -> SUBSET Packages]
    BY <1>0 DEF IInv, TypeOK
  <2>2. ackWire' \subseteq SUBSET Reliable
    BY <1>0 DEF IInv, TypeOK
  <2> QED BY <1>0, <1>10, <2>1, <2>2 DEF IInv, TypeOK, connVars, recvVars
<1>12. PackageHeldOnce'
  <2>1. /\ free' = free \cup G /\ fresh' = fresh
        /\ \A d \in Conns, q \in Queues : NoRepetition(fifo'[d][q])
        /\ \A d \in Conns, q \in Queues : Elems(fifo'[d][q]) \subseteq Elems(fifo[d][q])
        /\ \A d \in Conns : \A p \in pending'[d] :
             p \in pending[d] \/ \E q \in Queues : p \in Elems(fifo[d][q])
    BY <1>0, <1>3, <1>4, <1>7 DEF Release, Apart
  <2>2. \A d \in Conns, q \in Queues : \A p \in Elems(fifo'[d][q]) : p \notin pending'[d]
    BY <1>3, <1>4, <1>7 DEF ListsOK, Apart
  <2>3. Apart(fifo', pending', free', fresh')
    BY <1>4, <1>5, <1>8, <2>1, <2>2, LeavingKeepsApart
  <2> QED BY <1>11, <2>3, ApartIsHeldOnceNext
<1>13. Evidence'
  <2>1. \A m \in Carried(G) : m \in acks
    BY <1>2 DEF Carried
  <2>2. \A m \in Messages : TRUE \in Elems(answers'[m]) => delivered[m] > 0
    BY <1>10, <2>1 DEF IInv, Evidence, SuccessMeansDelivered
  <2> QED BY <1>0, <2>2 DEF IInv, Evidence, SuccessMeansDelivered, recvVars, Remembered
<1> QED BY <1>10, <1>11, <1>12, <1>13 DEF IInv

\* What a pass makes of the queues of connection c: `first' leaves them.
LEMMA PassedQueues ==
  ASSUME fifo \in [Conns -> [Queues -> Seq(Packages)]],
         \A d \in Conns, q \in Queues : NoRepetition(fifo[d][q]),
         NEW c \in Conns, NEW n \in [Queues -> Nat],
         \A q \in Queues : n[q] <= Len(fifo[c][q]),
         fifo' = [fifo EXCEPT ![c] =
                    [q \in Queues |-> SubSeq(fifo[c][q], n[q] + 1, Len(fifo[c][q]))]]
  PROVE  /\ fifo' \in [Conns -> [Queues -> Seq(Packages)]]
         /\ \A d \in Conns \ {c} : fifo'[d] = fifo[d]
         /\ \A q \in Queues :
              /\ NoRepetition(fifo'[c][q])
              /\ Elems(fifo'[c][q]) \subseteq Elems(fifo[c][q])
              /\ \A i \in 1 .. n[q] : /\ fifo[c][q][i] \in Elems(fifo[c][q])
                                      /\ fifo[c][q][i] \notin Elems(fifo'[c][q])
<1> DEFINE rest == [q \in Queues |-> SubSeq(fifo[c][q], n[q] + 1, Len(fifo[c][q]))]
<1>1. ASSUME NEW q \in Queues
      PROVE  /\ rest[q] \in Seq(Packages)
             /\ NoRepetition(rest[q])
             /\ Elems(rest[q]) \subseteq Elems(fifo[c][q])
             /\ \A i \in 1 .. n[q] : /\ fifo[c][q][i] \in Elems(fifo[c][q])
                                     /\ fifo[c][q][i] \notin Elems(rest[q])
  <2> DEFINE s == fifo[c][q]
             k == n[q]
             t == SubSeq(s, k + 1, Len(s))
  <2>1. s \in Seq(Packages) /\ NoRepetition(s) /\ k \in Nat /\ k <= Len(s) /\ rest[q] = t
    OBVIOUS
  <2> HIDE DEF s, k
  <2>2. DOMAIN s = 1 .. Len(s) /\ Len(s) \in Nat
    BY <2>1, ElemsType
  <2>3. k \in 0 .. Len(s)
    BY <2>1, <2>2
  <2>4. /\ t \in Seq(Packages)
        /\ DOMAIN t = 1 .. Len(s) - k
        /\ \A i \in DOMAIN t : t[i] = s[k + i] /\ k + i \in DOMAIN s
    BY <2>1, <2>3, SuffixElems
  <2> HIDE DEF t
  <2>5. NoRepetition(t)
    <3> SUFFICES ASSUME NEW i \in DOMAIN t, NEW j \in DOMAIN t, t[i] = t[j]
                 PROVE  i = j
      BY DEF NoRepetition
    <3>1. k + i = k + j
      BY <2>1, <2>4 DEF NoRepetition
    <3>2. i \in Int /\ j \in Int /\ k \in Int
      BY <2>1, <2>4
    <3> QED BY <3>1, <3>2
  <2>6. Elems(t) \subseteq Elems(s)
    BY <2>4 DEF Elems
  <2>7. ASSUME NEW i \in 1 .. k
        PROVE  s[i] \in Elems(s) /\ s[i] \notin Elems(t)
    <3>1. i \in DOMAIN s
      BY <2>2, <2>3
    <3>2. s[i] \in Elems(s)
      BY <3>1 DEF Elems
    <3>3. ASSUME NEW j \in DOMAIN t, t[j] = s[i]
          PROVE  FALSE
      <4>1. k + j = i
        BY <2>1, <2>4, <3>1, <3>3 DEF NoRepetition
      <4>2. j \in Int /\ j >= 1 /\ k \in Int /\ i <= k
        BY <2>1, <2>2, <2>4
      <4> QED BY <4>1, <4>2
    <3> QED BY <3>2, <3>3 DEF Elems
  <2> QED BY <2>1, <2>4, <2>5, <2>6, <2>7 DEF s, k
<1>2. rest = [q \in Queues |-> rest[q]]
  OBVIOUS
<1>3. fifo' = [fifo EXCEPT ![c] = rest]
  OBVIOUS
<1> HIDE DEF rest
<1>4. rest \in [Queues -> Seq(Packages)]
  BY <1>1, <1>2
<1>5. /\ fifo' \in [Conns -> [Queues -> Seq(Packages)]]
      /\ \A d \in Conns \ {c} : fifo'[d] = fifo[d]
      /\ fifo'[c] = rest
  BY <1>3, <1>4
<1> QED BY <1>1, <1>5

LEMMA PassStep ==
  ASSUME IInv, NEW c \in Conns, NEW due \in SUBSET pending[c], NEW n \in [Queues -> Nat],
         \A q \in Queues : n[q] <= Len(fifo[c][q]),
         Pass(c, due, n)
  PROVE  IInv'
<1> DEFINE first == UNION {{fifo[c][q][i] : i \in 1 .. n[q]} : q \in Queues}
           dead == {p \in due : GivenUp(p)}
           again == due \ dead
           waiting == {p \in first : AwaitsAck(p)}
           G == dead \cup (first \ waiting)
<1>0. /\ fifo' = [fifo EXCEPT ![c] =
                    [q \in Queues |-> SubSeq(fifo[c][q], n[q] + 1, Len(fifo[c][q]))]]
      /\ pending' = [pending EXCEPT ![c] = (pending[c] \ dead) \cup waiting]
      /\ retries' = [p \in Packages |->
                       IF p \in again THEN retries[p] + 1
                       ELSE IF p \in waiting THEN 0 ELSE retries[p]]
      /\ wire' = wire \cup {<<message[p], 1>> : p \in first}
                      \cup {<<message[p], retries[p] + 2>> : p \in again}
      /\ Answer(Carried(dead), FALSE) /\ Release(G)
      /\ UNCHANGED <<connVars, fresh, result, ackWire, recvVars>>
  BY DEF Pass
<1>1. /\ fifo \in [Conns -> [Queues -> Seq(Packages)]]
      /\ pending \in [Conns -> SUBSET Packages]
      /\ retries \in [Packages -> 0 .. PENDING_MAX_RETRIES + 1]
      /\ wire \subseteq Transmissions
      /\ PENDING_MAX_RETRIES \in Nat
  BY TransferAssumption DEF IInv, TypeOK
<1>2. Apart(fifo, pending, free, fresh) /\ ListsOK(fifo, pending, free, fresh)
  BY TypeLists, HeldOnceIsApart DEF IInv
<1>3. /\ fifo' \in [Conns -> [Queues -> Seq(Packages)]]
      /\ \A d \in Conns \ {c} : fifo'[d] = fifo[d]
      /\ \A q \in Queues :
           /\ NoRepetition(fifo'[c][q])
           /\ Elems(fifo'[c][q]) \subseteq Elems(fifo[c][q])
           /\ \A i \in 1 .. n[q] : /\ fifo[c][q][i] \in Elems(fifo[c][q])
                                   /\ fifo[c][q][i] \notin Elems(fifo'[c][q])
  <2>1. \A d \in Conns, q \in Queues : NoRepetition(fifo[d][q])
    BY <1>2 DEF Apart
  <2>2. fifo' = [fifo EXCEPT ![c] =
                   [q \in Queues |-> SubSeq(fifo[c][q], n[q] + 1, Len(fifo[c][q]))]]
    BY <1>0
  <2> QED BY <1>1, <2>1, <2>2, PassedQueues
<1>4. \A p \in first : \E q \in Queues :
        p \in Elems(fifo[c][q]) /\ p \notin Elems(fifo'[c][q])
  BY <1>3
<1>5. dead \subseteq pending[c] /\ again \subseteq pending[c] /\ waiting \subseteq first
  OBVIOUS
<1>6. first \subseteq Packages /\ pending[c] \subseteq Packages
  BY <1>2, <1>4 DEF ListsOK
<1>7. \A d \in Conns, q \in Queues : /\ NoRepetition(fifo'[d][q])
                                     /\ Elems(fifo'[d][q]) \subseteq Elems(fifo[d][q])
  BY <1>2, <1>3 DEF Apart
<1>8. \A p \in first : \A d \in Conns, q \in Queues : p \notin Elems(fifo'[d][q])
  <2> SUFFICES ASSUME NEW p \in first, NEW d \in Conns, NEW q \in Queues, p \in Elems(fifo'[d][q])
               PROVE  FALSE
    OBVIOUS
  <2>1. PICK r \in Queues : p \in Elems(fifo[c][r]) /\ p \notin Elems(fifo'[c][r])
    BY <1>4
  <2>2. p \in Elems(fifo[d][q]) /\ p \in Packages
    BY <1>6, <1>7
  <2>3. d = c /\ q = r
    BY <1>2, <2>1, <2>2 DEF Apart
  <2> QED BY <2>1, <2>3
<1>9. \A p \in first : \A d \in Conns : p \notin pending[d]
  BY <1>2, <1>4, <1>6 DEF Apart
<1>10. /\ pending' \in [Conns -> SUBSET Packages]
       /\ pending'[c] = (pending[c] \ dead) \cup waiting
       /\ \A d \in Conns \ {c} : pending'[d] = pending[d]
  <2>1. (pending[c] \ dead) \cup waiting \in SUBSET Packages
    BY <1>5, <1>6
  <2> HIDE DEF dead, waiting
  <2> QED BY <1>0, <1>1, <2>1
<1>11. G \in SUBSET InUse /\ G \in SUBSET Packages /\ dead \in SUBSET G
  <2>1. G \subseteq InUse
    BY <1>4, <1>5, InUseIsPlaced DEF Placed
  <2> QED BY <1>5, <1>6, <2>1
<1>12. again \subseteq InUse /\ first \subseteq InUse
  BY <1>4, <1>5, InUseIsPlaced DEF Placed
<1>13. \A p \in again : retries[p] <= PENDING_MAX_RETRIES
  BY <1>1, <1>5, <1>6 DEF GivenUp
<1>14. \A p \in G : (p \in dead /\ p \in pending[c]) \/ (p \in first /\ p \notin waiting)
  BY <1>5
<1> HIDE DEF first, dead, again, waiting, G
<1>15. \A p \in G : Placed(fifo, pending, p) /\ ~ Placed(fifo', pending', p)
  <2>1. ASSUME NEW p \in G
        PROVE  Placed(fifo, pending, p)
    BY <1>11, InUseIsPlaced
  <2>2. ASSUME NEW p \in G, p \in dead, p \in pending[c]
        PROVE  ~ Placed(fifo', pending', p)
    <3>1. \A d \in Conns, q \in Queues : p \notin Elems(fifo'[d][q])
      BY <1>2, <1>7, <1>11, <2>2 DEF Apart
    <3>2. \A d \in Conns \ {c} : p \notin pending'[d]
      BY <1>2, <1>10, <1>11, <2>2 DEF Apart
    <3>3. p \notin pending'[c]
      BY <1>5, <1>9, <1>10, <2>2
    <3> QED BY <3>1, <3>2, <3>3 DEF Placed
  <2>3. ASSUME NEW p \in G, p \in first, p \notin waiting
        PROVE  ~ Placed(fifo', pending', p)
    <3>1. \A d \in Conns : p \notin pending'[d]
      BY <1>9, <1>10, <2>3
    <3> QED BY <1>8, <2>3, <3>1 DEF Placed
  <2> QED BY <1>14, <2>1, <2>2, <2>3
<1>16. \A d \in Conns : \A p \in pending'[d] :
         p \in pending[d] \/ \E q \in Queues : p \in Elems(fifo[d][q])
  BY <1>4, <1>5, <1>10
<1>17. \A p : Placed(fifo', pending', p) => Placed(fifo, pending, p) /\ p \notin G
  BY <1>7, <1>15, <1>16 DEF Placed
<1>18. \A p : p \in InUse' => p \in InUse /\ p \notin G
  BY <1>17, InUseIsPlaced, InUseIsPlacedNext
<1>19. /\ free' \subseteq Packages
       /\ message' \in [Packages -> Messages \cup {NoMessage}]
       /\ answers' \in [Messages -> Seq(BOOLEAN)]
       /\ Labels' /\ HookCalledOnce'
       /\ \A m \in Messages : TRUE \in Elems(answers'[m]) =>
            TRUE \in Elems(answers[m]) \/ (FALSE = TRUE /\ m \in Carried(dead))
  <2>1. FALSE \in BOOLEAN
    OBVIOUS
  <2>2. Release(G) /\ Answer(Carried(dead), FALSE) /\ UNCHANGED <<result, fresh>>
    BY <1>0
  <2> QED BY <1>11, <1>18, <2>1, <2>2, LeavingStep
<1>20. TypeOK'
  <2>1. retries' \in [Packages -> 0 .. PENDING_MAX_RETRIES + 1]
    BY <1>0, <1>1, <1>13
  <2>2. \A p \in again \cup first : message[p] \in Messages
    BY <1>12 DEF IInv, Labels
  <2>3. wire' \subseteq Transmissions
    <3>1. \A p \in first : <<message[p], 1>> \in Transmissions
      BY <1>1, <2>2 DEF Transmissions
    <3>2. \A p \in again : retries[p] + 2 \in 1 .. PENDING_MAX_RETRIES + 2
      BY <1>1, <1>5, <1>6, <1>13
    <3>3. \A p \in again : <<message[p], retries[p] + 2>> \in Transmissions
      BY <2>2, <3>2 DEF Transmissions
    <3> QED BY <1>0, <1>1, <3>1, <3>3
  <2> QED BY <1>0, <1>3, <1>10, <1>19, <2>1, <2>3 DEF IInv, TypeOK, connVars, recvVars
<1>21. PackageHeldOnce'
  <2>1. /\ free' = free \cup G /\ fresh' = fresh
        /\ \A d \in Conns, q \in Queues : NoRepetition(fifo'[d][q])
        /\ \A d \in Conns, q \in Queues : Elems(fifo'[d][q]) \subseteq Elems(fifo[d][q])
    BY <1>0, <1>7 DEF Release
  <2>2. ASSUME NEW d \in Conns, NEW q \in Queues, NEW p \in Elems(fifo'[d][q]), p \in pending'[d]
        PROVE  FALSE
    <3>1. p \in Packages /\ p \in Elems(fifo[d][q])
      BY <1>2, <1>7, <2>2 DEF ListsOK
    <3>2. p \notin pending[d]
      BY <1>2, <3>1 DEF Apart
    <3>3. d = c /\ p \in waiting
      BY <1>10, <2>2, <3>2
    <3> QED BY <1>5, <1>8, <2>2, <3>3
  <2>3. Apart(fifo', pending', free', fresh')
    BY <1>2, <1>11, <1>15, <1>16, <2>1, <2>2, LeavingKeepsApart
  <2> QED BY <1>20, <2>3, ApartIsHeldOnceNext
<1>22. Evidence'
  <2>1. \A m \in Messages : TRUE \in Elems(answers'[m]) => TRUE \in Elems(answers[m])
    BY <1>19
  <2> QED BY <1>0, <2>1 DEF IInv, Evidence, SuccessMeansDelivered, recvVars, Remembered
<1> QED BY <1>19, <1>20, <1>21, <1>22 DEF IInv

----------------------------------------------------------------------------
(* The theorems *)

\* Every step preserves the invariant.
LEMMA NextIInv == IInv /\ [Next]_vars => IInv'
<1> SUFFICES ASSUME IInv, [Next]_vars
             PROVE  IInv'
  OBVIOUS
<1>1. CASE \E m \in Messages : sendMessage(m) \/ \E c \in Conns : sendLinkPackage(m, c)
  <2>1. PICK m \in Messages : sendMessage(m) \/ \E c \in Conns : sendLinkPackage(m, c)
    BY <1>1
  <2>2. result[m] = "none"
    BY <2>1 DEF sendMessage, sendLinkPackage
  <2>3. ASSUME NEW c \in Conns, connection_sendPackage(m, c)
        PROVE  IInv'
    <3>1. CASE Enqueue(m, c)
      BY <2>2, <3>1, EnqueueStep
    <3>2. CASE Refuse(m, c)
      BY <2>2, <3>2, RefuseStep
    <3>3. CASE FailCall(m, "no memory")
      <4>1. "no memory" \in Results \ {"none", "queued"}
        BY DEF Results
      <4> QED BY <2>2, <3>3, <4>1, FailCallStep
    <3> QED BY <2>3, <3>1, <3>2, <3>3 DEF connection_sendPackage
  <2>4. CASE FailCall(m, "no route")
    <3>1. "no route" \in Results \ {"none", "queued"}
      BY DEF Results
    <3> QED BY <2>2, <2>4, <3>1, FailCallStep
  <2>5. route \in Conns \cup {NoConn}
    BY DEF IInv, TypeOK
  <2> QED BY <2>1, <2>3, <2>4, <2>5 DEF sendMessage, sendLinkPackage
<1>2. CASE \E acks \in ackWire : AckArrives(acks)
  BY <1>2, AckStep
<1>3. CASE \E c \in Conns : processOutgoing(c)
  <2>1. PICK c \in Conns : processOutgoing(c)
    BY <1>3
  <2>2. PICK due \in SUBSET pending[c], n \in Stops(c) : Pass(c, due, n)
    BY <2>1 DEF processOutgoing
  <2>3. n \in [Queues -> Nat] /\ \A q \in Queues : n[q] <= Len(fifo[c][q])
    BY <2>2, TransferAssumption DEF Stops
  <2> QED BY <2>2, <2>3, PassStep
<1>4. CASE \E c \in Conns : newConnection(c)
  BY <1>4, NewConnectionStep
<1>5. CASE \E c \in Conns : closeConnection(c)
  BY <1>5, CloseStep
<1>6. CASE \/ \E c \in Conns : connectFinished(c) \/ abortConnect(c)
           \/ \E c \in Conns \cup {NoConn} : Reroute(c)
  BY <1>6, ConnectionStep
<1>7. CASE ReceiverNext
  BY <1>7, FlushStep, ReceiveStep DEF ReceiverNext
<1>8. CASE NetworkNext \/ UNCHANGED vars
  BY <1>8, NetworkStep DEF NetworkNext
<1> QED BY <1>1, <1>2, <1>3, <1>4, <1>5, <1>6, <1>7, <1>8 DEF Next, SenderNext

LEMMA Invariance == Spec => []IInv
  BY InitIInv, NextIInv, PTL DEF Spec

\* Type correctness: the values of every variable, the bound on the number of
\* transmissions of a message among them.
THEOREM TypeInvariant == Spec => []TypeOK
<1>1. IInv => TypeOK
  BY DEF IInv
<1> QED BY <1>1, Invariance, PTL

\* A queue structure is in one place at most, whatever is sent, acknowledged,
\* given up or closed: free() and the queue operations of p2p.c are safe.
THEOREM StructuresHeldOnce == Spec => []PackageHeldOnce
<1>1. IInv => PackageHeldOnce
  BY DEF IInv
<1> QED BY <1>1, Invariance, PTL

\* No acknowledgement hook is called twice.
THEOREM HooksCalledOnce == Spec => []HookCalledOnce
<1>1. IInv => HookCalledOnce
  BY DEF IInv
<1> QED BY <1>1, Invariance, PTL

\* A hook that hears of success hears the truth.
THEOREM NoFalseSuccess == Spec => []SuccessMeansDelivered
<1>1. IInv => SuccessMeansDelivered
  BY DEF IInv, Evidence
<1> QED BY <1>1, Invariance, PTL

\* Only a pass puts transmissions on the wire, of packages in use.
LEMMA TransmissionsOfPass ==
  ASSUME NEW c \in Conns, NEW due \in SUBSET pending[c], NEW n \in [Queues -> Nat],
         fifo[c] \in [Queues -> Seq(Packages)],
         \A q \in Queues : n[q] <= Len(fifo[c][q]),
         Pass(c, due, n), NEW t \in wire', t \notin wire
  PROVE  \E p \in InUse : t[1] = message[p]
<1> DEFINE first == UNION {{fifo[c][q][i] : i \in 1 .. n[q]} : q \in Queues}
           again == due \ {p \in due : GivenUp(p)}
<1>1. wire' = wire \cup {<<message[p], 1>> : p \in first}
                   \cup {<<message[p], retries[p] + 2>> : p \in again}
  BY DEF Pass
<1>2. again \subseteq InUse
  BY InUseIsPlaced DEF Placed
<1>3. first \subseteq InUse
  <2>1. ASSUME NEW q \in Queues, NEW i \in 1 .. n[q]
        PROVE  fifo[c][q][i] \in Elems(fifo[c][q])
    <3> DEFINE s == fifo[c][q]
    <3>1. s \in Seq(Packages) /\ n[q] \in Nat /\ n[q] <= Len(s)
      OBVIOUS
    <3> HIDE DEF s
    <3>2. DOMAIN s = 1 .. Len(s) /\ Len(s) \in Nat
      BY <3>1, ElemsType
    <3>3. i \in DOMAIN s
      BY <3>1, <3>2
    <3> QED BY <3>3 DEF Elems, s
  <2> QED BY <2>1, InUseIsPlaced DEF Placed
<1>4. (\E p \in first : t = <<message[p], 1>>) \/ \E p \in again : t = <<message[p], retries[p] + 2>>
  BY <1>1
<1> HIDE DEF first, again
<1> QED BY <1>2, <1>3, <1>4

\* Nothing more of a message is transmitted once its hook has been called.
THEOREM QuietAfterAnswer == Spec => QuietOnceAnswered
<1>1. ASSUME IInv, [Next]_vars, NEW t \in wire' \ wire
      PROVE  answers[t[1]] = <<>>
  <2>1. ASSUME NEW c \in Conns, processOutgoing(c)
        PROVE  \E p \in InUse : t[1] = message[p]
    <3>1. PICK due \in SUBSET pending[c], n \in Stops(c) : Pass(c, due, n)
      BY <2>1 DEF processOutgoing
    <3>2. n \in [Queues -> Nat] /\ \A q \in Queues : n[q] <= Len(fifo[c][q])
      BY <3>1, TransferAssumption DEF Stops
    <3>3. fifo[c] \in [Queues -> Seq(Packages)]
      BY <1>1 DEF IInv, TypeOK
    <3> QED BY <1>1, <3>1, <3>2, <3>3, TransmissionsOfPass
  <2>2. \E c \in Conns : processOutgoing(c)
    <3>1. wire' # wire
      BY <1>1
    <3> QED
      BY <1>1, <3>1 DEF Next, SenderNext, ReceiverNext, NetworkNext, vars, netVars, recvVars,
           sendMessage, sendLinkPackage, connection_sendPackage, Enqueue, Refuse, FailCall,
           AckArrives, newConnection, connectFinished, abortConnect, closeConnection, Reroute,
           sendAcknowledgementsNow, processIncomming, LosePackage, LoseAcks
  <2>3. PICK p \in InUse : t[1] = message[p]
    BY <2>1, <2>2
  <2>4. p \in Packages
    BY <1>1, InUseIsPlaced, TypeLists DEF IInv, ListsOK, Placed
  <2>5. message[p] \in Messages /\ message[p] # NoMessage
    BY <1>1, <2>3, TransferAssumption DEF IInv, Labels
  <2> QED BY <1>1, <2>3, <2>4, <2>5 DEF IInv, Labels
<1>2. IInv /\ [Next]_vars => [\A t \in wire' \ wire : answers[t[1]] = <<>>]_vars
  BY <1>1
<1>3. QED
  BY <1>2, Invariance, PTL DEF Spec, QuietOnceAnswered
============================================================================
