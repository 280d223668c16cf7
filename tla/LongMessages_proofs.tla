------------------------ MODULE LongMessages_proofs ------------------------
(***************************************************************************)
(* Theorems about LongMessages, for any messages, lengths, sequence ids    *)
(* and number of buffers.                                                  *)
(***************************************************************************)
EXTENDS LongMessages, FiniteSetTheorems, TLAPS

AllIndices == UNION {Indices(m) : m \in Messages}

Buffer ==
  [seqid : SeqIds \cup {0}, size : Nat,
   received : UNION {[D -> Messages] : D \in SUBSET AllIndices}]

TypeOK ==
  /\ phase \in [Parts -> Network!Phases]
  /\ delivered \in [Parts -> BOOLEAN]
  /\ seqid \in [Messages -> SeqIds \cup {0}]
  /\ counter \in [Messages -> Nat]
  /\ success \in [Messages -> BOOLEAN]
  /\ told \in [Messages -> {"nothing", "success", "failure"}]
  /\ buffers \in [Buffers -> Buffer]
  /\ assembled \subseteq Messages
  /\ mixed \subseteq Messages
  /\ discarded \subseteq Messages

\* What is not sent has left no trace.
UnsentUntouched ==
  \A m \in Messages : seqid[m] = 0 =>
    /\ told[m] = "nothing"
    /\ \A p \in PartsOf(m) : phase[p] = "unsent"

\* The outcome noted for a message is that of its parts.
OutcomeExact ==
  \A m \in Sent :
    /\ \A p \in PartsOf(m) : phase[p] # "unsent"
    /\ success[m] => \A p \in PartsOf(m) : phase[p] # "failed"
    /\ told[m] = "success" => \A p \in PartsOf(m) : phase[p] = "succeeded"

\* What the service promises of each part.
PartsHonest ==
  \A p \in Parts :
    /\ phase[p] = "succeeded" => delivered[p]
    /\ delivered[p] => phase[p] # "unsent"

\* The parts whose hook is not called yet, or never will be.
Open(m) == {p \in PartsOf(m) : phase[p] \in {"accepted", "rejected"}}

\* The counter of a message is how many they are.
CounterExact ==
  \A m \in Sent :
    /\ counter[m] = Cardinality(Open(m))
    /\ counter[m] = 0 <=> told[m] # "nothing"

SenderInv == UnsentUntouched /\ OutcomeExact /\ PartsHonest /\ CounterExact

\* A buffer in use was opened for a message with its sequence id, and holds parts
\* of messages with that id, except beyond the length of that message.
BuffersPure ==
  \A b \in Buffers \ Free : \E n \in Sent :
    /\ seqid[n] = buffers[b].seqid
    /\ \A j \in DOMAIN buffers[b].received \cap Indices(n) :
         /\ buffers[b].received[j] \in Sent
         /\ seqid[buffers[b].received[j]] = buffers[b].seqid

Settled == assembled \cup discarded

\* A part that was delivered is in the buffer of its message, until the message is
\* assembled or a part of it discarded.
PartsKept ==
  \A m \in Messages \ Settled : \A i \in Indices(m) :
    delivered[<<m, i>>] =>
      \E b \in Buffers \ Free :
        /\ buffers[b].seqid = seqid[m]
        /\ i \in DOMAIN buffers[b].received
        /\ buffers[b].received[i] = m

\* A message all of whose parts were delivered is assembled, or one was discarded.
NotStuck ==
  \A m \in Messages : (\A i \in Indices(m) : delivered[<<m, i>>]) => m \in Settled

ReceiverInv ==
  /\ BuffersDistinct /\ BuffersPure /\ InBounds
  /\ PartsKept /\ NotStuck /\ WholeUnlessShared

IInv == TypeOK /\ SenderInv /\ ReceiverInv

----------------------------------------------------------------------------
(* Parts and buffers *)

\* The parts of a message are finitely many, as many as its length.
LEMMA PartsOfFinite ==
  ASSUME NEW m \in Messages
  PROVE  /\ IsFiniteSet(PartsOf(m))
         /\ Cardinality(PartsOf(m)) = LenOf[m]
         /\ LenOf[m] \in Nat \ {0, 1}
         /\ PartsOf(m) \subseteq Parts
<1>1. LenOf[m] \in Nat \ {0, 1}
  BY LongMessagesAssumption
<1>2. IsFiniteSet(Indices(m)) /\ Cardinality(Indices(m)) = LenOf[m]
  <2>1. 0 \in Int /\ LenOf[m] - 1 \in Int /\ ~ (0 > LenOf[m] - 1) /\ LenOf[m] - 1 - 0 + 1 = LenOf[m]
    BY <1>1
  <2> QED BY <2>1, FS_Interval DEF Indices
<1>3. IsFiniteSet({m}) /\ Cardinality({m}) = 1
  BY FS_Singleton
<1>4. /\ IsFiniteSet(PartsOf(m))
      /\ Cardinality(PartsOf(m)) = 1 * LenOf[m]
  BY <1>2, <1>3, FS_Product DEF PartsOf
<1>5. PartsOf(m) \subseteq Parts
  BY DEF Parts, PartsOf
<1>6. 1 * LenOf[m] = LenOf[m]
  BY <1>1
<1> QED BY <1>1, <1>4, <1>5, <1>6

\* A part is a message and an index of it.
LEMMA PartsShape ==
  /\ \A m \in Messages : \A i \in Indices(m) : <<m, i>> \in PartsOf(m) /\ <<m, i>> \in Parts
  /\ \A p \in Parts : \E m \in Messages : p \in PartsOf(m)
  /\ \A m, n \in Messages : \A p \in PartsOf(m) : p \in PartsOf(n) => m = n
  /\ \A m \in Messages : \A p \in PartsOf(m) : p[2] \in Indices(m) /\ p = <<m, p[2]>>
BY DEF Parts, PartsOf

\* B is a free buffer opened for m: what it still holds is beyond the length of m.
Fresh(b, B, m) ==
  /\ InUse(m) = {} /\ b \in Free
  /\ buffers[b].size <= B.size
  /\ \A j \in DOMAIN B.received : j \in DOMAIN buffers[b].received /\ j \notin Indices(m)

\* A buffer just opened is a buffer, large enough, with nothing of the message in it.
LEMMA OpenedProperties ==
  ASSUME TypeOK, NEW m \in Messages, NEW b \in Buffers
  PROVE  /\ Opened(b, m) \in Buffer
         /\ Opened(b, m).seqid = seqid[m]
         /\ LenOf[m] <= Opened(b, m).size
         /\ buffers[b].size <= Opened(b, m).size
         /\ \A j \in DOMAIN Opened(b, m).received :
              j \in DOMAIN buffers[b].received /\ j \notin Indices(m)
<1>1. LenOf[m] \in Nat /\ buffers[b].size \in Nat /\ seqid[m] \in SeqIds \cup {0}
  BY PartsOfFinite DEF TypeOK, Buffer
<1> DEFINE old == buffers[b].received
           D == DOMAIN old \ Indices(m)
           kept == [j \in D |-> old[j]]
<1>2. Opened(b, m).received = kept /\ DOMAIN kept = D
  BY DEF Opened, Restrict
<1>3. kept \in UNION {[E -> Messages] : E \in SUBSET AllIndices}
  <2>0. buffers[b] \in Buffer
    BY DEF TypeOK
  <2>1. PICK E \in SUBSET AllIndices : old \in [E -> Messages]
    BY <2>0 DEF Buffer
  <2>2. D \in SUBSET AllIndices /\ kept \in [D -> Messages]
    BY <2>1
  <2> QED BY <2>2
<1> DEFINE n == IF buffers[b].size < LenOf[m] THEN LenOf[m] ELSE buffers[b].size
<1>4. n \in Nat /\ LenOf[m] <= n /\ buffers[b].size <= n
  BY <1>1
<1>5. \A j \in D : j \in DOMAIN old /\ j \notin Indices(m)
  OBVIOUS
<1> HIDE DEF n, kept, D
<1>6. Opened(b, m) = [seqid |-> seqid[m], size |-> n, received |-> kept]
  BY <1>2 DEF Opened, n
<1> QED BY <1>1, <1>2, <1>3, <1>4, <1>5, <1>6 DEF Buffer

\* Releasing a buffer changes its sequence id only.
LEMMA ReleasedProperties ==
  ASSUME NEW B \in Buffer
  PROVE  /\ Released(B) \in Buffer
         /\ Released(B).seqid = 0
         /\ Released(B).size = B.size
         /\ Released(B).received = B.received
BY DEF Released, Buffer

\* Filling in a part changes what is received at its place only.
LEMMA FilledProperties ==
  ASSUME NEW B \in Buffer, NEW m \in Messages, NEW i \in Indices(m)
  PROVE  /\ Filled(B, m, i) \in Buffer
         /\ Filled(B, m, i).seqid = B.seqid
         /\ Filled(B, m, i).size = B.size
         /\ DOMAIN Filled(B, m, i).received = DOMAIN B.received \cup {i}
         /\ Filled(B, m, i).received[i] = m
         /\ \A j \in DOMAIN B.received \ {i} : Filled(B, m, i).received[j] = B.received[j]
<1> DEFINE f == [j \in DOMAIN B.received \cup {i} |-> IF j = i THEN m ELSE B.received[j]]
<1>1. PICK D \in SUBSET AllIndices : B.received \in [D -> Messages]
  BY DEF Buffer
<1>2. DOMAIN B.received = D
  BY <1>1
<1>3. D \cup {i} \in SUBSET AllIndices
  BY <1>1 DEF AllIndices
<1>4. f \in [D \cup {i} -> Messages]
  BY <1>1, <1>2
<1>5. f \in UNION {[E -> Messages] : E \in SUBSET AllIndices}
  BY <1>3, <1>4
<1>6. /\ DOMAIN f = DOMAIN B.received \cup {i}
      /\ f[i] = m
      /\ \A j \in DOMAIN B.received \ {i} : f[j] = B.received[j]
  OBVIOUS
<1>7. Filled(B, m, i) = [B EXCEPT !.received = f]
  BY DEF Filled
<1> HIDE DEF f
<1>8. /\ Filled(B, m, i) \in Buffer
      /\ Filled(B, m, i).seqid = B.seqid
      /\ Filled(B, m, i).size = B.size
      /\ Filled(B, m, i).received = f
  BY <1>5, <1>7 DEF Buffer
<1> QED BY <1>6, <1>8

\* What is received are messages.
LEMMA ReceivedType ==
  ASSUME NEW B \in Buffer
  PROVE  /\ \A j \in DOMAIN B.received : B.received[j] \in Messages /\ j \in Nat
         /\ From(B) \subseteq Messages
         /\ B.seqid \in SeqIds \cup {0} /\ B.size \in Nat
<1>1. PICK D \in SUBSET AllIndices : B.received \in [D -> Messages]
  BY DEF Buffer
<1>2. AllIndices \subseteq Nat
  BY LongMessagesAssumption DEF AllIndices, Indices
<1> QED BY <1>1, <1>2 DEF From, Buffer

----------------------------------------------------------------------------
(* What becomes of a part that arrives *)

\* The buffer chosen for a part is in use for its message, or was free and none is.
LEMMA CandidateProperties ==
  ASSUME TypeOK, NEW m \in Sent, NEW b \in Candidates(m)
  PROVE  LET B == BufferFor(b, m)
         IN /\ b \in Buffers
            /\ B \in Buffer /\ B.seqid = seqid[m]
            /\ \/ b \in InUse(m) /\ B = buffers[b]
               \/ Fresh(b, B, m) /\ LenOf[m] <= B.size
<1> DEFINE B == BufferFor(b, m)
<1>0. m \in Messages /\ seqid[m] # 0
  BY DEF Sent
<1>2. b \in InUse(m) \/ (InUse(m) = {} /\ b \in Free)
  BY DEF Candidates, Sized, Ample
<1>3. b \in Buffers
  BY <1>2 DEF InUse, Free
<1>4. buffers[b] \in Buffer
  BY <1>3 DEF TypeOK
<1>5. CASE b \in InUse(m)
  <2>1. buffers[b].seqid = seqid[m] /\ B = buffers[b]
    BY <1>5 DEF InUse, BufferFor
  <2> QED BY <1>3, <1>4, <1>5, <2>1
<1>6. CASE InUse(m) = {} /\ b \in Free
  <2>1. buffers[b].seqid # seqid[m]
    BY <1>6, <1>3 DEF InUse
  <2>2. B = Opened(b, m)
    BY <2>1 DEF BufferFor
  <2>3. /\ Opened(b, m) \in Buffer
        /\ Opened(b, m).seqid = seqid[m]
        /\ LenOf[m] <= Opened(b, m).size
        /\ Fresh(b, Opened(b, m), m)
    BY <1>0, <1>3, <1>6, OpenedProperties DEF Fresh
  <2> QED BY <1>3, <2>2, <2>3
<1> QED BY <1>2, <1>5, <1>6

\* A part is dropped, and the buffers stay as they are, or stored in a buffer
\* with room for its message.
LEMMA ArrivalCases ==
  ASSUME TypeOK, NEW m \in Sent, NEW i \in Indices(m), assembleLongMessage(m, i)
  PROVE  \/ Drop(m) /\ UNCHANGED buffers
         \/ \E b \in Buffers, B \in Buffer :
              /\ B.seqid = seqid[m]
              /\ \/ b \in InUse(m) /\ B = buffers[b]
                 \/ Fresh(b, B, m)
              /\ LenOf[m] <= B.size
              /\ Store(b, B, m, i)
<1>1. CASE Candidates(m) = {} /\ Drop(m) /\ UNCHANGED buffers
  BY <1>1
<1>2. ASSUME NEW b \in Candidates(m),
             LET B == BufferFor(b, m) IN
             \/ Fits(B, m) /\ Store(b, B, m, i)
             \/ ~ Fits(B, m) /\ Drop(m) /\ buffers' = [buffers EXCEPT ![b] = B]
      PROVE  \/ Drop(m) /\ UNCHANGED buffers
             \/ \E c \in Buffers, B \in Buffer :
                  /\ B.seqid = seqid[m]
                  /\ \/ c \in InUse(m) /\ B = buffers[c]
                     \/ Fresh(c, B, m)
                  /\ LenOf[m] <= B.size
                  /\ Store(c, B, m, i)
  <2> DEFINE B == BufferFor(b, m)
  <2>1. /\ b \in Buffers
        /\ B \in Buffer /\ B.seqid = seqid[m]
        /\ \/ b \in InUse(m) /\ B = buffers[b]
           \/ Fresh(b, B, m) /\ LenOf[m] <= B.size
    BY CandidateProperties
  <2>2. \/ Fits(B, m) /\ Store(b, B, m, i)
        \/ ~ Fits(B, m) /\ Drop(m) /\ buffers' = [buffers EXCEPT ![b] = B]
    BY <1>2
  <2> HIDE DEF B
  <2>3. CASE Fits(B, m) /\ Store(b, B, m, i)
    BY <2>1, <2>3 DEF Fits
  <2>4. CASE ~ Fits(B, m) /\ Drop(m) /\ buffers' = [buffers EXCEPT ![b] = B]
    <3>1. B = buffers[b]
      BY <2>1, <2>4 DEF Fits
    <3>2. buffers' = buffers
      BY <2>1, <2>4, <3>1 DEF TypeOK
    <3> QED BY <2>4, <3>2
  <2> QED BY <2>2, <2>3, <2>4
<1> QED BY <1>1, <1>2 DEF assembleLongMessage

----------------------------------------------------------------------------
(* The sender's steps *)

\* The open parts of a message are finitely many; none is left when the counter is 0.
LEMMA OpenFinite ==
  ASSUME NEW m \in Messages
  PROVE  /\ IsFiniteSet(Open(m))
         /\ Cardinality(Open(m)) \in Nat
         /\ Cardinality(Open(m)) = 0 <=> Open(m) = {}
<1>1. Open(m) \in SUBSET PartsOf(m)
  BY DEF Open
<1>2. IsFiniteSet(PartsOf(m))
  BY PartsOfFinite
<1>3. IsFiniteSet(Open(m))
  BY <1>1, <1>2, FS_Subset
<1> QED BY <1>3, FS_CardinalityType, FS_EmptySet

\* Sending a message disturbs no other, and leaves exact what is counted for it.
LEMMA SendKeepsSenderInv ==
  ASSUME TypeOK, SenderInv, NEW m \in Messages, sendMessage(m)
  PROVE  TypeOK' /\ SenderInv'
<1>1. PICK o \in Outcomes(m) :
        LET failed == {p \in PartsOf(m) : o[p[2]] = "failed"}
            left == LenOf[m] - Cardinality(failed) IN
        /\ phase' = [p \in Parts |-> IF p \in PartsOf(m) THEN o[p[2]] ELSE phase[p]]
        /\ counter' = [counter EXCEPT ![m] = left]
        /\ success' = [success EXCEPT ![m] = failed = {}]
        /\ told' = [told EXCEPT ![m] = IF left = 0 THEN "failure" ELSE @]
  BY DEF sendMessage
<1> DEFINE failed == {p \in PartsOf(m) : o[p[2]] = "failed"}
           left == LenOf[m] - Cardinality(failed)
<1>2. /\ seqid[m] = 0
      /\ seqid' \in [Messages -> SeqIds \cup {0}]
      /\ seqid'[m] # 0
      /\ \A n \in Messages \ {m} : seqid'[n] = seqid[n]
      /\ UNCHANGED <<delivered, buffers, assembled, mixed, discarded>>
  BY LongMessagesAssumption DEF sendMessage, TypeOK, receiverVars
<1>3. o \in [Indices(m) -> {"accepted", "failed", "rejected"}]
  BY DEF Outcomes
<1>4. /\ \A p \in PartsOf(m) : phase'[p] = o[p[2]] /\ o[p[2]] \in {"accepted", "failed", "rejected"}
      /\ \A p \in Parts \ PartsOf(m) : phase'[p] = phase[p]
      /\ phase' \in [Parts -> Network!Phases]
  BY <1>1, <1>3, PartsShape, PartsOfFinite DEF TypeOK, Network!Phases
<1>5. /\ IsFiniteSet(failed) /\ Cardinality(failed) \in Nat
      /\ Cardinality(failed) <= LenOf[m]
      /\ Cardinality(PartsOf(m) \ failed) = LenOf[m] - Cardinality(failed)
  <2>1. failed \in SUBSET PartsOf(m) /\ PartsOf(m) \cap failed = failed
    OBVIOUS
  <2>2. IsFiniteSet(PartsOf(m)) /\ Cardinality(PartsOf(m)) = LenOf[m]
    BY PartsOfFinite
  <2>3. IsFiniteSet(failed) /\ Cardinality(failed) <= LenOf[m]
    BY <2>1, <2>2, FS_Subset
  <2>4. Cardinality(PartsOf(m) \ failed) = LenOf[m] - Cardinality(failed)
    <3>1. Cardinality(PartsOf(m) \ failed) = Cardinality(PartsOf(m)) - Cardinality(PartsOf(m) \cap failed)
      BY <2>2, FS_Difference
    <3> QED BY <2>1, <2>2, <3>1
  <2> QED BY <2>3, <2>4, FS_CardinalityType
<1>6. Open(m)' = PartsOf(m) \ failed
  BY <1>4 DEF Open, PartsOf, Indices
<1>7. /\ \A n \in Messages \ {m} : \A p \in PartsOf(n) : phase'[p] = phase[p]
      /\ \A n \in Messages \ {m} : Open(n)' = Open(n)
  <2>1. ASSUME NEW n \in Messages \ {m}, NEW p \in PartsOf(n)
        PROVE  phase'[p] = phase[p]
    BY <1>4, PartsShape, PartsOfFinite
  <2>2. ASSUME NEW n \in Messages \ {m}
        PROVE  Open(n)' = Open(n)
    BY <2>1 DEF Open, PartsOf, Indices
  <2> QED BY <2>1, <2>2
<1>8. /\ left \in Nat
      /\ counter'[m] = left /\ success'[m] = (failed = {})
      /\ told'[m] = IF left = 0 THEN "failure" ELSE "nothing"
      /\ \A n \in Messages \ {m} : /\ counter'[n] = counter[n]
                                   /\ success'[n] = success[n]
                                   /\ told'[n] = told[n]
  <2>1. left \in Nat
    BY <1>5, PartsOfFinite
  <2>2. told[m] = "nothing"
    BY <1>2 DEF SenderInv, UnsentUntouched
  <2> QED BY <1>1, <2>1, <2>2 DEF TypeOK
<1>9. /\ counter' \in [Messages -> Nat]
      /\ success' \in [Messages -> BOOLEAN]
      /\ told' \in [Messages -> {"nothing", "success", "failure"}]
  <2>1. left \in Nat
    BY <1>8
  <2> HIDE DEF left, failed
  <2>2. /\ counter' = [counter EXCEPT ![m] = left]
        /\ success' = [success EXCEPT ![m] = (failed = {})]
        /\ told' = [told EXCEPT ![m] = IF left = 0 THEN "failure" ELSE @]
    BY <1>1 DEF left, failed
  <2> QED BY <2>1, <2>2 DEF TypeOK
<1>10. TypeOK'
  BY <1>2, <1>4, <1>9 DEF TypeOK
<1>11. UnsentUntouched'
  BY <1>2, <1>7, <1>8 DEF SenderInv, UnsentUntouched, PartsOf, Indices
<1>12. OutcomeExact'
  <2> SUFFICES ASSUME NEW n \in Messages, seqid'[n] # 0, NEW p \in PartsOf(n)
               PROVE  /\ phase'[p] # "unsent"
                      /\ success'[n] => phase'[p] # "failed"
                      /\ told'[n] = "success" => phase'[p] = "succeeded"
    BY DEF OutcomeExact, Sent, PartsOf, Indices
  <2>1. CASE n = m
    BY <1>4, <1>8, <2>1
  <2>2. CASE n # m
    BY <1>2, <1>7, <1>8, <2>2 DEF SenderInv, OutcomeExact, Sent
  <2> QED BY <2>1, <2>2
<1>13. PartsHonest'
  <2> SUFFICES ASSUME NEW p \in Parts
               PROVE  /\ phase'[p] = "succeeded" => delivered[p]
                      /\ delivered[p] => phase'[p] # "unsent"
    BY <1>2 DEF PartsHonest, Parts, Indices
  <2> QED BY <1>4 DEF SenderInv, PartsHonest
<1>14. CounterExact'
  <2> SUFFICES ASSUME NEW n \in Messages, seqid'[n] # 0
               PROVE  /\ counter'[n] = Cardinality(Open(n)')
                      /\ counter'[n] = 0 <=> told'[n] # "nothing"
    BY DEF CounterExact, Sent
  <2>1. CASE n = m
    BY <1>5, <1>6, <1>8, <2>1
  <2>2. CASE n # m
    BY <1>2, <1>7, <1>8, <2>2 DEF SenderInv, CounterExact, Sent
  <2> QED BY <2>1, <2>2
<1> QED BY <1>10, <1>11, <1>12, <1>13, <1>14 DEF SenderInv

\* A part whose hook is called leaves the open ones of its message, which is told
\* when it was the last.
LEMMA AnswerKeepsSenderInv ==
  ASSUME TypeOK, SenderInv, NEW m \in Messages, NEW i \in Indices(m), PartAnswered(m, i)
  PROVE  TypeOK' /\ SenderInv'
<1> DEFINE p == <<m, i>>
<1>1. PICK outcome \in {"succeeded", "failed"} :
        /\ Network!Report({p}, outcome)
        /\ largePackageHook(m, outcome = "succeeded")
  BY DEF PartAnswered
<1>2. p \in PartsOf(m) /\ p \in Parts
  BY PartsShape
<1> HIDE DEF p
<1>3. /\ phase[p] = "accepted"
      /\ outcome = "succeeded" => delivered[p]
      /\ phase' = [q \in Parts |-> IF q \in {p} THEN outcome ELSE phase[q]]
      /\ UNCHANGED <<delivered, seqid, buffers, assembled, mixed, discarded>>
  BY <1>1 DEF Network!Report, PartAnswered, receiverVars
<1>4. /\ phase' \in [Parts -> Network!Phases]
      /\ phase'[p] = outcome
      /\ \A q \in Parts \ {p} : phase'[q] = phase[q]
  BY <1>2, <1>3 DEF TypeOK, Network!Phases
<1>5. m \in Sent
  BY <1>2, <1>3 DEF SenderInv, UnsentUntouched, Sent
<1>6. /\ Open(m)' = Open(m) \ {p} /\ p \in Open(m)
      /\ \A n \in Messages \ {m} : Open(n)' = Open(n)
      /\ \A n \in Messages \ {m} : \A q \in PartsOf(n) : phase'[q] = phase[q]
  <2>1. Open(m)' = Open(m) \ {p} /\ p \in Open(m)
    BY <1>2, <1>3, <1>4, PartsOfFinite DEF Open, PartsOf, Indices
  <2>2. ASSUME NEW n \in Messages \ {m}, NEW q \in PartsOf(n)
        PROVE  phase'[q] = phase[q]
    BY <1>2, <1>4, PartsShape, PartsOfFinite
  <2>3. ASSUME NEW n \in Messages \ {m}
        PROVE  Open(n)' = Open(n)
    BY <2>2 DEF Open, PartsOf, Indices
  <2> QED BY <2>1, <2>2, <2>3
<1>7. /\ counter[m] = Cardinality(Open(m))
      /\ counter[m] - 1 = Cardinality(Open(m) \ {p})
      /\ counter[m] - 1 \in Nat
      /\ told[m] = "nothing"
  <2>1. counter[m] = Cardinality(Open(m)) /\ (counter[m] = 0 <=> told[m] # "nothing")
    BY <1>5 DEF SenderInv, CounterExact
  <2>2. Open(m) # {}
    BY <1>6
  <2>3. Cardinality(Open(m) \ {p}) = Cardinality(Open(m)) - 1 /\ IsFiniteSet(Open(m) \ {p})
    BY <1>6, OpenFinite, FS_RemoveElement
  <2>4. Cardinality(Open(m) \ {p}) \in Nat /\ Cardinality(Open(m)) \in Nat
    BY <2>3, OpenFinite, FS_CardinalityType
  <2>5. counter[m] # 0
    BY <2>1, <2>2, OpenFinite
  <2> QED BY <2>1, <2>3, <2>4, <2>5
<1> DEFINE ok == outcome = "succeeded"
<1>8. /\ counter' = [counter EXCEPT ![m] = counter[m] - 1]
      /\ success' = [success EXCEPT ![m] = success[m] /\ ok]
      /\ told' = [told EXCEPT ![m] = IF counter'[m] # 0 THEN @
                                     ELSE IF success'[m] THEN "success" ELSE "failure"]
  BY <1>1 DEF largePackageHook, Counted, Outcome
<1>9. /\ counter' \in [Messages -> Nat] /\ counter'[m] = counter[m] - 1
      /\ success' \in [Messages -> BOOLEAN] /\ success'[m] = (success[m] /\ ok)
      /\ \A n \in Messages \ {m} : counter'[n] = counter[n] /\ success'[n] = success[n]
  <2>1. counter' \in [Messages -> Nat] /\ counter'[m] = counter[m] - 1
    BY <1>7, <1>8 DEF TypeOK
  <2>2. success' \in [Messages -> BOOLEAN] /\ success'[m] = (success[m] /\ ok)
    BY <1>8 DEF TypeOK
  <2> QED BY <1>8, <2>1, <2>2 DEF TypeOK
<1>10. /\ told' \in [Messages -> {"nothing", "success", "failure"}]
       /\ told'[m] = IF counter'[m] # 0 THEN "nothing"
                     ELSE IF success'[m] THEN "success" ELSE "failure"
       /\ \A n \in Messages \ {m} : told'[n] = told[n]
  BY <1>7, <1>8 DEF TypeOK
<1>11. TypeOK'
  BY <1>3, <1>4, <1>9, <1>10 DEF TypeOK
<1>12. UnsentUntouched'
  BY <1>3, <1>5, <1>6, <1>10 DEF SenderInv, UnsentUntouched, Sent, PartsOf, Indices
<1>13. OutcomeExact'
  <2> SUFFICES ASSUME NEW n \in Messages, seqid[n] # 0, NEW q \in PartsOf(n)
               PROVE  /\ phase'[q] # "unsent"
                      /\ success'[n] => phase'[q] # "failed"
                      /\ told'[n] = "success" => phase'[q] = "succeeded"
    BY <1>3 DEF OutcomeExact, Sent, PartsOf, Indices
  <2>1. CASE n = m
    <3>1. phase[q] # "unsent" /\ (success[m] => phase[q] # "failed")
      BY <2>1, <1>5 DEF SenderInv, OutcomeExact
    <3>2. phase'[q] # "unsent" /\ (success'[m] => phase'[q] # "failed")
      BY <3>1, <1>3, <1>4, <1>9, PartsOfFinite
    <3>3. ASSUME told'[m] = "success"
          PROVE  phase'[q] = "succeeded"
      <4>1. counter'[m] = 0 /\ success'[m]
        BY <3>3, <1>10
      <4>2. Cardinality(Open(m)') = 0
        BY <4>1, <1>6, <1>7, <1>9
      <4>3. Open(m)' = {}
        <5>1. IsFiniteSet(Open(m) \ {p})
          BY OpenFinite, FS_RemoveElement
        <5> QED BY <5>1, <4>2, <1>6, FS_EmptySet
      <4>4. phase'[q] \notin {"accepted", "rejected"}
        BY <4>3, <2>1 DEF Open, PartsOf, Indices
      <4>5. phase'[q] \in Network!Phases
        BY <1>4, <2>1, PartsOfFinite
      <4> QED BY <3>2, <4>1, <4>4, <4>5 DEF Network!Phases
    <3> QED BY <2>1, <3>2, <3>3
  <2>2. CASE n # m
    BY <1>6, <1>9, <1>10, <2>2 DEF SenderInv, OutcomeExact, Sent
  <2> QED BY <2>1, <2>2
<1>14. PartsHonest'
  <2> SUFFICES ASSUME NEW q \in Parts
               PROVE  /\ phase'[q] = "succeeded" => delivered[q]
                      /\ delivered[q] => phase'[q] # "unsent"
    BY <1>3 DEF PartsHonest, Parts, Indices
  <2> QED BY <1>3, <1>4 DEF SenderInv, PartsHonest
<1>15. CounterExact'
  <2> SUFFICES ASSUME NEW n \in Messages, seqid[n] # 0
               PROVE  /\ counter'[n] = Cardinality(Open(n)')
                      /\ counter'[n] = 0 <=> told'[n] # "nothing"
    BY <1>3 DEF CounterExact, Sent
  <2>1. CASE n = m
    BY <1>6, <1>7, <1>9, <1>10, <2>1
  <2>2. CASE n # m
    BY <1>6, <1>9, <1>10, <2>2 DEF SenderInv, CounterExact, Sent
  <2> QED BY <2>1, <2>2
<1> QED BY <1>11, <1>12, <1>13, <1>14, <1>15 DEF SenderInv

\* The receiver's buffers are nothing to the sender's invariant.
LEMMA ReceiverVarsKeepSenderInv ==
  ASSUME SenderInv, UNCHANGED <<phase, delivered, senderVars>>
  PROVE  SenderInv'
<1>1. /\ phase' = phase /\ delivered' = delivered /\ seqid' = seqid /\ counter' = counter
      /\ success' = success /\ told' = told
  BY DEF senderVars
<1>2. \A m : Open(m)' = Open(m)
  BY <1>1 DEF Open, PartsOf, Indices
<1>3. UnsentUntouched'
  BY <1>1 DEF SenderInv, UnsentUntouched, PartsOf, Indices
<1>4. OutcomeExact'
  BY <1>1 DEF SenderInv, OutcomeExact, Sent, PartsOf, Indices
<1>5. PartsHonest'
  BY <1>1 DEF SenderInv, PartsHonest, Parts, Indices
<1>6. CounterExact'
  BY <1>1, <1>2 DEF SenderInv, CounterExact, Sent
<1> QED BY <1>3, <1>4, <1>5, <1>6 DEF SenderInv

\* Nor are the deliveries of parts that were sent.
LEMMA DeliveryKeepsSenderInv ==
  ASSUME TypeOK, SenderInv, NEW m \in Messages, NEW i \in Indices(m), PartArrives(m, i)
  PROVE  SenderInv' /\ m \in Sent
<1> DEFINE p == <<m, i>>
<1>1. p \in PartsOf(m) /\ p \in Parts
  BY PartsShape
<1>2. /\ phase[p] \in {"accepted", "failed"} /\ phase' = phase
      /\ delivered' = [delivered EXCEPT ![p] = TRUE]
      /\ seqid' = seqid /\ counter' = counter /\ success' = success /\ told' = told
  BY DEF PartArrives, Network!Deliver, senderVars
<1>3. m \in Sent
  BY <1>1, <1>2 DEF SenderInv, UnsentUntouched, Sent
<1>4. \A n : Open(n)' = Open(n)
  BY <1>2 DEF Open, PartsOf, Indices
<1>5. UnsentUntouched'
  BY <1>2 DEF SenderInv, UnsentUntouched, PartsOf, Indices
<1>6. OutcomeExact'
  BY <1>2 DEF SenderInv, OutcomeExact, Sent, PartsOf, Indices
<1>7. PartsHonest'
  <2> SUFFICES ASSUME NEW q \in Parts
               PROVE  /\ phase[q] = "succeeded" => delivered'[q]
                      /\ delivered'[q] => phase[q] # "unsent"
    BY <1>2 DEF PartsHonest, Parts, Indices
  <2> HIDE DEF p
  <2> QED BY <1>1, <1>2 DEF SenderInv, PartsHonest, TypeOK
<1>8. CounterExact'
  BY <1>2, <1>4 DEF SenderInv, CounterExact, Sent
<1> QED BY <1>3, <1>5, <1>6, <1>7, <1>8 DEF SenderInv

----------------------------------------------------------------------------
(* The receiver's steps *)

\* A step that leaves the receiver and the sequence ids of sent messages alone,
\* and does not deliver, keeps the receiver's invariant.
LEMMA SenderStepKeepsReceiverInv ==
  ASSUME TypeOK, SenderInv, ReceiverInv, UNCHANGED <<delivered, receiverVars>>,
         \A m \in Sent : seqid'[m] = seqid[m]
  PROVE  ReceiverInv'
<1>1. /\ delivered' = delivered /\ buffers' = buffers /\ assembled' = assembled
      /\ mixed' = mixed /\ discarded' = discarded
  BY DEF receiverVars
<1>2. Sent \subseteq Sent'
  BY DEF Sent
<1>3. Free' = Free
  BY <1>1 DEF Free, Buffers
<1>4. BuffersDistinct'
  BY <1>1, <1>3 DEF ReceiverInv, BuffersDistinct, Buffers, Indices
<1>5. BuffersPure'
  BY <1>1, <1>2, <1>3 DEF ReceiverInv, BuffersPure, Buffers
<1>6. InBounds'
  BY <1>1 DEF ReceiverInv, InBounds, Buffers
<1>7. NotStuck'
  BY <1>1 DEF ReceiverInv, NotStuck, Settled, Indices
<1>8. PartsKept'
  <2> SUFFICES ASSUME NEW m \in Messages \ Settled, NEW i \in Indices(m), delivered[<<m, i>>]
               PROVE  \E b \in Buffers \ Free :
                        /\ buffers[b].seqid = seqid'[m]
                        /\ i \in DOMAIN buffers[b].received
                        /\ buffers[b].received[i] = m
    BY <1>1, <1>3 DEF PartsKept, Settled, Indices, Buffers
  <2>1. m \in Sent
    <3>1. <<m, i>> \in Parts /\ <<m, i>> \in PartsOf(m)
      BY PartsShape
    <3> QED BY <3>1 DEF SenderInv, PartsHonest, UnsentUntouched, Sent
  <2> QED BY <2>1 DEF ReceiverInv, PartsKept
<1>9. WholeUnlessShared'
  <2> SUFFICES ASSUME NEW m \in mixed
               PROVE  \E n \in Sent' \ {m} : seqid'[n] = seqid'[m]
    BY <1>1 DEF WholeUnlessShared
  <2>1. PICK n \in Sent \ {m} : seqid[n] = seqid[m]
    BY DEF ReceiverInv, WholeUnlessShared
  <2>2. m \in Sent
    BY <2>1 DEF Sent, TypeOK
  <2> QED BY <1>2, <2>1, <2>2
<1> QED BY <1>4, <1>5, <1>6, <1>7, <1>8, <1>9 DEF ReceiverInv

\* Storing a part: what the buffers hold then.
LEMMA StoreProperties ==
  ASSUME TypeOK, NEW b \in Buffers, NEW B \in Buffer, NEW m \in Sent, NEW i \in Indices(m),
         B.seqid = seqid[m], Store(b, B, m, i)
  PROVE  /\ buffers' \in [Buffers -> Buffer]
         /\ \A a \in Buffers \ {b} : buffers'[a] = buffers[a]
         /\ buffers'[b].size = B.size
         /\ DOMAIN buffers'[b].received = DOMAIN B.received \cup {i}
         /\ buffers'[b].received[i] = m
         /\ \A j \in DOMAIN B.received \ {i} : buffers'[b].received[j] = B.received[j]
         /\ Overwritten(B, m, i) \subseteq discarded'
         /\ discarded \subseteq discarded' /\ discarded' \subseteq Messages
         /\ \/ /\ ~ Indices(m) \subseteq DOMAIN buffers'[b].received
               /\ buffers'[b].seqid = seqid[m]
               /\ UNCHANGED <<assembled, mixed>>
            \/ /\ Indices(m) \subseteq DOMAIN buffers'[b].received
               /\ buffers'[b].seqid = 0
               /\ From(buffers'[b]) \ {m} \subseteq discarded'
               /\ assembled' = assembled \cup {m}
               /\ \/ mixed' = mixed
                  \/ /\ mixed' = mixed \cup {m}
                     /\ \E j \in Indices(m) : buffers'[b].received[j] # m
<1> DEFINE filled == Filled(B, m, i)
<1>0. m \in Messages
  BY DEF Sent
<1>1. /\ filled \in Buffer
      /\ filled.seqid = B.seqid
      /\ filled.size = B.size
      /\ DOMAIN filled.received = DOMAIN B.received \cup {i}
      /\ filled.received[i] = m
      /\ \A j \in DOMAIN B.received \ {i} : filled.received[j] = B.received[j]
  BY <1>0, FilledProperties
<1>2. /\ Released(filled) \in Buffer
      /\ Released(filled).seqid = 0
      /\ Released(filled).size = filled.size
      /\ Released(filled).received = filled.received
  BY <1>1, ReleasedProperties
<1>3. Overwritten(B, m, i) \subseteq Messages /\ From(filled) \subseteq Messages
  BY <1>1, ReceivedType DEF Overwritten
<1>4. \/ /\ ~ Indices(m) \subseteq DOMAIN filled.received
         /\ buffers' = [buffers EXCEPT ![b] = filled]
         /\ discarded' = discarded \cup Overwritten(B, m, i)
         /\ UNCHANGED <<assembled, mixed>>
      \/ /\ Indices(m) \subseteq DOMAIN filled.received
         /\ buffers' = [buffers EXCEPT ![b] = Released(filled)]
         /\ discarded' = discarded \cup Overwritten(B, m, i) \cup (From(filled) \ {m})
         /\ assembled' = assembled \cup {m}
         /\ mixed' = IF \A j \in Indices(m) : filled.received[j] = m THEN mixed ELSE mixed \cup {m}
  BY DEF Store
<1>5. discarded \subseteq Messages /\ buffers \in [Buffers -> Buffer]
  BY DEF TypeOK
<1> HIDE DEF filled
<1>6. CASE /\ ~ Indices(m) \subseteq DOMAIN filled.received
           /\ buffers' = [buffers EXCEPT ![b] = filled]
           /\ discarded' = discarded \cup Overwritten(B, m, i)
           /\ UNCHANGED <<assembled, mixed>>
  <2>1. /\ buffers' \in [Buffers -> Buffer] /\ buffers'[b] = filled
        /\ \A a \in Buffers \ {b} : buffers'[a] = buffers[a]
    BY <1>1, <1>5, <1>6
  <2> QED BY <1>1, <1>3, <1>5, <1>6, <2>1
<1>7. CASE /\ Indices(m) \subseteq DOMAIN filled.received
           /\ buffers' = [buffers EXCEPT ![b] = Released(filled)]
           /\ discarded' = discarded \cup Overwritten(B, m, i) \cup (From(filled) \ {m})
           /\ assembled' = assembled \cup {m}
           /\ mixed' = IF \A j \in Indices(m) : filled.received[j] = m THEN mixed ELSE mixed \cup {m}
  <2>1. /\ buffers' \in [Buffers -> Buffer] /\ buffers'[b] = Released(filled)
        /\ \A a \in Buffers \ {b} : buffers'[a] = buffers[a]
    BY <1>2, <1>5, <1>7
  <2>2. From(buffers'[b]) = From(filled)
    BY <1>2, <2>1 DEF From
  <2>3. discarded \subseteq discarded' /\ discarded' \subseteq Messages
    BY <1>3, <1>5, <1>7
  <2>4. \/ mixed' = mixed
        \/ /\ mixed' = mixed \cup {m}
           /\ \E j \in Indices(m) : buffers'[b].received[j] # m
    BY <1>2, <1>7, <2>1
  <2> QED BY <1>1, <1>2, <1>7, <2>1, <2>2, <2>3, <2>4
<1> QED BY <1>4, <1>6, <1>7

\* Storing a part keeps what the receiver guarantees.
LEMMA StoreKeepsReceiverInv ==
  ASSUME TypeOK, ReceiverInv, NEW m \in Sent, NEW i \in Indices(m),
         delivered' = [delivered EXCEPT ![<<m, i>>] = TRUE], UNCHANGED seqid,
         NEW b \in Buffers, NEW B \in Buffer, B.seqid = seqid[m],
         \/ b \in InUse(m) /\ B = buffers[b]
         \/ Fresh(b, B, m),
         LenOf[m] <= B.size, Store(b, B, m, i)
  PROVE  ReceiverInv'
<1>0. m \in Messages /\ seqid[m] # 0 /\ Sent' = Sent
  BY DEF Sent
<1>1. /\ buffers' \in [Buffers -> Buffer]
      /\ \A a \in Buffers \ {b} : buffers'[a] = buffers[a]
      /\ buffers'[b].size = B.size
      /\ DOMAIN buffers'[b].received = DOMAIN B.received \cup {i}
      /\ buffers'[b].received[i] = m
      /\ \A j \in DOMAIN B.received \ {i} : buffers'[b].received[j] = B.received[j]
      /\ Overwritten(B, m, i) \subseteq discarded'
      /\ discarded \subseteq discarded'
  BY StoreProperties
<1>2. \/ /\ ~ Indices(m) \subseteq DOMAIN buffers'[b].received
         /\ buffers'[b].seqid = seqid[m]
         /\ UNCHANGED <<assembled, mixed>>
      \/ /\ Indices(m) \subseteq DOMAIN buffers'[b].received
         /\ buffers'[b].seqid = 0
         /\ From(buffers'[b]) \ {m} \subseteq discarded'
         /\ assembled' = assembled \cup {m}
         /\ \/ mixed' = mixed
            \/ /\ mixed' = mixed \cup {m}
               /\ \E j \in Indices(m) : buffers'[b].received[j] # m
  BY StoreProperties
\* The buffer is the only one for the sequence id of m.
<1>3. \A a \in Buffers \ {b} : buffers[a].seqid # seqid[m]
  BY <1>0 DEF ReceiverInv, BuffersDistinct, InUse, Free, Fresh
<1>4. \A a \in Buffers \ {b} : a \in Free' <=> a \in Free
  BY <1>1 DEF Free, Buffers
\* It was opened for a message with the sequence id of m, and what it holds of this
\* length has that id; where it was free it was opened for m.
<1>5. \E n \in Sent :
        /\ seqid[n] = seqid[m]
        /\ \A j \in DOMAIN B.received \cap Indices(n) :
             B.received[j] \in Sent /\ seqid[B.received[j]] = seqid[m]
  <2>1. CASE b \in InUse(m) /\ B = buffers[b]
    BY <2>1, <1>0 DEF ReceiverInv, BuffersPure, InUse, Free
  <2>2. CASE Fresh(b, B, m)
    BY <2>2 DEF Fresh
  <2> QED BY <2>1, <2>2
<1>6. Settled \subseteq Settled'
  BY <1>1, <1>2 DEF Settled
<1>7. BuffersDistinct'
  <2>1. ASSUME NEW a \in Buffers \ Free', NEW c \in Buffers \ Free',
               buffers'[a].seqid = buffers'[c].seqid
        PROVE  a = c
    <3>1. b \notin Free' => buffers'[b].seqid = seqid[m]
      BY <1>2 DEF Free, Buffers
    <3>2. CASE a = b \/ c = b
      BY <2>1, <3>1, <3>2, <1>1, <1>3
    <3>3. CASE a # b /\ c # b
      BY <2>1, <3>3, <1>1, <1>4 DEF ReceiverInv, BuffersDistinct
    <3> QED BY <3>2, <3>3
  <2>2. ASSUME NEW a \in Buffers \ Free'
        PROVE  \E j \in DOMAIN buffers'[a].received :
                 \E k \in Indices(buffers'[a].received[j]) : k \notin DOMAIN buffers'[a].received
    <3>1. CASE a = b
      <4>1. ~ Indices(m) \subseteq DOMAIN buffers'[b].received
        BY <1>2, <2>2, <3>1 DEF Free, Buffers
      <4> QED BY <4>1, <3>1, <1>1
    <3>2. CASE a # b
      BY <2>2, <3>2, <1>1, <1>4 DEF ReceiverInv, BuffersDistinct
    <3> QED BY <3>1, <3>2
  <2> QED BY <2>1, <2>2 DEF BuffersDistinct, Buffers, Indices
<1>8. BuffersPure'
  <2> SUFFICES ASSUME NEW a \in Buffers \ Free'
               PROVE  \E n \in Sent :
                        /\ seqid[n] = buffers'[a].seqid
                        /\ \A j \in DOMAIN buffers'[a].received \cap Indices(n) :
                             /\ buffers'[a].received[j] \in Sent
                             /\ seqid[buffers'[a].received[j]] = buffers'[a].seqid
    BY <1>0 DEF BuffersPure, Buffers, Indices
  <2>1. CASE a = b
    <3>1. buffers'[b].seqid = seqid[m]
      BY <1>2, <2>1 DEF Free, Buffers
    <3>2. PICK n \in Sent : /\ seqid[n] = seqid[m]
                            /\ \A j \in DOMAIN B.received \cap Indices(n) :
                                 B.received[j] \in Sent /\ seqid[B.received[j]] = seqid[m]
      BY <1>5
    <3>3. ASSUME NEW j \in DOMAIN buffers'[b].received \cap Indices(n)
          PROVE  /\ buffers'[b].received[j] \in Sent
                 /\ seqid[buffers'[b].received[j]] = seqid[m]
      <4>1. CASE j = i
        BY <4>1, <1>1
      <4>2. CASE j # i
        BY <4>2, <3>2, <1>1
      <4> QED BY <4>1, <4>2
    <3> QED BY <2>1, <3>1, <3>2, <3>3
  <2>2. CASE a # b
    BY <2>2, <1>1, <1>4 DEF ReceiverInv, BuffersPure
  <2> QED BY <2>1, <2>2
<1>9. InBounds'
  <2> SUFFICES ASSUME NEW a \in Buffers, NEW j \in DOMAIN buffers'[a].received
               PROVE  j < buffers'[a].size
    BY DEF InBounds, Buffers
  <2>1. CASE a = b /\ j = i
    <3>1. i < LenOf[m] /\ i \in Int /\ LenOf[m] \in Int /\ B.size \in Int
      BY <1>0, PartsOfFinite, ReceivedType DEF Indices
    <3> QED BY <2>1, <3>1, <1>1
  <2>2. CASE a = b /\ j # i
    <3>1. j \in DOMAIN B.received
      BY <2>2, <1>1
    <3>2. CASE B = buffers[b]
      BY <2>2, <3>1, <3>2, <1>1 DEF ReceiverInv, InBounds
    <3>3. CASE Fresh(b, B, m)
      <4>1. j < buffers[b].size
        BY <3>1, <3>3 DEF Fresh, ReceiverInv, InBounds
      <4>2. buffers[b].size \in Int /\ B.size \in Int /\ buffers[b].size <= B.size
        BY <3>3 DEF Fresh, TypeOK, Buffer
      <4>3. j \in Int
        BY <3>1, ReceivedType
      <4> QED BY <2>2, <4>1, <4>2, <4>3, <1>1
    <3> QED BY <3>2, <3>3
  <2>3. CASE a # b
    BY <2>3, <1>1 DEF ReceiverInv, InBounds
  <2> QED BY <2>1, <2>2, <2>3
\* A part kept before is kept, or its message was discarded.
<1>10. ASSUME NEW n \in Messages \ Settled', NEW k \in Indices(n), delivered'[<<n, k>>]
       PROVE  \E a \in Buffers \ Free' :
                /\ buffers'[a].seqid = seqid[n]
                /\ k \in DOMAIN buffers'[a].received
                /\ buffers'[a].received[k] = n
  <2>1. CASE n = m /\ k = i
    <3>1. buffers'[b].seqid = seqid[m]
      BY <1>2, <1>10, <2>1 DEF Settled
    <3>2. b \notin Free'
      BY <3>1, <1>0 DEF Free, Buffers
    <3> QED BY <2>1, <3>1, <3>2, <1>1
  <2>2. CASE ~ (n = m /\ k = i)
    <3>1. delivered[<<n, k>>]
      <4>1. <<n, k>> \in Parts /\ <<n, k>> # <<m, i>>
        BY <2>2, PartsShape
      <4> QED BY <4>1, <1>10 DEF TypeOK
    <3>2. n \in Messages \ Settled
      BY <1>6, <1>10
    <3>3. PICK a \in Buffers \ Free : /\ buffers[a].seqid = seqid[n]
                                      /\ k \in DOMAIN buffers[a].received
                                      /\ buffers[a].received[k] = n
      BY <3>1, <3>2 DEF ReceiverInv, PartsKept
    <3>4. CASE a # b
      BY <3>3, <3>4, <1>1, <1>4
    <3>5. CASE a = b
      <4>1. B = buffers[b]
        BY <3>3, <3>5 DEF Free, InUse, Fresh
      <4>2. k # i
        <5>1. CASE k = i
          <6>1. n # m
            BY <2>2, <5>1
          <6>2. n \in Overwritten(B, m, i)
            BY <3>3, <3>5, <4>1, <5>1, <6>1 DEF Overwritten
          <6> QED BY <6>2, <1>1, <1>10 DEF Settled
        <5> QED BY <5>1
      <4>3. k \in DOMAIN buffers'[b].received /\ buffers'[b].received[k] = n
        BY <3>3, <3>5, <4>1, <4>2, <1>1
      <4>4. buffers'[b].seqid = seqid[m]
        <5>1. n \in From(buffers'[b])
          BY <4>3 DEF From
        <5> QED BY <5>1, <1>2, <1>10 DEF Settled
      <4>5. seqid[n] = seqid[m]
        BY <3>3, <3>5, <4>1
      <4>6. b \notin Free'
        BY <4>4, <1>0 DEF Free, Buffers
      <4> QED BY <4>3, <4>4, <4>5, <4>6
    <3> QED BY <3>4, <3>5
  <2> QED BY <2>1, <2>2
<1>11. PartsKept'
  BY <1>10 DEF PartsKept, Settled, Buffers, Indices
\* When the last part of a message arrives the others are in the same buffer.
<1>12. NotStuck'
  <2> SUFFICES ASSUME NEW n \in Messages, n \notin Settled', \A k \in Indices(n) : delivered'[<<n, k>>]
               PROVE  FALSE
    BY DEF NotStuck, Settled, Indices
  <2>1. CASE n # m
    <3>1. \A k \in Indices(n) : delivered[<<n, k>>]
      <4> SUFFICES ASSUME NEW k \in Indices(n)
                   PROVE  delivered[<<n, k>>]
        OBVIOUS
      <4>1. <<n, k>> \in Parts /\ <<n, k>> # <<m, i>>
        BY <2>1, PartsShape
      <4> QED BY <4>1 DEF TypeOK
    <3> QED BY <3>1, <1>6 DEF ReceiverInv, NotStuck
  <2>2. CASE n = m
    <3>1. ~ Indices(m) \subseteq DOMAIN buffers'[b].received
      BY <1>2, <2>2 DEF Settled
    <3>2. PICK k \in Indices(m) : k \notin DOMAIN buffers'[b].received
      BY <3>1
    <3>3. PICK a \in Buffers \ Free' : /\ buffers'[a].seqid = seqid[m]
                                       /\ k \in DOMAIN buffers'[a].received
      BY <2>2, <1>10
    <3>4. a # b
      BY <3>2, <3>3
    <3> QED BY <3>3, <3>4, <1>1, <1>3
  <2> QED BY <2>1, <2>2
<1>13. WholeUnlessShared'
  <2> SUFFICES ASSUME NEW n \in mixed'
               PROVE  \E o \in Sent \ {n} : seqid[o] = seqid[n]
    BY <1>0 DEF WholeUnlessShared
  <2>1. CASE n \in mixed
    BY <2>1 DEF ReceiverInv, WholeUnlessShared
  <2>2. CASE n \notin mixed
    <3>1. n = m /\ \E j \in Indices(m) : buffers'[b].received[j] # m
      BY <2>2, <1>2
    <3>2. Indices(m) \subseteq DOMAIN buffers'[b].received
      BY <2>2, <1>2
    <3>3. PICK j \in Indices(m) : buffers'[b].received[j] # m
      BY <3>1
    <3>4. j \in DOMAIN B.received \ {i} /\ buffers'[b].received[j] = B.received[j]
      BY <3>2, <3>3, <1>1
    <3>5. PICK o \in Sent : /\ seqid[o] = seqid[m]
                            /\ \A k \in DOMAIN B.received \cap Indices(o) :
                                 B.received[k] \in Sent /\ seqid[B.received[k]] = seqid[m]
      BY <1>5
    <3>6. CASE j \in Indices(o)
      BY <3>1, <3>3, <3>4, <3>5, <3>6
    <3>7. CASE j \notin Indices(o)
      BY <3>1, <3>3, <3>5, <3>7
    <3> QED BY <3>6, <3>7
  <2> QED BY <2>1, <2>2
<1> QED BY <1>7, <1>8, <1>9, <1>11, <1>12, <1>13 DEF ReceiverInv

\* A part that is dropped takes its message with it.
LEMMA DropKeepsReceiverInv ==
  ASSUME TypeOK, ReceiverInv, NEW m \in Sent, NEW i \in Indices(m),
         delivered' = [delivered EXCEPT ![<<m, i>>] = TRUE], UNCHANGED <<seqid, buffers>>,
         Drop(m)
  PROVE  ReceiverInv'
<1>1. /\ buffers' = buffers /\ seqid' = seqid /\ Sent' = Sent /\ Free' = Free
      /\ assembled' = assembled /\ mixed' = mixed /\ discarded' = discarded \cup {m}
      /\ Settled' = Settled \cup {m}
  BY DEF Drop, Sent, Free, Buffers, Settled
<1>2. BuffersDistinct'
  BY <1>1 DEF ReceiverInv, BuffersDistinct, Buffers, Indices
<1>3. BuffersPure'
  BY <1>1 DEF ReceiverInv, BuffersPure, Buffers
<1>4. InBounds'
  BY <1>1 DEF ReceiverInv, InBounds, Buffers
<1>5. WholeUnlessShared'
  BY <1>1 DEF ReceiverInv, WholeUnlessShared
<1>6. ASSUME NEW n \in Messages \ Settled', NEW k \in Indices(n)
      PROVE  n \notin Settled /\ (delivered'[<<n, k>>] => delivered[<<n, k>>])
  <2>1. n # m /\ n \notin Settled
    BY <1>1
  <2>2. <<n, k>> \in Parts /\ <<n, k>> # <<m, i>>
    BY <2>1, PartsShape
  <2> QED BY <2>1, <2>2 DEF TypeOK
<1>7. PartsKept'
  <2> SUFFICES ASSUME NEW n \in Messages \ Settled', NEW k \in Indices(n), delivered'[<<n, k>>]
               PROVE  \E a \in Buffers \ Free :
                        /\ buffers[a].seqid = seqid[n]
                        /\ k \in DOMAIN buffers[a].received
                        /\ buffers[a].received[k] = n
    BY <1>1 DEF PartsKept, Settled, Buffers, Indices
  <2>1. n \notin Settled /\ delivered[<<n, k>>]
    BY <1>6
  <2> QED BY <2>1 DEF ReceiverInv, PartsKept
<1>8. NotStuck'
  <2> SUFFICES ASSUME NEW n \in Messages, n \notin Settled', \A k \in Indices(n) : delivered'[<<n, k>>]
               PROVE  FALSE
    BY DEF NotStuck, Settled, Indices
  <2>1. n \in Messages \ Settled'
    OBVIOUS
  <2>2. \A k \in Indices(n) : n \notin Settled /\ delivered[<<n, k>>]
    BY <2>1, <1>6
  <2>3. 0 \in Indices(n)
    BY PartsOfFinite DEF Indices
  <2> QED BY <2>2, <2>3 DEF ReceiverInv, NotStuck
<1> QED BY <1>2, <1>3, <1>4, <1>5, <1>7, <1>8 DEF ReceiverInv

\* The arrival of a part keeps everything.
LEMMA ArrivalKeepsInv ==
  ASSUME IInv, NEW m \in Messages, NEW i \in Indices(m), PartArrives(m, i)
  PROVE  IInv'
<1>1. SenderInv' /\ m \in Sent
  BY DeliveryKeepsSenderInv DEF IInv
<1>2. /\ delivered' = [delivered EXCEPT ![<<m, i>>] = TRUE]
      /\ phase' = phase /\ seqid' = seqid /\ counter' = counter /\ success' = success /\ told' = told
      /\ assembleLongMessage(m, i)
  BY DEF PartArrives, Network!Deliver, senderVars
<1>3. delivered' \in [Parts -> BOOLEAN]
  BY <1>2 DEF IInv, TypeOK
<1>4. CASE Drop(m) /\ UNCHANGED buffers
  <2>1. ReceiverInv'
    BY <1>1, <1>2, <1>4, DropKeepsReceiverInv DEF IInv
  <2>2. TypeOK'
    BY <1>2, <1>3, <1>4 DEF IInv, TypeOK, Drop, Buffers, Buffer, AllIndices, Indices, Parts
  <2> QED BY <1>1, <2>1, <2>2 DEF IInv
<1>5. ASSUME NEW b \in Buffers, NEW B \in Buffer, B.seqid = seqid[m],
             \/ b \in InUse(m) /\ B = buffers[b]
             \/ Fresh(b, B, m),
             LenOf[m] <= B.size, Store(b, B, m, i)
      PROVE  IInv'
  <2>1. ReceiverInv'
    BY <1>1, <1>2, <1>5, StoreKeepsReceiverInv DEF IInv
  <2>2. /\ buffers' \in [Buffers -> Buffer]
        /\ discarded' \subseteq Messages
        /\ assembled' = assembled \/ assembled' = assembled \cup {m}
        /\ mixed' = mixed \/ mixed' = mixed \cup {m}
    BY <1>1, <1>5, StoreProperties DEF IInv
  <2>3. TypeOK'
    BY <1>2, <1>3, <2>2 DEF IInv, TypeOK, Buffers, Buffer, AllIndices, Indices, Parts
  <2> QED BY <1>1, <2>1, <2>3 DEF IInv
<1>6. \/ Drop(m) /\ UNCHANGED buffers
      \/ \E b \in Buffers, B \in Buffer :
           /\ B.seqid = seqid[m]
           /\ \/ b \in InUse(m) /\ B = buffers[b]
              \/ Fresh(b, B, m)
           /\ LenOf[m] <= B.size
           /\ Store(b, B, m, i)
  BY <1>1, <1>2, ArrivalCases DEF IInv
<1> QED BY <1>4, <1>5, <1>6

\* Clearing buffers discards the messages that have parts in them.
LEMMA ClearKeepsInv ==
  ASSUME IInv, NEW S \in SUBSET Buffers, clearAssemblyBuffers(S)
  PROVE  IInv'
<1> USE DEF IInv
<1>1. /\ buffers' = [b \in Buffers |-> IF b \in S THEN Released(buffers[b]) ELSE buffers[b]]
      /\ discarded' = discarded \cup UNION {From(buffers[b]) : b \in S}
      /\ phase' = phase /\ delivered' = delivered /\ seqid' = seqid /\ counter' = counter
      /\ success' = success /\ told' = told /\ assembled' = assembled /\ mixed' = mixed
      /\ Sent' = Sent
  BY DEF clearAssemblyBuffers, senderVars, Sent
<1>2. ASSUME NEW b \in Buffers
      PROVE  /\ buffers'[b] \in Buffer
             /\ buffers'[b].size = buffers[b].size
             /\ buffers'[b].received = buffers[b].received
             /\ b \in S => buffers'[b].seqid = 0 /\ From(buffers[b]) \subseteq discarded'
             /\ b \notin S => buffers'[b] = buffers[b]
  <2>1. buffers[b] \in Buffer
    BY DEF TypeOK
  <2>2. b \in S => From(buffers[b]) \subseteq discarded'
    BY <1>1
  <2>3. CASE b \in S
    BY <1>1, <2>1, <2>2, <2>3, ReleasedProperties
  <2>4. CASE b \notin S
    BY <1>1, <2>1, <2>4
  <2> QED BY <2>3, <2>4
<1>3. Buffers \ Free' = (Buffers \ Free) \ S
  BY <1>2 DEF Free, Buffers, clearAssemblyBuffers
<1>4. discarded' \subseteq Messages
  <2>1. \A b \in S : From(buffers[b]) \subseteq Messages
    BY ReceivedType DEF TypeOK
  <2> QED BY <1>1, <2>1 DEF TypeOK
<1>5. TypeOK'
  <2>1. buffers' \in [Buffers -> Buffer]
    BY <1>1, <1>2
  <2> QED BY <1>1, <1>4, <2>1 DEF TypeOK, Buffers, Buffer, AllIndices, Indices, Parts
<1>6. SenderInv'
  BY ReceiverVarsKeepSenderInv DEF clearAssemblyBuffers
<1>7. Settled \subseteq Settled'
  BY <1>1 DEF Settled
<1>8. BuffersDistinct'
  BY <1>2, <1>3 DEF ReceiverInv, BuffersDistinct, Buffers, Indices
<1>9. BuffersPure'
  BY <1>1, <1>2, <1>3 DEF ReceiverInv, BuffersPure, Buffers
<1>10. InBounds'
  BY <1>2 DEF ReceiverInv, InBounds, Buffers
<1>11. NotStuck'
  BY <1>1, <1>7 DEF ReceiverInv, NotStuck, Indices, Settled
<1>12. WholeUnlessShared'
  BY <1>1 DEF ReceiverInv, WholeUnlessShared
<1>13. PartsKept'
  <2> SUFFICES ASSUME NEW n \in Messages \ Settled', NEW k \in Indices(n), delivered[<<n, k>>]
               PROVE  \E a \in Buffers \ Free' :
                        /\ buffers'[a].seqid = seqid[n]
                        /\ k \in DOMAIN buffers'[a].received
                        /\ buffers'[a].received[k] = n
    BY <1>1 DEF PartsKept, Settled, Buffers, Indices
  <2>1. PICK a \in Buffers \ Free : /\ buffers[a].seqid = seqid[n]
                                    /\ k \in DOMAIN buffers[a].received
                                    /\ buffers[a].received[k] = n
    BY <1>7 DEF ReceiverInv, PartsKept
  <2>2. a \notin S
    <3>1. n \in From(buffers[a])
      BY <2>1 DEF From
    <3> QED BY <3>1, <1>2 DEF Settled
  <2> QED BY <2>1, <2>2, <1>2, <1>3
<1> QED BY <1>5, <1>6, <1>8, <1>9, <1>10, <1>11, <1>12, <1>13 DEF ReceiverInv

----------------------------------------------------------------------------
(* The theorems *)

\* The invariant holds at first.
LEMMA InitInv ==
  ASSUME Init
  PROVE  IInv
<1>1. /\ phase = [p \in Parts |-> "unsent"] /\ delivered = [p \in Parts |-> FALSE]
      /\ seqid = [m \in Messages |-> 0] /\ counter = [m \in Messages |-> 0]
      /\ success = [m \in Messages |-> TRUE] /\ told = [m \in Messages |-> "nothing"]
      /\ buffers = [b \in Buffers |-> [seqid |-> 0, size |-> 0, received |-> Empty]]
      /\ assembled = {} /\ mixed = {} /\ discarded = {}
  BY DEF Init, Network!Init
<1>2. Sent = {}
  BY <1>1 DEF Sent
<1>3. Free = Buffers
  BY <1>1 DEF Free
<1>4. [seqid |-> 0, size |-> 0, received |-> Empty] \in Buffer
  <2>1. Empty \in [{} -> Messages] /\ {} \in SUBSET AllIndices
    BY DEF Empty
  <2> QED BY <2>1 DEF Buffer
<1>5. TypeOK
  <2>1. buffers \in [Buffers -> Buffer]
    BY <1>1, <1>4
  <2> QED BY <1>1, <2>1 DEF TypeOK, Network!Phases
<1>6. SenderInv
  BY <1>1, <1>2, PartsOfFinite DEF SenderInv, UnsentUntouched, OutcomeExact, PartsHonest, CounterExact
<1>7. InBounds
  BY <1>1 DEF InBounds, Empty
<1>8. NotStuck
  <2> SUFFICES ASSUME NEW m \in Messages, \A i \in Indices(m) : delivered[<<m, i>>]
               PROVE  FALSE
    BY DEF NotStuck
  <2>1. 0 \in Indices(m)
    BY PartsOfFinite DEF Indices
  <2>2. <<m, 0>> \in Parts
    BY <2>1, PartsShape
  <2> QED BY <1>1, <2>1, <2>2
<1>9. PartsKept
  <2> SUFFICES ASSUME NEW m \in Messages, NEW i \in Indices(m), delivered[<<m, i>>]
               PROVE  FALSE
    BY DEF PartsKept
  <2> QED BY <1>1, PartsShape
<1>10. ReceiverInv
  BY <1>1, <1>3, <1>7, <1>8, <1>9 DEF ReceiverInv, BuffersDistinct, BuffersPure, WholeUnlessShared
<1> QED BY <1>5, <1>6, <1>10 DEF IInv

\* Every step keeps the invariant.
LEMMA NextInv ==
  ASSUME IInv, [Next]_vars
  PROVE  IInv'
<1>1. ASSUME NEW m \in Messages, sendMessage(m)
      PROVE  IInv'
  <2>1. TypeOK' /\ SenderInv'
    BY <1>1, SendKeepsSenderInv DEF IInv
  <2>2. UNCHANGED <<delivered, receiverVars>> /\ \A n \in Sent : seqid'[n] = seqid[n]
    BY <1>1 DEF sendMessage, IInv, TypeOK, Sent
  <2> QED BY <2>1, <2>2, SenderStepKeepsReceiverInv DEF IInv
<1>2. ASSUME NEW m \in Messages, NEW i \in Indices(m), PartAnswered(m, i)
      PROVE  IInv'
  <2>1. TypeOK' /\ SenderInv'
    BY <1>2, AnswerKeepsSenderInv DEF IInv
  <2>2. UNCHANGED <<delivered, receiverVars, seqid>>
    BY <1>2 DEF PartAnswered, Network!Report
  <2> QED BY <2>1, <2>2, SenderStepKeepsReceiverInv DEF IInv
<1>3. ASSUME NEW m \in Messages, NEW i \in Indices(m), PartArrives(m, i)
      PROVE  IInv'
  BY <1>3, ArrivalKeepsInv
<1>4. ASSUME NEW S \in SUBSET Buffers, clearAssemblyBuffers(S)
      PROVE  IInv'
  BY <1>4, ClearKeepsInv
<1>5. CASE UNCHANGED vars
  <2>1. /\ phase' = phase /\ delivered' = delivered /\ seqid' = seqid /\ counter' = counter
        /\ success' = success /\ told' = told /\ buffers' = buffers
        /\ assembled' = assembled /\ mixed' = mixed /\ discarded' = discarded
        /\ UNCHANGED senderVars /\ UNCHANGED receiverVars
    BY <1>5 DEF vars, senderVars, receiverVars
  <2>2. TypeOK'
    BY <2>1 DEF IInv, TypeOK, Buffers, Buffer, AllIndices, Indices, Parts
  <2>3. SenderInv'
    BY <2>1, ReceiverVarsKeepSenderInv DEF IInv
  <2>4. ReceiverInv'
    BY <2>1, SenderStepKeepsReceiverInv DEF IInv
  <2> QED BY <2>2, <2>3, <2>4 DEF IInv
<1> QED BY <1>1, <1>2, <1>3, <1>4, <1>5 DEF Next

\* The invariant is one of the specification.
THEOREM Invariance == Spec => []IInv
<1>1. Init => IInv
  BY InitInv
<1>2. IInv /\ [Next]_vars => IInv'
  BY NextInv
<1> QED BY <1>1, <1>2, PTL DEF Spec

\* For any lengths and outcomes the hook of a message is not called before the last of
\* its parts is answered, and is called then (peisk_largePackageHook, p2p.c:984).
THEOREM ToldAtTheLast == Spec => []ToldWhenAnswered
<1>1. IInv => ToldWhenAnswered
  <2> SUFFICES ASSUME IInv, NEW m \in Sent
               PROVE  /\ told[m] # "nothing" => Awaited(m) = {}
                      /\ Awaited(m) = {} /\ (\A p \in PartsOf(m) : phase[p] # "rejected") =>
                           told[m] # "nothing"
    BY DEF ToldWhenAnswered
  <2>1. IsFiniteSet(Open(m))
    <3>1. IsFiniteSet(PartsOf(m)) /\ Open(m) \subseteq PartsOf(m)
      BY PartsOfFinite DEF Open, Sent
    <3> QED BY <3>1, FS_Subset
  <2>2. told[m] # "nothing" <=> Open(m) = {}
    BY <2>1, FS_EmptySet DEF IInv, SenderInv, CounterExact
  <2> QED BY <2>2 DEF Open, Awaited
<1> QED BY <1>1, Invariance, PTL

\* For any number of buffers and however sequence ids are shared, a hook told of
\* success is told so of a message the receiver assembled or threw away itself
\* (p2p.c:984, p2p.c:1348).
THEOREM SuccessAssembled == Spec => []SuccessMeansAssembled
<1>1. ASSUME IInv
      PROVE  SuccessMeansAssembled
  <2> SUFFICES ASSUME NEW m \in Sent, told[m] = "success"
               PROVE  /\ \A p \in PartsOf(m) : delivered[p]
                      /\ m \in assembled \cup discarded
    BY DEF SuccessMeansAssembled
  <2>1. m \in Messages
    BY DEF Sent
  <2>2. \A p \in PartsOf(m) : delivered[p]
    <3>1. \A p \in PartsOf(m) : p \in Parts
      BY <2>1, PartsOfFinite
    <3> QED BY <1>1, <3>1 DEF IInv, SenderInv, OutcomeExact, PartsHonest
  <2>3. \A i \in Indices(m) : delivered[<<m, i>>]
    BY <2>1, <2>2, PartsShape
  <2> QED BY <1>1, <2>1, <2>2, <2>3 DEF IInv, ReceiverInv, NotStuck, Settled
<1> QED BY <1>1, Invariance, PTL

\* For any lengths no part is stored outside its buffer (p2p.c:1400).
THEOREM StoresInBounds == Spec => []InBounds
<1>1. IInv => InBounds
  BY DEF IInv, ReceiverInv
<1> QED BY <1>1, Invariance, PTL

\* However parts interleave, are lost or discarded, messages are mixed only by a
\* sequence id drawn twice (p2p.c:1362).
THEOREM MixedOnlyIfShared == Spec => []WholeUnlessShared
<1>1. IInv => WholeUnlessShared
  BY DEF IInv, ReceiverInv
<1> QED BY <1>1, Invariance, PTL

\* No sequence id ever has two buffers, and a buffer in use waits for a part.
THEOREM OneBufferEach == Spec => []BuffersDistinct
<1>1. IInv => BuffersDistinct
  BY DEF IInv, ReceiverInv
<1> QED BY <1>1, Invariance, PTL

============================================================================
