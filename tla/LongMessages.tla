---------------------------- MODULE LongMessages ----------------------------
(***************************************************************************)
(* Messages of several packages (p2p.h:719-742).  The sender divides a     *)
(* message into parts, each of them a reliable message of its own, and     *)
(* calls the hook of the message when the hooks of all parts were called.  *)
(* The receiver collects parts in buffers, by the sequence id that the     *)
(* sender drew at random; buffers are few, and cleared after a while.      *)
(*                                                                         *)
(* The parts travel by MessageService, which ReliableTransfer implements.  *)
(***************************************************************************)
EXTENDS Naturals, FiniteSets, Functions

CONSTANTS
  Messages,  \* long messages to one receiver, of one or several senders
  LenOf,     \* how many parts each has
  SeqIds,    \* what a sender draws from (1 .. 32767)
  NBuffers   \* PEISK_MAX_LONG_MESSAGES

ASSUME LongMessagesAssumption ==
  /\ LenOf \in [Messages -> Nat \ {0, 1}]
  /\ 0 \notin SeqIds
  /\ NBuffers \in Nat

Indices(m) == 0 .. LenOf[m] - 1
Parts == UNION {{m} \X Indices(m) : m \in Messages}
PartsOf(m) == {m} \X Indices(m)

VARIABLES
  phase, delivered,  \* of each part, see MessageService
  seqid,      \* of each message, 0 for one that is not sent
  counter,    \* how many parts of it are not answered
  success,    \* did all that were answered succeed
  refused,    \* history: parts that never entered a queue
  told,       \* what its hook was told: "nothing", "success" or "failure"
  buffers,    \* assemblyBuffers
  assembled,  \* history: messages handed to the hooks of their port
  mixed,      \* history: those with parts of others
  discarded   \* history: those of which the receiver discarded a part

senderVars == <<seqid, counter, success, refused, told>>
receiverVars == <<buffers, assembled, mixed, discarded>>
vars == <<phase, delivered, senderVars, receiverVars>>

Network == INSTANCE MessageService WITH Messages <- Parts, Guaranteed <- Parts

Buffers == 1 .. NBuffers
Empty == [i \in {} |-> {}]

Init ==
  /\ Network!Init
  /\ seqid = [m \in Messages |-> 0]
  /\ counter = [m \in Messages |-> 0]
  /\ success = [m \in Messages |-> TRUE]
  /\ refused = {}
  /\ told = [m \in Messages |-> "nothing"]
  /\ buffers = [b \in Buffers |-> [seqid |-> 0, size |-> 0, received |-> Empty]]
  /\ assembled = {} /\ mixed = {} /\ discarded = {}

----------------------------------------------------------------------------
(* The sender *)

\* Seeded fault: what fails is not counted.
CountedIfSuccessful(m, n, ok) == IF ok THEN counter[m] - n ELSE counter[m]

Counted(m, n, ok) == counter[m] - n

\* Seeded fault: the outcome of the last part is the outcome of all.
LastOutcome(m, ok) == ok

Outcome(m, ok) == success[m] /\ ok

\* peisk_largePackageHook, of one part: the hook of the message is called
\* when no part is left.
largePackageHook(m, ok) ==
  /\ counter' = [counter EXCEPT ![m] = Counted(m, 1, ok)]
  /\ success' = [success EXCEPT ![m] = Outcome(m, ok)]
  /\ told' = [told EXCEPT ![m] = IF counter'[m] # 0 THEN @
                                 ELSE IF success'[m] THEN "success" ELSE "failure"]

\* Each part is accepted or refused, which its hook is told of at once, until there
\* are no structures left: the hooks of the other parts are not told.  A message
\* that does not fit the queue is not sent, which changes nothing.
Outcomes(m) ==
  {outcome \in [Indices(m) -> {"accepted", "failed", "rejected"}] :
     \A i, j \in Indices(m) : outcome[i] = "rejected" /\ i < j => outcome[j] = "rejected"}

sendMessage(m) ==
  /\ seqid[m] = 0
  /\ \E id \in SeqIds : seqid' = [seqid EXCEPT ![m] = id]
  /\ \E outcome \in Outcomes(m) :
       LET failed == {p \in PartsOf(m) : outcome[p[2]] = "failed"}
           left == LenOf[m] - Cardinality(failed) IN
       /\ phase' = [p \in Parts |-> IF p \in PartsOf(m) THEN outcome[p[2]] ELSE phase[p]]
       /\ counter' = [counter EXCEPT ![m] = left]
       /\ success' = [success EXCEPT ![m] = failed = {}]
       /\ refused' = refused \cup failed
       /\ told' = [told EXCEPT ![m] = IF left = 0 THEN "failure" ELSE @]
  /\ UNCHANGED <<delivered, receiverVars>>

\* The transfer calls the hook of one part.
PartAnswered(m, i) ==
  /\ \E outcome \in {"succeeded", "failed"} :
       /\ Network!Report({<<m, i>>}, outcome)
       /\ largePackageHook(m, outcome = "succeeded")
  /\ UNCHANGED <<seqid, refused, receiverVars>>

----------------------------------------------------------------------------
(* The receiver *)

Free == {b \in Buffers : buffers[b].seqid = 0}
Sized(n) == {b \in Free : buffers[b].size = n}
Ample(n) == {b \in Free : buffers[b].size >= n}

\* Seeded fault: what was received before is not forgotten.
OpenedUncleared(b, m) ==
  [seqid |-> seqid[m], size |-> IF buffers[b].size < LenOf[m] THEN LenOf[m] ELSE buffers[b].size,
   received |-> buffers[b].received]

\* A larger buffer is cleared as far as the message goes.
Opened(b, m) ==
  [seqid |-> seqid[m], size |-> IF buffers[b].size < LenOf[m] THEN LenOf[m] ELSE buffers[b].size,
   received |-> Restrict(buffers[b].received, DOMAIN buffers[b].received \ Indices(m))]

InUse(m) == {b \in Buffers : buffers[b].seqid = seqid[m]}

\* Where a part of m may be put: in the buffer in use for its sequence id, or in a
\* free one, of the exact size if there is one, or else a larger one, or else any.
Candidates(m) ==
  IF InUse(m) # {} THEN InUse(m)
  ELSE IF Sized(LenOf[m]) # {} THEN Sized(LenOf[m])
  ELSE IF Ample(LenOf[m]) # {} THEN Ample(LenOf[m])
  ELSE Free

BufferFor(b, m) == IF buffers[b].seqid = seqid[m] THEN buffers[b] ELSE Opened(b, m)

\* Seeded fault: the length is not compared.
FitsAnyway(B, m) == TRUE

Fits(B, m) == LenOf[m] <= B.size

\* Seeded fault: the buffer stays in use.
ReleasedNot(B) == B

Released(B) == [B EXCEPT !.seqid = 0]

Filled(B, m, i) ==
  [B EXCEPT !.received = [j \in DOMAIN B.received \cup {i} |-> IF j = i THEN m ELSE B.received[j]]]

From(B) == {B.received[j] : j \in DOMAIN B.received}

\* The message whose part is overwritten by part i of m, if any.
Overwritten(B, m, i) == IF i \in DOMAIN B.received THEN {B.received[i]} \ {m} ELSE {}

\* The part is stored, and the message handed over if no part of it is missing.
Store(b, B, m, i) ==
  LET filled == Filled(B, m, i) IN
  \/ /\ ~ Indices(m) \subseteq DOMAIN filled.received
     /\ buffers' = [buffers EXCEPT ![b] = filled]
     /\ discarded' = discarded \cup Overwritten(B, m, i)
     /\ UNCHANGED <<assembled, mixed>>
  \/ /\ Indices(m) \subseteq DOMAIN filled.received
     /\ buffers' = [buffers EXCEPT ![b] = Released(filled)]
     /\ discarded' = discarded \cup Overwritten(B, m, i) \cup (From(filled) \ {m})
     /\ assembled' = assembled \cup {m}
     /\ mixed' = IF \A j \in Indices(m) : filled.received[j] = m THEN mixed ELSE mixed \cup {m}

\* The part is dropped: there is no buffer, or the one of its sequence id is too short.
Drop(m) ==
  /\ discarded' = discarded \cup {m}
  /\ UNCHANGED <<assembled, mixed>>

\* peisk_assembleLongMessage: received tells whose part is at each place.  The code
\* takes the first of the candidates, the model any.
assembleLongMessage(m, i) ==
  \/ Candidates(m) = {} /\ Drop(m) /\ UNCHANGED buffers
  \/ \E b \in Candidates(m) :
       LET B == BufferFor(b, m) IN
       \/ Fits(B, m) /\ Store(b, B, m, i)
       \/ ~ Fits(B, m) /\ Drop(m) /\ buffers' = [buffers EXCEPT ![b] = B]

PartArrives(m, i) ==
  /\ <<m, i>> \notin refused
  /\ Network!Deliver(<<m, i>>)
  /\ assembleLongMessage(m, i)
  /\ UNCHANGED senderVars

\* peisk_periodic_clearAssemblyBuffers: for some, the last part came long ago.
clearAssemblyBuffers(S) ==
  /\ S # {} /\ S \subseteq Buffers \ Free
  /\ buffers' = [b \in Buffers |-> IF b \in S THEN Released(buffers[b]) ELSE buffers[b]]
  /\ discarded' = discarded \cup
       UNION {From(buffers[b]) : b \in S}
  /\ UNCHANGED <<phase, delivered, senderVars, assembled, mixed>>

----------------------------------------------------------------------------
Next ==
  \/ \E m \in Messages :
       \/ sendMessage(m)
       \/ \E i \in Indices(m) : PartAnswered(m, i) \/ PartArrives(m, i)
  \/ \E S \in SUBSET Buffers : clearAssemblyBuffers(S)

Spec == Init /\ [][Next]_vars

----------------------------------------------------------------------------
(* Properties *)

Sent == {m \in Messages : seqid[m] # 0}
Awaited(m) == {p \in PartsOf(m) : phase[p] = "accepted"}

\* The hook of a message is not called while one of its parts may still be answered,
\* whatever parts were refused while it was being sent; and it has been called when
\* none may, unless a part found no structure (p2p.h:724).
ToldWhenAnswered ==
  \A m \in Sent :
    /\ told[m] # "nothing" => Awaited(m) = {}
    /\ Awaited(m) = {} /\ (\A p \in PartsOf(m) : phase[p] # "rejected") => told[m] # "nothing"

\* A message whose hook is told of success reached its receiver in all its parts;
\* it was assembled unless the receiver itself discarded a part.
SuccessMeansAssembled ==
  \A m \in Sent :
    told[m] = "success" =>
      /\ \A p \in PartsOf(m) : delivered[p]
      /\ m \in assembled \cup discarded

\* A part is stored inside the memory allocated for its buffer, messages of other
\* lengths with the same sequence id included.
InBounds ==
  \A b \in Buffers : \A j \in DOMAIN buffers[b].received : j < buffers[b].size

\* What is handed to a port is one message, whole, unless another message
\* drew the same sequence id.
WholeUnlessShared ==
  \A m \in mixed : \E n \in Sent \ {m} : seqid[n] = seqid[m]

\* No two buffers collect for one sequence id, and a buffer in use waits for
\* something: it holds a part of a message of which another part is missing.
BuffersDistinct ==
  /\ \A a, b \in Buffers \ Free : buffers[a].seqid = buffers[b].seqid => a = b
  /\ \A b \in Buffers \ Free :
       \E j \in DOMAIN buffers[b].received :
         \E i \in Indices(buffers[b].received[j]) : i \notin DOMAIN buffers[b].received

=============================================================================
