------------------------- MODULE ReliableTransfer -------------------------
(***************************************************************************)
(* The reliable mode of the P2P layer (p2p.c, services.c): one peis sends  *)
(* messages of at most one package to another.  The sender keeps, for each *)
(* entry of peiskernel.connections[], FIFO queues of packages not yet sent *)
(* and a pending list of packages waiting for their acknowledgement; every *)
(* queued package lives in one of a bounded number of malloc'ed structures.*)
(* The receiver remembers identifiers it has seen, delivers, and batches   *)
(* acknowledgements.  Between them is whatever the links and the routing   *)
(* peis do: packages are lost and reordered, never duplicated or altered.  *)
(*                                                                         *)
(* One action is one call of a handler: a peis is single threaded.         *)
(***************************************************************************)
EXTENDS Integers, Sequences, FiniteSets, SeenWindow

CONSTANTS
  Messages,      \* calls of the send functions, each made once
  LinkLevel,     \* those made through peisk_sendLinkPackage
  Reliable,      \* those flagged PEISK_PACKAGE_RELIABLE
  Bulk,          \* those flagged PEISK_PACKAGE_BULK
  Hooked,        \* those made under with_ack_hook
  NoMessage,
  Conns,         \* entries of peiskernel.connections[]
  Bluetooth,     \* those that bluetooth.c connects through
  NoConn,
  Packages,      \* the PeisQueuedPackage structures that may be allocated
  BigEndian,     \* does htons() leave the flags field as it is
  MAX_QUEUE_SIZE, PENDING_MAX_RETRIES, MAX_ACK_PACKAGES, LOOPINFO_SIZE

ASSUME TransferAssumption ==
  /\ LinkLevel \subseteq Messages
  /\ Reliable \subseteq Messages \ LinkLevel
  /\ Bulk \subseteq Messages \ LinkLevel
  /\ Hooked \subseteq Messages
  /\ NoMessage \notin Messages
  /\ Bluetooth \subseteq Conns /\ NoConn \notin Conns
  /\ IsFiniteSet(Packages)
  /\ BigEndian \in BOOLEAN
  /\ MAX_QUEUE_SIZE \in Nat \ {0} /\ PENDING_MAX_RETRIES \in Nat
  /\ MAX_ACK_PACKAGES \in Nat \ {0} /\ LOOPINFO_SIZE \in Nat \ {0}

VARIABLES
  (* the sender *)
  state,    \* of each connection: "free", "connecting" (isPending) or "open"
  route,    \* the connection sendMessageFrom finds for the receiver
  fifo,     \* the high, normal and bulk outgoingQueue of each connection
  pending,  \* the PENDING queue of each connection, scanned in full
  free,     \* freeQueuedPackages
  fresh,    \* structures not yet allocated
  message,  \* the message a queued structure carries
  retries,  \* how often it was sent again
  result,   \* what the send call of each message came to
  answers,  \* the calls of each message's hook, in order: success or not
  (* the network *)
  wire,     \* transmissions under way, <<message, 1 .. >>
  ackWire,  \* acknowledgement packages under way, sets of messages
  (* the receiver *)
  seen,     \* the identifiers its loop detection remembers
  ackList,  \* acknowledgementPackages
  delivered \* how often each message reached the port's hooks

connVars == <<state, route>>
queueVars == <<fifo, pending, free, fresh, message, retries>>
callVars == <<result, answers>>
netVars == <<wire, ackWire>>
recvVars == <<seen, ackList, delivered>>
vars == <<connVars, queueVars, callVars, netVars, recvVars>>

Queues == {"high", "normal", "bulk"}
Elems(s) == {s[i] : i \in DOMAIN s}

\* The packages connection c holds.
Queued(c) == UNION {Elems(fifo[c][q]) : q \in Queues}
Held(c) == Queued(c) \cup pending[c]
InUse == UNION {Held(c) : c \in Conns}
Carried(P) == {message[p] : p \in P}

NoQueues == [q \in Queues |-> <<>>]

Init ==
  /\ state = [c \in Conns |-> "free"]
  /\ route = NoConn
  /\ fifo = [c \in Conns |-> NoQueues]
  /\ pending = [c \in Conns |-> {}]
  /\ free = {} /\ fresh = Packages
  /\ message = [p \in Packages |-> NoMessage]
  /\ retries = [p \in Packages |-> 0]
  /\ result = [m \in Messages |-> "none"]
  /\ answers = [m \in Messages |-> <<>>]
  /\ wire = {} /\ ackWire = {}
  /\ seen = <<>> /\ ackList = <<>>
  /\ delivered = [m \in Messages |-> 0]

----------------------------------------------------------------------------
(* Hooks and the pool of queue structures *)

\* The hooks of the messages M are called with the given success.
Answer(M, success) ==
  answers' = [m \in Messages |->
                IF m \in M \cap Hooked THEN Append(answers[m], success)
                ELSE answers[m]]

(* Seeded fault: the structures P are unlinked and put on no list. *)
ReleaseForgetting(P) ==
  /\ free' = free
  /\ message' = [p \in Packages |-> IF p \in P THEN NoMessage ELSE message[p]]

\* The structures P go back to freeQueuedPackages, what they carried is void.
Release(P) ==
  /\ free' = free \cup P
  /\ message' = [p \in Packages |-> IF p \in P THEN NoMessage ELSE message[p]]

\* A structure comes from the free list, and is allocated only if that is empty.
Obtainable == IF free # {} THEN free ELSE fresh

(* Seeded fault: the head of the free list is taken, not unlinked. *)
ObtainWithoutUnlink(p) ==
  /\ p \in Obtainable
  /\ free' = free
  /\ fresh' = fresh \ {p}

Obtain(p) ==
  /\ p \in Obtainable
  /\ free' = free \ {p}
  /\ fresh' = fresh \ {p}

----------------------------------------------------------------------------
(* peisk_connection_sendPackage *)

\* The fields of the header are in network byte order by now, the constants
\* they are compared with are not: a bulk flag is seen on big endian hosts only.
QueueOf(m) ==
  CASE m \in LinkLevel          -> "high"
    [] m \in Bulk /\ BigEndian  -> "bulk"
    [] OTHER                    -> "normal"

\* fillrate, times MAX_QUEUE_SIZE: what is queued before queue q.
Backlog(c, q) ==
  CASE q = "high"   -> 0
    [] q = "normal" -> Len(fifo[c]["high"]) + Cardinality(pending[c])
    [] q = "bulk"   -> Len(fifo[c]["high"]) + Cardinality(pending[c])
                         + Len(fifo[c]["normal"])

TooMany(c, q) == Len(fifo[c][q]) > MAX_QUEUE_SIZE
\* Random early detection drops with probability 2 * (fillrate - 0.5).
MayDrop(c, q) == TooMany(c, q) \/ 2 * Backlog(c, q) > MAX_QUEUE_SIZE
MustDrop(c, q) == TooMany(c, q) \/ Backlog(c, q) >= MAX_QUEUE_SIZE

\* The queue takes the package.
Enqueue(m, c) ==
  LET q == QueueOf(m) IN
  \E p \in Obtainable :
    /\ ~ MustDrop(c, q)
    /\ Obtain(p)
    /\ fifo' = [fifo EXCEPT ![c][q] = Append(@, p)]
    /\ message' = [message EXCEPT ![p] = m]
    /\ retries' = [retries EXCEPT ![p] = 0]
    /\ result' = [result EXCEPT ![m] = "queued"]
    /\ UNCHANGED <<connVars, pending, answers, netVars, recvVars>>

\* The package is refused.  The structure it was copied to is neither queued
\* nor put back on the free list; its hooks are called at once.
Refuse(m, c) ==
  \E p \in Obtainable :
    /\ MayDrop(c, QueueOf(m))
    /\ Obtain(p)
    /\ result' = [result EXCEPT ![m] = "refused"]
    /\ Answer({m}, FALSE)
    /\ UNCHANGED <<connVars, fifo, pending, message, retries, netVars, recvVars>>

\* A call that fails before it has a structure calls no hook.
FailCall(m, why) ==
  /\ result' = [result EXCEPT ![m] = why]
  /\ UNCHANGED <<connVars, queueVars, answers, netVars, recvVars>>

connection_sendPackage(m, c) ==
  \/ Enqueue(m, c)
  \/ Refuse(m, c)
  \/ Obtainable = {} /\ FailCall(m, "no memory")

\* peisk_sendMessage: along the direct connection or the route, if any.
sendMessage(m) ==
  /\ m \notin LinkLevel
  /\ result[m] = "none"
  /\ IF route = NoConn THEN FailCall(m, "no route")
     ELSE connection_sendPackage(m, route)

\* peisk_sendLinkPackage: to the neighbour on c, connected yet or not.
sendLinkPackage(m, c) ==
  /\ m \in LinkLevel
  /\ result[m] = "none"
  /\ state[c] # "free"
  /\ connection_sendPackage(m, c)

----------------------------------------------------------------------------
(* peisk_connection_processOutgoing *)

(* Seeded fault: one more retransmission than PENDING_MAX_RETRIES + 1. *)
GivenUpLate(p) == retries[p] > PENDING_MAX_RETRIES + 1

\* The pending package was sent again as often as it may be.
GivenUp(p) == retries[p] > PENDING_MAX_RETRIES

(* Seeded fault: PEISK_PACKAGE_REQUEST_ACK is tested in network byte order. *)
AwaitsAckUnswapped(p) == BigEndian /\ message[p] \in Reliable

\* The package, sent for the first time, becomes pending.
AwaitsAck(p) == message[p] \in Reliable

\* One pass over the queues of connection c, in order of their priority.  The
\* link takes n[q] packages of queue q and then perhaps no more, which ends
\* the pass; `due' are the pending packages the pass reached whose deadline is
\* over: those tried too often are given up, the others sent again.
Pass(c, due, n) ==
  LET first == UNION {{fifo[c][q][i] : i \in 1 .. n[q]} : q \in Queues}
      dead == {p \in due : GivenUp(p)}
      again == due \ dead
      waiting == {p \in first : AwaitsAck(p)}
  IN
  /\ fifo' = [fifo EXCEPT ![c] =
                [q \in Queues |-> SubSeq(fifo[c][q], n[q] + 1, Len(fifo[c][q]))]]
  /\ pending' = [pending EXCEPT ![c] = (@ \ dead) \cup waiting]
  /\ retries' = [p \in Packages |->
                   IF p \in again THEN retries[p] + 1
                   ELSE IF p \in waiting THEN 0 ELSE retries[p]]
  /\ wire' = wire \cup {<<message[p], 1>> : p \in first}
                  \cup {<<message[p], retries[p] + 2>> : p \in again}
  /\ Answer(Carried(dead), FALSE)
  /\ Release(dead \cup (first \ waiting))
  /\ UNCHANGED <<connVars, fresh, result, ackWire, recvVars>>

\* Where a pass can stop: nothing of a queue is sent while a queue before it
\* holds a package that should have been.
Stops(c) ==
  {n \in [Queues -> 0 .. MAX_QUEUE_SIZE + 1] :
     /\ \A q \in Queues : n[q] <= Len(fifo[c][q])
     /\ n["normal"] > 0 => n["high"] = Len(fifo[c]["high"])
     /\ n["bulk"] > 0 => /\ n["high"] = Len(fifo[c]["high"])
                         /\ n["normal"] = Len(fifo[c]["normal"])}

processOutgoing(c) ==
  /\ state[c] = "open"
  /\ \E due \in SUBSET pending[c], n \in Stops(c) :
       /\ due # {} => n["high"] = Len(fifo[c]["high"])
       /\ Pass(c, due, n)

\* A pass that finds every deadline over and the link willing.
FullPass(c) ==
  /\ state[c] = "open"
  /\ Held(c) # {}
  /\ Pass(c, pending[c], [q \in Queues |-> Len(fifo[c][q])])

----------------------------------------------------------------------------
(* peisk_hook_acknowledgments *)

(* Seeded fault: the hooks are called, the packages stay pending. *)
AckArrivesWithoutUnlink(acks) ==
  LET match(c) == {p \in pending[c] : message[p] \in acks /\ state[c] # "free"} IN
  /\ acks \in ackWire
  /\ ackWire' = ackWire \ {acks}
  /\ Answer(Carried(UNION {match(c) : c \in Conns}), TRUE)
  /\ UNCHANGED <<connVars, queueVars, result, wire, recvVars>>

AckArrives(acks) ==
  LET match(c) == {p \in pending[c] : message[p] \in acks /\ state[c] # "free"}
      matched == UNION {match(c) : c \in Conns}
  IN
  /\ acks \in ackWire
  /\ ackWire' = ackWire \ {acks}
  /\ pending' = [c \in Conns |-> pending[c] \ match(c)]
  /\ Answer(Carried(matched), TRUE)
  /\ Release(matched)
  /\ UNCHANGED <<connVars, fifo, fresh, retries, result, wire, recvVars>>

----------------------------------------------------------------------------
(* Connections of the sender *)

\* A connection the send functions may pick: it is open, or bluetooth.c is
\* still connecting it and its neighbour is already recorded.
Routable(c) == state[c] = "open" \/ (state[c] = "connecting" /\ c \in Bluetooth)

\* peisk_newConnection: initConnection empties the queues of a free entry.
newConnection(c) ==
  /\ state[c] = "free"
  /\ state' = [state EXCEPT ![c] = "connecting"]
  /\ fifo' = [fifo EXCEPT ![c] = NoQueues]
  /\ pending' = [pending EXCEPT ![c] = {}]
  /\ UNCHANGED <<route, free, fresh, message, retries, callVars, netVars, recvVars>>

\* peisk_outgoingConnectFinished, peisk_incommingConnectFinished
connectFinished(c) ==
  /\ state[c] = "connecting"
  /\ state' = [state EXCEPT ![c] = "open"]
  /\ UNCHANGED <<route, queueVars, callVars, netVars, recvVars>>

\* The routing tables or the neighbours come to name another connection.
Reroute(c) ==
  /\ c # route
  /\ c # NoConn => Routable(c)
  /\ route' = c
  /\ UNCHANGED <<state, queueVars, callVars, netVars, recvVars>>

\* The route once connection c is gone.
RouteWithout(c) ==
  IF route = c THEN {NoConn} \cup {d \in Conns \ {c} : Routable(d)} ELSE {route}

\* peisk_abortConnect: the entry is free, whatever is queued on it.
abortConnect(c) ==
  /\ c \in Bluetooth
  /\ state[c] = "connecting"
  /\ state' = [state EXCEPT ![c] = "free"]
  /\ route' \in RouteWithout(c)
  /\ UNCHANGED <<queueVars, callVars, netVars, recvVars>>

\* peisk_closeConnection: every package queued on c fails.
closeConnection(c) ==
  /\ state[c] # "free"
  /\ state' = [state EXCEPT ![c] = "free"]
  /\ route' \in RouteWithout(c)
  /\ fifo' = [fifo EXCEPT ![c] = NoQueues]
  /\ pending' = [pending EXCEPT ![c] = {}]
  /\ Answer(Carried(Held(c)), FALSE)
  /\ Release(Held(c))
  /\ UNCHANGED <<fresh, retries, result, netVars, recvVars>>

----------------------------------------------------------------------------
(* The receiver *)

\* An acknowledgement is noted; a full list is sent at once.
NoteAck(m) ==
  IF Len(ackList) + 1 >= MAX_ACK_PACKAGES
  THEN /\ ackWire' = ackWire \cup {Elems(ackList) \cup {m}}
       /\ ackList' = <<>>
  ELSE /\ ackList' = Append(ackList, m)
       /\ UNCHANGED ackWire

(* Seeded faults: the ackID is marked before it is looked up; it is not
   looked up at all. *)
AgainMarkedFirst(m, w) == m \in Reliable
AgainUnchecked(m, w) == FALSE

\* A transmission of a reliable message that was delivered before: the ackID
\* <<m, 0>>, which all its transmissions share, is remembered.
Again(m, w) == m \in Reliable /\ IsRepeated(w, <<m, 0>>)

\* peisk_connection_processIncomming: the transmission's own identifier is
\* looked up and marked, then the acknowledgement noted, then the ackID.
processIncomming(t) ==
  LET m == t[1]
      seen1 == MarkAsRepeated(LOOPINFO_SIZE, seen, t)
      again == Again(m, seen1)
  IN
  /\ t \in wire
  /\ wire' = wire \ {t}
  /\ IF IsRepeated(seen, t) THEN UNCHANGED <<ackWire, recvVars>>
     ELSE /\ IF m \in Reliable THEN NoteAck(m) ELSE UNCHANGED <<ackWire, ackList>>
          /\ seen' = IF m \in Reliable /\ ~ again
                     THEN MarkAsRepeated(LOOPINFO_SIZE, seen1, <<m, 0>>)
                     ELSE seen1
          /\ delivered' = IF again THEN delivered
                          ELSE [delivered EXCEPT ![m] = @ + 1]
  /\ UNCHANGED <<connVars, queueVars, callVars>>

\* peisk_sendAcknowledgementsNow, every 0.2 seconds.
sendAcknowledgementsNow ==
  /\ ackList # <<>>
  /\ ackWire' = ackWire \cup {Elems(ackList)}
  /\ ackList' = <<>>
  /\ UNCHANGED <<connVars, queueVars, callVars, wire, seen, delivered>>

----------------------------------------------------------------------------
(* The network *)

LosePackage(t) ==
  /\ t \in wire
  /\ wire' = wire \ {t}
  /\ UNCHANGED <<connVars, queueVars, callVars, ackWire, recvVars>>

LoseAcks(acks) ==
  /\ acks \in ackWire
  /\ ackWire' = ackWire \ {acks}
  /\ UNCHANGED <<connVars, queueVars, callVars, wire, recvVars>>

----------------------------------------------------------------------------
SenderNext ==
  \/ \E m \in Messages : sendMessage(m) \/ \E c \in Conns : sendLinkPackage(m, c)
  \/ \E acks \in ackWire : AckArrives(acks)
  \/ \E c \in Conns : \/ processOutgoing(c)
                      \/ newConnection(c) \/ connectFinished(c)
                      \/ abortConnect(c) \/ closeConnection(c)
  \/ \E c \in Conns \cup {NoConn} : Reroute(c)

ReceiverNext == sendAcknowledgementsNow \/ \E t \in wire : processIncomming(t)

NetworkNext ==
  \/ \E t \in wire : LosePackage(t)
  \/ \E acks \in ackWire : LoseAcks(acks)

Next == SenderNext \/ ReceiverNext \/ NetworkNext

Spec == Init /\ [][Next]_vars

\* A connection that holds packages is served: the deadlines of its pending
\* packages pass and the link takes what it is given, or the connection
\* manager closes it after CONNECTION_TIMEOUT without traffic.
Serve(c) == FullPass(c) \/ (Held(c) # {} /\ closeConnection(c))

FairSpec == Spec /\ \A c \in Conns : WF_vars(Serve(c))

----------------------------------------------------------------------------
(* Properties *)

Results == {"none", "queued", "refused", "no memory", "no route"}
Transmissions == Messages \X (1 .. PENDING_MAX_RETRIES + 2)
Identifiers == Messages \X (0 .. PENDING_MAX_RETRIES + 2)

\* Every variable has its type; in particular a package is sent again at most
\* PENDING_MAX_RETRIES + 1 times.
TypeOK ==
  /\ state \in [Conns -> {"free", "connecting", "open"}]
  /\ route \in Conns \cup {NoConn}
  /\ fifo \in [Conns -> [Queues -> Seq(Packages)]]
  /\ pending \in [Conns -> SUBSET Packages]
  /\ free \subseteq Packages /\ fresh \subseteq Packages
  /\ message \in [Packages -> Messages \cup {NoMessage}]
  /\ retries \in [Packages -> 0 .. PENDING_MAX_RETRIES + 1]
  /\ result \in [Messages -> Results]
  /\ answers \in [Messages -> Seq(BOOLEAN)]
  /\ wire \subseteq Transmissions
  /\ ackWire \subseteq SUBSET Reliable
  /\ seen \in Seq(Identifiers)
  /\ ackList \in Seq(Reliable)
  /\ delivered \in [Messages -> Nat]

\* A queue structure is at one place of one queue of one connection, or
\* pending on one, or on the free list, or not allocated: no handler frees a
\* structure that is still linked into a list or links one into two lists.
PackageHeldOnce ==
  /\ \A c \in Conns, q \in Queues : \A i, j \in DOMAIN fifo[c][q] :
       fifo[c][q][i] = fifo[c][q][j] => i = j
  /\ \A c, d \in Conns, q, r \in Queues :
       <<c, q>> # <<d, r>> => Elems(fifo[c][q]) \cap Elems(fifo[d][r]) = {}
  /\ \A c, d \in Conns : c # d => pending[c] \cap pending[d] = {}
  /\ \A c, d \in Conns : Queued(c) \cap pending[d] = {}
  /\ InUse \cap (free \cup fresh) = {}
  /\ free \cap fresh = {}

\* However acknowledgements, give-ups, refusals and closing connections
\* follow each other, the hook of a message is called once at most.
HookCalledOnce == \A m \in Messages : Len(answers[m]) <= 1

\* A hook hears of success only if the receiving peis delivered the message.
SuccessMeansDelivered ==
  \A m \in Messages : TRUE \in Elems(answers[m]) => delivered[m] > 0

\* Retransmissions are delivered once, while the receiver's loop detection
\* remembers the ackID.
DeliveredOnce == \A m \in Messages : delivered[m] <= 1

\* A message whose hook is still to be called is queued or pending on a
\* connection in use: no handler forgets it.
UnansweredIsHeld ==
  \A m \in Reliable \cap Hooked :
    result[m] = "queued" /\ answers[m] = <<>> =>
      \E c \in Conns : state[c] # "free" /\ m \in Carried(Held(c))

\* Where no structure should be (p2p.h:364): in no queue, not pending, not in the pool.
Nowhere == Packages \ (free \cup fresh \cup InUse)

\* No handler mislays a structure while it moves structures between queues, pending
\* list and pool, except that the call a full queue refuses may (p2p.c:1121).
OnlyRefusalsMislay ==
  [][\/ Nowhere' \subseteq Nowhere
     \/ \E m \in Messages : result[m] = "none" /\ result'[m] = "refused"]_vars

\* Nothing more of a message is transmitted once its hook has been called.
QuietOnceAnswered ==
  [][\A t \in wire' \ wire : answers[t[1]] = <<>>]_vars

----------------------------------------------------------------------------
(* The service implemented *)

phase == [m \in Messages |->
  CASE result[m] = "none"                            -> "unsent"
    [] result[m] # "none" /\ TRUE \in Elems(answers[m])  -> "succeeded"
    [] result[m] # "none" /\ FALSE \in Elems(answers[m]) -> "failed"
    [] result[m] = "queued" /\ answers[m] = <<>>     -> "accepted"
    [] OTHER                                         -> "rejected"]

Service == INSTANCE MessageService
             WITH Guaranteed <- Reliable \cap Hooked,
                  delivered <- [m \in Messages |-> delivered[m] > 0]

\* Queues, retries and acknowledgements implement the message service.
ImplementsService == Service!Spec
============================================================================
