---------------------------- MODULE Tuplespace ----------------------------
(***************************************************************************)
(* The distributed tuplespace (tuples.c, tuplesAPI.c).  Every tuple has an *)
(* owner, the only peis that numbers its values and sends them.  A peis    *)
(* that subscribes is remembered by the owner, which pushes each value to  *)
(* it by a reliable message with an acknowledgement hook; failed pushes    *)
(* are sent again by the hook or by a periodic function.  Subscribers      *)
(* remember which peis were given their subscriptions.                     *)
(*                                                                         *)
(* Messages are those of MessageService: delivered at most once, in any    *)
(* order, their hook told once, of success only after delivery.            *)
(***************************************************************************)
EXTENDS Naturals, Sequences, FiniteSets, Functions

CONSTANTS
  Hosts,
  Names,          \* fully qualified tuple names
  OwnerOf,        \* the owner of each
  Prototypes,     \* abstract tuples that are subscribed to
  Covers,         \* the names each of them matches
  TargetOf,       \* their owner field: a host, or AnyHost
  AnyHost,
  Typed,          \* those with a MIME type
  Interests,      \* what the program of each host subscribes to at its start
  BigEndian,      \* is ntohl() the identity
  TRIES,          \* passes a failed push stays in the list (15)
  Uses,           \* what programs do besides setting tuples
  MaxWrites,      \* bound: values and appends each tuple is given
  Mishaps,        \* what may go wrong
  MaxMishaps      \* bound: how often

ASSUME TuplespaceAssumption ==
  /\ IsFiniteSet(Hosts) /\ IsFiniteSet(Names) /\ IsFiniteSet(Prototypes)
  /\ OwnerOf \in [Names -> Hosts] /\ AnyHost \notin Hosts
  /\ Covers \in [Prototypes -> SUBSET Names]
  /\ TargetOf \in [Prototypes -> Hosts \cup {AnyHost}]
  /\ \A p \in Prototypes : TargetOf[p] # AnyHost =>
       \A n \in Covers[p] : OwnerOf[n] = TargetOf[p]
  /\ Typed \subseteq Prototypes /\ Interests \in [Hosts -> SUBSET Prototypes]
  /\ BigEndian \in BOOLEAN /\ TRIES \in Nat \ {0}
  /\ MaxWrites \in [Names -> Nat] /\ MaxMishaps \in Nat
  /\ Uses \subseteq {"delete", "append", "remote", "unsubscribe"}
  /\ Mishaps \subseteq {"refuse", "fail", "drop", "lose", "crash", "shutdown"}

VARIABLES
  writes,   \* how many values and appends each tuple was given
  space,    \* peisk_tuples_primaryHT of each host
  own,      \* its own subscriptions
  subs,     \* subscriptions of others it remembers, <<host, prototype>>
  given,    \* peisk_hostGivenSubscriptionMessages: the hosts that are TRUE
  failed,   \* peisk_failedTuples
  known,    \* hostInfoHT: the magic number of each known host
  magic,    \* its own magic number
  net,      \* messages under way, and those whose hook waits for its call
  mishaps   \* how much went wrong, and if a host was lost on one side only

hostVars == <<space, own, subs, given, failed, known, magic>>
vars == <<writes, hostVars, net, mishaps>>

Empty == [x \in {} |-> {}]

\* Programs have subscribed, and host information was exchanged since.
Init ==
  /\ writes = [n \in Names |-> 0]
  /\ space = [h \in Hosts |-> Empty]
  /\ own = Interests
  /\ subs = [h \in Hosts |-> {}]
  /\ given = [h \in Hosts |-> {}]
  /\ failed = [h \in Hosts |-> Empty]
  /\ known = [h \in Hosts |-> [g \in Hosts \ {h} |-> 0]]
  /\ magic = [h \in Hosts |-> 0]
  /\ net = {}
  /\ mishaps = [count |-> 0, oneSided |-> FALSE]

----------------------------------------------------------------------------
(* Messages *)

Happen(kind, k) ==
  /\ k > 0 => kind \in Mishaps
  /\ mishaps.count + k <= MaxMishaps
  /\ mishaps' = [count |-> mishaps.count + k,
                 oneSided |-> mishaps.oneSided \/ (k > 0 /\ kind \in {"lose", "shutdown", "drop"})]

\* "owed": its hook was not called.  "unconfirmed": delivered, but the
\* acknowledgement is lost.  "late": its hook was told of a failure, or its
\* sender restarted, and it may still arrive.
Message(kind, from, to, body) ==
  [kind |-> kind, from |-> from, to |-> to, body |-> body, status |-> "owed"]

Push(h, n, d, t) == Message("push", h, d, [name |-> n, tuple |-> t])
Subscription(h, p, d) == Message("subscribe", h, d, p)

Without(f, D) == [x \in DOMAIN f \ D |-> f[x]]

\* A host cannot send to one it has no route to, whatever it tries.
Refusals(h, X) == Cardinality({x \in X : x[2] \in DOMAIN known[h]})

----------------------------------------------------------------------------
(* Pushing tuples *)

\* Present, and not expired: what peisk_getTupleByAbstract finds.
Found(h, n) == n \in DOMAIN space[h] /\ ~ space[h][n].expired

\* peisk_insertFailedTuple: a tuple already in the list is not entered again,
\* whatever its destination.
insertFailedTuples(F, to) ==
  [n \in DOMAIN F \cup DOMAIN to |->
     IF n \in DOMAIN F THEN F[n] ELSE [to |-> to[n], tries |-> TRIES]]

\* Host h, its tuples now being S, pushes each <<name, destination>> of P, and
\* sends M.  Any of the pushes may be refused; of those of one tuple that are,
\* the first in the order of the hash table is entered.
PushTuples(h, S, P, M) ==
  \E R \in SUBSET P :
    /\ Happen("refuse", Refusals(h, R))
    /\ net' = M \cup {Push(h, x[1], x[2], S[x[1]]) : x \in P \ R}
    /\ \E to \in [{x[1] : x \in R} -> Hosts] :
         /\ \A n \in DOMAIN to : <<n, to[n]>> \in R
         /\ failed' = [failed EXCEPT ![h] = insertFailedTuples(@, to)]

\* peisk_alertSubscribers
Subscribers(h, n) == {x[1] : x \in {x \in subs[h] : n \in Covers[x[2]]}}
alertSubscribers(h, S, n, M) == PushTuples(h, S, {n} \X Subscribers(h, n), M)

\* peisk_alertSubscriber: expired tuples are pushed too.
alertSubscriber(h, p, d, M) ==
  PushTuples(h, space[h],
             {<<n, d>> : n \in {n \in DOMAIN space[h] \cap Covers[p] : OwnerOf[n] = h}}, M)

\* peisk_addToLocalSpace: a tuple that comes with number 0 gets the next one.
addToLocalSpace(S, n, t) ==
  [m \in DOMAIN S \cup {n} |->
     IF m # n THEN S[m]
     ELSE IF n \in DOMAIN S /\ t.seqno = 0 THEN [t EXCEPT !.seqno = S[n].seqno + 1]
     ELSE t]

----------------------------------------------------------------------------
(* What programs do *)

\* Bound: what a tuple is given, by messages under way too.
Room(n) ==
  writes[n] + Cardinality({m \in net : m.kind = "set" /\ m.body = n}) < MaxWrites[n]

\* The owner stores a value, new or one that a message tells, and pushes it.
Store(n, expired, M) ==
  LET h == OwnerOf[n]
      t == [seqno |-> 0, data |-> <<writes[n] + 1>>, expired |-> expired]
      S == addToLocalSpace(space[h], n, t) IN
  /\ writes' = [writes EXCEPT ![n] = @ + 1]
  /\ space' = [space EXCEPT ![h] = S]
  /\ alertSubscribers(h, S, n, M)
  /\ UNCHANGED <<own, subs, given, known, magic>>

setTuple(n) == Room(n) /\ Store(n, FALSE, net)

deleteTuple(n) ==
  /\ "delete" \in Uses
  /\ n \in DOMAIN space[OwnerOf[n]] /\ Room(n)
  /\ Store(n, TRUE, net)

\* The receiver applies what was appended to a tuple of the same number.
Appended(S, n, w) == [S EXCEPT ![n].data = Append(@, w)]

\* peisk_appendLocalTuple: sent without a hook, and not entered as failed.
appendTuple(n) ==
  LET h == OwnerOf[n] IN
  /\ "append" \in Uses
  /\ n \in DOMAIN space[h] /\ Room(n)
  /\ writes' = [writes EXCEPT ![n] = @ + 1]
  /\ \E R \in SUBSET Subscribers(h, n) :
       /\ Happen("refuse", Refusals(h, {<<n, d>> : d \in R}))
       /\ net' = net \cup
            {Message("append", h, d, [name |-> n, seqno |-> space[h][n].seqno,
                                      diff |-> writes'[n]]) : d \in Subscribers(h, n) \ R}
  /\ space' = [space EXCEPT ![h] = Appended(@, n, writes'[n])]
  /\ UNCHANGED <<own, subs, given, failed, known, magic>>

\* peisk_setRemoteTuple
setRemoteTuple(h, n) ==
  /\ "remote" \in Uses
  /\ h # OwnerOf[n] /\ Room(n)
  /\ net' = net \cup {Message("set", h, OwnerOf[n], n)}
  /\ UNCHANGED <<writes, hostVars, mishaps>>

\* The hosts a subscription message for p is sent to.
Targets(h, p) ==
  IF TargetOf[p] = AnyHost THEN DOMAIN known[h] ELSE {TargetOf[p]} \ {h}

\* peisk_subscribe: a refused message counts as one that failed.
subscribe(h, p) ==
  /\ "unsubscribe" \in Uses
  /\ p \in Interests[h] \ own[h]
  /\ own' = [own EXCEPT ![h] = @ \cup {p}]
  /\ \E R \in SUBSET Targets(h, p) :
       /\ Happen("refuse", Refusals(h, {<<p, d>> : d \in R}))
       /\ net' = net \cup {Subscription(h, p, d) : d \in Targets(h, p) \ R}
       /\ given' = [given EXCEPT ![h] = @ \ R]
  /\ UNCHANGED <<writes, space, subs, failed, known, magic>>

\* peisk_rawUnsubscribe
unsubscribe(h, p) ==
  /\ "unsubscribe" \in Uses
  /\ p \in own[h]
  /\ own' = [own EXCEPT ![h] = @ \ {p}]
  /\ net' = net \cup {Message("unsubscribe", h, d, p) : d \in Targets(h, p)}
  /\ UNCHANGED <<writes, space, subs, given, failed, known, magic, mishaps>>

----------------------------------------------------------------------------
(* Periodic functions *)

\* peisk_periodic_tuples: every other pass failed pushes are sent again.
\* Hosts not given the subscriptions are marked and sent them.
periodic_tuples(h, retransmit) ==
  LET F == failed[h]
      due == IF retransmit THEN {n \in DOMAIN F : F[n].to \in DOMAIN known[h] /\ Found(h, n)}
             ELSE {}
      new == DOMAIN known[h] \ given[h]
      news == {x \in own[h] \X new : TargetOf[x[1]] \in {AnyHost, x[2]}}
  IN
  \E R \in SUBSET due, Q \in SUBSET news :
    /\ Happen("refuse", Cardinality(R) + Cardinality(Q))
    /\ net' = net \cup {Push(h, n, F[n].to, space[h][n]) : n \in due \ R}
                  \cup {Subscription(h, x[1], x[2]) : x \in news \ Q}
    /\ failed' = IF ~ retransmit THEN failed
                 ELSE [failed EXCEPT ![h] =
                         [n \in {n \in DOMAIN F : n \notin due \ R /\ F[n].tries > 1} |->
                            [F[n] EXCEPT !.tries = @ - 1]]]
    /\ given' = [given EXCEPT ![h] = (@ \cup new) \ {x[2] : x \in Q}]
    /\ UNCHANGED <<writes, space, own, subs, known, magic>>

\* peisk_periodic_expireTuples
periodic_expireTuples(h) ==
  /\ space' = [space EXCEPT ![h] = Without(@, {n \in DOMAIN @ : @[n].expired})]
  /\ UNCHANGED <<writes, own, subs, given, failed, known, magic, net, mishaps>>

----------------------------------------------------------------------------
(* Messages that arrive.  M is what is under way without this one. *)

\* Seeded fault: whatever arrives is taken.
TakesAnything(h, n, t) == TRUE

\* A push is ignored unless its number is higher.
Takes(h, n, t) == Found(h, n) => space[h][n].seqno < t.seqno

hook_pushTuple(m, M) ==
  LET n == m.body.name
      t == m.body.tuple IN
  /\ m.kind = "push"
  /\ space' = IF Takes(m.to, n, t)
              THEN [space EXCEPT ![m.to] = addToLocalSpace(@, n, t)] ELSE space
  /\ net' = M
  /\ UNCHANGED <<writes, own, subs, given, failed, known, magic>>

hook_setTuple(m, M) ==
  /\ m.kind = "set"
  /\ Store(m.body, FALSE, M)

\* Seeded fault: what is appended is for any value of the tuple.
BelongsAnyway(h, n, seqno) == n \in DOMAIN space[h]

Belongs(h, n, seqno) == n \in DOMAIN space[h] /\ space[h][n].seqno = seqno

hook_pushAppendedTuple(m, M) ==
  LET n == m.body.name IN
  /\ m.kind = "append"
  /\ space' = IF Belongs(m.to, n, m.body.seqno)
              THEN [space EXCEPT ![m.to] = Appended(@, n, m.body.diff)] ELSE space
  /\ net' = M
  /\ UNCHANGED <<writes, own, subs, given, failed, known, magic>>

\* Known already or not, the subscriber is sent all tuples.  The code keeps a second
\* subscription by a prototype that is not Typed, and from then on sends all twice;
\* as a push is taken once and Appended keeps what was appended as a set, subs is one.
hook_subscribe(m, M) ==
  /\ m.kind = "subscribe"
  /\ subs' = [subs EXCEPT ![m.to] = @ \cup {<<m.from, m.body>>}]
  /\ alertSubscriber(m.to, m.body, m.from, M)
  /\ UNCHANGED <<writes, space, own, given, known, magic>>

\* peisk_hook_unsubscribe compares with a name from a buffer never filled, and
\* peisk_isEqual is false of prototypes without a MIME type.
hook_unsubscribe(m, M) ==
  /\ m.kind = "unsubscribe"
  /\ \E x \in SUBSET ({m.body} \cap Typed) :
       subs' = [subs EXCEPT ![m.to] = @ \ ({m.from} \X x)]
  /\ net' = M
  /\ UNCHANGED <<writes, space, own, given, failed, known, magic>>

\* Seeded fault: a host that is deleted stays marked.
deleteHostFromSentSubscriptionsIdle(h, g) == UNCHANGED given

deleteHostFromSentSubscriptions(h, g) == given' = [given EXCEPT ![h] = @ \ {g}]

deleteHostFromTuplespace(h, g) ==
  /\ space' = [space EXCEPT ![h] =
       [n \in DOMAIN @ |-> IF OwnerOf[n] = g THEN [@[n] EXCEPT !.expired = TRUE] ELSE @[n]]]
  /\ subs' = [subs EXCEPT ![h] = {x \in @ : x[1] # g}]

\* What peisk_deleteHost does to the tuplespace.
deleteHost(h, g) ==
  /\ deleteHostFromTuplespace(h, g)
  /\ deleteHostFromSentSubscriptions(h, g)
  /\ UNCHANGED <<writes, own, failed, magic>>

\* Both reasons for a message to port PEISK_PORT_DEAD_HOST.
hook_deadHost(m, M) ==
  /\ m.kind = "dead"
  /\ deleteHost(m.to, m.from)
  /\ known' = [known EXCEPT ![m.to] = Without(@, {m.from})]
  /\ net' = M

\* services.c:1139 compares before it converts.
hook_rebornHost(m, M) ==
  /\ m.kind = "reborn"
  /\ given' = IF BigEndian THEN [given EXCEPT ![m.to] = @ \ {m.from}] ELSE given
  /\ net' = M
  /\ UNCHANGED <<writes, space, own, subs, failed, known, magic>>

Handle(m, M) ==
  \/ hook_subscribe(m, M) \/ hook_setTuple(m, M)
  \/ /\ UNCHANGED mishaps
     /\ \/ hook_pushTuple(m, M) \/ hook_pushAppendedTuple(m, M)
        \/ hook_unsubscribe(m, M) \/ hook_deadHost(m, M) \/ hook_rebornHost(m, M)

Hooked(m) == m.kind \in {"push", "subscribe"}

\* A hook that hears of success does nothing.
Deliver(m) ==
  LET M == net \ {m} IN
  /\ m.status # "unconfirmed"
  /\ \/ Handle(m, M)
     \/ /\ m.status = "owed" /\ Hooked(m) /\ "fail" \in Mishaps
        /\ Handle(m, M \cup {[m EXCEPT !.status = "unconfirmed"]})

Confirm(m) ==
  /\ m.status = "unconfirmed"
  /\ net' = net \ {m}
  /\ UNCHANGED <<writes, hostVars, mishaps>>

\* A package that nobody waits for is lost.
Vanish(m) ==
  /\ m.status = "late" \/ m.kind = "dead"
  /\ net' = net \ {m}
  /\ UNCHANGED <<writes, hostVars, mishaps>>

----------------------------------------------------------------------------
(* Hooks told of a failure *)

\* Seeded fault: a value that was not replaced since is not sent again.
ObsoleteUnlessNewer(h, n, t) == ~ Found(h, n) \/ space[h][n].seqno >= t.seqno

\* Is what failed no longer worth sending?
Obsolete(h, n, t) == ~ Found(h, n) \/ space[h][n].seqno > t.seqno

\* peisk_pushTupleAckHook: what the tuple is now is sent again, at once.
pushTupleAckHook(m, M) ==
  LET h == m.from
      n == m.body.name IN
  IF Obsolete(h, n, m.body.tuple) THEN net' = M /\ UNCHANGED failed
  ELSE \/ /\ m.to \in DOMAIN known[h]
          /\ net' = M \cup {Push(h, n, m.to, space[h][n])}
          /\ UNCHANGED failed
       \/ /\ m.to \notin DOMAIN known[h] \/ "refuse" \in Mishaps
          /\ net' = M
          /\ failed' = [failed EXCEPT ![h] = insertFailedTuples(@, [x \in {n} |-> m.to])]

\* Seeded fault: the mark stays.
subscriptionAckHookIdle(m) == UNCHANGED given

\* All subscriptions are sent to the host again.
subscriptionAckHook(m) == given' = [given EXCEPT ![m.from] = @ \ {m.to}]

Fail(m) ==
  LET M == net \ {m}
      late == {[m EXCEPT !.status = "late"]} IN
  /\ m.status \in {"owed", "unconfirmed"}
  /\ Happen(IF Hooked(m) THEN "fail" ELSE "drop", 1)
  /\ \E L \in {M} \cup (IF m.status = "owed" THEN {M \cup late} ELSE {}) :
       \/ m.kind = "push" /\ pushTupleAckHook(m, L) /\ UNCHANGED given
       \/ m.kind = "subscribe" /\ subscriptionAckHook(m) /\ net' = L /\ UNCHANGED failed
       \/ ~ Hooked(m) /\ net' = L /\ UNCHANGED <<given, failed>>
  /\ UNCHANGED <<writes, space, own, subs, known, magic>>

----------------------------------------------------------------------------
(* What routing and restarts do *)

\* peisk_hook_hostInfo: a host known by another magic number was reborn.
hook_hostInfo(h, g) ==
  /\ h # g
  /\ known' = [known EXCEPT ![h] =
       [x \in DOMAIN @ \cup {g} |-> IF x = g THEN magic[g] ELSE @[x]]]
  /\ IF g \in DOMAIN known[h] /\ known[h][g] # magic[g]
     THEN /\ deleteHost(h, g)
          /\ net' = net \cup {Message("reborn", h, g, g)}
     ELSE UNCHANGED <<writes, space, own, subs, given, failed, magic, net>>
  /\ UNCHANGED mishaps

\* peisk_periodic_routing deletes a host lost for long, and tells it if it can.
loseHost(h, g) ==
  /\ g \in DOMAIN known[h]
  /\ Happen("lose", 1)
  /\ deleteHost(h, g)
  /\ known' = [known EXCEPT ![h] = Without(@, {g})]
  /\ net' \in {net, net \cup {Message("dead", h, g, g)}}

\* h crashes, or ends and tells the others, and is started again; its program
\* subscribes as before.
restart(h, how) ==
  /\ Happen(how, 1)
  /\ magic' = [magic EXCEPT ![h] = @ + 1]
  /\ space' = [space EXCEPT ![h] = Empty]
  /\ own' = [own EXCEPT ![h] = Interests[h]]
  /\ subs' = [subs EXCEPT ![h] = {}]
  /\ given' = [given EXCEPT ![h] = {}]
  /\ failed' = [failed EXCEPT ![h] = Empty]
  /\ known' = [known EXCEPT ![h] = Empty]
  /\ net' = {m \in net : m.from # h}
            \cup {[m EXCEPT !.status = "late"] :
                     m \in {m \in net : m.from = h /\ m.status # "unconfirmed"}}
            \cup {Message("dead", h, d, h) : d \in IF how = "crash" THEN {} ELSE Hosts \ {h}}
  /\ UNCHANGED writes

----------------------------------------------------------------------------
Next ==
  \/ \E n \in Names : \/ setTuple(n) \/ deleteTuple(n) \/ appendTuple(n)
                      \/ \E h \in Hosts : setRemoteTuple(h, n)
  \/ \E h \in Hosts, p \in Prototypes : subscribe(h, p) \/ unsubscribe(h, p)
  \/ \E h \in Hosts : \/ \E retransmit \in BOOLEAN : periodic_tuples(h, retransmit)
                      \/ periodic_expireTuples(h)
                      \/ \E how \in {"crash", "shutdown"} : restart(h, how)
                      \/ \E g \in Hosts : hook_hostInfo(h, g) \/ loseHost(h, g)
  \/ \E m \in net : Deliver(m) \/ Confirm(m) \/ Vanish(m) \/ Fail(m)

Spec == Init /\ [][Next]_vars

\* Periodic functions run, host information is broadcast, and a reliable
\* message is delivered or its hook told of a failure, no kind for ever after
\* another.
Fairness ==
  /\ \A h \in Hosts : /\ WF_vars(periodic_tuples(h, TRUE))
                      /\ WF_vars(periodic_expireTuples(h))
                      /\ \A g \in Hosts : WF_vars(hook_hostInfo(h, g))
  /\ \A kind \in {"push", "subscribe"}, h \in Hosts :
       /\ WF_vars(\E m \in net : /\ m.kind = kind /\ m.to = h /\ m.status = "owed"
                                /\ (Deliver(m) \/ Fail(m)))
       /\ WF_vars(\E m \in net : /\ m.kind = kind /\ m.to = h /\ m.status = "unconfirmed"
                                /\ (Confirm(m) \/ Fail(m)))

FairSpec == Spec /\ Fairness

----------------------------------------------------------------------------
(* Properties *)

\* When the value that a host holds was written, what was appended aside.
Holds(h, n) == IF Found(h, n) THEN Head(space[h][n].data) ELSE 0

\* Types.  A host is marked as given the subscriptions only while it is known
\* (peisk_deleteHostFromSentSubscriptions), or it would not be sent them again
\* when it appears the next time; only owners resend, for TRIES passes.
TypeOK ==
  /\ \A h \in Hosts :
       /\ DOMAIN space[h] \subseteq Names
       /\ subs[h] \subseteq (Hosts \ {h}) \X Prototypes
       /\ given[h] \subseteq DOMAIN known[h]
       /\ \A n \in DOMAIN failed[h] : OwnerOf[n] = h /\ failed[h][n].tries \in 1 .. TRIES
  /\ mishaps.count \in 0 .. MaxMishaps

\* What "given" is for (tuples.c:104-117): a host that is marked as given the
\* subscriptions has them or is sent them, or it was reborn and this will be
\* noticed or told.  Crashes, failed and refused messages in any order do not
\* disturb this; a host that only one side takes for lost does (p2p.c:1490).
GivenMeansSubscribed ==
  \A h \in Hosts : \A g \in given[h], p \in own[h] :
    ~ mishaps.oneSided /\ TargetOf[p] \in {AnyHost, g} =>
      \/ <<h, p>> \in subs[g]
      \/ known[h][g] # magic[g]
      \/ \E m \in net : /\ m.status = "owed"
                        /\ \/ m.from = h /\ m.to = g /\ m.kind = "subscribe" /\ m.body = p
                           \/ m.from = g /\ m.to = h /\ m.kind = "reborn"

\* A copy with the owner's number has its value, and nothing was appended to it
\* that the owner's does not hold: an append that is late changes no value it
\* was not meant for.
SameNumberSameValue ==
  \A n \in Names : \A h \in Hosts :
    LET g == OwnerOf[n] IN
    Found(h, n) /\ Found(g, n) /\ space[h][n].seqno = space[g][n].seqno =>
      /\ Holds(h, n) = Holds(g, n)
      /\ Range(space[h][n].data) \subseteq Range(space[g][n].data)

\* The hosts whose programs subscribe to n.
ReadersOf(n) == {h \in Hosts \ {OwnerOf[n]} : \E p \in Interests[h] : n \in Covers[p]}

\* Each subscriber holds what the owner holds.
Converged ==
  \A h \in Hosts : \A n \in UNION {Covers[p] : p \in own[h]} :
     h # OwnerOf[n] => Holds(h, n) = Holds(OwnerOf[n], n)

\* Once nothing is written any more, all subscribers have the last value, for
\* whatever failed or was refused is sent again (tuples.c:126).
Converges == <>[]Converged
=============================================================================
