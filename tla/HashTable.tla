----------------------------- MODULE HashTable ------------------------------
(***************************************************************************)
(* The hash tables that routing tables, hosts, tuples, callbacks and       *)
(* subscriptions are kept in (hashtable.c): chains of links, more buckets  *)
(* when a chain becomes long, and an iterator.  Chains are sequences, a    *)
(* link is named by its key.  Memory may be refused at any time but for    *)
(* the first buckets, without which the program divides by zero.           *)
(***************************************************************************)
EXTENDS Naturals, SequencesExt

CONSTANTS
  Keys, Values,
  NoKey,       \* the link of an iterator that is at none
  Hash         \* peisk_hashTable_hash, of keys without signed characters

ASSUME HashTableAssumption ==
  /\ NoKey \notin Keys
  /\ Hash \in [Keys -> Nat]

VARIABLES
  buckets,   \* of each of 0 .. nBuckets - 1 its chain of links
  bucket,    \* of the iterator: the first bucket it did not begin
  link,      \* of the iterator: the key of the link it is at
  looping    \* the loop may be continued

vars == <<buckets, bucket, link, looping>>
iterator == <<bucket, link, looping>>

NBuckets(table) == Cardinality(DOMAIN table)
NoBuckets == [b \in {} |-> <<>>]

Init ==
  /\ buckets = NoBuckets
  /\ bucket = 0 /\ link = NoKey /\ looping = FALSE

----------------------------------------------------------------------------
Home(table, k) == Hash[k] % NBuckets(table)
Chain(table, k) == IF DOMAIN table = {} THEN <<>> ELSE table[Home(table, k)]

(* A chain has one link of a key at most, as insert looks for it first. *)
Found(k) ==
  LET chain == Chain(buckets, k) IN \E i \in DOMAIN chain : chain[i].key = k
Place(k) ==
  LET chain == Chain(buckets, k)
  IN  CHOOSE i \in DOMAIN chain : chain[i].key = k
getValue(k) == Chain(buckets, k)[Place(k)].value
count == Cardinality(UNION {{b} \X DOMAIN buckets[b] : b \in DOMAIN buckets})

\* Seeded fault: only the first link of an old chain is moved.
resizeMovingFirst(table, n) ==
  LET firsts == FlattenSeq([i \in 1 .. NBuckets(table) |->
                  SelectSeq(table[i - 1], LAMBDA l : l = Head(table[i - 1]))])
  IN  [b \in 0 .. n - 1 |->
         Reverse(SelectSeq(firsts, LAMBDA l : Hash[l.key] % n = b))]

(* Links move to the front of their new chains in the order of the old. *)
resize(table, n) ==
  LET links == FlattenSeq([i \in 1 .. NBuckets(table) |-> table[i - 1]])
  IN  [b \in 0 .. n - 1 |->
         Reverse(SelectSeq(links, LAMBDA l : Hash[l.key] % n = b))]

Prepared == IF DOMAIN buckets = {} THEN resize(buckets, 5) ELSE buckets

TooCostly(table, k) ==
  Len(SelectSeq(Chain(table, k), LAMBDA l : Hash[l.key] # Hash[k])) + 1
    > 3 + NBuckets(table) \div 10

With(table, k, v) ==
  [table EXCEPT ![Home(table, k)] = <<[key |-> k, value |-> v]>> \o @]

----------------------------------------------------------------------------
(* The iterator is not used any more: the loop came to its end, or its body *)
(* did what hashtable.h:89-95 rules out and has to leave it.                *)
LeaveLoop == bucket' = 0 /\ link' = NoKey /\ looping' = FALSE

Replace(k, v) ==
  /\ Found(k)
  /\ buckets' = [buckets EXCEPT ![Home(buckets, k)][Place(k)].value = v]
  /\ UNCHANGED iterator

NoMemory(k) == ~Found(k) /\ buckets' = Prepared /\ UNCHANGED iterator

Insert(k, v) ==
  /\ ~Found(k)
  /\ LET longer == With(Prepared, k, v)
         n == NBuckets(Prepared)
     IN  \/ buckets' = longer \* no memory for more buckets, if it is too costly
         \/ TooCostly(Prepared, k) /\ buckets' = resize(longer, n + n \div 2)
  /\ LeaveLoop

Unlink(k) ==
  /\ Found(k)
  /\ buckets' = [buckets EXCEPT ![Home(buckets, k)] = RemoveAt(@, Place(k))]
  /\ IF k = link THEN LeaveLoop ELSE UNCHANGED iterator

Clear == buckets' = [b \in DOMAIN buckets |-> <<>>] /\ LeaveLoop

First ==
  /\ bucket' = 0 /\ link' = NoKey /\ looping' = TRUE
  /\ UNCHANGED buckets

(* The links behind the one the iterator is at. *)
Behind ==
  IF link = NoKey THEN <<>>
  ELSE LET chain == Chain(buckets, link)
       IN  SubSeq(chain, Place(link) + 1, Len(chain))
Unbegun == {b \in DOMAIN buckets : b >= bucket /\ buckets[b] # <<>>}

NextInChain ==
  /\ Behind # <<>>
  /\ link' = Head(Behind).key
  /\ UNCHANGED bucket

NextBucket ==
  /\ Behind = <<>> /\ Unbegun # {}
  /\ LET b == Min(Unbegun)
     IN  link' = Head(buckets[b]).key /\ bucket' = b + 1

Advance ==
  /\ looping
  /\ NextInChain \/ NextBucket
  /\ UNCHANGED <<buckets, looping>>

End == looping /\ Behind = <<>> /\ Unbegun = {} /\ LeaveLoop /\ UNCHANGED buckets

Next ==
  \/ \E k \in Keys, v \in Values : Replace(k, v) \/ Insert(k, v)
  \/ \E k \in Keys : NoMemory(k) \/ Unlink(k)
  \/ Clear \/ First \/ Advance \/ End

Spec == Init /\ [][Next]_vars

----------------------------------------------------------------------------
KeysOf(chain) == {chain[i].key : i \in DOMAIN chain}

Promise ==
  INSTANCE Dictionary WITH
    entries <- {<<k, getValue(k)>> : k \in {k \in Keys : Found(k)}},
    size <- count,
    current <- link,
    left <- IF looping
            THEN KeysOf(Behind) \cup UNION {KeysOf(buckets[b]) : b \in Unbegun}
            ELSE {}

(* What is looked up, counted and looped over is what was inserted last     *)
(* and not removed: no link is lost, doubled or left in a chain it is not   *)
(* looked for in when a table grows, when memory is refused or when a loop  *)
(* removes entries; a loop comes to every entry that stays, once, and to no *)
(* entry that was removed.                                                  *)
ImplementsDictionary == Promise!Spec

=============================================================================
