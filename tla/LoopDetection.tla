--------------------------- MODULE LoopDetection ---------------------------
(***************************************************************************)
(* The loop detection tables of peiskernel/p2p.c: loopTable is a ring of   *)
(* LOOPINFO_SIZE entries, threaded by HASH_SIZE hash chains whose entries  *)
(* carry a hashNext index and a hashPrev POINTER, to the chain's head or   *)
(* to the hashNext field of the previous entry.                            *)
(***************************************************************************)
EXTENDS Integers, Sequences, SeenWindow

CONSTANTS
  Ids,            \* package identifiers that are ever marked
  LOOPINFO_SIZE,  \* entries of the ring
  HASH_SIZE       \* hash chains

ASSUME LoopAssumption ==
  /\ Ids \subseteq Nat \ {0}
  /\ LOOPINFO_SIZE \in Nat \ {0}
  /\ HASH_SIZE \in Nat \ {0}

VARIABLES
  nextLoopIndex,  \* the entry the next new identifier takes
  loopHashTable,  \* head of each chain, an entry or -1
  loopTable       \* the ring

vars == <<nextLoopIndex, loopHashTable, loopTable>>

Entries == 0 .. LOOPINFO_SIZE - 1
Chains == 0 .. HASH_SIZE - 1
Hash(id) == id % HASH_SIZE

\* What a hashPrev pointer can point to: loopHashTable[h], or
\* loopTable[e].hashNext.
HeadOf(h) == <<"head", h>>
NextOf(e) == <<"next", e>>
Null == <<"null">>

Init ==
  /\ nextLoopIndex = 0
  /\ loopHashTable = [h \in Chains |-> -1]
  /\ loopTable = [e \in Entries |-> [id |-> -1, hashNext |-> 0, hashPrev |-> Null]]

----------------------------------------------------------------------------
\* The entries of the chain that starts at entry e, as isRepeated walks it.
\* A walk longer than the ring would never end.
ChainFrom(table, start) ==
  LET walk[n \in 0 .. LOOPINFO_SIZE] ==
        IF n = 0 THEN <<start>>
        ELSE LET at == walk[n - 1][Len(walk[n - 1])] IN
             IF at = -1 THEN walk[n - 1]
             ELSE Append(walk[n - 1], table[at].hashNext)
  IN  walk[LOOPINFO_SIZE]

Chain(h) == {ChainFrom(loopTable, loopHashTable[h])[i] :
               i \in DOMAIN ChainFrom(loopTable, loopHashTable[h])} \ {-1}

isRepeated(id) == \E e \in Chain(Hash(id)) : loopTable[e].id = id

\* Write through a hashPrev pointer.
HeadsAfterWrite(heads, ptr, v) ==
  [h \in Chains |-> IF ptr = HeadOf(h) THEN v ELSE heads[h]]
TableAfterWrite(table, ptr, v) ==
  [e \in Entries |-> IF ptr = NextOf(e)
                     THEN [table[e] EXCEPT !.hashNext = v] ELSE table[e]]
\* Redirect the hashPrev of entry e; -1 is no entry.
SetPrev(table, e, ptr) ==
  IF e = -1 THEN table ELSE [table EXCEPT ![e].hashPrev = ptr]

(* Seeded fault: the reused entry is not taken out of a chain it heads. *)
HeadsStillLinked(e) == loopHashTable

\* Take the entry about to be reused out of its chain.
HeadsUnlinked(e) ==
  IF loopTable[e].id = -1 THEN loopHashTable
  ELSE HeadsAfterWrite(loopHashTable, loopTable[e].hashPrev, loopTable[e].hashNext)
TableUnlinked(e) ==
  IF loopTable[e].id = -1 THEN loopTable
  ELSE TableAfterWrite(
         SetPrev(loopTable, loopTable[e].hashNext, loopTable[e].hashPrev),
         loopTable[e].hashPrev, loopTable[e].hashNext)

(* Seeded faults: the identifier is entered without looking it up first; the
   rest of the chain is not linked behind the new entry; the entry behind it
   keeps its hashPrev. *)
markWith(id, next, follower) ==
  LET e == nextLoopIndex
      h == Hash(id)
  IN
  /\ nextLoopIndex' = (nextLoopIndex + 1) % LOOPINFO_SIZE
  /\ loopHashTable' = [HeadsUnlinked(e) EXCEPT ![h] = e]
  /\ loopTable' = [SetPrev(TableUnlinked(e), follower, NextOf(e))
                     EXCEPT ![e] = [id |-> id, hashNext |-> next, hashPrev |-> HeadOf(h)]]
Behind(id) == HeadsUnlinked(nextLoopIndex)[Hash(id)]
markWithoutLookup(id) == markWith(id, Behind(id), Behind(id))
markLosingChain(id) == ~ isRepeated(id) /\ markWith(id, -1, Behind(id))
markKeepingPrev(id) == ~ isRepeated(id) /\ markWith(id, Behind(id), -1)

\* peisk_markAsRepeated for an identifier not yet known.
markAsRepeated(id) ==
  LET e == nextLoopIndex
      h == Hash(id)
      old == HeadsUnlinked(e)[h]
  IN
  /\ ~ isRepeated(id)
  /\ nextLoopIndex' = (nextLoopIndex + 1) % LOOPINFO_SIZE
  /\ loopHashTable' = [HeadsUnlinked(e) EXCEPT ![h] = e]
  /\ loopTable' = [SetPrev(TableUnlinked(e), old, NextOf(e))
                     EXCEPT ![e] = [id |-> id, hashNext |-> old, hashPrev |-> HeadOf(h)]]

Next == \E id \in Ids : markAsRepeated(id)

Spec == Init /\ [][Next]_vars

----------------------------------------------------------------------------
Used == {e \in Entries : loopTable[e].id # -1}

\* The ring read from its oldest entry on.
Window ==
  LET full == loopTable[nextLoopIndex].id # -1
      n == IF full THEN LOOPINFO_SIZE ELSE nextLoopIndex
      first == IF full THEN nextLoopIndex ELSE 0
  IN  [i \in 1 .. n |-> loopTable[(first + i - 1) % LOOPINFO_SIZE].id]

\* isRepeated, which walks one hash chain, agrees for every identifier with
\* a search of the last LOOPINFO_SIZE marked identifiers: no identifier is
\* lost from its chain when a neighbour in it is reused, none is found after
\* its entry went to another identifier.
RepeatedIffRemembered ==
  \A id \in Ids : isRepeated(id) <=> IsRepeated(Window, id)

\* Every used entry is reachable from the head of its identifier's chain,
\* and what its hashPrev points to holds its index: the unlink of p2p.c:1163
\* writes where it must.
PrevPointersExact ==
  \A e \in Used :
    /\ e \in Chain(Hash(loopTable[e].id))
    /\ \/ \E h \in Chains : loopTable[e].hashPrev = HeadOf(h) /\ loopHashTable[h] = e
       \/ \E d \in Used : loopTable[e].hashPrev = NextOf(d) /\ loopTable[d].hashNext = e

\* Every walk along a chain ends: no entry is ever linked behind itself, where
\* isRepeated, called for every package, would spin.
ChainsEnd ==
  \A h \in Chains :
    LET walk == ChainFrom(loopTable, loopHashTable[h]) IN walk[Len(walk)] = -1

Memory == INSTANCE SeenMemory WITH window <- Window, Size <- LOOPINFO_SIZE

\* The ring and its chains implement the sliding window, step by step.
ImplementsMemory == Memory!Spec
============================================================================
