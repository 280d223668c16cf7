------------------------ MODULE LoopDetection_proofs ------------------------
(***************************************************************************)
(* Theorems about LoopDetection, for rings and hash tables of any size.    *)
(* The chains are described by the ages of their entries: each is the used *)
(* entries of one hash value from the youngest to the oldest, so the entry *)
(* that is reused, the oldest of all, is the last of its chain.            *)
(***************************************************************************)
EXTENDS LoopDetection, SequenceTheorems, WellFoundedInduction, TLAPS

----------------------------------------------------------------------------
(* The invariant *)

Pointers == {HeadOf(h) : h \in Chains} \cup {NextOf(e) : e \in Entries} \cup {Null}
Links == Entries \cup {-1}
EntryType == [id : Ids \cup {-1}, hashNext : Links, hashPrev : Pointers]
HeadsType == [Chains -> Links]
TableType == [Entries -> EntryType]

\* How many identifiers were entered since an entry was, if `next' is the next.
Ages(next) ==
  [e \in Entries |-> IF e < next THEN next - 1 - e ELSE next - 1 - e + LOOPINFO_SIZE]

\* The youngest entry of S, -1 if there is none.
Leads(e, S, age) ==
  IF e = -1 THEN S = {} ELSE e \in S /\ \A d \in S : d = e \/ age[d] > age[e]

\* Those of the entries U that belong in chain h, and those older than e among them.
Kin(table, U, h) == {e \in U : Hash(table[e].id) = h}
Older(table, U, e, age) == {d \in Kin(table, U, Hash(table[e].id)) : age[d] > age[e]}

\* Each entry of U is found from the next younger one of its chain, or the head.
HeldBy(heads, table, U, e) ==
  LET h == Hash(table[e].id) IN
  IF heads[h] = e THEN table[e].hashPrev = HeadOf(h)
  ELSE \E d \in U : table[d].hashNext = e /\ table[e].hashPrev = NextOf(d)

Chained(heads, table, U, age) ==
  /\ \A h \in Chains : Leads(heads[h], Kin(table, U, h), age)
  /\ \A e \in U : /\ Leads(table[e].hashNext, Older(table, U, e, age), age)
                  /\ HeldBy(heads, table, U, e)

\* The ring is used from its first entry on, then all of it.
InUse(table) == {e \in Entries : table[e].id # -1}
FilledUpTo(next, table) ==
  InUse(table) = IF table[next].id = -1 THEN {e \in Entries : e < next} ELSE Entries

Ring(next, heads, table) ==
  /\ next \in Entries /\ heads \in HeadsType /\ table \in TableType
  /\ FilledUpTo(next, table)
  /\ Chained(heads, table, InUse(table), Ages(next))

IInv == Ring(nextLoopIndex, loopHashTable, loopTable)

----------------------------------------------------------------------------
(* Numbers *)

LEMMA Constants ==
  /\ LOOPINFO_SIZE \in Nat \ {0} /\ HASH_SIZE \in Nat \ {0}
  /\ Entries \subseteq Nat /\ 0 \in Entries /\ -1 \notin Entries
  /\ \A e \in Entries : e < LOOPINFO_SIZE
  /\ \A e \in Nat : e < LOOPINFO_SIZE => e \in Entries
  /\ \A id \in Ids : id \in Nat /\ id # -1
  /\ \A id \in Nat : Hash(id) \in Chains
<1>1. LOOPINFO_SIZE \in Nat \ {0} /\ HASH_SIZE \in Nat \ {0} /\ Ids \subseteq Nat \ {0}
  BY LoopAssumption
<1>2. \A id \in Nat : id % HASH_SIZE \in 0 .. HASH_SIZE - 1
  BY <1>1
<1> QED BY <1>1, <1>2 DEF Entries, Chains, Hash

\* Counting round the ring.
LEMMA Around ==
  ASSUME NEW a \in Nat, a < 2 * LOOPINFO_SIZE
  PROVE  a % LOOPINFO_SIZE = IF a < LOOPINFO_SIZE THEN a ELSE a - LOOPINFO_SIZE
BY Constants

NatLess == {x \in Nat \X Nat : x[1] < x[2]}

LEMMA SomeLeast ==
  ASSUME NEW S, S \subseteq Nat, S # {}
  PROVE  \E x \in S : \A y \in S : x <= y
<1>1. IsWellFoundedOn(NatLess, Nat)
  BY NatLessThanWellFounded DEF OpToRel, NatLess
<1>2. PICK x \in S : \A y \in S : <<y, x>> \notin NatLess
  BY <1>1, WFMin
<1>3. ASSUME NEW y \in S PROVE x <= y
  <2>1. x \in Nat /\ y \in Nat
    OBVIOUS
  <2>2. y < x => <<y, x>> \in NatLess
    BY <2>1 DEF NatLess
  <2> QED BY <1>2, <2>1, <2>2
<1> QED BY <1>3

\* The entry about to be reused is the oldest, and then the youngest.
LEMMA AgesTurn ==
  ASSUME NEW next \in Entries
  PROVE  LET after == (next + 1) % LOOPINFO_SIZE IN
         /\ after \in Entries
         /\ after = IF next + 1 = LOOPINFO_SIZE THEN 0 ELSE next + 1
         /\ \A e \in Entries : Ages(next)[e] \in 0 .. LOOPINFO_SIZE - 1
         /\ \A e, d \in Entries : Ages(next)[e] = Ages(next)[d] => e = d
         /\ \A e \in Entries \ {next} : /\ Ages(next)[e] < Ages(next)[next]
                                        /\ Ages(after)[e] = Ages(next)[e] + 1
         /\ Ages(after)[next] = 0
<1> DEFINE after == (next + 1) % LOOPINFO_SIZE
<1>1. next \in Nat /\ next < LOOPINFO_SIZE /\ LOOPINFO_SIZE \in Nat \ {0}
  BY Constants
<1>2. after = IF next + 1 = LOOPINFO_SIZE THEN 0 ELSE next + 1
  BY <1>1, Around
<1> HIDE DEF after
<1>3. after \in Entries
  BY <1>1, <1>2, Constants
<1>4. \A e \in Entries : e \in Nat /\ e < LOOPINFO_SIZE
  BY Constants
<1>5. \A e \in Entries :
        /\ Ages(next)[e] = IF e < next THEN next - 1 - e ELSE next - 1 - e + LOOPINFO_SIZE
        /\ Ages(after)[e] = IF e < after THEN after - 1 - e ELSE after - 1 - e + LOOPINFO_SIZE
  BY DEF Ages
<1>6. \A e \in Entries : Ages(next)[e] \in 0 .. LOOPINFO_SIZE - 1
  BY <1>1, <1>4, <1>5
<1>7. \A e, d \in Entries : Ages(next)[e] = Ages(next)[d] => e = d
  BY <1>1, <1>4, <1>5
<1>8. \A e \in Entries \ {next} : Ages(next)[e] < Ages(next)[next]
  BY <1>1, <1>4, <1>5
<1>9. \A e \in Entries \ {next} : Ages(after)[e] = Ages(next)[e] + 1
  BY <1>1, <1>2, <1>4, <1>5
<1>10. Ages(after)[next] = 0
  BY <1>1, <1>2, <1>5
<1> QED BY <1>2, <1>3, <1>6, <1>7, <1>8, <1>9, <1>10 DEF after

----------------------------------------------------------------------------
(* Walking along a chain: peisk_isRepeated *)

Last(w) == w[Len(w)]
Extended(table, w) == IF Last(w) = -1 THEN w ELSE Append(w, table[Last(w)].hashNext)

\* f holds the walks of up to k steps from start.
Walking(f, table, start, k) ==
  f = [n \in 0 .. k |-> IF n = 0 THEN <<start>> ELSE Extended(table, f[n - 1])]

LEMMA WalkExists ==
  ASSUME NEW table, NEW start, NEW k \in Nat
  PROVE  \E f : Walking(f, table, start, k)
<1> DEFINE bad == {j \in Nat : ~ \E f : Walking(f, table, start, j)}
<1> SUFFICES ASSUME bad # {}
             PROVE  FALSE
  OBVIOUS
<1>1. PICK j \in bad : \A i \in bad : j <= i
  <2>1. bad \subseteq Nat
    OBVIOUS
  <2> HIDE DEF bad
  <2> QED BY <2>1, SomeLeast
<1>2. j \in Nat /\ ~ \E f : Walking(f, table, start, j)
  BY <1>1
<1>3. CASE j = 0
  <2> DEFINE f == [n \in 0 .. j |-> <<start>>]
  <2>1. \A n \in 0 .. j : n = 0
    BY <1>3
  <2>2. Walking(f, table, start, j)
    BY <2>1 DEF Walking
  <2> QED BY <1>2, <2>2
<1>4. CASE j # 0
  <2>1. j - 1 \in Nat /\ j - 1 \notin bad
    BY <1>1, <1>2, <1>4
  <2>2. PICK f : Walking(f, table, start, j - 1)
    BY <2>1
  <2> DEFINE walk(g, n) == IF n = 0 THEN <<start>> ELSE Extended(table, g[n - 1])
             g == [n \in 0 .. j |-> walk(f, n)]
  <2>3. f = [n \in 0 .. j - 1 |-> walk(f, n)]
    BY <2>2 DEF Walking
  <2>4. ASSUME NEW n \in 0 .. j
        PROVE  walk(g, n) = walk(f, n)
    <3>1. CASE n = 0
      BY <3>1
    <3>2. CASE n # 0
      <4>1. n - 1 \in 0 .. j - 1 /\ n - 1 \in 0 .. j
        BY <1>2, <3>2
      <4>2. g[n - 1] = walk(f, n - 1)
        BY <4>1
      <4>3. f[n - 1] = walk(f, n - 1)
        <5> HIDE DEF walk
        <5> QED BY <2>3, <4>1
      <4> QED BY <3>2, <4>2, <4>3
    <3> QED BY <3>1, <3>2
  <2>5. g = [n \in 0 .. j |-> walk(g, n)]
    <3>1. \A n \in 0 .. j : g[n] = walk(g, n)
      <4> HIDE DEF walk
      <4> QED BY <2>4
    <3>2. g = [n \in 0 .. j |-> g[n]]
      OBVIOUS
    <3> HIDE DEF g, walk
    <3> QED BY <3>1, <3>2
  <2>6. Walking(g, table, start, j)
    BY <2>5 DEF Walking
  <2> QED BY <1>2, <2>6
<1> QED BY <1>3, <1>4

LEMMA ChainFromIs ==
  ASSUME NEW table, NEW start
  PROVE  \E f : /\ Walking(f, table, start, LOOPINFO_SIZE)
                /\ ChainFrom(table, start) = f[LOOPINFO_SIZE]
<1> DEFINE f == CHOOSE f : Walking(f, table, start, LOOPINFO_SIZE)
<1>1. Walking(f, table, start, LOOPINFO_SIZE)
  BY WalkExists, Constants
<1>2. ChainFrom(table, start) = f[LOOPINFO_SIZE]
  BY DEF ChainFrom, Walking, Extended, Last
<1> QED BY <1>1, <1>2

\* After n steps the walk w along the entries S is at its end, or at one of them,
\* with those younger behind and those older before it.
Covers(w, n, S, age) ==
  /\ w \in Seq(Links) /\ Len(w) >= 1
  /\ \A i \in 1 .. Len(w) : w[i] # -1 => w[i] \in S
  /\ Last(w) # -1 => Len(w) = n + 1 /\ age[Last(w)] >= n
  /\ \A e \in S : \/ \E i \in 1 .. Len(w) : w[i] = e
                  \/ Last(w) # -1 /\ age[e] > age[Last(w)]

\* S are the entries of a chain that starts at `start'.
Linked(table, start, S, age) ==
  /\ S \subseteq Entries /\ Leads(start, S, age)
  /\ \A e \in S : /\ table[e].hashNext \in Links
                  /\ Leads(table[e].hashNext, {d \in S : age[d] > age[e]}, age)

LEMMA ExtendedCovers ==
  ASSUME NEW table, NEW S, NEW start, NEW age \in [Entries -> Int],
         Linked(table, start, S, age), NEW n \in Nat, NEW w, Covers(w, n, S, age)
  PROVE  Covers(Extended(table, w), n + 1, S, age)
<1>1. CASE Last(w) = -1
  BY <1>1 DEF Extended, Covers
<1>2. CASE Last(w) # -1
  <2> DEFINE x == Last(w)
             y == table[x].hashNext
             v == Append(w, y)
             L == Len(w)
  <2>1. w \in Seq(Links) /\ L \in Nat /\ L >= 1 /\ x = w[L] /\ L = n + 1 /\ age[x] >= n
    BY <1>2 DEF Covers, Last
  <2>2. x \in S /\ x \in Entries /\ age[x] \in Int
    <3>1. x \in S
      BY <1>2, <2>1 DEF Covers
    <3> QED BY <3>1 DEF Linked
  <2>3. y \in Links /\ Leads(y, {d \in S : age[d] > age[x]}, age)
    BY <2>2 DEF Linked
  <2> HIDE DEF x, y
  <2>4. /\ v \in Seq(Links) /\ Len(v) = L + 1 /\ v[L + 1] = y
        /\ \A i \in 1 .. L : v[i] = w[i]
    BY <2>1, <2>3
  <2>5. Last(v) = y
    BY <2>4 DEF Last
  <2>6. y # -1 => y \in S /\ age[y] > age[x] /\ age[y] >= n + 1
    <3>1. y # -1 => y \in S /\ age[y] > age[x] /\ y \in Entries
      BY <2>3 DEF Leads, Linked
    <3>2. y # -1 => age[y] \in Int
      BY <3>1
    <3> QED BY <2>1, <2>2, <3>1, <3>2
  <2>7. \A i \in 1 .. L : w[i] # -1 => w[i] \in S
    BY DEF Covers
  <2>8. ASSUME NEW e \in S
        PROVE  (\E i \in 1 .. L + 1 : v[i] = e) \/ (y # -1 /\ age[e] > age[y])
    <3>1. (\E i \in 1 .. L : w[i] = e) \/ age[e] > age[x]
      BY <1>2 DEF Covers, x
    <3>2. CASE \E i \in 1 .. L : w[i] = e
      BY <2>1, <2>4, <3>2
    <3>3. CASE age[e] > age[x]
      <4>1. y # -1 /\ (e = y \/ age[e] > age[y])
        BY <2>3, <3>3 DEF Leads
      <4> QED BY <2>1, <2>4, <4>1
    <3> QED BY <3>1, <3>2, <3>3
  <2> HIDE DEF v, L
  <2>9. ASSUME NEW i \in 1 .. Len(v), v[i] # -1
        PROVE  v[i] \in S
    BY <2>1, <2>4, <2>6, <2>7, <2>9
  <2>10. Covers(v, n + 1, S, age)
    BY <2>1, <2>4, <2>5, <2>6, <2>8, <2>9 DEF Covers
  <2> QED BY <1>2, <2>10 DEF Extended, x, y, v
<1> QED BY <1>1, <1>2

\* A walk along a chain ends, and meets all of its entries.
LEMMA WalkCovers ==
  ASSUME NEW table, NEW start \in Links, NEW S,
         NEW age \in [Entries -> 0 .. LOOPINFO_SIZE - 1], Linked(table, start, S, age)
  PROVE  LET w == ChainFrom(table, start) IN
         /\ w[Len(w)] = -1
         /\ {w[i] : i \in DOMAIN w} \ {-1} = S
<1>1. PICK f : /\ Walking(f, table, start, LOOPINFO_SIZE)
               /\ ChainFrom(table, start) = f[LOOPINFO_SIZE]
  BY ChainFromIs
<1>2. age \in [Entries -> Int]
  BY Constants
<1>3. LOOPINFO_SIZE \in Nat
  BY Constants
<1>4. ASSUME NEW n \in 0 .. LOOPINFO_SIZE
      PROVE  /\ n = 0 => f[n] = <<start>>
             /\ n # 0 => f[n] = Extended(table, f[n - 1])
  BY <1>1 DEF Walking
<1> DEFINE bad == {n \in 0 .. LOOPINFO_SIZE : ~ Covers(f[n], n, S, age)}
<1>5. bad = {}
  <2> SUFFICES ASSUME bad # {}
               PROVE  FALSE
    OBVIOUS
  <2>1. PICK n \in bad : \A i \in bad : n <= i
    <3>1. bad \subseteq Nat
      BY <1>3
    <3> HIDE DEF bad
    <3> QED BY <3>1, SomeLeast
  <2>2. n \in 0 .. LOOPINFO_SIZE /\ n \in Nat /\ ~ Covers(f[n], n, S, age)
    BY <1>3, <2>1
  <2>3. CASE n = 0
    <3> DEFINE w == <<start>>
    <3>1. w \in Seq(Links) /\ Len(w) = 1 /\ w[1] = start /\ Last(w) = start
      BY DEF Last
    <3>2. f[n] = w
      BY <1>4, <2>2, <2>3
    <3> HIDE DEF w
    <3>3. start # -1 => start \in S /\ age[start] >= 0
      BY <1>3 DEF Linked, Leads
    <3>4. \A e \in S : e = start \/ (start # -1 /\ age[e] > age[start])
      BY DEF Linked, Leads
    <3>5. Covers(w, 0, S, age)
      BY <3>1, <3>3, <3>4 DEF Covers
    <3> QED BY <2>2, <2>3, <3>2, <3>5
  <2>4. CASE n # 0
    <3>1. n - 1 \in 0 .. LOOPINFO_SIZE /\ n - 1 \in Nat /\ n - 1 \notin bad
      BY <1>3, <2>1, <2>2, <2>4
    <3>2. Covers(f[n - 1], n - 1, S, age)
      BY <3>1
    <3>3. Covers(Extended(table, f[n - 1]), (n - 1) + 1, S, age)
      BY <1>2, <3>1, <3>2, ExtendedCovers
    <3>4. (n - 1) + 1 = n
      BY <2>2
    <3> QED BY <1>4, <2>2, <2>4, <3>3, <3>4
  <2> QED BY <2>3, <2>4
<1> DEFINE w == f[LOOPINFO_SIZE]
<1>6. Covers(w, LOOPINFO_SIZE, S, age)
  BY <1>3, <1>5
<1> HIDE DEF w
<1>7. w \in Seq(Links) /\ Len(w) \in Nat /\ Len(w) >= 1 /\ DOMAIN w = 1 .. Len(w)
      /\ Last(w) = w[Len(w)]
  BY <1>6 DEF Covers, Last
<1>8. Last(w) = -1
  <2> SUFFICES ASSUME Last(w) # -1
               PROVE  FALSE
    OBVIOUS
  <2>1. Last(w) \in S /\ age[Last(w)] >= LOOPINFO_SIZE
    BY <1>6, <1>7 DEF Covers
  <2>2. Last(w) \in Entries
    BY <2>1 DEF Linked
  <2>3. age[Last(w)] \in 0 .. LOOPINFO_SIZE - 1
    BY <2>2
  <2> QED BY <1>3, <2>1, <2>3
<1>9. S \subseteq Entries /\ -1 \notin S
  BY Constants DEF Linked
<1>10. {w[i] : i \in DOMAIN w} \ {-1} = S
  BY <1>6, <1>7, <1>8, <1>9 DEF Covers
<1>11. ChainFrom(table, start) = w
  BY <1>1 DEF w
<1> QED BY <1>7, <1>8, <1>10, <1>11

----------------------------------------------------------------------------
(* Writing through pointers *)

LEMMA EntryIs ==
  ASSUME NEW table \in TableType, NEW e \in Entries
  PROVE  /\ table[e] \in EntryType /\ table[e].id \in Ids \cup {-1}
         /\ table[e].hashNext \in Links /\ table[e].hashPrev \in Pointers
         /\ table[e].id # -1 => Hash(table[e].id) \in Chains
<1>1. table[e] \in EntryType
  BY DEF TableType
<1>2. table[e].id \in Ids \cup {-1}
  BY <1>1 DEF EntryType
<1> QED BY <1>1, <1>2, Constants DEF EntryType

\* What a pointer points to, and no other.
LEMMA PointersDiffer ==
  /\ \A h, d : HeadOf(h) = HeadOf(d) <=> h = d
  /\ \A e, d : NextOf(e) = NextOf(d) <=> e = d
  /\ \A h, e : HeadOf(h) # NextOf(e)
BY DEF HeadOf, NextOf

LEMMA HeadWritten ==
  ASSUME NEW heads \in HeadsType, NEW table \in TableType, NEW h \in Chains, NEW v \in Links
  PROVE  /\ HeadsAfterWrite(heads, HeadOf(h), v) = [heads EXCEPT ![h] = v]
         /\ TableAfterWrite(table, HeadOf(h), v) = table
<1>1. HeadsAfterWrite(heads, HeadOf(h), v) = [heads EXCEPT ![h] = v]
  BY PointersDiffer DEF HeadsAfterWrite, HeadsType
<1>2. TableAfterWrite(table, HeadOf(h), v) = [e \in Entries |-> table[e]]
  BY PointersDiffer DEF TableAfterWrite
<1> QED BY <1>1, <1>2 DEF TableType

LEMMA NextWritten ==
  ASSUME NEW heads \in HeadsType, NEW table \in TableType, NEW d \in Entries, NEW v \in Links
  PROVE  LET T == TableAfterWrite(table, NextOf(d), v) IN
         /\ HeadsAfterWrite(heads, NextOf(d), v) = heads
         /\ T \in TableType
         /\ \A e \in Entries : /\ T[e].id = table[e].id /\ T[e].hashPrev = table[e].hashPrev
                               /\ T[e].hashNext = IF e = d THEN v ELSE table[e].hashNext
<1> DEFINE T == TableAfterWrite(table, NextOf(d), v)
           written(e) == [table[e] EXCEPT !.hashNext = v]
<1>1. HeadsAfterWrite(heads, NextOf(d), v) = [h \in Chains |-> heads[h]]
  BY PointersDiffer DEF HeadsAfterWrite
<1>2. ASSUME NEW e \in Entries
      PROVE  /\ table[e] \in EntryType
             /\ written(e) \in EntryType /\ written(e).id = table[e].id
             /\ written(e).hashPrev = table[e].hashPrev /\ written(e).hashNext = v
  <2>1. table[e] \in EntryType
    BY EntryIs
  <2> QED BY <2>1 DEF EntryType
<1>3. T = [e \in Entries |-> IF e = d THEN written(e) ELSE table[e]]
  BY PointersDiffer DEF TableAfterWrite
<1> HIDE DEF T, written
<1>4. \A e \in Entries : T[e] = IF e = d THEN written(e) ELSE table[e]
  BY <1>3
<1>5. T \in TableType
  BY <1>2, <1>3 DEF TableType
<1>6. ASSUME NEW e \in Entries
      PROVE  /\ T[e].id = table[e].id /\ T[e].hashPrev = table[e].hashPrev
             /\ T[e].hashNext = IF e = d THEN v ELSE table[e].hashNext
  BY <1>2, <1>4
<1> QED BY <1>1, <1>5, <1>6 DEF T, HeadsType

LEMMA PrevSet ==
  ASSUME NEW table \in TableType, NEW d \in Links, NEW ptr \in Pointers
  PROVE  LET T == SetPrev(table, d, ptr) IN
         /\ T \in TableType
         /\ \A e \in Entries : /\ T[e].id = table[e].id /\ T[e].hashNext = table[e].hashNext
                               /\ T[e].hashPrev = IF e = d THEN ptr ELSE table[e].hashPrev
<1>1. CASE d = -1
  <2>1. SetPrev(table, d, ptr) = table
    BY <1>1 DEF SetPrev
  <2> QED BY <1>1, <2>1, Constants
<1>2. CASE d # -1
  <2> DEFINE entry == [table[d] EXCEPT !.hashPrev = ptr]
             T == [table EXCEPT ![d] = entry]
  <2>1. d \in Entries /\ SetPrev(table, d, ptr) = T
    BY <1>2 DEF SetPrev, Links
  <2>2. table[d] \in EntryType
    BY <2>1, EntryIs
  <2>3. /\ entry \in EntryType /\ entry.id = table[d].id
        /\ entry.hashNext = table[d].hashNext /\ entry.hashPrev = ptr
    BY <2>2 DEF EntryType
  <2> HIDE DEF entry
  <2>4. T \in TableType /\ \A e \in Entries : T[e] = IF e = d THEN entry ELSE table[e]
    BY <2>1, <2>3 DEF TableType
  <2> HIDE DEF T
  <2>5. \A e \in Entries : /\ T[e].id = table[e].id /\ T[e].hashNext = table[e].hashNext
                           /\ T[e].hashPrev = IF e = d THEN ptr ELSE table[e].hashPrev
    BY <2>3, <2>4
  <2> QED BY <2>1, <2>4, <2>5
<1> QED BY <1>1, <1>2

----------------------------------------------------------------------------
(* Taking the oldest entry out of its chain *)

LEMMA ChainLast ==
  ASSUME NEW heads \in HeadsType, NEW table \in TableType, NEW U \in SUBSET Entries,
         NEW age \in [Entries -> Int], Chained(heads, table, U, age),
         NEW o \in U, \A e \in U : e # o => age[e] < age[o]
  PROVE  table[o].hashNext = -1
<1>1. Older(table, U, o, age) = {}
  <2>1. \A d \in U : ~ (age[d] > age[o])
    BY DEF Older
  <2> QED BY <2>1 DEF Older, Kin
<1>2. Leads(table[o].hashNext, Older(table, U, o, age), age)
  BY DEF Chained
<1> QED BY <1>1, <1>2 DEF Leads

\* The chain's head points to it: it was the only one.
LEMMA HeadFreed ==
  ASSUME NEW heads \in HeadsType, NEW table \in TableType, NEW U \in SUBSET Entries,
         \A e \in U : table[e].id # -1,
         NEW age \in [Entries -> Int], Chained(heads, table, U, age),
         NEW o \in U, \A e \in U : e # o => age[e] < age[o],
         heads[Hash(table[o].id)] = o
  PROVE  Chained([heads EXCEPT ![Hash(table[o].id)] = -1], table, U \ {o}, age)
<1> DEFINE h == Hash(table[o].id)
           H == [heads EXCEPT ![h] = -1]
           V == U \ {o}
<1>1. h \in Chains /\ \A e \in U : e \in Entries /\ age[e] \in Int
  BY EntryIs
<1> HIDE DEF h
<1>2. H[h] = -1 /\ \A g \in Chains : g # h => H[g] = heads[g]
  BY <1>1 DEF HeadsType
<1> HIDE DEF H
<1>3. Kin(table, U, h) = {o}
  <2>1. Leads(heads[h], Kin(table, U, h), age) /\ heads[h] = o
    BY <1>1 DEF Chained, h
  <2>2. o # -1
    BY Constants
  <2>3. ASSUME NEW e \in Kin(table, U, h)
        PROVE  e = o
    <3>1. e \in U /\ (e = o \/ age[e] > age[o])
      BY <2>1, <2>2, <2>3 DEF Leads, Kin
    <3> QED BY <1>1, <3>1
  <2> QED BY <2>3 DEF Kin, h
<1>4. \A e \in V : Hash(table[e].id) # h
  BY <1>3 DEF Kin
<1>5. \A g \in Chains : g # h => Kin(table, V, g) = Kin(table, U, g)
  BY DEF Kin, h
<1>6. ASSUME NEW g \in Chains
      PROVE  Leads(H[g], Kin(table, V, g), age)
  <2>1. CASE g = h
    <3>1. Kin(table, V, g) = {}
      BY <1>4, <2>1 DEF Kin
    <3> QED BY <1>2, <2>1, <3>1 DEF Leads
  <2>2. CASE g # h
    BY <1>2, <1>5, <2>2 DEF Chained
  <2> QED BY <2>1, <2>2
<1>7. ASSUME NEW e \in V
      PROVE  /\ Leads(table[e].hashNext, Older(table, V, e, age), age)
             /\ HeldBy(H, table, V, e)
  <2> DEFINE g == Hash(table[e].id)
  <2>1. g \in Chains /\ g # h /\ e \in U /\ e # o
    BY <1>1, <1>4, EntryIs
  <2>2. Older(table, V, e, age) = Older(table, U, e, age)
    BY <1>5, <2>1 DEF Older
  <2>3. HeldBy(heads, table, U, e) /\ Leads(table[e].hashNext, Older(table, U, e, age), age)
    BY <2>1 DEF Chained
  <2>4. table[o].hashNext # e
    <3>1. table[o].hashNext = -1
      BY ChainLast
    <3> QED BY <1>1, <2>1, <3>1, Constants
  <2>5. H[g] = heads[g]
    BY <1>2, <2>1
  <2>6. HeldBy(H, table, V, e)
    BY <2>3, <2>4, <2>5 DEF HeldBy
  <2> QED BY <2>2, <2>3, <2>6
<1>8. Chained(H, table, V, age)
  BY <1>6, <1>7 DEF Chained
<1> QED BY <1>8 DEF H, h

\* Another entry points to it: that becomes the last.
LEMMA NextFreed ==
  ASSUME NEW heads \in HeadsType, NEW table \in TableType, NEW U \in SUBSET Entries,
         \A e \in U : table[e].id # -1,
         NEW age \in [Entries -> Int], Chained(heads, table, U, age),
         \A e, d \in U : age[e] = age[d] => e = d,
         NEW o \in U, \A e \in U : e # o => age[e] < age[o],
         heads[Hash(table[o].id)] # o, NEW x \in U, table[x].hashNext = o,
         NEW T \in TableType,
         \A e \in Entries : /\ T[e].id = table[e].id /\ T[e].hashPrev = table[e].hashPrev
                            /\ T[e].hashNext = IF e = x THEN -1 ELSE table[e].hashNext
  PROVE  Chained(heads, T, U \ {o}, age)
<1> DEFINE V == U \ {o}
           h == Hash(table[o].id)
<1>1. /\ h \in Chains /\ \A e \in U : e \in Entries /\ age[e] \in Int
      /\ \A e \in U : e # -1 /\ T[e].id = table[e].id
  BY EntryIs, Constants
<1>2. \A S \in SUBSET U : \A g : Kin(T, S, g) = Kin(table, S, g)
  BY <1>1 DEF Kin
<1> HIDE DEF h
<1>3. o \in Older(table, U, x, age) /\ Hash(table[x].id) = h /\ x # o
  <2>1. Leads(o, Older(table, U, x, age), age)
    BY DEF Chained
  <2> QED BY <1>1, <2>1 DEF Leads, Older, Kin, h
<1>4. ASSUME NEW y \in U, table[y].hashNext = o
      PROVE  y = x
  <2>1. Leads(o, Older(table, U, x, age), age) /\ Leads(o, Older(table, U, y, age), age)
    BY <1>4 DEF Chained
  <2>2. Hash(table[y].id) = h /\ age[o] > age[y]
    BY <1>1, <2>1 DEF Leads, Older, Kin, h
  <2>3. ~ (age[y] > age[x]) /\ ~ (age[x] > age[y])
    BY <1>1, <1>3, <2>1, <2>2 DEF Leads, Older, Kin, h
  <2> QED BY <1>1, <2>3
<1>5. ASSUME NEW g \in Chains
      PROVE  Leads(heads[g], Kin(T, V, g), age)
  <2>1. Leads(heads[g], Kin(table, U, g), age)
    BY DEF Chained
  <2>2. heads[g] # o
    BY <1>1, <2>1 DEF Leads, Kin, h
  <2>3. g = h => heads[g] # -1
    BY <1>1, <2>1 DEF Leads, Kin, h
  <2>4. Kin(T, V, g) = Kin(table, U, g) \ {o}
    BY <1>1 DEF Kin
  <2>5. g # h => o \notin Kin(table, U, g)
    BY DEF Kin, h
  <2> QED BY <2>1, <2>2, <2>3, <2>4, <2>5 DEF Leads
<1>6. ASSUME NEW e \in V
      PROVE  Leads(T[e].hashNext, Older(T, V, e, age), age)
  <2>1. Older(T, V, e, age) = Older(table, U, e, age) \ {o}
    BY <1>1 DEF Older, Kin
  <2>2. Leads(table[e].hashNext, Older(table, U, e, age), age)
    BY DEF Chained
  <2>3. CASE e = x
    <3>1. Older(table, U, x, age) = {o}
      <4>1. \A d \in Older(table, U, x, age) : d \in U /\ (d = o \/ age[d] > age[o])
        BY <1>1, <2>2, <2>3 DEF Leads, Older, Kin
      <4> QED BY <1>1, <1>3, <4>1
    <3>2. T[e].hashNext = -1
      BY <1>1, <2>3
    <3> QED BY <2>1, <2>3, <3>1, <3>2 DEF Leads
  <2>4. CASE e # x
    <3>1. T[e].hashNext = table[e].hashNext /\ table[e].hashNext # o
      BY <1>1, <1>4, <2>4
    <3>2. table[e].hashNext = -1 => o \notin Older(table, U, e, age)
      BY <2>2 DEF Leads
    <3> QED BY <2>1, <2>2, <3>1, <3>2 DEF Leads
  <2> QED BY <2>3, <2>4
<1>7. ASSUME NEW e \in V
      PROVE  HeldBy(heads, T, V, e)
  <2>1. HeldBy(heads, table, U, e) /\ e \in Entries
    BY <1>1 DEF Chained
  <2>2. T[e].id = table[e].id /\ T[e].hashPrev = table[e].hashPrev
    BY <2>1
  <2>3. table[o].hashNext # e
    <3>1. table[o].hashNext = -1
      BY ChainLast
    <3> QED BY <1>1, <3>1
  <2>4. ASSUME NEW d \in U, table[d].hashNext = e
        PROVE  d \in V /\ T[d].hashNext = e
    BY <1>1, <2>3, <2>4
  <2> QED BY <2>1, <2>2, <2>4 DEF HeldBy
<1> QED BY <1>5, <1>6, <1>7 DEF Chained

LEMMA Unlinked ==
  ASSUME NEW o \in Entries, loopHashTable \in HeadsType, loopTable \in TableType,
         NEW age \in [Entries -> Int], Chained(loopHashTable, loopTable, InUse(loopTable), age),
         \A e, d \in Entries : age[e] = age[d] => e = d,
         \A e \in Entries : e # o => age[e] < age[o]
  PROVE  /\ HeadsUnlinked(o) \in HeadsType /\ TableUnlinked(o) \in TableType
         /\ \A e \in Entries : TableUnlinked(o)[e].id = loopTable[e].id
         /\ Chained(HeadsUnlinked(o), TableUnlinked(o), InUse(loopTable) \ {o}, age)
<1> DEFINE heads == loopHashTable
           table == loopTable
           U == InUse(table)
           h == Hash(table[o].id)
<1>1. U \in SUBSET Entries /\ \A e \in U : table[e].id # -1
  BY DEF InUse
<1>2. CASE o \notin U
  <2>1. table[o].id = -1 /\ U \ {o} = U
    BY <1>2 DEF InUse
  <2>2. HeadsUnlinked(o) = heads /\ TableUnlinked(o) = table
    BY <2>1 DEF HeadsUnlinked, TableUnlinked
  <2> QED BY <2>1, <2>2
<1>3. CASE o \in U
  <2> DEFINE ptr == table[o].hashPrev
  <2>1. table[o].id # -1 /\ h \in Chains
    BY <1>3, EntryIs DEF InUse
  <2>2. table[o].hashNext = -1
    BY <1>1, <1>3, ChainLast
  <2>3. /\ HeadsUnlinked(o) = HeadsAfterWrite(heads, ptr, -1)
        /\ TableUnlinked(o) = TableAfterWrite(table, ptr, -1)
    BY <2>1, <2>2 DEF HeadsUnlinked, TableUnlinked, SetPrev
  <2>4. -1 \in Links
    BY DEF Links
  <2>5. HeldBy(heads, table, U, o)
    BY <1>3 DEF Chained
  <2>6. CASE heads[h] = o
    <3>1. ptr = HeadOf(h)
      BY <2>5, <2>6 DEF HeldBy
    <3>2. HeadsUnlinked(o) = [heads EXCEPT ![h] = -1] /\ TableUnlinked(o) = table
      BY <2>1, <2>3, <2>4, <3>1, HeadWritten
    <3>3. Chained([heads EXCEPT ![h] = -1], table, U \ {o}, age)
      BY <1>1, <1>3, <2>6, HeadFreed
    <3>4. [heads EXCEPT ![h] = -1] \in HeadsType
      BY <2>4 DEF HeadsType
    <3> QED BY <3>2, <3>3, <3>4
  <2>7. CASE heads[h] # o
    <3>1. PICK x \in U : table[x].hashNext = o /\ ptr = NextOf(x)
      BY <2>5, <2>7 DEF HeldBy
    <3> DEFINE T == TableAfterWrite(table, NextOf(x), -1)
    <3>2. x \in Entries
      BY <1>1
    <3>3. /\ HeadsAfterWrite(heads, NextOf(x), -1) = heads
          /\ T \in TableType
          /\ \A e \in Entries : /\ T[e].id = table[e].id /\ T[e].hashPrev = table[e].hashPrev
                                /\ T[e].hashNext = IF e = x THEN -1 ELSE table[e].hashNext
      BY <2>4, <3>2, NextWritten
    <3>4. HeadsUnlinked(o) = heads /\ TableUnlinked(o) = T
      BY <2>3, <3>1, <3>3
    <3> HIDE DEF T, U
    <3>5. Chained(heads, T, U \ {o}, age)
      BY <1>1, <1>3, <2>7, <3>1, <3>3, NextFreed DEF U
    <3> QED BY <3>3, <3>4, <3>5 DEF U
  <2> QED BY <2>6, <2>7
<1> QED BY <1>2, <1>3

----------------------------------------------------------------------------
(* Entering an identifier at the head of its chain *)

LEMMA SameOrder ==
  ASSUME NEW age, NEW after, NEW U,
         \A e, d \in U : age[e] > age[d] => after[e] > after[d],
         NEW S \in SUBSET U, NEW e, Leads(e, S, age)
  PROVE  Leads(e, S, after)
BY DEF Leads

\* o is free, the youngest to be, and written in T as the head of the chain of id.
MayEnter(heads, table, U, age, after, o, id, T) ==
  /\ heads \in HeadsType /\ table \in TableType
  /\ U \in SUBSET Entries /\ \A e \in U : table[e].id # -1
  /\ age \in [Entries -> Int] /\ Chained(heads, table, U, age)
  /\ after \in [Entries -> Int]
  /\ \A e, d \in U : after[e] > after[d] <=> age[e] > age[d]
  /\ o \in Entries /\ o \notin U /\ \A e \in U : after[e] > after[o]
  /\ id \in Ids
  /\ T[o].id = id /\ T[o].hashNext = heads[Hash(id)] /\ T[o].hashPrev = HeadOf(Hash(id))
  /\ \A e \in Entries \ {o} :
       /\ T[e].id = table[e].id /\ T[e].hashNext = table[e].hashNext
       /\ T[e].hashPrev = IF e = heads[Hash(id)] THEN NextOf(o) ELSE table[e].hashPrev

LEMMA Entered ==
  ASSUME NEW heads, NEW table, NEW U, NEW age, NEW after, NEW o, NEW id, NEW T,
         MayEnter(heads, table, U, age, after, o, id, T)
  PROVE  Chained([heads EXCEPT ![Hash(id)] = o], T, U \cup {o}, after)
<1> USE DEF MayEnter
<1> DEFINE h == Hash(id)
           H == [heads EXCEPT ![h] = o]
           W == U \cup {o}
<1>1. h \in Chains /\ id # -1
  BY Constants
<1>2. \A e \in U : /\ e \in Entries /\ e # o /\ e # -1
                   /\ T[e].id = table[e].id /\ T[e].hashNext = table[e].hashNext
                   /\ T[e].hashPrev = IF e = heads[h] THEN NextOf(o) ELSE table[e].hashPrev
                   /\ after[e] \in Int /\ age[e] \in Int
  BY Constants
<1>3. T[o].id = id /\ T[o].hashNext = heads[h] /\ T[o].hashPrev = HeadOf(h)
  OBVIOUS
<1>4. after[o] \in Int
  OBVIOUS
<1> HIDE DEF h
<1>5. H[h] = o /\ \A g \in Chains : g # h => H[g] = heads[g]
  BY <1>1 DEF HeadsType
<1> HIDE DEF H
<1>6. \A g : g # h => Kin(T, W, g) = Kin(table, U, g)
  BY <1>2, <1>3 DEF Kin, h
<1>7. Kin(T, W, h) = Kin(table, U, h) \cup {o}
  BY <1>2, <1>3 DEF Kin, h
<1>8. \A g : Kin(table, U, g) \in SUBSET U
  BY DEF Kin
<1>9. ASSUME NEW g \in Chains
      PROVE  /\ Leads(heads[g], Kin(table, U, g), after)
             /\ Leads(H[g], Kin(T, W, g), after)
  <2>1. Leads(heads[g], Kin(table, U, g), age)
    BY DEF Chained
  <2>2. Leads(heads[g], Kin(table, U, g), after)
    BY <1>8, <2>1, SameOrder
  <2>3. CASE g = h
    <3>1. o # -1 /\ \A d \in Kin(T, W, h) : d = o \/ after[d] > after[o]
      BY <1>7, <1>8, Constants
    <3> QED BY <1>5, <1>7, <2>2, <2>3, <3>1 DEF Leads
  <2>4. CASE g # h
    BY <1>5, <1>6, <2>2, <2>4
  <2> QED BY <2>2, <2>3, <2>4
<1>10. ASSUME NEW e \in U
       PROVE  Leads(T[e].hashNext, Older(T, W, e, after), after)
  <2>1. Leads(table[e].hashNext, Older(table, U, e, age), age)
    BY DEF Chained
  <2>2. Older(table, U, e, age) \in SUBSET U
    BY <1>8 DEF Older
  <2>3. Leads(table[e].hashNext, Older(table, U, e, age), after)
    BY <2>1, <2>2, SameOrder
  <2>4. ~ (after[o] > after[e])
    BY <1>2, <1>4
  <2>5. Older(T, W, e, after) = Older(table, U, e, age)
    BY <1>2, <2>4 DEF Older, Kin
  <2> QED BY <1>2, <2>3, <2>5
<1>11. Leads(T[o].hashNext, Older(T, W, o, after), after)
  <2>1. Older(T, W, o, after) = Kin(table, U, h)
    <3>1. Hash(T[o].id) = h
      BY <1>3 DEF h
    <3>2. ~ (after[o] > after[o])
      BY <1>4
    <3> QED BY <1>7, <1>8, <3>1, <3>2 DEF Older
  <2> QED BY <1>1, <1>3, <1>9, <2>1
<1>12. ASSUME NEW e \in U
       PROVE  HeldBy(H, T, W, e)
  <2> DEFINE g == Hash(table[e].id)
  <2>1. g \in Chains /\ T[e].id = table[e].id
    BY <1>2, EntryIs
  <2>2. HeldBy(heads, table, U, e)
    BY DEF Chained
  <2>3. e = heads[h] => g = h
    <3>1. Leads(heads[h], Kin(table, U, h), age)
      BY <1>1 DEF Chained
    <3> QED BY <1>2, <3>1 DEF Leads, Kin
  <2>4. CASE e = heads[h]
    <3>1. T[o].hashNext = e /\ T[e].hashPrev = NextOf(o) /\ H[g] # e
      BY <1>2, <1>3, <1>5, <2>3, <2>4
    <3> QED BY <2>1, <3>1 DEF HeldBy
  <2>5. CASE e # heads[h]
    <3>1. T[e].hashPrev = table[e].hashPrev
      BY <1>2, <2>5
    <3>2. CASE heads[g] = e
      <4>1. g # h /\ H[g] = e
        BY <1>5, <2>1, <2>5, <3>2
      <4> QED BY <2>1, <2>2, <3>1, <3>2, <4>1 DEF HeldBy
    <3>3. CASE heads[g] # e
      <4>1. PICK d \in U : table[d].hashNext = e /\ table[e].hashPrev = NextOf(d)
        BY <2>2, <3>3 DEF HeldBy
      <4>2. d \in W /\ T[d].hashNext = e /\ T[e].hashPrev = NextOf(d)
        BY <1>2, <3>1, <4>1
      <4>3. H[g] # e
        BY <1>2, <1>5, <2>1, <3>3
      <4> QED BY <2>1, <4>2, <4>3 DEF HeldBy
    <3> QED BY <3>2, <3>3
  <2> QED BY <2>4, <2>5
<1>13. HeldBy(H, T, W, o)
  BY <1>3, <1>5 DEF HeldBy, h
<1>14. Chained(H, T, W, after)
  BY <1>9, <1>10, <1>11, <1>12, <1>13 DEF Chained
<1> QED BY <1>14 DEF H, h

----------------------------------------------------------------------------
(* peisk_markAsRepeated *)

LEMMA InitRing == Init => IInv
<1> SUFFICES ASSUME Init
             PROVE  IInv
  OBVIOUS
<1> DEFINE entry == [id |-> -1, hashNext |-> 0, hashPrev |-> Null]
<1>1. /\ nextLoopIndex = 0 /\ loopHashTable = [h \in Chains |-> -1]
      /\ loopTable = [e \in Entries |-> entry]
  BY DEF Init
<1>2. entry \in EntryType /\ entry.id = -1
  <2>1. -1 \in Ids \cup {-1} /\ 0 \in Links /\ Null \in Pointers
    BY Constants DEF Links, Pointers
  <2> QED BY <2>1 DEF EntryType
<1> HIDE DEF entry
<1>3. loopTable \in TableType /\ \A e \in Entries : loopTable[e].id = -1
  BY <1>1, <1>2 DEF TableType
<1>4. loopHashTable \in HeadsType /\ \A h \in Chains : loopHashTable[h] = -1
  BY <1>1 DEF HeadsType, Links
<1>5. InUse(loopTable) = {}
  BY <1>3 DEF InUse
<1>6. Chained(loopHashTable, loopTable, {}, Ages(0))
  BY <1>4 DEF Chained, Leads, Kin
<1>7. FilledUpTo(0, loopTable)
  <2>1. loopTable[0].id = -1
    BY <1>3, Constants
  <2>2. \A e \in Entries : e \in Nat
    BY Constants
  <2>3. \A e \in Entries : ~ (e < 0)
    BY <2>2
  <2>4. {e \in Entries : e < 0} = {}
    BY <2>3
  <2> QED BY <1>5, <2>1, <2>4 DEF FilledUpTo
<1> QED BY <1>1, <1>3, <1>4, <1>5, <1>6, <1>7, Constants DEF IInv, Ring

\* The entry of a new identifier is the only one whose identifier changes.
LEMMA MarkRing ==
  ASSUME IInv, NEW id \in Ids, markAsRepeated(id)
  PROVE  /\ IInv'
         /\ nextLoopIndex' = IF nextLoopIndex + 1 = LOOPINFO_SIZE THEN 0 ELSE nextLoopIndex + 1
         /\ loopTable'[nextLoopIndex].id = id
         /\ \A e \in Entries \ {nextLoopIndex} : loopTable'[e].id = loopTable[e].id
<1> DEFINE o == nextLoopIndex
           U == InUse(loopTable)
           h == Hash(id)
           H1 == HeadsUnlinked(o)
           T1 == TableUnlinked(o)
           old == H1[h]
           new == [id |-> id, hashNext |-> old, hashPrev |-> HeadOf(h)]
           T2 == SetPrev(T1, old, NextOf(o))
           T == [T2 EXCEPT ![o] = new]
           next == (o + 1) % LOOPINFO_SIZE
<1>1. /\ o \in Entries /\ loopHashTable \in HeadsType /\ loopTable \in TableType
      /\ FilledUpTo(o, loopTable) /\ Chained(loopHashTable, loopTable, U, Ages(o))
  BY DEF IInv, Ring
<1>2. nextLoopIndex' = next /\ loopHashTable' = [H1 EXCEPT ![h] = o] /\ loopTable' = T
  BY DEF markAsRepeated
<1>3. /\ next \in Entries
      /\ next = IF o + 1 = LOOPINFO_SIZE THEN 0 ELSE o + 1
      /\ \A e \in Entries : Ages(o)[e] \in 0 .. LOOPINFO_SIZE - 1
      /\ \A e, d \in Entries : Ages(o)[e] = Ages(o)[d] => e = d
      /\ \A e \in Entries \ {o} : Ages(o)[e] < Ages(o)[o] /\ Ages(next)[e] = Ages(o)[e] + 1
      /\ Ages(next)[o] = 0
  BY <1>1, AgesTurn
<1>4. Ages(o) \in [Entries -> Int] /\ Ages(next) \in [Entries -> Int]
  <2>1. o \in Int /\ next \in Int /\ LOOPINFO_SIZE \in Int /\ \A e \in Entries : e \in Int
    BY <1>1, <1>3, Constants
  <2> HIDE DEF next
  <2> QED BY <2>1 DEF Ages
<1> HIDE DEF next
<1>5. /\ H1 \in HeadsType /\ T1 \in TableType
      /\ \A e \in Entries : T1[e].id = loopTable[e].id
      /\ Chained(H1, T1, U \ {o}, Ages(o))
  <2>1. \A e \in Entries : e # o => Ages(o)[e] < Ages(o)[o]
    BY <1>3
  <2> QED BY <1>1, <1>3, <1>4, <2>1, Unlinked
<1>6. h \in Chains /\ id # -1
  BY Constants
<1>7. old \in Links /\ NextOf(o) \in Pointers /\ HeadOf(h) \in Pointers
  BY <1>1, <1>5, <1>6 DEF HeadsType, Pointers
<1> HIDE DEF H1, T1, h
<1>8. /\ T2 \in TableType
      /\ \A e \in Entries : /\ T2[e].id = T1[e].id /\ T2[e].hashNext = T1[e].hashNext
                            /\ T2[e].hashPrev = IF e = old THEN NextOf(o) ELSE T1[e].hashPrev
  BY <1>5, <1>7, PrevSet
<1>9. new \in EntryType /\ new.id = id /\ new.hashNext = old /\ new.hashPrev = HeadOf(h)
  BY <1>7 DEF EntryType
<1> HIDE DEF T2, new
<1>10. /\ T \in TableType /\ T[o] = new /\ \A e \in Entries \ {o} : T[e] = T2[e]
  BY <1>1, <1>8, <1>9 DEF TableType
<1> HIDE DEF T
<1>11. /\ T[o].id = id /\ T[o].hashNext = old /\ T[o].hashPrev = HeadOf(h)
       /\ \A e \in Entries \ {o} :
            /\ T[e].id = T1[e].id /\ T[e].hashNext = T1[e].hashNext
            /\ T[e].hashPrev = IF e = old THEN NextOf(o) ELSE T1[e].hashPrev
  BY <1>8, <1>9, <1>10
<1>12. \A e \in Entries \ {o} : T[e].id = loopTable[e].id
  BY <1>5, <1>11
<1>13. InUse(T) = (U \ {o}) \cup {o}
  BY <1>1, <1>6, <1>11, <1>12 DEF InUse
<1>14. Chained([H1 EXCEPT ![h] = o], T, (U \ {o}) \cup {o}, Ages(next))
  <2> DEFINE V == U \ {o}
  <2>1. V \in SUBSET Entries /\ o \notin V /\ \A e \in V : T1[e].id # -1
    BY <1>5 DEF InUse
  <2>2. ASSUME NEW e \in V, NEW d \in V
        PROVE  Ages(next)[e] > Ages(next)[d] <=> Ages(o)[e] > Ages(o)[d]
    <3>1. e \in Entries \ {o} /\ d \in Entries \ {o}
      BY <2>1
    <3>2. /\ Ages(next)[e] = Ages(o)[e] + 1 /\ Ages(next)[d] = Ages(o)[d] + 1
          /\ Ages(o)[e] \in Int /\ Ages(o)[d] \in Int
      BY <1>3, <1>4, <3>1
    <3> QED BY <3>2
  <2>3. ASSUME NEW e \in V
        PROVE  Ages(next)[e] > Ages(next)[o]
    BY <1>3, <1>4, <2>1
  <2> HIDE DEF V
  <2>4. Chained(H1, T1, V, Ages(o))
    BY <1>5 DEF V
  <2>5. h = Hash(id) /\ old = H1[h]
    BY DEF h
  <2> HIDE DEF old, h
  <2>6. T[o].id = id /\ T[o].hashNext = H1[Hash(id)] /\ T[o].hashPrev = HeadOf(Hash(id))
    BY <1>11, <2>5
  <2>7. \A e \in Entries \ {o} :
          /\ T[e].id = T1[e].id /\ T[e].hashNext = T1[e].hashNext
          /\ T[e].hashPrev = IF e = H1[Hash(id)] THEN NextOf(o) ELSE T1[e].hashPrev
    BY <1>11, <2>5
  <2>8. \A e, d \in V : Ages(next)[e] > Ages(next)[d] <=> Ages(o)[e] > Ages(o)[d]
    BY <2>2
  <2>9. \A e \in V : Ages(next)[e] > Ages(next)[o]
    BY <2>3
  <2>10. Chained([H1 EXCEPT ![Hash(id)] = o], T, V \cup {o}, Ages(next))
    <3>1. H1 \in HeadsType /\ T1 \in TableType /\ o \in Entries
      BY <1>1, <1>5
    <3>2. MayEnter(H1, T1, V, Ages(o), Ages(next), o, id, T)
      BY <1>4, <2>1, <2>4, <2>6, <2>7, <2>8, <2>9, <3>1 DEF MayEnter
    <3> QED BY <3>2, Entered
  <2>11. Chained([H1 EXCEPT ![h] = o], T, V \cup {o}, Ages(next))
    BY <2>5, <2>10
  <2> QED BY <2>11 DEF V
<1>15. FilledUpTo(next, T)
  <2>1. U = IF loopTable[o].id = -1 THEN {e \in Entries : e < o} ELSE Entries
    BY <1>1 DEF FilledUpTo
  <2>2. \A e \in Entries : e \in Nat /\ e < LOOPINFO_SIZE
    BY Constants
  <2>3. o \in Nat /\ o < LOOPINFO_SIZE /\ LOOPINFO_SIZE \in Nat
    BY <1>1, Constants
  <2>4. CASE loopTable[o].id # -1
    <3>1. InUse(T) = Entries
      BY <1>1, <1>13, <2>1, <2>4
    <3>2. T[next].id # -1
      BY <1>3, <3>1 DEF InUse
    <3> QED BY <3>1, <3>2 DEF FilledUpTo
  <2>5. CASE loopTable[o].id = -1 /\ o + 1 = LOOPINFO_SIZE
    <3>1. \A e \in Entries : e < o \/ e = o
      BY <2>2, <2>3, <2>5
    <3>2. InUse(T) = Entries
      BY <1>1, <1>13, <2>1, <2>5, <3>1
    <3>3. T[next].id # -1
      BY <1>3, <3>2 DEF InUse
    <3> QED BY <3>2, <3>3 DEF FilledUpTo
  <2>6. CASE loopTable[o].id = -1 /\ o + 1 # LOOPINFO_SIZE
    <3>1. next = o + 1
      BY <1>3, <2>6
    <3>2. \A e \in Entries : e < next <=> e < o \/ e = o
      BY <2>2, <2>3, <3>1
    <3>3. InUse(T) = {e \in Entries : e < next}
      BY <1>1, <1>13, <2>1, <2>6, <3>2
    <3>4. next \notin InUse(T)
      BY <2>3, <3>1, <3>3
    <3>5. T[next].id = -1
      BY <1>3, <3>4 DEF InUse
    <3> QED BY <3>3, <3>5 DEF FilledUpTo
  <2> QED BY <2>4, <2>5, <2>6
<1>16. [H1 EXCEPT ![h] = o] \in HeadsType
  BY <1>1, <1>5 DEF HeadsType, Links
<1>17. Ring(next, [H1 EXCEPT ![h] = o], T)
  BY <1>3, <1>10, <1>13, <1>14, <1>15, <1>16 DEF Ring
<1>18. IInv'
  BY <1>2, <1>17 DEF IInv
<1> QED BY <1>2, <1>3, <1>11, <1>12, <1>18

LEMMA RingStep == IInv /\ [Next]_vars => IInv'
<1> SUFFICES ASSUME IInv, [Next]_vars
             PROVE  IInv'
  OBVIOUS
<1>1. ASSUME NEW id \in Ids, markAsRepeated(id)
      PROVE  IInv'
  BY <1>1, MarkRing
<1>2. CASE UNCHANGED vars
  BY <1>2 DEF vars, IInv
<1> QED BY <1>1, <1>2 DEF Next

LEMMA RingAlways == Spec => []IInv
BY InitRing, RingStep, PTL DEF Spec

\* Each chain is the used entries of its hash value.
LEMMA ChainsAre ==
  ASSUME IInv, NEW h \in Chains
  PROVE  LET walk == ChainFrom(loopTable, loopHashTable[h]) IN
         /\ walk[Len(walk)] = -1
         /\ Chain(h) = Kin(loopTable, InUse(loopTable), h)
<1> DEFINE S == Kin(loopTable, InUse(loopTable), h)
           age == Ages(nextLoopIndex)
           start == loopHashTable[h]
<1>1. /\ nextLoopIndex \in Entries /\ loopHashTable \in HeadsType /\ loopTable \in TableType
      /\ Chained(loopHashTable, loopTable, InUse(loopTable), age)
  BY DEF IInv, Ring
<1>2. age \in [Entries -> 0 .. LOOPINFO_SIZE - 1]
  <2>1. \A e \in Entries : age[e] \in 0 .. LOOPINFO_SIZE - 1
    BY <1>1, AgesTurn
  <2>2. age = [e \in Entries |-> age[e]]
    BY DEF Ages
  <2> HIDE DEF age
  <2> QED BY <2>1, <2>2
<1>3. start \in Links
  BY <1>1 DEF HeadsType
<1>4. Linked(loopTable, start, S, age)
  <2>1. S \subseteq InUse(loopTable) /\ S \subseteq Entries
    BY DEF Kin, InUse
  <2>2. Leads(start, S, age)
    BY <1>1 DEF Chained
  <2>3. ASSUME NEW e \in S
        PROVE  /\ loopTable[e].hashNext \in Links
               /\ Leads(loopTable[e].hashNext, {d \in S : age[d] > age[e]}, age)
    <3>1. Leads(loopTable[e].hashNext, Older(loopTable, InUse(loopTable), e, age), age)
      BY <1>1, <2>1 DEF Chained
    <3>2. Older(loopTable, InUse(loopTable), e, age) = {d \in S : age[d] > age[e]}
      BY DEF Older, Kin
    <3> QED BY <1>1, <2>1, <3>1, <3>2, EntryIs
  <2> QED BY <2>1, <2>2, <2>3 DEF Linked
<1> HIDE DEF S, age, start
<1> DEFINE walk == ChainFrom(loopTable, start)
<1>5. walk[Len(walk)] = -1 /\ {walk[i] : i \in DOMAIN walk} \ {-1} = S
  BY <1>2, <1>3, <1>4, WalkCovers
<1>6. Chain(h) = S
  BY <1>5 DEF Chain, start
<1> QED BY <1>5, <1>6 DEF S, start

\* A package is recognised if and only if an entry holds its identifier.
LEMMA RepeatedIs ==
  ASSUME IInv, NEW id \in Ids
  PROVE  isRepeated(id) <=> \E e \in InUse(loopTable) : loopTable[e].id = id
<1>1. Hash(id) \in Chains
  BY Constants
<1>2. Chain(Hash(id)) = Kin(loopTable, InUse(loopTable), Hash(id))
  BY <1>1, ChainsAre
<1> QED BY <1>2 DEF isRepeated, Kin

----------------------------------------------------------------------------
(* The ring read from its oldest entry on *)

WindowOf(next, table) ==
  LET full == table[next].id # -1
      n == IF full THEN LOOPINFO_SIZE ELSE next
      first == IF full THEN next ELSE 0
  IN  [i \in 1 .. n |-> table[(first + i - 1) % LOOPINFO_SIZE].id]

\* What the entries hold.
Held(table) == {table[e].id : e \in Entries}

\* The i-th entry of the ring from the entry next on.
Forward(next, i) ==
  IF next + i - 1 < LOOPINFO_SIZE THEN next + i - 1 ELSE next + i - 1 - LOOPINFO_SIZE

LEMMA ForwardIs ==
  ASSUME NEW next \in Entries, NEW i \in 1 .. LOOPINFO_SIZE
  PROVE  /\ Forward(next, i) \in Entries
         /\ (next + i - 1) % LOOPINFO_SIZE = Forward(next, i)
<1>1. next \in Nat /\ next < LOOPINFO_SIZE /\ LOOPINFO_SIZE \in Nat \ {0}
  BY Constants
<1>2. Forward(next, i) \in Nat /\ Forward(next, i) < LOOPINFO_SIZE
  BY <1>1 DEF Forward
<1>3. Forward(next, i) \in Entries
  BY <1>2, Constants
<1> DEFINE a == next + i - 1
<1>4. a \in Nat /\ a < 2 * LOOPINFO_SIZE
  BY <1>1
<1>5. Forward(next, i) = IF a < LOOPINFO_SIZE THEN a ELSE a - LOOPINFO_SIZE
  BY <1>1 DEF Forward
<1> HIDE DEF a
<1>6. a % LOOPINFO_SIZE = Forward(next, i)
  BY <1>4, <1>5, Around
<1> QED BY <1>3, <1>6 DEF a

LEMMA WindowIs ==
  ASSUME NEW next \in Entries, NEW table
  PROVE  LET w == WindowOf(next, table) IN
         /\ table[next].id = -1 =>
              /\ w \in [1 .. next -> Held(table)] /\ Len(w) = next
              /\ \A i \in 1 .. next : i - 1 \in Entries /\ w[i] = table[i - 1].id
         /\ table[next].id # -1 =>
              /\ w \in [1 .. LOOPINFO_SIZE -> Held(table)]
              /\ Len(w) = LOOPINFO_SIZE
              /\ \A i \in 1 .. LOOPINFO_SIZE :
                   /\ Forward(next, i) \in Entries
                   /\ w[i] = table[Forward(next, i)].id
<1> DEFINE w == WindowOf(next, table)
           R == Held(table)
<1>1. next \in Nat /\ next < LOOPINFO_SIZE /\ LOOPINFO_SIZE \in Nat \ {0}
  BY Constants
<1>2. ASSUME table[next].id = -1
      PROVE  /\ w \in [1 .. next -> R] /\ Len(w) = next
             /\ \A i \in 1 .. next : i - 1 \in Entries /\ w[i] = table[i - 1].id
  <2>1. w = [i \in 1 .. next |-> table[(0 + i - 1) % LOOPINFO_SIZE].id]
    BY <1>2 DEF WindowOf
  <2>2. ASSUME NEW i \in 1 .. next
        PROVE  i - 1 \in Entries /\ (0 + i - 1) % LOOPINFO_SIZE = i - 1
    <3>1. i - 1 \in Nat /\ i - 1 < LOOPINFO_SIZE /\ 0 + i - 1 = i - 1 /\ i - 1 < 2 * LOOPINFO_SIZE
      BY <1>1
    <3> QED BY <3>1, Around, Constants
  <2> HIDE DEF w
  <2>3. w = [i \in 1 .. next |-> table[i - 1].id]
    BY <2>1, <2>2
  <2>4. w \in [1 .. next -> R]
    BY <2>2, <2>3 DEF Held
  <2>5. Len(w) = next
    BY <1>1, <2>3
  <2> QED BY <2>2, <2>3, <2>4, <2>5
<1>3. ASSUME table[next].id # -1
      PROVE  /\ w \in [1 .. LOOPINFO_SIZE -> R] /\ Len(w) = LOOPINFO_SIZE
             /\ \A i \in 1 .. LOOPINFO_SIZE :
                  Forward(next, i) \in Entries /\ w[i] = table[Forward(next, i)].id
  <2>1. w = [i \in 1 .. LOOPINFO_SIZE |-> table[(next + i - 1) % LOOPINFO_SIZE].id]
    BY <1>3 DEF WindowOf
  <2> HIDE DEF w
  <2>2. w = [i \in 1 .. LOOPINFO_SIZE |-> table[Forward(next, i)].id]
    BY <2>1, ForwardIs
  <2>3. w \in [1 .. LOOPINFO_SIZE -> R]
    BY <2>2, ForwardIs DEF Held
  <2>4. Len(w) = LOOPINFO_SIZE
    BY <1>1, <2>2
  <2> QED BY <2>2, <2>3, <2>4, ForwardIs
<1> QED BY <1>2, <1>3

LEMMA WindowHere ==
  /\ Window = WindowOf(nextLoopIndex, loopTable)
  /\ Window' = WindowOf(nextLoopIndex', loopTable')
BY DEF Window, WindowOf

\* A search of the window finds what some entry holds.
LEMMA RememberedIs ==
  ASSUME IInv, NEW id
  PROVE  IsRepeated(Window, id) <=> \E e \in InUse(loopTable) : loopTable[e].id = id
<1> DEFINE o == nextLoopIndex
           table == loopTable
           w == WindowOf(o, table)
<1>1. o \in Entries /\ FilledUpTo(o, table)
  BY DEF IInv, Ring
<1>2. o \in Nat /\ o < LOOPINFO_SIZE /\ LOOPINFO_SIZE \in Nat
  BY <1>1, Constants
<1>3. \A e \in Entries : e \in Nat /\ e < LOOPINFO_SIZE
  BY Constants
<1>4. CASE table[o].id = -1
  <2>1. InUse(table) = {e \in Entries : e < o}
    BY <1>1, <1>4 DEF FilledUpTo
  <2>2. DOMAIN w = 1 .. o /\ \A i \in 1 .. o : i - 1 \in Entries /\ w[i] = table[i - 1].id
    BY <1>1, <1>4, WindowIs
  <2> HIDE DEF w
  <2>3. ASSUME NEW i \in DOMAIN w, w[i] = id
        PROVE  \E e \in InUse(table) : table[e].id = id
    <3>1. i - 1 \in InUse(table) /\ table[i - 1].id = id
      BY <1>2, <2>1, <2>2, <2>3
    <3> QED BY <3>1
  <2>4. ASSUME NEW e \in InUse(table), table[e].id = id
        PROVE  \E i \in DOMAIN w : w[i] = id
    <3>1. e + 1 \in 1 .. o /\ (e + 1) - 1 = e
      BY <1>2, <1>3, <2>1
    <3>2. w[e + 1] = id
      BY <2>2, <2>4, <3>1
    <3> QED BY <2>2, <3>1, <3>2
  <2>5. (\E i \in DOMAIN w : w[i] = id) <=> \E e \in InUse(table) : table[e].id = id
    BY <2>3, <2>4
  <2> QED BY <2>5, WindowHere DEF w, IsRepeated, Remembered
<1>5. CASE table[o].id # -1
  <2>1. InUse(table) = Entries
    BY <1>1, <1>5 DEF FilledUpTo
  <2>2. /\ DOMAIN w = 1 .. LOOPINFO_SIZE
        /\ \A i \in 1 .. LOOPINFO_SIZE :
             Forward(o, i) \in Entries /\ w[i] = table[Forward(o, i)].id
    BY <1>1, <1>5, WindowIs
  <2> HIDE DEF w
  <2>3. ASSUME NEW i \in DOMAIN w, w[i] = id
        PROVE  \E e \in InUse(table) : table[e].id = id
    BY <2>1, <2>2, <2>3
  <2>4. ASSUME NEW e \in InUse(table), table[e].id = id
        PROVE  \E i \in DOMAIN w : w[i] = id
    <3> DEFINE i == IF e < o THEN e - o + 1 + LOOPINFO_SIZE ELSE e - o + 1
    <3>1. i \in 1 .. LOOPINFO_SIZE /\ Forward(o, i) = e
      BY <1>2, <1>3, <2>1 DEF Forward
    <3> HIDE DEF i
    <3> QED BY <2>2, <2>4, <3>1
  <2>5. (\E i \in DOMAIN w : w[i] = id) <=> \E e \in InUse(table) : table[e].id = id
    BY <2>3, <2>4
  <2> QED BY <2>5, WindowHere DEF w, IsRepeated, Remembered
<1> QED BY <1>4, <1>5

\* Appending to and dropping the first of a sequence of n, as functions.
Pushed(n, w, x) == [i \in 1 .. n + 1 |-> IF i = n + 1 THEN x ELSE w[i]]

LEMMA Appended ==
  ASSUME NEW n \in Nat, NEW R, NEW w \in [1 .. n -> R], NEW x
  PROVE  Append(w, x) = Pushed(n, w, x)
<1>1. w \in Seq(R \cup {x}) /\ Len(w) = n
  OBVIOUS
<1> DEFINE a == Append(w, x)
<1>2. /\ a \in Seq(R \cup {x}) /\ Len(a) = n + 1
      /\ \A i \in 1 .. n : a[i] = w[i]
      /\ a[n + 1] = x
  BY <1>1, AppendProperties
<1> HIDE DEF a
<1>3. a = [i \in 1 .. n + 1 |-> a[i]]
  BY <1>2, LenProperties
<1>4. ASSUME NEW i \in 1 .. n + 1
      PROVE  a[i] = IF i = n + 1 THEN x ELSE w[i]
  BY <1>2
<1>5. a = Pushed(n, w, x)
  BY <1>3, <1>4 DEF Pushed
<1> QED BY <1>5 DEF a

LEMMA Shifted ==
  ASSUME NEW n \in Nat \ {0}, NEW R, NEW w \in [1 .. n -> R]
  PROVE  Tail(w) = [i \in 1 .. n - 1 |-> w[i + 1]]
<1>1. w \in Seq(R) /\ Len(w) = n /\ w # <<>>
  OBVIOUS
<1> DEFINE t == Tail(w)
<1>2. t \in Seq(R) /\ Len(t) = n - 1 /\ \A i \in 1 .. n - 1 : t[i] = w[i + 1]
  BY <1>1, HeadTailProperties
<1> HIDE DEF t
<1>3. t = [i \in 1 .. n - 1 |-> t[i]]
  BY <1>2, LenProperties
<1> QED BY <1>2, <1>3 DEF t

\* A new identifier enters the window as it does in SeenMemory.
LEMMA MarkWindow ==
  ASSUME IInv, NEW id \in Ids, markAsRepeated(id)
  PROVE  Window' = MarkAsRepeated(LOOPINFO_SIZE, Window, id)
<1> DEFINE o == nextLoopIndex
           next == nextLoopIndex'
           S == loopTable
           T == loopTable'
           w == WindowOf(o, S)
           v == WindowOf(next, T)
           R == Held(S)
<1>1. /\ o \in Entries /\ o \in Nat /\ o < LOOPINFO_SIZE /\ LOOPINFO_SIZE \in Nat
      /\ FilledUpTo(o, S) /\ id # -1
  BY Constants DEF IInv, Ring
<1>2. /\ IInv' /\ next = IF o + 1 = LOOPINFO_SIZE THEN 0 ELSE o + 1
      /\ T[o].id = id /\ \A e \in Entries \ {o} : T[e].id = S[e].id
  BY MarkRing
<1>3. next \in Entries /\ FilledUpTo(next, T)
  BY <1>2 DEF IInv, Ring
<1>4. ~ IsRepeated(w, id)
  <2>1. ~ isRepeated(id)
    BY DEF markAsRepeated
  <2>2. ~ IsRepeated(Window, id)
    BY <2>1, RepeatedIs, RememberedIs
  <2> QED BY <2>2, WindowHere
<1>5. \A e \in Entries : e \in Nat /\ e < LOOPINFO_SIZE
  BY Constants
<1>6. CASE S[o].id = -1
  <2>1. /\ w \in [1 .. o -> R] /\ Len(w) = o
        /\ \A i \in 1 .. o : i - 1 \in Entries /\ w[i] = S[i - 1].id
    BY <1>1, <1>6, WindowIs
  <2>2. \A i \in 1 .. o : i - 1 \in Entries \ {o} /\ w[i] = T[i - 1].id
    <3>1. \A i \in 1 .. o : i - 1 \in Nat /\ i - 1 < LOOPINFO_SIZE /\ i - 1 # o
      BY <1>1
    <3> QED BY <1>2, <2>1, <3>1, Constants
  <2> HIDE DEF w
  <2>3. MarkAsRepeated(LOOPINFO_SIZE, w, id) = Append(w, id)
    BY <1>1, <1>4, <2>1 DEF MarkAsRepeated
  <2>4. Append(w, id) = Pushed(o, w, id)
    <3> HIDE DEF R
    <3> QED BY <1>1, <2>1, Appended
  <2>5. Append(w, id) = [i \in 1 .. o + 1 |-> T[i - 1].id]
    <3>1. (o + 1) - 1 = o
      BY <1>1
    <3>2. \A i \in 1 .. o + 1 : i # o + 1 => i \in 1 .. o
      BY <1>1
    <3> QED BY <1>2, <2>2, <2>4, <3>1, <3>2 DEF Pushed
  <2>6. CASE o + 1 # LOOPINFO_SIZE
    <3>1. next = o + 1
      BY <1>2, <2>6
    <3>2. InUse(S) = {e \in Entries : e < o}
      BY <1>1, <1>6 DEF FilledUpTo
    <3>3. next \notin InUse(S) /\ next # o
      BY <1>1, <3>1, <3>2
    <3>4. T[next].id = -1
      BY <1>2, <1>3, <3>3 DEF InUse
    <3>5. v \in [1 .. next -> Held(T)] /\ \A i \in 1 .. next : v[i] = T[i - 1].id
      BY <1>3, <3>4, WindowIs
    <3> HIDE DEF v, next
    <3>6. v = [i \in 1 .. o + 1 |-> T[i - 1].id]
      BY <3>1, <3>5
    <3> QED BY <2>3, <2>5, <3>6, WindowHere DEF v, w, next
  <2>7. CASE o + 1 = LOOPINFO_SIZE
    <3>1. next = 0
      BY <1>2, <2>7
    <3>2. o \in InUse(T)
      BY <1>1, <1>2 DEF InUse
    <3>3. ~ (o < 0)
      BY <1>1
    <3>4. T[next].id # -1
      BY <1>3, <3>1, <3>2, <3>3 DEF FilledUpTo
    <3>5. /\ v \in [1 .. LOOPINFO_SIZE -> Held(T)]
          /\ \A i \in 1 .. LOOPINFO_SIZE : v[i] = T[Forward(next, i)].id
      BY <1>3, <3>4, WindowIs
    <3>6. \A i \in 1 .. LOOPINFO_SIZE : Forward(next, i) = i - 1
      BY <1>1, <3>1 DEF Forward
    <3> HIDE DEF v, next
    <3>7. v = [i \in 1 .. o + 1 |-> T[i - 1].id]
      BY <2>7, <3>5, <3>6
    <3> QED BY <2>3, <2>5, <3>7, WindowHere DEF v, w, next
  <2> QED BY <2>6, <2>7
<1>7. CASE S[o].id # -1
  <2>1. /\ w \in [1 .. LOOPINFO_SIZE -> R] /\ Len(w) = LOOPINFO_SIZE
        /\ \A i \in 1 .. LOOPINFO_SIZE : Forward(o, i) \in Entries /\ w[i] = S[Forward(o, i)].id
    BY <1>1, <1>7, WindowIs
  <2>2. InUse(S) = Entries
    BY <1>1, <1>7 DEF FilledUpTo
  <2>3. next \in InUse(T)
    BY <1>1, <1>2, <1>3, <2>2 DEF InUse
  <2>4. T[next].id # -1
    BY <2>3 DEF InUse
  <2>5. /\ v \in [1 .. LOOPINFO_SIZE -> Held(T)]
        /\ \A i \in 1 .. LOOPINFO_SIZE : v[i] = T[Forward(next, i)].id
    BY <1>3, <2>4, WindowIs
  <2> HIDE DEF w, v
  <2>6. MarkAsRepeated(LOOPINFO_SIZE, w, id) = Append(Tail(w), id)
    BY <1>1, <1>4, <2>1 DEF MarkAsRepeated
  <2>7. LOOPINFO_SIZE \in Nat \ {0}
    BY Constants
  <2> DEFINE t == [i \in 1 .. LOOPINFO_SIZE - 1 |-> w[i + 1]]
             n == LOOPINFO_SIZE - 1
  <2>8. Tail(w) = t
    BY <2>1, <2>7, Shifted
  <2>9. n \in Nat /\ n + 1 = LOOPINFO_SIZE /\ \A i \in 1 .. n : i + 1 \in 1 .. LOOPINFO_SIZE
    BY <2>7
  <2>10. t \in [1 .. n -> R] /\ \A i \in 1 .. n : t[i] = w[i + 1]
    BY <2>1, <2>9
  <2> HIDE DEF t
  <2>11. Append(t, id) = Pushed(n, t, id)
    <3> HIDE DEF n, R
    <3> QED BY <2>9, <2>10, Appended
  <2>12. /\ Forward(next, LOOPINFO_SIZE) = o
         /\ \A i \in 1 .. LOOPINFO_SIZE :
              i # LOOPINFO_SIZE => Forward(next, i) = Forward(o, i + 1) /\ Forward(next, i) # o
    BY <1>1, <1>2 DEF Forward
  <2> HIDE DEF next
  <2>13. ASSUME NEW i \in 1 .. LOOPINFO_SIZE
         PROVE  v[i] = IF i = n + 1 THEN id ELSE t[i]
    <3>1. CASE i = LOOPINFO_SIZE
      BY <1>2, <2>5, <2>9, <2>12, <3>1
    <3>2. CASE i # LOOPINFO_SIZE
      <4>1. i \in 1 .. n /\ i + 1 \in 1 .. LOOPINFO_SIZE /\ i # n + 1
        BY <2>7, <2>9, <3>2
      <4>2. Forward(next, i) = Forward(o, i + 1) /\ Forward(next, i) \in Entries \ {o}
        BY <2>1, <2>12, <3>2, <4>1
      <4>3. v[i] = S[Forward(o, i + 1)].id
        BY <1>2, <2>5, <4>2
      <4> QED BY <2>1, <2>10, <4>1, <4>3
    <3> QED BY <3>1, <3>2
  <2>14. v = Pushed(n, t, id)
    <3> HIDE DEF n
    <3> QED BY <2>5, <2>9, <2>13 DEF Pushed
  <2> QED BY <2>6, <2>8, <2>11, <2>14, WindowHere DEF v, w, next
<1> QED BY <1>6, <1>7

----------------------------------------------------------------------------
(* The theorems *)

\* isRepeated (p2p.c:1135), which looks in one hash chain only, knows a package
\* identifier if and only if it is among the last LOOPINFO_SIZE entered.
THEOREM ChainsRemember == Spec => []RepeatedIffRemembered
<1>1. IInv => RepeatedIffRemembered
  BY RepeatedIs, RememberedIs DEF RepeatedIffRemembered
<1> QED BY <1>1, RingAlways, PTL

\* Whatever entry peisk_markAsRepeated is about to reuse, the field its hashPrev
\* points to holds that entry, so the unlink of p2p.c:1163 takes it out of its
\* chain and nothing else.
THEOREM UnlinkIsExact == Spec => []PrevPointersExact
<1>1. IInv => PrevPointersExact
  <2> SUFFICES ASSUME IInv, NEW e \in InUse(loopTable)
               PROVE  /\ e \in Chain(Hash(loopTable[e].id))
                      /\ \/ \E h \in Chains : loopTable[e].hashPrev = HeadOf(h)
                                              /\ loopHashTable[h] = e
                         \/ \E d \in InUse(loopTable) : loopTable[e].hashPrev = NextOf(d)
                                                        /\ loopTable[d].hashNext = e
    BY DEF PrevPointersExact, Used, InUse
  <2> DEFINE h == Hash(loopTable[e].id)
  <2>1. h \in Chains
    BY EntryIs DEF IInv, Ring, InUse
  <2>2. e \in Chain(h)
    <3>1. Chain(h) = Kin(loopTable, InUse(loopTable), h)
      BY <2>1, ChainsAre
    <3> QED BY <3>1 DEF Kin
  <2>3. HeldBy(loopHashTable, loopTable, InUse(loopTable), e)
    BY DEF IInv, Ring, Chained
  <2> QED BY <2>1, <2>2, <2>3 DEF HeldBy
<1> QED BY <1>1, RingAlways, PTL

\* The loop of isRepeated over a chain (p2p.c:1144) ends, whatever was entered
\* and overwritten before.
THEOREM WalksEnd == Spec => []ChainsEnd
<1>1. IInv => ChainsEnd
  BY ChainsAre DEF ChainsEnd
<1> QED BY <1>1, RingAlways, PTL

\* The ring and its chains implement SeenMemory, whatever their sizes: each
\* peisk_markAsRepeated is one Mark of the memory of the last LOOPINFO_SIZE
\* identifiers.
THEOREM RingIsMemory == Spec => ImplementsMemory
<1>1. Init => Memory!Init
  <2> SUFFICES ASSUME Init
               PROVE  Window = <<>>
    BY DEF Memory!Init
  <2>1. nextLoopIndex = 0 /\ loopTable[0].id = -1
    BY Constants DEF Init
  <2>2. Window = [i \in 1 .. 0 |-> loopTable[(0 + i - 1) % LOOPINFO_SIZE].id]
    BY <2>1 DEF Window
  <2> QED BY <2>2
<1>2. IInv /\ [Next]_vars => [Memory!Next]_Window
  <2> SUFFICES ASSUME IInv, [Next]_vars
               PROVE  Memory!Next \/ Window' = Window
    OBVIOUS
  <2>1. ASSUME NEW id \in Ids, markAsRepeated(id)
        PROVE  Memory!Next
    <3>1. Window' = MarkAsRepeated(LOOPINFO_SIZE, Window, id)
      BY <2>1, MarkWindow
    <3> QED BY <3>1 DEF Memory!Next, Memory!Mark, Memory!MarkAsRepeated, MarkAsRepeated,
                        Memory!IsRepeated, IsRepeated, Memory!Remembered, Remembered
  <2>2. CASE UNCHANGED vars
    BY <2>2 DEF vars, Window
  <2> QED BY <2>1, <2>2 DEF Next
<1> QED BY <1>1, <1>2, RingAlways, PTL DEF Spec, ImplementsMemory, Memory!Spec
=============================================================================
