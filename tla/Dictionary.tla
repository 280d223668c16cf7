----------------------------- MODULE Dictionary -----------------------------
(***************************************************************************)
(* What a hash table promises (hashtable.h:73-109): a map from keys to     *)
(* values, its size, and a loop over it that comes to every entry that     *)
(* stays once, whatever else is removed meanwhile.  A loop whose body adds *)
(* an entry or removes the one it is at must not be continued.             *)
(***************************************************************************)
EXTENDS FiniteSets

CONSTANTS Keys, Values, NoKey
VARIABLES
  entries,  \* keys and what they are mapped to, as pairs
  size,
  current,  \* the key the loop has come to, or NoKey
  left      \* the keys it has still to come to

vars == <<entries, size, current, left>>
loop == <<current, left>>

NoLoop == current' = NoKey /\ left' = {}
Hold(pairs) == entries' = pairs /\ size' = Cardinality(pairs)
Mapped == {e[1] : e \in entries}
Others(k) == {e \in entries : e[1] # k}

Init ==
  /\ entries = {}
  /\ size = 0
  /\ current = NoKey /\ left = {}

Put(k, v) ==
  /\ Hold(Others(k) \cup {<<k, v>>})
  /\ IF k \in Mapped THEN UNCHANGED loop ELSE NoLoop

Drop(k) ==
  /\ Hold(Others(k))
  /\ IF k = current THEN NoLoop ELSE left' = left \ {k} /\ UNCHANGED current

Clear == Hold({}) /\ NoLoop

First ==
  /\ current' = NoKey
  /\ left' = Mapped
  /\ UNCHANGED <<entries, size>>

Advance(k) ==
  /\ current' = k
  /\ left' = left \ {k}
  /\ UNCHANGED <<entries, size>>

End == left = {} /\ NoLoop /\ UNCHANGED <<entries, size>>

Next ==
  \/ \E k \in Keys, v \in Values : Put(k, v)
  \/ \E k \in Mapped : Drop(k)
  \/ \E k \in left : Advance(k)
  \/ Clear \/ First \/ End

Spec == Init /\ [][Next]_vars
=============================================================================
