---------------------------- MODULE SeenWindow ----------------------------
(***************************************************************************)
(* What a peis remembers of the package identifiers it has met: the last   *)
(* `size' distinct ones, oldest first.  LoopDetection shows that the ring  *)
(* and the hash chains of p2p.c compute exactly these two operators.       *)
(***************************************************************************)
EXTENDS Naturals, Sequences

\* The identifiers a window remembers.
Remembered(w) == {w[i] : i \in DOMAIN w}

\* peisk_isRepeated
IsRepeated(w, id) == id \in Remembered(w)

\* peisk_markAsRepeated: a known identifier keeps its place, a new one
\* pushes the oldest out of a full window.
MarkAsRepeated(size, w, id) ==
  IF IsRepeated(w, id) THEN w
  ELSE IF Len(w) < size THEN Append(w, id)
  ELSE Append(Tail(w), id)
===========================================================================
