------------------------------- MODULE Regions -------------------------------
(***************************************************************************)
(* The contents of a replacement_map (replacement_map.h and .cc) and what  *)
(* its operations compute.  A map is a set of regions, each a run of bytes *)
(* at an offset; the code keeps them in a tree ordered by that offset.     *)
(***************************************************************************)
EXTENDS Naturals, Sequences

CONSTANT None   \* no byte

Region(first, data) == [first |-> first, data |-> data]
EndOf(r)            == r.first + Len(r.data)

KeepFront(r, n) == Region(r.first, SubSeq(r.data, 1, n))
KeepBack(r, n)  ==
  Region(EndOf(r) - n, SubSeq(r.data, Len(r.data) - n + 1, Len(r.data)))

(***************************************************************************)
(* What the tree's searches find: the last region that begins at or before *)
(* an offset (std::prev of upper_bound), and those that begin after it.    *)
(***************************************************************************)
AtOrBefore(m, off) ==
  {r \in m : r.first <= off /\ \A q \in m : q.first <= off => q.first <= r.first}
After(m, off)      == {r \in m : r.first > off}
Holding(m, off)    == {r \in AtOrBefore(m, off) : EndOf(r) > off}

(***************************************************************************)
(* read_at: the bytes of the one region at off, and how many bytes of the  *)
(* request are left: all, or as far as the next region if there is none.   *)
(***************************************************************************)
Least(a, b) == IF a <= b THEN a ELSE b

Unclamped(m, off, n) == n
ClampToGap(m, off, n) ==
  CHOOSE k \in 0 .. n : /\ \A r \in After(m, off) : k <= r.first - off
                        /\ k = n \/ \E r \in After(m, off) : k = r.first - off

ReadAt(m, off, n) ==
  IF Holding(m, off) = {}
  THEN [data |-> <<>>, left |-> ClampToGap(m, off, n)]
  ELSE LET r == CHOOSE r \in Holding(m, off) : TRUE
           k == off - r.first
       IN  [data |-> SubSeq(r.data, k + 1, k + Least(n, Len(r.data) - k)), left |-> n]

(***************************************************************************)
(* A write is prepared as the regions to erase and those to insert         *)
(* (replacement_map::tx).  One that overwrites cuts the regions it meets;  *)
(* an allocation that fails, and then splits the new region, is left out.  *)
(***************************************************************************)
NewRegion(off, data) == IF data = <<>> THEN {} ELSE {Region(off, data)}

ReplacedWhole(m, off, end) ==
  Holding(m, off) \union {r \in After(m, off) : EndOf(r) <= end}
Overwritten(m, off, end) ==
  Holding(m, off) \union {r \in After(m, off) : r.first < end}

KeptFronts(E, off, end) ==
  {KeepFront(r, off - r.first) : r \in {x \in E : x.first < off}}
Kept(E, off, end) ==
  {KeepFront(r, off - r.first) : r \in {x \in E : x.first < off}} \union
  {KeepBack(r, EndOf(r) - end) : r \in {x \in E : EndOf(x) > end}}

OverwriteTx(m, off, data) ==
  LET end == off + Len(data)
      E   == Overwritten(m, off, end)
  IN  [erase |-> E, insert |-> Kept(E, off, end) \union NewRegion(off, data)]

(***************************************************************************)
(* One that does not overwrite fills the gaps.  When no region begins at   *)
(* or before off, the code takes the end of the tree for the next region   *)
(* as well, and so fills from off to end whatever begins in between.       *)
(***************************************************************************)
Part(off, data, b, e) == Region(b, SubSeq(data, b - off + 1, e - off))

Covered(m, o) == \E r \in m : r.first <= o /\ o < EndOf(r)

Gaps(m, off, end) ==
  {g \in (off .. end) \X (off .. end) :
     /\ g[1] < g[2]
     /\ \A o \in g[1] .. g[2] - 1 : ~Covered(m, o)
     /\ g[1] = off \/ Covered(m, g[1] - 1)
     /\ g[2] = end \/ Covered(m, g[2])}

\* The loop asserts that the region after the one it skips begins later than
\* that one ends, which two that touch do not; without assertions it goes on.
FillAborts(m, off, end) ==
  /\ AtOrBefore(m, off) # {}
  /\ \E q, r \in m : EndOf(q) = r.first /\ off < r.first /\ r.first < end

FillsTheGaps(m, off, data) ==
  {Part(off, data, g[1], g[2]) : g \in Gaps(m, off, off + Len(data))}

FillTx(m, off, data) ==
  [erase  |-> {},
   insert |-> IF AtOrBefore(m, off) = {} THEN NewRegion(off, data)
              ELSE FillsTheGaps(m, off, data)]

WriteTx(m, off, data, overwrite) ==
  IF overwrite THEN OverwriteTx(m, off, data) ELSE FillTx(m, off, data)

\* tx::commit.  The tree refuses a region that begins where another does.
CommitTx(m, tx) ==
  LET rest == m \ tx.erase
  IN  rest \union {r \in tx.insert : \A q \in rest : q.first # r.first}

Overwrite(m, off, data) == CommitTx(m, OverwriteTx(m, off, data))

\* truncate: drop the regions at or after the size, then cut the last one.
IsLast(m, r) == \A q \in m : q.first <= r.first

Truncate(m, size) ==
  LET rest == {r \in m : r.first < size}
  IN  {IF IsLast(rest, r) /\ EndOf(r) > size
       THEN KeepFront(r, size - r.first) ELSE r : r \in rest}

\* The byte a map has at an offset.
ByteAt(m, o) ==
  IF Covered(m, o)
  THEN LET r == CHOOSE r \in m : r.first <= o /\ o < EndOf(r)
       IN  r.data[o - r.first + 1]
  ELSE None

==============================================================================
