---------------------------- MODULE ReplacementMap ----------------------------
(***************************************************************************)
(* A replacement_map and the writes prepared on it (replacement_map::tx).  *)
(* "Only one transaction can be active at any moment", except that any     *)
(* number may be when none of them replaces bytes and no two overlap.      *)
(***************************************************************************)
EXTENDS Regions, FiniteSets

CONSTANTS
  MaxOff,      \* offsets are 0 .. MaxOff - 1
  Bytes,       \* what a byte may be
  Handles,     \* replacement_map::tx objects
  Overwrites,  \* the values given for the parameter overwrite of write_at
  FillAnywhere, \* a write that does not overwrite may start before all regions
  Assertions   \* the build has assertions: a write that fails one aborts

ASSUME MaxOffAssumption     == MaxOff \in Nat
ASSUME BytesAssumption      == None \notin Bytes
ASSUME OverwritesAssumption == Overwrites \subseteq BOOLEAN /\ FillAnywhere \in BOOLEAN
ASSUME AssertionsAssumption == Assertions \in BOOLEAN

Offs   == 0 .. MaxOff - 1
Blocks == UNION {[1 .. n -> Bytes] : n \in 0 .. MaxOff}

VARIABLES
  map,    \* the regions
  pending \* the write prepared by each handle: request, to_erase_, to_insert_

vars == <<map, pending>>

Request(off, data, overwrite) == [off |-> off, data |-> data, overwrite |-> overwrite]
Idle(h)  == pending[h] = None
EndOfRequest(r) == r.off + Len(r.data)
Apart(x, y) == EndOfRequest(x) <= y.off \/ EndOfRequest(y) <= x.off

MayPrepare(h, r) ==
  \A g \in Handles \ {h} :
    ~Idle(g) => /\ ~r.overwrite /\ ~pending[g].req.overwrite
                /\ Apart(r, pending[g].req)

Init ==
  /\ map = {}
  /\ pending = [h \in Handles |-> None]

WriteAt(h, off, data, overwrite) ==
  LET r == Request(off, data, overwrite)
  IN  /\ Idle(h)
      /\ off + Len(data) <= MaxOff
      /\ MayPrepare(h, r)
      /\ overwrite \/ FillAnywhere \/ AtOrBefore(map, off) # {}
      /\ overwrite \/ ~Assertions \/ ~FillAborts(map, off, off + Len(data))
      /\ pending' = [pending EXCEPT ![h] =
                       [req |-> r, tx |-> WriteTx(map, off, data, overwrite)]]
      /\ UNCHANGED map

Commit(h) ==
  /\ ~Idle(h)
  /\ map' = CommitTx(map, pending[h].tx)
  /\ pending' = [pending EXCEPT ![h] = None]

Drop(h) ==
  /\ ~Idle(h)
  /\ pending' = [pending EXCEPT ![h] = None]
  /\ UNCHANGED map

TruncateTo(size) ==
  /\ \A h \in Handles : Idle(h)
  /\ map' = Truncate(map, size)
  /\ UNCHANGED pending

Clear ==
  /\ \A h \in Handles : Idle(h)
  /\ map' = {}
  /\ UNCHANGED pending

Next ==
  \/ \E h \in Handles :
       \/ \E off \in 0 .. MaxOff, data \in Blocks, ow \in Overwrites : WriteAt(h, off, data, ow)
       \/ Commit(h)
       \/ Drop(h)
  \/ \E size \in 0 .. MaxOff : TruncateTo(size)
  \/ Clear

Spec == Init /\ [][Next]_vars

-------------------------------------------------------------------------------
AllRegions  == [first : Offs, data : Blocks \ {<<>>}]
AllRequests == [off : 0 .. MaxOff, data : Blocks, overwrite : BOOLEAN]
AllWrites   == [req : AllRequests,
                tx : [erase : SUBSET AllRegions, insert : SUBSET AllRegions]]

ASSUME NoneAssumption == None \notin AllRequests /\ None \notin AllWrites

\* The types of map_, to_erase_ and to_insert_; no region is empty.
TypeOK ==
  /\ map \subseteq AllRegions
  /\ pending \in [Handles -> AllWrites \union {None}]

\* No two regions overlap: the assertions at the end of tx::commit
\* (replacement_map.cc:330-332).
Disjoint(m) == \A q, r \in m : q = r \/ EndOf(q) <= r.first \/ EndOf(r) <= q.first
NoOverlap == Disjoint(map)

\* read_at gives a prefix of the bytes asked for, as many as the region has;
\* when it gives none, the length it leaves is that of the gap
\* (replacement_map.h:174-185).
ReadsAgree ==
  \A off \in Offs, n \in 0 .. MaxOff :
    LET r == ReadAt(map, off, n)
        k == Len(r.data)
    IN  /\ k <= n
        /\ \A i \in 1 .. k : r.data[i] = ByteAt(map, off + i - 1)
        /\ k = 0 /\ n > 0 =>
             /\ r.left > 0
             /\ \A i \in 0 .. r.left - 1 : ByteAt(map, off + i) = None
             /\ r.left < n => ByteAt(map, off + r.left) # None

\* A fill that begins at or after the first region fails no assertion, whatever
\* regions it crosses (replacement_map.cc:234).
FillsReturn ==
  \A off \in Offs : \A n \in 0 .. MaxOff - off : ~FillAborts(map, off, off + n)

\* The map is the partial function from offsets to bytes that its users see,
\* under every write that returns: where an assertion is built in, FillsReturn
\* says which fills do not.
Contents == [o \in Offs |-> ByteAt(map, o)]
Requests == [h \in Handles |-> IF Idle(h) THEN None ELSE pending[h].req]
Function == INSTANCE ByteMap WITH bytes <- Contents, request <- Requests
IsByteMap == Function!Spec

===============================================================================
