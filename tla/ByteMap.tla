------------------------------- MODULE ByteMap -------------------------------
(***************************************************************************)
(* What a replacement map promises: a partial function from offsets to     *)
(* bytes.  A write is prepared and takes effect when it is committed; one  *)
(* that does not overwrite leaves the bytes alone that are there already.  *)
(***************************************************************************)
EXTENDS Naturals, Sequences

CONSTANTS MaxOff, Bytes, None, Handles

Offs    == 0 .. MaxOff - 1
Blocks  == UNION {[1 .. n -> Bytes] : n \in 0 .. MaxOff}
Request == [off : 0 .. MaxOff, data : Blocks, overwrite : BOOLEAN]

VARIABLES bytes, request

bmVars == <<bytes, request>>

Init ==
  /\ bytes = [o \in Offs |-> None]
  /\ request = [h \in Handles |-> None]

Written(r, o) ==
  IF r.off <= o /\ o < r.off + Len(r.data) /\ (r.overwrite \/ bytes[o] = None)
  THEN r.data[o - r.off + 1] ELSE bytes[o]

Prepare(h, r) ==
  /\ request[h] = None
  /\ request' = [request EXCEPT ![h] = r]
  /\ UNCHANGED bytes

Commit(h) ==
  /\ request[h] # None
  /\ bytes' = [o \in Offs |-> Written(request[h], o)]
  /\ request' = [request EXCEPT ![h] = None]

Drop(h) ==
  /\ request' = [request EXCEPT ![h] = None]
  /\ UNCHANGED bytes

Truncate(size) ==
  /\ bytes' = [o \in Offs |-> IF o < size THEN bytes[o] ELSE None]
  /\ UNCHANGED request

Next ==
  \/ \E h \in Handles :
       Commit(h) \/ Drop(h) \/ \E r \in Request : Prepare(h, r)
  \/ \E n \in 0 .. MaxOff : Truncate(n)

Spec == Init /\ [][Next]_bmVars

==============================================================================
