------------------------------- MODULE FileData -------------------------------
(***************************************************************************)
(* The contents of a transactional file (txfile.h), without its log: a     *)
(* size and bytes, and what a transaction does to them.                    *)
(***************************************************************************)
EXTENDS Naturals

CONSTANTS
  MaxSize, \* the largest file has bytes 0 .. MaxSize - 1
  Vals,    \* what a transaction may write into a byte
  Zero,    \* what a byte that nobody wrote reads as
  None     \* no byte, no size, no update

ASSUME MaxSizeAssumption == MaxSize \in Nat \ {0}
ASSUME NoneAssumption    == None \notin Vals \union {Zero} \union Nat

Offs  == 0 .. MaxSize - 1
Sizes == 0 .. MaxSize
Bytes == Vals \union {Zero}

(***************************************************************************)
(* The bytes at and past the size are Zero.  An update is what one         *)
(* transaction did: the bytes it wrote and the size it asked for, if any.  *)
(***************************************************************************)
Files   == [size : Sizes, data : [Offs -> Bytes]]
Updates == [writes : [Offs -> Vals \union {None}], size : Sizes \union {None}]

EmptyFile == [size |-> 0, data |-> [o \in Offs |-> Zero]]
NoWrites  == [o \in Offs |-> None]
NoUpdate  == [writes |-> NoWrites, size |-> None]

ASSUME UpdatesAssumption == None \notin Updates

NewSize(f, u) == IF u.size = None THEN f.size ELSE u.size

Apply(f, u) ==
  [size |-> NewSize(f, u),
   data |-> [o \in Offs |->
               IF o >= NewSize(f, u)      THEN Zero
               ELSE IF u.writes[o] # None THEN u.writes[o]
               ELSE f.data[o]]]

===============================================================================
