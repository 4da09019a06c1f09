------------------------------- MODULE Layout -------------------------------
(***************************************************************************)
(* The arithmetic that places objects in the workloads buffer: of          *)
(* workloads and their statistics (Engine.cpp:70-119) and of the fields of *)
(* a blackboard (Blackboard.cpp:35-101).  Sizes and offsets are size_t:    *)
(* they end at SizeMax, and every addition is checked against it.          *)
(***************************************************************************)
EXTENDS Integers, Sequences, SequencesExt

CONSTANTS
  SizeMax,     \* SIZE_MAX
  MaxAlign     \* alignof(max_align_t)

ASSUME LayoutAssumption ==
  /\ SizeMax \in Nat
  /\ MaxAlign \in Nat \ {0}

Larger(a, b) == IF a > b THEN a ELSE b

CanAdd(a, b) == b <= SizeMax - a

(* The next multiple of an alignment.                                       *)
Gap(cursor, align) == IF cursor % align = 0 THEN 0 ELSE align - (cursor % align)
AlignedUp(cursor, align) == cursor + Gap(cursor, align)
CanAlign(cursor, align) == align > 0 /\ CanAdd(cursor, Gap(cursor, align))

-----------------------------------------------------------------------------
(* Workloads and their statistics.  `type` has a size and an alignment.     *)

WorkloadAlign(type) == Larger(type.align, MaxAlign)

Placed(type, cursor) == AlignedUp(cursor, WorkloadAlign(type))

(* slip: the gap in front of the object is not counted.                     *)
AfterWithoutGap(type, cursor) == cursor + type.size

After(type, cursor) == Placed(type, cursor) + type.size

CanPlace(type, cursor) ==
  /\ CanAlign(cursor, WorkloadAlign(type))
  /\ type.size > 0
  /\ CanAdd(Placed(type, cursor), type.size)

-----------------------------------------------------------------------------
(* The fields of a blackboard, given by their types, from an offset on.     *)

(* Where each of them ends; behind none of them is where they start.        *)
FieldEnds(start, types) ==
  LET end[i \in 0 .. Len(types)] ==
        IF i = 0 THEN start ELSE AlignedUp(end[i - 1], types[i].align) + types[i].size
  IN end

FieldsEnd(start, types) == FieldEnds(start, types)[Len(types)]

(* slip: fields follow each other without alignment.                        *)
FieldStartUnaligned(start, types, i) == FieldEnds(start, types)[i - 1]

FieldStart(start, types, i) == AlignedUp(FieldEnds(start, types)[i - 1], types[i].align)

CanLayOut(start, types) ==
  \A i \in DOMAIN types :
    /\ CanAlign(FieldEnds(start, types)[i - 1], types[i].align)
    /\ types[i].size > 0
    /\ CanAdd(FieldStart(start, types, i), types[i].size)

=============================================================================
