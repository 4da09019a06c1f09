-------------------------- MODULE DataConnections --------------------------
(***************************************************************************)
(* Fields by their paths, and the memory behind them (DataConnection.cpp). *)
(* A path is a sequence of names; an address is an offset into the         *)
(* workloads buffer, which is a function from offsets to bytes.            *)
(*                                                                         *)
(* Types maps a type to [size, align, kind, fields, value]: kind "plain",  *)
(* "struct" (fields: sequence of [name, type, offset]) or "board", whose   *)
(* fields depend on the instance.  `boards` maps the address of each       *)
(* initialised Blackboard to its [fields, size]; offsets are Unbound until *)
(* the engine binds them.  value is the type's TypeValues record.          *)
(***************************************************************************)
EXTENDS TypeValues, SequencesExt

CONSTANTS
  Types,        \* the TypeRegistry
  ByteBits,     \* bits of a byte
  Unbound       \* OFFSET_UNBOUND

SizeOf(type) == Types[type].size

FieldsOf(type, at, boards) ==
  CASE Types[type].kind = "struct" -> Types[type].fields
    [] Types[type].kind = "board" /\ at \in DOMAIN boards -> boards[at].fields
    [] OTHER -> <<>>

FieldsNamed(fields, name) == {k \in DOMAIN fields : fields[k].name = name}
FieldNamed(fields, name) == fields[Min(FieldsNamed(fields, name))]

-----------------------------------------------------------------------------
(* Resolution.  found is "yes", "no", or "unbound" for a field whose offset *)
(* the engine has not chosen yet: get_data_ptr() ends the process on it.    *)

Resolved(at, type) == [found |-> "yes", at |-> at, type |-> type]
Unresolved == [found |-> "no", at |-> 0, type |-> "void"]

Member(r, name, boards) ==
  LET fields == FieldsOf(r.type, r.at, boards)
      field == FieldNamed(fields, name)
  IN CASE r.found # "yes" -> r
       [] r.found = "yes" /\ FieldsNamed(fields, name) = {} -> Unresolved
       [] OTHER -> IF field.offset = Unbound THEN [r EXCEPT !.found = "unbound"]
                   ELSE Resolved(r.at + field.offset, field.type)

(* After k names of the path.                                               *)
ResolvedUpTo(at, type, path, boards) ==
  LET after[k \in 0 .. Len(path)] ==
        IF k = 0 THEN Resolved(at, type) ELSE Member(after[k - 1], path[k], boards)
  IN after

ResolveNested(at, type, path, boards) ==
  IF path = <<>> THEN Unresolved ELSE ResolvedUpTo(at, type, path, boards)[Len(path)]

(* `where` maps the unique name of a workload to its address and sections;  *)
(* a path is workload, section, field and perhaps members of the field.     *)
ResolveField(path, where, boards) ==
  IF /\ Len(path) >= 3 /\ path[1] \in DOMAIN where
     /\ path[2] \in DOMAIN where[path[1]].sections
  THEN LET section == where[path[1]].sections[path[2]]
       IN ResolveNested(where[path[1]].at + section.offset, section.type,
                        SubSeq(path, 3, Len(path)), boards)
  ELSE Unresolved

(* The assertion at the end of resolve_field_ptr().                         *)
InUsedSpace(r, used) ==
  /\ r.found = "yes"
  /\ SizeOf(r.type) \in 0 .. used
  /\ r.at \in 0 .. used - SizeOf(r.type)

-----------------------------------------------------------------------------
(* Connections.                                                             *)

Overlap(a, sizeA, b, sizeB) == a < b + sizeB /\ b < a + sizeA

(* Only equal destinations are duplicates.                                  *)
HasConnectionTo(conns, at) == \E k \in DOMAIN conns : conns[k].dst = at

CanConnect(src, dst, conns, used) ==
  /\ InUsedSpace(src, used) /\ InUsedSpace(dst, used)
  /\ src.type = dst.type
  /\ ~HasConnectionTo(conns, dst.at)

Connection(src, dst) ==
  [src |-> src.at, dst |-> dst.at, size |-> SizeOf(src.type), handler |-> "Unassigned"]

-----------------------------------------------------------------------------
(* Bytes.                                                                   *)

Byte == 0 .. TwoTo(ByteBits) - 1

(* The number that the first k bytes make, the lowest byte first.           *)
LoadedUpTo(memory, at, size) ==
  LET number[k \in 0 .. size] ==
        IF k = 0 THEN 0 ELSE number[k - 1] + TwoTo(ByteBits * (k - 1)) * memory[at + k - 1]
  IN number

Loaded(memory, at, size) == LoadedUpTo(memory, at, size)[size]

ByteOf(raw, k) == (raw \div TwoTo(ByteBits * k)) % TwoTo(ByteBits)

Stored(memory, at, size, raw) ==
  [a \in DOMAIN memory |-> IF a \in at .. at + size - 1 THEN ByteOf(raw, a - at) ELSE memory[a]]

(* DataConnectionInfo::do_data_copy().                                      *)
Copied(memory, c) ==
  [a \in DOMAIN memory |->
     IF a \in c.dst .. c.dst + c.size - 1 THEN memory[c.src + (a - c.dst)] ELSE memory[a]]

-----------------------------------------------------------------------------
(* Configured values: `wild` picks the value that an undefined conversion   *)
(* stores.                                                                  *)

Pick(values, wild) == IF wild \in values THEN wild ELSE CHOOSE v \in values : TRUE

=============================================================================
