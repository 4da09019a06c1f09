-------------------------- MODULE TelemetryLayout --------------------------
(***************************************************************************)
(* The layout document of the telemetry server (TelemetryServer.cpp,       *)
(* build_layout_json) and what a client makes of it: with the document and *)
(* the raw bytes it computes where a field is.  The document is            *)
(* [workloads, types]; workloads: [name, at, sections, stats]; types: sets *)
(* of [name, fields], fields: sequences of [name, offset, type].           *)
(*                                                                         *)
(* A type is named by its registered name.  A blackboard is named by a     *)
(* 32-bit hash of its fields, which the model takes to be unique: the      *)
(* name is the sequence of what is hashed.                                 *)
(***************************************************************************)
EXTENDS Engine

TypeNames(base, parts) == [base |-> base, parts |-> parts]

(* slip: the offsets are left out of the hash.                              *)
BoardTypeNameByShape(fields) ==
  TypeNames("Blackboard", [k \in DOMAIN fields |-> [fields[k] EXCEPT !.offset = 0]])

BoardTypeName(fields) == TypeNames("Blackboard", fields)

TypeName(type, at) ==
  IF Types[type].kind = "board" THEN BoardTypeName(FieldsOf(type, at, boards))
  ELSE TypeNames(type, <<>>)

Emitted(types, name) == \E t \in types : t.name = name

(* emit_type_info(): a type is put behind the types of its fields, unless   *)
(* its name is there already.                                               *)
RECURSIVE Emit(_, _, _)
Emit(types, type, at) ==
  LET fields == FieldsOf(type, at, boards)
      inner == FoldLeft(LAMBDA ts, f : Emit(ts, f.type, at + f.offset), types, fields)
      info == [name |-> TypeName(type, at),
               fields |-> [k \in DOMAIN fields |->
                 [name |-> fields[k].name, offset |-> fields[k].offset,
                  type |-> TypeName(fields[k].type, at + fields[k].offset)]]]
  IN IF Emitted(types, TypeName(type, at)) THEN types ELSE inner \cup {info}

(* build_layout_json(), without its two sorts.                              *)
Sections(i) == SelectSeq(SectionNames, LAMBDA section : section \in DOMAIN Desc(i).sections)

EmitWorkload(types, i) ==
  FoldLeft(LAMBDA ts, section : LET s == Desc(i).sections[section]
                                IN Emit(ts, s.type, inst[i].at + s.offset),
           types, Sections(i))

Document ==
  [workloads |-> {[name |-> Seed(i).name, at |-> inst[i].at, stats |-> inst[i].stats,
                   sections |-> [section \in DOMAIN Desc(i).sections |->
                     [offset |-> Desc(i).sections[section].offset,
                      type |-> TypeNames(Desc(i).sections[section].type, <<>>)]]] : i \in 1 .. N},
   types |-> FoldLeft(EmitWorkload, {}, [i \in 1 .. N |-> i])]

-----------------------------------------------------------------------------
(* The sections of the engine and the fields in them, as the iterator over  *)
(* them finds them: [path, at, type] of every field, member and field of a  *)
(* blackboard.                                                              *)

RECURSIVE FieldsBelow(_, _, _)
FieldsBelow(type, at, path) ==
  {[path |-> path, at |-> at, type |-> type]}
    \cup UNION {FieldsBelow(f.type, at + f.offset, Append(path, f.name)) :
                 f \in ToSet(FieldsOf(type, at, boards))}

AllFields ==
  UNION {UNION {LET s == Desc(i).sections[section]
                IN FieldsBelow(s.type, inst[i].at + s.offset, <<Seed(i).name, section>>) :
                  section \in DOMAIN Desc(i).sections} : i \in 1 .. N}

(* Where a client finds a path: [at, type] or nowhere (at = -1).            *)
Follow(document, place, name) ==
  LET known == {t \in document.types : t.name = place.type}
      fields == UNION {ToSet(t.fields) : t \in known}
      named == {f \in fields : f.name = name}
  IN IF place.at = -1 \/ Cardinality(named) # 1 THEN [at |-> -1, type |-> place.type]
     ELSE LET f == CHOOSE g \in named : TRUE IN [at |-> place.at + f.offset, type |-> f.type]

Found(document, path) ==
  LET w == CHOOSE v \in document.workloads : v.name = path[1]
      s == w.sections[path[2]]
  IN FoldLeft(LAMBDA place, name : Follow(document, place, name),
              [at |-> w.at + s.offset, type |-> s.type], SubSeq(path, 3, Len(path)))

(* Once loaded, nothing changes that the document depends on. Where a field *)
(* of a blackboard is outside the used space, the server ends the process.  *)
IsServed == pc.at = "loaded" /\ BoardFieldsInUsedSpace

Misread ==
  LET document == Document
  IN {f \in AllFields : Found(document, f.path).at # f.at}

(* What tdd_reflective_telemetry.md:10 says of the layout: it describes     *)
(* every field of every workload, and so tells a client where it is.        *)
LayoutTellsAddresses == IsServed => Misread = {}

(* The layout does so where a struct type with blackboards has one place,   *)
(* be it a section or a member, and names differ: then every type name in   *)
(* it stands for one arrangement of fields, also for blackboards of the same*)
(* fields at different distances.                                           *)
HasBoards(type) ==
  \E k \in DOMAIN Types[type].fields : Types[Types[type].fields[k].type].kind = "board"

BoardTypesUsedOnce ==
  \A f, g \in AllFields : f.type = g.type /\ HasBoards(f.type) => f = g

NamesDiffer ==
  /\ Cardinality(Names) = N
  /\ \A f \in AllFields : LET fields == FieldsOf(f.type, f.at, boards)
                           IN \A k, l \in DOMAIN fields : fields[k].name = fields[l].name => k = l

LayoutTellsAddressesOfDistinctTypes ==
  IsServed /\ BoardTypesUsedOnce /\ NamesDiffer => Misread = {}

=============================================================================
