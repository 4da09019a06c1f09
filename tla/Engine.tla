------------------------------- MODULE Engine -------------------------------
(***************************************************************************)
(* The life of an Engine (Engine.cpp): load() sizes and fills the          *)
(* workloads buffer, configures the workloads, binds their blackboards and *)
(* resolves the data connections; run() ticks the root workload; the       *)
(* destructor ends the workloads.  One action is one round of one of the   *)
(* loops of these functions, or what stands between two loops.             *)
(*                                                                         *)
(* Workloads are code of other components: their callbacks are recorded in *)
(* `calls`, may initialise blackboards of their own, and a tick may write  *)
(* any output.  A model is                                                 *)
(*   seeds      sequence of [name, type, rate, children, config, inputs]   *)
(*   conns      sequence of [source, dest], paths                          *)
(*   remote     paths of the sources of remote connections                 *)
(*   root       name of the root workload, "" if none is set               *)
(*   finalized  whether Model::finalize() saw all of it                    *)
(***************************************************************************)
EXTENDS DataConnections, Layout, FiniteSets

CONSTANTS
  Workloads,       \* workload types: [size, align, sections, fns, boards]
  StatsType,       \* [size, align] of WorkloadInstanceStats
  Models,          \* the models to load
  MaxBlackboards,  \* DEFAULT_MAX_BLACKBOARDS_BYTES
  Window,          \* samples in a window of the tick statistics
  Samples,         \* durations a tick may take
  Outputs,         \* values a tick may write
  Wild,            \* values an undefined conversion may store
  MaxTicks,        \* bound on the ticks of all runs
  MaxRuns          \* bound on the runs

ASSUME EngineAssumption ==
  /\ StatsType \in [size : Nat \ {0}, align : Nat \ {0}]
  /\ \A w \in DOMAIN Workloads : Workloads[w].size \in Nat /\ Workloads[w].align \in Nat
  /\ \A m \in Models : DOMAIN m.seeds = 1 .. Len(m.seeds) /\ Len(m.seeds) \in Nat
  /\ MaxBlackboards \in Nat
  /\ Window \in Nat \ {0} /\ MaxTicks \in Nat /\ MaxRuns \in Nat

(* The registry describes its types with sizes and offsets, and knows the   *)
(* types of what workloads are made of.  They are C++ types: a member lies  *)
(* inside its struct, a section inside its workload and apart from the      *)
(* others, and a value has as many bits as its bytes.                       *)
FieldsKnown(fields) ==
  /\ Len(fields) \in Nat /\ DOMAIN fields = 1 .. Len(fields)
  /\ \A k \in DOMAIN fields : fields[k].type \in DOMAIN Types

ASSUME RegistryAssumption ==
  /\ ByteBits \in Nat \ {0}
  /\ \A t \in DOMAIN Types :
       /\ Types[t].size \in Nat /\ Types[t].align \in Nat
       /\ Types[t].kind = "board" => Types[t].size > 0
       /\ Types[t].value.class \in WithText =>
            ValuesOK(Types[t].value) /\ Types[t].value.bits = ByteBits * Types[t].size
       /\ FieldsKnown(Types[t].fields)
       /\ \A k \in DOMAIN Types[t].fields :
            /\ Types[t].fields[k].offset \in Nat
            /\ Types[t].fields[k].offset + SizeOf(Types[t].fields[k].type) <= Types[t].size
  /\ \A w \in DOMAIN Workloads :
       /\ \A s \in DOMAIN Workloads[w].sections :
            LET section == Workloads[w].sections[s] IN
            /\ section.type \in DOMAIN Types /\ section.offset \in Nat
            /\ section.offset + SizeOf(section.type) <= Workloads[w].size
            /\ \A other \in DOMAIN Workloads[w].sections \ {s} :
                 ~Overlap(section.offset, SizeOf(section.type), Workloads[w].sections[other].offset,
                          SizeOf(Workloads[w].sections[other].type))
       /\ \A k \in DOMAIN Workloads[w].boards : FieldsKnown(Workloads[w].boards[k].fields)

(* What models configure: sequences of [path, text].                        *)
EntriesOK(entries) ==
  /\ Len(entries) \in Nat /\ DOMAIN entries = 1 .. Len(entries)
  /\ \A k \in DOMAIN entries :
       /\ Len(entries[k].path) \in Nat /\ DOMAIN entries[k].path = 1 .. Len(entries[k].path)
       /\ entries[k].text.digits \in BOOLEAN /\ entries[k].text.number \in Int

ASSUME ModelAssumption ==
  /\ \A m \in Models :
       /\ Len(m.conns) \in Nat
       /\ \A i \in DOMAIN m.seeds : EntriesOK(m.seeds[i].config) /\ EntriesOK(m.seeds[i].inputs)
  /\ Outputs \subseteq Int

VARIABLES
  model,
  pc,        \* [at, i, entry]: the loop that comes next, its round, and the
             \* round of the loop inside it
  layout,    \* [ends, cursor, capacity, used]: where each round of the size
             \* pass ended, the cursor of the layout pass, the buffer
  inst,      \* sequence of [stats, at]: offsets of statistics and workload
  boards,    \* initialised blackboards by address: their fields
  memory,    \* the buffer's bytes
  conns,     \* data_connections_all
  calls,     \* callbacks so far: [fn, of]
  stats,     \* [window, index, history] of the root: history is all samples
  count      \* [ticks, runs]

vars == <<model, pc, layout, inst, boards, memory, conns, calls, stats, count>>
static == <<model, layout, inst>>

N == Len(model.seeds)
Seed(i) == model.seeds[i]
Desc(i) == Workloads[Seed(i).type]
Names == {Seed(i).name : i \in 1 .. N}

(* instances_by_unique_name: a later insert() replaces an earlier one.      *)
Instance(name) == CHOOSE i \in 1 .. N :
  Seed(i).name = name /\ \A j \in i + 1 .. N : Seed(j).name # name

Where == [name \in Names |->
  [at |-> inst[Instance(name)].at, sections |-> Desc(Instance(name)).sections]]

Go(at, i) == pc' = [at |-> at, i |-> i, entry |-> 1]
Exit == Go("fatal", 0)
At(at) == pc.at = at /\ pc.i <= N
Past(at) == pc.at = at /\ pc.i = N + 1

(* The callback fn of workload i, if it has one.                            *)
Called(before, i, fn) ==
  IF fn \in Desc(i).fns THEN Append(before, [fn |-> fn, of |-> i]) ELSE before
Call(i, fn) == Called(calls, i, fn)

Init ==
  /\ model \in Models
  /\ pc = [at |-> "build", i |-> 1, entry |-> 1]
  /\ layout = [ends |-> <<>>, cursor |-> 0, capacity |-> 0, used |-> 0]
  /\ inst = <<>> /\ boards = <<>> /\ memory = <<>> /\ conns = <<>> /\ calls = <<>>
  /\ stats = [window |-> <<>>, index |-> 0, history |-> <<>>]
  /\ count = [ticks |-> 0, runs |-> 0]

-----------------------------------------------------------------------------
(* Model::use_workload_seeds() and finalize().                              *)

Inside(path, name) == \E k \in 2 .. Len(path) - 1 : path[k] = name

ConnectionsValid ==
  \A k \in DOMAIN model.conns :
    /\ Inside(model.conns[k].source, "outputs") /\ Inside(model.conns[k].dest, "inputs")
    /\ \A j \in DOMAIN model.conns : j # k => model.conns[j].dest # model.conns[k].dest

RatesValid ==
  \A i \in 1 .. N : \A child \in Seed(i).children :
    \A j \in 1 .. N : Seed(j).name = child => Seed(j).rate <= Seed(i).rate

Finalizes == model.root # "" /\ ConnectionsValid /\ RatesValid

Build ==
  /\ pc.at = "build"
  /\ IF /\ \A i \in 1 .. N : Seed(i).type \in DOMAIN Workloads
        /\ model.finalized => Finalizes
     THEN Go("idle", 1) ELSE Exit
  /\ UNCHANGED <<static, boards, memory, conns, calls, stats, count>>

-----------------------------------------------------------------------------
(* Engine::load(): the buffer.                                              *)

Load ==
  /\ pc.at = "idle"
  /\ IF model.root # "" THEN Go("size", 1) ELSE Exit
  /\ UNCHANGED <<static, boards, memory, conns, calls, stats, count>>

Total == IF layout.ends = <<>> THEN 0 ELSE layout.ends[Len(layout.ends)]

Fits(i, cursor) ==
  CanPlace(StatsType, cursor) /\ CanPlace(Desc(i), After(StatsType, cursor))

Advanced(i, cursor) == After(Desc(i), After(StatsType, cursor))

Size ==
  /\ At("size")
  /\ IF Fits(pc.i, Total)
     THEN Go("size", pc.i + 1) /\ layout' = [layout EXCEPT !.ends = Append(@, Advanced(pc.i, Total))]
     ELSE Exit /\ UNCHANGED layout
  /\ UNCHANGED <<model, inst, boards, memory, conns, calls, stats, count>>

Allocate ==
  /\ Past("size")
  /\ IF CanAdd(Total, MaxBlackboards)
     THEN /\ Go("layout", 1)
          /\ layout' = [layout EXCEPT !.capacity = Total + MaxBlackboards]
          /\ memory' = [a \in 0 .. layout'.capacity - 1 |-> 0]
     ELSE Exit /\ UNCHANGED <<layout, memory>>
  /\ UNCHANGED <<model, inst, boards, conns, calls, stats, count>>

(* Blackboard::initialize_fields() for the boards a callback of workload i  *)
(* initialises; their size is computed at once.  The array of fields stays  *)
(* the caller's (Blackboard.cpp:23-33), and bind() writes the offsets into  *)
(* it (:88): each board that is bound is assumed to have an array of its    *)
(* own, as it has everywhere in the repository.                             *)
FieldTypes(fields) == [k \in DOMAIN fields |-> Types[fields[k].type]]

BoardAt(i, at, b) ==
  LET section == Desc(i).sections[b.section]
  IN at + section.offset + FieldNamed(Types[section.type].fields, b.field).offset

Initialised(i, at, fn) ==
  LET own == {b \in ToSet(Desc(i).boards) : b.by = fn}
      AddressOf(b) == BoardAt(i, at, b)
      Fields(a) == (CHOOSE b \in own : AddressOf(b) = a).fields
  IN [a \in DOMAIN boards \cup {AddressOf(b) : b \in own} |->
        IF \A b \in own : AddressOf(b) # a THEN boards[a]
        ELSE [fields |-> [k \in DOMAIN Fields(a) |->
                [name |-> Fields(a)[k].name, type |-> Fields(a)[k].type, offset |-> Unbound]]]]

BoardsValid(i, fn) ==
  \A k \in DOMAIN Desc(i).boards :
    Desc(i).boards[k].by = fn => CanLayOut(0, FieldTypes(Desc(i).boards[k].fields))

(* The layout pass.                                                         *)
Construct ==
  /\ At("layout")
  /\ LET i == pc.i
         placed == [stats |-> Placed(StatsType, layout.cursor),
                    at |-> Placed(Desc(i), After(StatsType, layout.cursor))]
     IN IF Fits(i, layout.cursor) /\ BoardsValid(i, "construct")
        THEN /\ Go("layout", i + 1)
             /\ layout' = [layout EXCEPT !.cursor = Advanced(i, @)]
             /\ inst' = Append(inst, placed)
             /\ boards' = Initialised(i, placed.at, "construct")
             /\ calls' = Call(i, "construct")
        ELSE Exit /\ UNCHANGED <<layout, inst, boards, calls>>
  /\ UNCHANGED <<model, memory, conns, stats, count>>

Constructed ==
  /\ Past("layout")
  /\ Go("set_engine", 1)
  /\ UNCHANGED <<static, boards, memory, conns, calls, stats, count>>

-----------------------------------------------------------------------------
(* Configuration and blackboards.  One round of the loop that configures a  *)
(* workload is at "set_engine" first and at "preload" then.                 *)

SetEngine ==
  /\ At("set_engine")
  /\ Go("preload", pc.i)
  /\ calls' = Call(pc.i, "set_engine")
  /\ UNCHANGED <<static, boards, memory, conns, stats, count>>

(* What the model sets in the structs that workload i has: a sequence of    *)
(* [section, path, text].  Inputs are set on the second pass only.          *)
Settings(i) ==
  LET Of(section, entries) ==
        IF section \notin DOMAIN Desc(i).sections THEN <<>>
        ELSE [k \in DOMAIN entries |->
                [section |-> section, path |-> entries[k].path, text |-> entries[k].text]]
  IN Of("config", Seed(i).config)
       \o (IF pc.at = "preload" THEN <<>> ELSE Of("inputs", Seed(i).inputs))

FieldOf(i, setting) ==
  LET section == Desc(i).sections[setting.section]
  IN ResolveNested(inst[i].at + section.offset, section.type, setting.path, boards)

(* One round of apply_struct_field_values().  The first pass skips what it  *)
(* does not find.                                                           *)
Apply ==
  /\ At("preload") \/ At("configure")
  /\ pc.entry <= Len(Settings(pc.i))
  /\ LET setting == Settings(pc.i)[pc.entry]
         r == FieldOf(pc.i, setting)
         skipped == r.found = "no" /\ pc.at = "preload"
         values == IF r.found = "yes" THEN Parsed(Types[r.type].value, setting.text) ELSE {}
     IN IF skipped \/ values # {}
        THEN /\ pc' = [at |-> pc.at, i |-> pc.i, entry |-> pc.entry + 1]
             /\ IF skipped THEN UNCHANGED memory
                ELSE \E wild \in Wild :
                       memory' = Stored(memory, r.at, SizeOf(r.type), Pick(values, wild))
        ELSE Exit /\ UNCHANGED memory
  /\ UNCHANGED <<static, boards, conns, calls, stats, count>>

Applied == pc.entry > Len(Settings(pc.i))

(* slip: load() is called as soon as a workload is configured.              *)
PreLoadAndLoadCalls(i) == Called(Call(i, "pre_load"), i, "load")

PreLoadCalls(i) == Call(i, "pre_load")

PreLoad ==
  /\ At("preload") /\ Applied
  /\ IF BoardsValid(pc.i, "pre_load")
     THEN /\ Go("set_engine", pc.i + 1)
          /\ boards' = Initialised(pc.i, inst[pc.i].at, "pre_load")
          /\ calls' = PreLoadCalls(pc.i)
     ELSE Exit /\ UNCHANGED <<boards, calls>>
  /\ UNCHANGED <<static, memory, conns, stats, count>>

(* The blackboards that are fields of the structs, in the order of both     *)
(* loops over them.                                                         *)
SectionNames == <<"config", "inputs", "outputs">>

BoardsIn(i, section) ==
  IF section \notin DOMAIN Desc(i).sections THEN <<>>
  ELSE LET s == Desc(i).sections[section]
           fields == Types[s.type].fields
       IN FlattenSeq([k \in DOMAIN fields |->
            IF Types[fields[k].type].kind = "board" THEN <<inst[i].at + s.offset + fields[k].offset>>
            ELSE <<>>])

AllBoards ==
  FlattenSeq([i \in 1 .. N |->
    FlattenSeq([k \in DOMAIN SectionNames |-> BoardsIn(i, SectionNames[k])])])

BoundBoards == ToSet(AllBoards) \cap DOMAIN boards

BoardTypes(a) == IF a \in DOMAIN boards THEN FieldTypes(boards[a].fields) ELSE <<>>

(* compute_blackboard_memory_requirements(): each board from offset zero.   *)
BoardsSize ==
  LET sum[k \in 0 .. Len(AllBoards)] ==
        IF k = 0 THEN 0 ELSE sum[k - 1] + FieldsEnd(0, BoardTypes(AllBoards[k]))
  IN sum[Len(AllBoards)]

(* bind_blackboards_for_instances(): each board where the last one ended.   *)
StorageEnds ==
  LET end[k \in 0 .. Len(AllBoards)] ==
        IF k = 0 THEN layout.cursor ELSE FieldsEnd(end[k - 1], BoardTypes(AllBoards[k]))
  IN end

StorageOf(a) == StorageEnds[(CHOOSE k \in DOMAIN AllBoards : AllBoards[k] = a) - 1]

Bound ==
  [a \in DOMAIN boards |->
     IF a \notin BoundBoards THEN boards[a]
     ELSE [fields |-> [f \in DOMAIN boards[a].fields |->
             [boards[a].fields[f] EXCEPT !.offset = FieldStart(StorageOf(a), BoardTypes(a), f) - a]]]]

CanBind ==
  /\ BoardsSize \in 0 .. MaxBlackboards
  /\ CanAdd(layout.cursor, BoardsSize)
  /\ \A k \in DOMAIN AllBoards : CanLayOut(StorageEnds[k - 1], BoardTypes(AllBoards[k]))

BindBoards ==
  /\ Past("set_engine")
  /\ IF CanBind
     THEN /\ Go("configure", 1)
          /\ layout' = [layout EXCEPT !.cursor = @ + BoardsSize, !.used = layout.cursor + BoardsSize]
          /\ boards' = IF BoardsSize > 0 THEN Bound ELSE boards
     ELSE Exit /\ UNCHANGED <<layout, boards>>
  /\ UNCHANGED <<model, inst, memory, conns, calls, stats, count>>

(* The second pass knows all fields.                                        *)
Configure ==
  /\ At("configure") /\ Applied
  /\ Go("configure", pc.i + 1)
  /\ UNCHANGED <<static, boards, memory, conns, calls, stats, count>>

AllConfigured ==
  /\ Past("configure")
  /\ Go("load", 1)
  /\ UNCHANGED <<static, boards, memory, conns, calls, stats, count>>

LoadWorkload ==
  /\ At("load")
  /\ Go("load", pc.i + 1)
  /\ calls' = Call(pc.i, "load")
  /\ UNCHANGED <<static, boards, memory, conns, stats, count>>

-----------------------------------------------------------------------------
(* Children and connections.                                                *)

HookUpChildren ==
  /\ Past("load")
  /\ IF \A i \in 1 .. N : Seed(i).children \subseteq Names
     THEN Go("connect", 1) ELSE Exit
  /\ UNCHANGED <<static, boards, memory, conns, calls, stats, count>>

Connect ==
  /\ pc.at = "connect" /\ pc.i <= Len(model.conns)
  /\ LET seed == model.conns[pc.i]
         src == ResolveField(seed.source, Where, boards)
         dst == ResolveField(seed.dest, Where, boards)
     IN IF CanConnect(src, dst, conns, layout.used)
        THEN Go("connect", pc.i + 1) /\ conns' = Append(conns, Connection(src, dst))
        ELSE Exit /\ UNCHANGED conns
  /\ UNCHANGED <<static, boards, memory, calls, stats, count>>

(* set_children_fn of the root gives each connection a handler; the engine  *)
(* takes those delegated to it and refuses to go on with an unclaimed one.  *)
Claim ==
  /\ pc.at = "connect" /\ pc.i > Len(model.conns)
  /\ IF model.root \notin Names THEN Exit /\ UNCHANGED <<conns, calls>>
     ELSE LET root == Instance(model.root)
              claims == "set_children" \in Desc(root).fns
          IN \E handler \in [DOMAIN conns -> IF claims THEN {"Group", "DelegateToParent", "Unassigned"}
                                             ELSE {"Unassigned"}] :
               IF \A k \in DOMAIN conns : handler[k] # "Unassigned"
               THEN /\ Go("setup", 1)
                    /\ conns' = [k \in DOMAIN conns |-> [conns[k] EXCEPT !.handler =
                         IF handler[k] = "DelegateToParent" THEN "Engine" ELSE handler[k]]]
                    /\ calls' = Call(root, "set_children")
               ELSE Exit /\ UNCHANGED <<conns, calls>>
  /\ UNCHANGED <<static, boards, memory, stats, count>>

Setup ==
  /\ At("setup")
  /\ Go("setup", pc.i + 1)
  /\ calls' = Call(pc.i, "setup")
  /\ UNCHANGED <<static, boards, memory, conns, stats, count>>

(* DataConnectionUtils::find_field_info() for the sources of remote         *)
(* connections: it warns where resolve_field_ptr() exits, its caller exits. *)
SetupRemote ==
  /\ Past("setup")
  /\ IF \A path \in model.remote : ResolveField(path, Where, boards).found = "yes"
     THEN Go("loaded", 1) ELSE Exit
  /\ UNCHANGED <<static, boards, memory, conns, calls, stats, count>>

(* A second load() of the same engine is refused.                           *)
LoadAgain ==
  /\ pc.at = "loaded"
  /\ Exit
  /\ UNCHANGED <<static, boards, memory, conns, calls, stats, count>>

-----------------------------------------------------------------------------
(* Engine::run().                                                           *)

Root == Instance(model.root)

Run ==
  /\ pc.at = "loaded" /\ count.runs < MaxRuns /\ count.ticks < MaxTicks
  /\ IF Seed(Root).rate > 0 /\ "tick" \in Desc(Root).fns
     THEN /\ Go("copy", 1)
          /\ calls' = Call(Root, "start")
          /\ count' = [ticks |-> count.ticks + 1, runs |-> count.runs + 1]
     ELSE Exit /\ UNCHANGED <<calls, count>>
  /\ UNCHANGED <<static, boards, memory, conns, stats>>

(* The connections the engine serves, and those of them not yet copied.     *)
Acquired == {k \in DOMAIN conns : conns[k].handler = "Engine"}
Left == {k \in Acquired : pc.i <= k}

(* do_data_copy(), which asserts that it has something to do.               *)
Copy ==
  /\ pc.at = "copy"
  /\ \E k \in Left :
       /\ \A j \in Left : k <= j
       /\ IF conns[k].src # conns[k].dst
          THEN Go("copy", k + 1) /\ memory' = Copied(memory, conns[k])
          ELSE Exit /\ UNCHANGED memory
  /\ UNCHANGED <<static, boards, conns, calls, stats, count>>

(* slip: the last connection is left out.                                   *)
CopiesDoneEarly ==
  /\ pc.at = "copy" /\ \A j, k \in Left : j = k
  /\ Go("tick", 1)
  /\ UNCHANGED <<static, boards, memory, conns, calls, stats, count>>

CopiesDone ==
  /\ pc.at = "copy" /\ Left = {}
  /\ Go("tick", 1)
  /\ UNCHANGED <<static, boards, memory, conns, calls, stats, count>>

(* slip: the index moves only once the window is full.                      *)
RecordedLate(s, sample) ==
  IF Len(s.window) < Window
  THEN [s EXCEPT !.window = Append(@, sample), !.history = Append(@, sample),
                 !.index = IF Len(s.window) = Window - 1 THEN 1 % Window ELSE @]
  ELSE [window |-> [s.window EXCEPT ![s.index + 1] = sample],
        index |-> (s.index + 1) % Window, history |-> Append(s.history, sample)]

(* slip: the index is not wrapped.                                          *)
RecordedUnwrapped(s, sample) ==
  [window |-> IF Len(s.window) < Window THEN Append(s.window, sample)
              ELSE [s.window EXCEPT ![s.index + 1] = sample],
   index |-> s.index + 1,
   history |-> Append(s.history, sample)]

(* record_tick_sample().                                                    *)
Recorded(s, sample) ==
  [window |-> IF Len(s.window) < Window THEN Append(s.window, sample)
              ELSE [s.window EXCEPT ![s.index + 1] = sample],
   index |-> (s.index + 1) % Window,
   history |-> Append(s.history, sample)]

(* The plain fields of the outputs of workload i: [at, type].               *)
OutputFields(i) ==
  IF "outputs" \notin DOMAIN Desc(i).sections THEN {}
  ELSE LET s == Desc(i).sections["outputs"]
       IN {[at |-> inst[i].at + s.offset + f.offset, type |-> f.type] :
             f \in {g \in ToSet(Types[s.type].fields) : Types[g.type].kind = "plain"}}

(* The root ticks, and with it whatever it makes tick: any one output may   *)
(* change.                                                                  *)
TickRoot ==
  /\ pc.at = "tick"
  /\ Go("sleep", 1)
  /\ calls' = Call(Root, "tick")
  /\ \E sample \in Samples : stats' = Recorded(stats, sample)
  /\ \/ UNCHANGED memory
     \/ \E i \in 1 .. N : \E f \in OutputFields(i) : \E raw \in Outputs :
          memory' = Stored(memory, f.at, SizeOf(f.type), raw)
  /\ UNCHANGED <<static, boards, conns, count>>

NextTick ==
  /\ pc.at = "sleep" /\ count.ticks < MaxTicks
  /\ Go("copy", 1)
  /\ count' = [count EXCEPT !.ticks = @ + 1]
  /\ UNCHANGED <<static, boards, memory, conns, calls, stats>>

BeginStop ==
  /\ pc.at = "sleep"
  /\ Go("stop", 1)
  /\ UNCHANGED <<static, boards, memory, conns, calls, stats, count>>

Stop ==
  /\ At("stop")
  /\ Go("stop", pc.i + 1)
  /\ calls' = Call(pc.i, "stop")
  /\ UNCHANGED <<static, boards, memory, conns, stats, count>>

Stopped ==
  /\ Past("stop")
  /\ Go("loaded", 1)
  /\ UNCHANGED <<static, boards, memory, conns, calls, stats, count>>

-----------------------------------------------------------------------------
(* Engine::~Engine().                                                       *)

BeginDestroy ==
  /\ pc.at \in {"idle", "loaded"}
  /\ Go("destroy", 1)
  /\ UNCHANGED <<static, boards, memory, conns, calls, stats, count>>

(* slip: the root is left to the others.                                    *)
DestroyChildren ==
  /\ pc.at = "destroy" /\ pc.i <= Len(inst)
  /\ Go("destroy", pc.i + 1)
  /\ calls' = IF Seed(pc.i).name = model.root THEN calls ELSE Call(pc.i, "destruct")
  /\ UNCHANGED <<static, boards, memory, conns, stats, count>>

Destroy ==
  /\ pc.at = "destroy" /\ pc.i <= Len(inst)
  /\ Go("destroy", pc.i + 1)
  /\ calls' = Call(pc.i, "destruct")
  /\ UNCHANGED <<static, boards, memory, conns, stats, count>>

Destroyed ==
  /\ pc.at = "destroy" /\ pc.i > Len(inst)
  /\ Go("gone", 0)
  /\ UNCHANGED <<static, boards, memory, conns, calls, stats, count>>

Next ==
  \/ Build \/ Load \/ Size \/ Allocate \/ Construct \/ Constructed
  \/ SetEngine \/ Apply \/ PreLoad \/ BindBoards \/ Configure \/ AllConfigured \/ LoadWorkload
  \/ HookUpChildren \/ Connect \/ Claim \/ Setup \/ SetupRemote \/ LoadAgain
  \/ Run \/ Copy \/ CopiesDone \/ TickRoot \/ NextTick \/ BeginStop \/ Stop \/ Stopped
  \/ BeginDestroy \/ Destroy \/ Destroyed

Spec == Init /\ [][Next]_vars

-----------------------------------------------------------------------------
(* Properties.                                                              *)

Running == {"copy", "tick", "sleep", "stop"}
AfterLoad == {"loaded"} \cup Running
AfterBinding == {"configure", "load", "connect", "setup"} \cup AfterLoad

TypeOK ==
  /\ model \in Models
  /\ pc.at \in {"build", "idle", "size", "layout", "set_engine", "preload", "destroy", "gone",
               "fatal"} \cup AfterBinding
  /\ pc.i \in Nat /\ pc.entry \in Nat
  /\ layout.cursor \in 0 .. SizeMax /\ layout.used \in {0, layout.cursor}
  /\ DOMAIN memory = 0 .. layout.capacity - 1
  /\ \A a \in DOMAIN memory : memory[a] \in Byte
  /\ Len(inst) <= N /\ Len(conns) <= Len(model.conns)
  /\ Len(stats.window) <= Window /\ stats.index \in 0 .. Window - 1
  /\ count.ticks \in 0 .. MaxTicks /\ count.runs \in 0 .. MaxRuns

(* The second pass over the seeds (Engine.cpp:178-205) places statistics    *)
(* and workloads one behind the other, at offsets their types can live at,  *)
(* inside what the first pass (143-163) has counted, and the blackboards    *)
(* that follow stay inside the buffer.                                      *)
InstanceEnds(i) == IF i < Len(inst) THEN inst[i + 1].stats ELSE layout.cursor

LayoutOK ==
  /\ \A i \in DOMAIN inst :
       /\ inst[i].stats + StatsType.size <= inst[i].at
       /\ inst[i].at + Desc(i).size <= InstanceEnds(i)
       /\ inst[i].stats % WorkloadAlign(StatsType) = 0
       /\ inst[i].at % WorkloadAlign(Desc(i)) = 0
       /\ inst[i].at + Desc(i).size <= Total
  /\ pc.at \in {"set_engine", "preload"} => layout.cursor = Total
  /\ layout.cursor <= layout.capacity /\ layout.used <= layout.capacity
  /\ layout.capacity <= SizeMax

(* The bound blackboard fields: [board, k, at, type].                       *)
BoardFields ==
  UNION {{[board |-> a, k |-> k, at |-> a + boards[a].fields[k].offset, type |-> boards[a].fields[k].type] :
            k \in DOMAIN boards[a].fields} : a \in BoundBoards}

BoardsBound == pc.at \in AfterBinding

(* Fields of blackboards (Blackboard.cpp:60-123) are aligned, behind all    *)
(* workloads, and share no byte, of one board or of two that do not share   *)
(* an array of fields (see Initialised).                                    *)
BoardFieldsApart ==
  BoardsBound =>
    /\ \A f \in BoardFields : f.at % Types[f.type].align = 0 /\ f.at >= Total
    /\ \A f, g \in BoardFields : f # g => ~Overlap(f.at, SizeOf(f.type), g.at, SizeOf(g.type))

(* What resolve_field_ptr() and emit_type_info() assert                     *)
(* (DataConnection.cpp:244, TelemetryServer.cpp:740): a bound field lies    *)
(* within the used part of the buffer.                                      *)
BoardFieldsInUsedSpace ==
  BoardsBound => \A f \in BoardFields : f.at + SizeOf(f.type) <= layout.used

(* What a text asks for: a value of its name, its number or its truth.      *)
(* Numbers that the type cannot hold ask for nothing that could be stored;  *)
(* only an enumeration must never be given another number than the (unsigned*)
(* or signed) long long that sscanf reads.                                  *)
Means(t, text, raw) ==
  CASE t.class = "bool" -> raw = IF text.word \in {"1", "true", "TRUE"} THEN 1 ELSE 0
    [] t.class = "enum" /\ Named(t, text.word) # {} ->
         raw = Wrapped(FirstValue(t, Named(t, text.word)), t.bits)
    [] t.class = "enum" /\ Named(t, text.word) = {} ->
         text.digits /\ NumberOf(t, raw) = IF t.signed THEN text.number ELSE Stored64(text.number)
    [] OTHER -> text.digits /\ InRange(t, text.number) => NumberOf(t, raw) = text.number

(* [at, type, text] of the entries of one section that no later one of the  *)
(* same section overwrites.                                                 *)
Entries(i, section) ==
  IF section = "config" THEN Seed(i).config ELSE Seed(i).inputs

LastingEntries(i, section) ==
  LET s == Desc(i).sections[section]
      entries == Entries(i, section)
      target == [k \in DOMAIN entries |->
                   ResolveNested(inst[i].at + s.offset, s.type, entries[k].path, boards)]
      lasts(k) == \A j \in k + 1 .. Len(entries) :
        ~Overlap(target[k].at, SizeOf(target[k].type), target[j].at, SizeOf(target[j].type))
  IN {[at |-> target[k].at, type |-> target[k].type, text |-> entries[k].text] :
        k \in {l \in DOMAIN entries : lasts(l)}}

ConfiguredFields ==
  UNION {UNION {LastingEntries(i, section) : section \in {"config", "inputs"} \cap DOMAIN Desc(i).sections} :
           i \in 1 .. N}

IsConfigured == pc.at \in {"load", "connect", "setup"} \/ (pc.at = "loaded" /\ count.runs = 0)

(* Configuration is applied twice, before and after the blackboards exist   *)
(* (Engine.cpp:234-242, 265-289): whatever the model configures, in a       *)
(* struct, in a member of it or in a blackboard, workloads find it when     *)
(* load_fn is called, and until the first tick.  Said of fields within the  *)
(* used space only: BoardFieldsInUsedSpace fails, and what lies behind it   *)
(* belongs to nobody.  Workloads change memory in their callbacks only by   *)
(* initialising blackboards; a load_fn or setup_fn that overwrites its own  *)
(* configuration means to.                                                  *)
ConfigSticks ==
  IsConfigured =>
    \A f \in ConfiguredFields :
      InUsedSpace(Resolved(f.at, f.type), layout.used) =>
        Means(Types[f.type].value, f.text, Loaded(memory, f.at, SizeOf(f.type)))

(* to_string() and from_string() (TypeDescriptor.cpp:271-527) agree on      *)
(* every value that configuration can store: printed and read again it is   *)
(* the same value, also when it has a name or a sign.  Said of the same     *)
(* fields as ConfigSticks.                                                  *)
ValuesReadBack ==
  IsConfigured =>
    \A f \in ConfiguredFields :
      LET t == Types[f.type].value
          raw == Loaded(memory, f.at, SizeOf(f.type))
      IN InUsedSpace(Resolved(f.at, f.type), layout.used) => Parsed(t, ToText(t, raw)) = {raw}

-----------------------------------------------------------------------------
CallsOf(fn, i) == {k \in DOMAIN calls : calls[k] = [fn |-> fn, of |-> i]}
LoadCallbacks == {"construct", "set_engine", "pre_load", "load", "setup"}

Rank == [construct |-> 1, set_engine |-> 2, pre_load |-> 2, load |-> 3, set_children |-> 4,
         setup |-> 5, start |-> 6, tick |-> 7, stop |-> 8, destruct |-> 9]

(* The phases of load(), run() and the destructor are barriers: no workload *)
(* enters one before all have left the one before it, and only a new run    *)
(* goes back.  Each callback of loading comes once.  (Engine.cpp:178-390,   *)
(* 417-493; workloads find their siblings ready in load_fn and setup_fn.)   *)
CallbacksInOrder ==
  /\ \A k \in 2 .. Len(calls) :
       \/ Rank[calls[k - 1].fn] <= Rank[calls[k].fn]
       \/ calls[k - 1].fn = "stop" /\ calls[k].fn \in {"start", "tick"}
       \/ calls[k - 1].fn = "tick" /\ calls[k].fn = "start"
  /\ pc.at \in AfterLoad =>
       \A i \in 1 .. N : \A fn \in LoadCallbacks \cap Desc(i).fns : Cardinality(CallsOf(fn, i)) = 1

(* ~Engine() ends what load() constructed, once each, however often the     *)
(* engine ran (Engine.cpp:48-63).                                           *)
EveryInstanceDestroyed ==
  pc.at = "gone" =>
    \A i \in DOMAIN inst : "destruct" \in Desc(i).fns => Cardinality(CallsOf("destruct", i)) = 1

(* When the root ticks, the destination of every connection the engine has  *)
(* to serve holds what its source holds, unless a connection copied later   *)
(* has written to either (Engine.cpp:455-459).                              *)
CopiesReachTick ==
  pc.at = "tick" =>
    \A k \in DOMAIN conns :
      LET c == conns[k]
          disturbed == \E j \in k .. Len(conns) :
            /\ conns[j].handler = "Engine"
            /\ \/ j > k /\ Overlap(conns[j].dst, conns[j].size, c.dst, c.size)
               \/ Overlap(conns[j].dst, conns[j].size, c.src, c.size)
      IN c.handler = "Engine" /\ ~disturbed =>
           \A b \in 0 .. c.size - 1 : memory[c.dst + b] = memory[c.src + b]

(* Read from its index on, the window of tick durations holds the newest    *)
(* samples in order, before and after it first wraps, and over several runs *)
(* (WorkloadInstanceInfo.h:72-103).                                         *)
StatsWindow ==
  LET taken == Len(stats.history)
      kept == Len(stats.window)
      inOrder == IF kept < Window THEN stats.window
                 ELSE SubSeq(stats.window, stats.index + 1, kept) \o SubSeq(stats.window, 1, stats.index)
  IN /\ kept = (IF taken < Window THEN taken ELSE Window)
     /\ inOrder = SubSeq(stats.history, taken - kept + 1, taken)

=============================================================================
