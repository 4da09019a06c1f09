----------------------------- MODULE MCEngine -----------------------------
(* Model checking of Engine and TelemetryLayout: bytes of two bits,         *)
(* alignof(max_align_t) = 4, buffers of at most 120 bytes, and models that  *)
(* take every way through load(), the failing ones included.                *)
EXTENDS TelemetryLayout

Plain(size, class, signed, names) ==
  [size |-> size, align |-> size, kind |-> "plain", fields |-> <<>>,
   value |-> [class |-> class, bits |-> 2 * size, signed |-> signed, names |-> names]]
NoValue == [class |-> "none", bits |-> 2, signed |-> FALSE, names |-> <<>>]
Struct(size, align, fields) ==
  [size |-> size, align |-> align, kind |-> "struct", fields |-> fields, value |-> NoValue]
Fld(name, type, offset) == [name |-> name, type |-> type, offset |-> offset]
Entry(name, value) == [name |-> name, value |-> value]

(* Modes are signed and know a negative value; flags are unsigned and one   *)
(* of their names has a value that does not fit.                            *)
MCTypes ==
  [bool   |-> Plain(1, "bool", FALSE, <<>>),
   byte   |-> Plain(1, "none", FALSE, <<>>),
   int    |-> Plain(2, "int", TRUE, <<>>),
   uint32 |-> Plain(2, "uint32", FALSE, <<>>),
   mode   |-> Plain(1, "enum", TRUE, <<Entry("off", 0), Entry("on", 1), Entry("reverse", -1)>>),
   flags  |-> Plain(1, "enum", FALSE, <<Entry("none", 0), Entry("both", 3), Entry("huge", 5)>>),
   void   |-> [Plain(0, "none", FALSE, <<>>) EXCEPT !.align = 1],
   pair   |-> Struct(4, 2, <<Fld("x", "int", 0), Fld("y", "int", 2)>>),
   Blackboard |-> [size |-> 2, align |-> 2, kind |-> "board", fields |-> <<>>, value |-> NoValue],
   SensorOutputs |-> Struct(6, 2, <<Fld("pos", "pair", 0), Fld("level", "int", 4)>>),
   FilterConfig  |-> Struct(4, 2, <<Fld("mode", "mode", 0), Fld("flags", "flags", 1), Fld("gain", "int", 2)>>),
   FilterInputs  |-> Struct(8, 2, <<Fld("pos", "pair", 0), Fld("level", "int", 4),
                                    Fld("limit", "uint32", 6)>>),
   StoreConfig   |-> Struct(2, 2, <<Fld("ready", "bool", 0), Fld("size", "byte", 1)>>),
   StoreInputs   |-> Struct(2, 2, <<Fld("board", "Blackboard", 0)>>),
   StoreOutputs  |-> Struct(4, 2, <<Fld("level", "int", 0), Fld("board", "Blackboard", 2)>>),
   NestOutputs   |-> Struct(2, 2, <<Fld("inner", "StoreInputs", 0)>>),
   MemoOutputs   |-> Struct(2, 2, <<Fld("board", "Blackboard", 0)>>)]

Workload(size, align, sections, fns, own) ==
  [size |-> size, align |-> align, sections |-> sections,
   fns |-> fns \cup {"construct", "destruct"}, boards |-> own]
Section(type, offset) == [type |-> type, offset |-> offset]
MCUnbound == 120
Board(section, by, types) ==
  [section |-> section, field |-> "board", by |-> by,
   fields |-> [k \in DOMAIN types |-> Fld(<<"a", "b", "c">>[k], types[k], MCUnbound)]]
None == [s \in {} |-> 0]

Lifecycle == {"load", "setup", "stop"}
StoreSections == [config |-> Section("StoreConfig", 0), inputs |-> Section("StoreInputs", 2),
                  outputs |-> Section("StoreOutputs", 4)]
Store(own) == Workload(8, 2, StoreSections, {"pre_load", "load", "setup"}, own)

MCWorkloads ==
  [Group  |-> Workload(1, 1, None, Lifecycle \cup {"set_engine", "set_children", "start", "tick"}, <<>>),
   Sensor |-> Workload(6, 2, [outputs |-> Section("SensorOutputs", 0)], Lifecycle \cup {"tick"}, <<>>),
   Filter |-> Workload(12, 2, [config |-> Section("FilterConfig", 0), inputs |-> Section("FilterInputs", 4)],
                       {"load", "set_engine"}, <<>>),
   Wide   |-> Workload(8, 8, [outputs |-> Section("SensorOutputs", 0)], {"tick"}, <<>>),
   Store  |-> Store(<<Board("inputs", "pre_load", <<"int", "pair">>),
                      Board("outputs", "pre_load", <<"int", "bool">>)>>),
   Tuned      |-> Workload(2, 2, [config |-> Section("StoreInputs", 0)], {"pre_load"},
                           <<Board("config", "pre_load", <<"mode", "int">>)>>),
   TunedEarly |-> Workload(2, 2, [config |-> Section("StoreInputs", 0)], {},
                           <<Board("config", "construct", <<"mode", "int">>)>>),
   Memo   |-> Workload(2, 2, [outputs |-> Section("MemoOutputs", 0)], {"pre_load"},
                       <<Board("outputs", "pre_load", <<"int", "pair">>)>>),
   Cache  |-> Store(<<Board("outputs", "construct", <<"int", "pair">>)>>),
   Nest   |-> Workload(2, 2, [outputs |-> Section("NestOutputs", 0)], {}, <<>>),
   Twin   |-> Workload(4, 2, [inputs |-> Section("StoreInputs", 0), outputs |-> Section("StoreInputs", 2)],
                       {"pre_load"},
                       <<Board("inputs", "pre_load", <<"int">>), Board("outputs", "pre_load", <<"int", "bool">>)>>),
   Odd    |-> Store(<<Board("inputs", "pre_load", <<"byte">>),
                      Board("outputs", "pre_load", <<"int", "byte">>)>>),
   Heavy  |-> Store(<<Board("outputs", "pre_load", <<"pair", "pair", "pair">>)>>),
   Vain   |-> Store(<<Board("outputs", "pre_load", <<"void">>)>>),
   VainEarly |-> Store(<<Board("outputs", "construct", <<"void">>)>>),
   Huge   |-> Workload(105, 1, None, {}, <<>>),
   Empty  |-> Workload(0, 1, None, {}, <<>>)]

MCStats == [size |-> 6, align |-> 2]

-----------------------------------------------------------------------------
(* Models.                                                                  *)

Plant(name, type, config, inputs) ==
  [name |-> name, type |-> type, rate |-> 1, children |-> {}, config |-> config, inputs |-> inputs]
Lead(name, type, children) == [Plant(name, type, <<>>, <<>>) EXCEPT !.rate = 2, !.children = children]
Set(path, text) == [path |-> path, text |-> text]
Conn(source, dest) == [source |-> source, dest |-> dest]

Of(seeds, conns_) ==
  [seeds |-> seeds, conns |-> conns_, remote |-> {}, root |-> seeds[1].name, finalized |-> TRUE]
Loose(m) == [m EXCEPT !.finalized = FALSE]

Top == Lead("top", "Group", {"s", "f"})
S == Plant("s", "Sensor", <<>>, <<>>)
F(config, inputs) == Plant("f", "Filter", config, inputs)
Tree(config, inputs) == <<Top, S, F(config, inputs)>>
Bare == Tree(<<>>, <<>>)
Alone(type, config, inputs) == Of(<<Lead("top", "Group", {"w"}), Plant("w", type, config, inputs)>>, <<>>)

Pos == Conn(<<"s", "outputs", "pos">>, <<"f", "inputs", "pos">>)
Level == Conn(<<"s", "outputs", "level">>, <<"f", "inputs", "level">>)
LevelToY == Conn(<<"s", "outputs", "level">>, <<"f", "inputs", "pos", "y">>)

GoodConfig ==
  <<Set(<<"mode">>, Word("on")), Set(<<"gain">>, Number(5)), Set(<<"flags">>, Word("both")),
    Set(<<"gain">>, Number(-3))>>

Whole == {
  Of(Tree(GoodConfig, <<Set(<<"pos", "x">>, Number(-8)), Set(<<"level">>, Number(7))>>), <<Pos, Level>>),
  Of(Bare, <<Pos, LevelToY>>),
  [Of(Tree(<<Set(<<"mode">>, Word("reverse"))>>, <<Set(<<"limit">>, Number(20))>>), <<>>)
     EXCEPT !.remote = {<<"s", "outputs", "pos", "x">>}],
  Of(Tree(<<Set(<<"mode">>, Number(-2)), Set(<<"flags">>, Number(2))>>, <<Set(<<"level">>, Number(100))>>), <<>>),
  Loose(Of(Bare, <<Level, Conn(<<"f", "inputs", "level">>, <<"f", "inputs", "pos", "x">>)>>)),
  Of(<<[S EXCEPT !.rate = 2]>>, <<>>),
  Alone("Wide", <<>>, <<>>)}

Boarded == {
  Of(<<Lead("top", "Group", {"s", "w"}), S,
       Plant("w", "Store", <<Set(<<"ready">>, Word("true"))>>, <<Set(<<"board", "b", "y">>, Number(-2))>>)>>,
     <<Conn(<<"s", "outputs", "level">>, <<"w", "inputs", "board", "a">>)>>),
  Of(<<Lead("top", "Group", {"w", "f"}), Plant("w", "Memo", <<>>, <<>>), F(<<>>, <<>>)>>,
     <<Conn(<<"w", "outputs", "board", "b">>, <<"f", "inputs", "pos">>)>>),
  Of(<<Lead("top", "Group", {"w", "v"}), Plant("w", "Memo", <<>>, <<>>), Plant("v", "Cache", <<>>, <<>>)>>, <<>>),
  Of(<<Lead("top", "Group", {"w", "v"}), Plant("w", "Cache", <<>>, <<>>), Plant("v", "Cache", <<>>, <<>>)>>, <<>>),
  Alone("Tuned", <<Set(<<"board", "b">>, Number(6))>>, <<>>),
  Alone("Twin", <<>>, <<Set(<<"board", "a">>, Number(3))>>),
  Of(<<Lead("top", "Group", {"w", "v"}), Plant("w", "Nest", <<>>, <<>>),
       Plant("v", "Tuned", <<>>, <<>>)>>, <<>>),
  Alone("Nest", <<>>, <<>>),
  Alone("Odd", <<>>, <<>>)}

Failing == {
  Alone("Unheard", <<>>, <<>>),
  [Of(Bare, <<>>) EXCEPT !.root = ""],
  Loose([Of(Bare, <<>>) EXCEPT !.root = ""]),
  Loose([Of(Bare, <<>>) EXCEPT !.root = "nobody"]),
  Of(Bare, <<Conn(<<"s", "inputs", "pos">>, <<"f", "inputs", "pos">>)>>),
  Of(Bare, <<Level, Level>>),
  Loose(Of(Bare, <<Level, Level>>)),
  Of(Bare, <<Conn(<<"s", "outputs", "pos">>, <<"f", "inputs", "level">>)>>),
  Of(Bare, <<Conn(<<"s", "outputs", "depth">>, <<"f", "inputs", "level">>)>>),
  Of(<<[S EXCEPT !.rate = 2], F(<<>>, <<>>)>>, <<Level>>),
  Loose(Of(Bare, <<Conn(<<"s", "outputs", "level">>, <<"s", "outputs", "level">>)>>)),
  Of(<<Lead("top", "Group", {"stranger"})>>, <<>>),
  Of(<<[Top EXCEPT !.rate = 0], S, F(<<>>, <<>>)>>, <<>>),
  Loose(Of(<<[Top EXCEPT !.rate = 0], S, F(<<>>, <<>>)>>, <<>>)),
  Of(<<Lead("top", "Filter", {})>>, <<>>),
  Of(Tree(<<Set(<<"mode">>, Word("sideways"))>>, <<>>), <<>>),
  Of(Tree(<<Set(<<"mode">>, Number(3))>>, <<>>), <<>>),
  Of(Tree(<<Set(<<"flags">>, Word("huge"))>>, <<>>), <<>>),
  Of(Tree(<<>>, <<Set(<<"depth">>, Number(1))>>), <<>>),
  [Of(Bare, <<>>) EXCEPT !.remote = {<<"s", "outputs", "depth">>}],
  Alone("Huge", <<>>, <<>>), Of(<<Lead("top", "Huge", {}), Plant("w", "Huge", <<>>, <<>>)>>, <<>>),
  Alone("Empty", <<>>, <<>>), Alone("Heavy", <<>>, <<>>), Alone("Vain", <<>>, <<>>),
  Alone("VainEarly", <<>>, <<>>),
  Alone("TunedEarly", <<Set(<<"board", "b">>, Number(6))>>, <<>>)}

(* Two workloads whose outputs have one struct type, and a blackboard each. *)
TwoWorkloads ==
  {Of(<<Lead("top", "Group", {"w", "v"}), Plant("w", "Memo", <<>>, <<>>), Plant("v", "Memo", <<>>, <<>>)>>, <<>>)}

MCModels == Whole \cup Boarded \cup Failing
MCSamples == {1, 2}
MCOutputs == {9}
MCWild == {0, 5, 15}
=============================================================================
