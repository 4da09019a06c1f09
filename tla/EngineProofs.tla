---------------------------- MODULE EngineProofs ----------------------------
(***************************************************************************)
(* Proofs about an engine, for every model, every set of workload types    *)
(* and connections, every alignment and every SIZE_MAX.  The first half is *)
(* about the workloads buffer and the blackboards in it; the second about  *)
(* what the engine does with its workloads: the order of their callbacks,  *)
(* the copies between them and the window of tick durations, for any       *)
(* number of ticks and runs and every length of the window.                *)
(***************************************************************************)
EXTENDS Engine, SequenceTheorems, FiniteSetTheorems, WellFoundedInduction, TLAPS

-----------------------------------------------------------------------------
(* Arithmetic of the layout.                                                *)

LEMMA Division ==
  ASSUME NEW c \in Nat, NEW a \in Nat \ {0}
  PROVE  \E q \in Nat, r \in Nat : c = a * q + r /\ r < a /\ r = c % a
BY SMTT(30)

LEMMA Multiple ==
  ASSUME NEW k \in Nat, NEW a \in Nat \ {0}
  PROVE  (a * k) % a = 0
BY SMTT(30)

(* Rounding up reaches the next multiple (Engine.cpp:89-106).               *)
LEMMA AlignedUpOK ==
  ASSUME NEW c \in Nat, NEW a \in Nat \ {0}
  PROVE  /\ AlignedUp(c, a) \in Nat
         /\ AlignedUp(c, a) >= c
         /\ AlignedUp(c, a) % a = 0
<1>1. AlignedUp(c, a) \in Nat /\ AlignedUp(c, a) >= c
  BY DEF AlignedUp, Gap
<1>2. AlignedUp(c, a) % a = 0
  <2>1. CASE c % a = 0
    BY <2>1 DEF AlignedUp, Gap
  <2>2. CASE c % a # 0
    <3>1. PICK q \in Nat, r \in Nat : c = a * q + r /\ r < a /\ r = c % a
      BY Division
    <3>2. AlignedUp(c, a) = a * q + a
      BY <2>2, <3>1 DEF AlignedUp, Gap
    <3>3. AlignedUp(c, a) = a * (q + 1) /\ q + 1 \in Nat
      BY <3>1, <3>2
    <3>4. (a * (q + 1)) % a = 0
      BY <3>3, Multiple
    <3> QED
      BY <3>3, <3>4
  <2> QED
    BY <2>1, <2>2
<1> QED
  BY <1>1, <1>2

(* An object lies at an offset for its type, behind what was there, and the *)
(* cursor moves to its end (Engine.cpp:84-119).                             *)
LEMMA AfterOK ==
  ASSUME NEW type, type.size \in Nat, type.align \in Nat, NEW c \in Nat
  PROVE  /\ Placed(type, c) \in Nat
         /\ Placed(type, c) >= c
         /\ Placed(type, c) % WorkloadAlign(type) = 0
         /\ After(type, c) \in Nat
         /\ After(type, c) = Placed(type, c) + type.size
         /\ After(type, c) >= c
<1>1. WorkloadAlign(type) \in Nat \ {0}
  BY LayoutAssumption DEF WorkloadAlign, Larger
<1>2. /\ Placed(type, c) \in Nat
      /\ Placed(type, c) >= c
      /\ Placed(type, c) % WorkloadAlign(type) = 0
  BY <1>1, AlignedUpOK DEF Placed
<1> QED
  BY <1>2 DEF After

-----------------------------------------------------------------------------
(* The invariant.  `ends` is what the first pass found; the second pass     *)
(* places everything where the first one counted it.                        *)

KnownTypes == \A i \in 1 .. N : Seed(i).type \in DOMAIN Workloads

Before(k) == IF k = 1 THEN 0 ELSE layout.ends[k - 1]

Known == KnownTypes \/ (pc.at \in {"build", "fatal"} /\ layout.ends = <<>>)

EndsOK ==
  /\ layout.ends \in Seq(Nat) /\ Len(layout.ends) <= N
  /\ \A k \in 1 .. Len(layout.ends) : layout.ends[k] = Advanced(k, Before(k))
  /\ \A j, k \in 1 .. Len(layout.ends) : j <= k => layout.ends[j] <= layout.ends[k]

InstOK ==
  /\ inst \in Seq([stats : Nat, at : Nat]) /\ Len(inst) <= Len(layout.ends)
  /\ \A k \in 1 .. Len(inst) :
       /\ inst[k].stats = Placed(StatsType, Before(k))
       /\ inst[k].at = Placed(Desc(k), After(StatsType, Before(k)))

NoBuffer == inst = <<>> /\ layout.cursor = 0 /\ layout.capacity = 0 /\ layout.used = 0

Allocated ==
  /\ Len(layout.ends) = N
  /\ layout.capacity = Total + MaxBlackboards /\ layout.capacity <= SizeMax

LayingOut == Allocated /\ layout.cursor = Before(Len(inst) + 1) /\ layout.used = 0

LaidOut ==
  /\ Allocated /\ Len(inst) = N
  /\ layout.cursor \in Total .. layout.capacity /\ layout.used \in 0 .. layout.capacity

PhaseOK ==
  /\ pc.at \in {"build", "idle"} => NoBuffer /\ layout.ends = <<>>
  /\ pc.at = "size" => NoBuffer /\ pc.i = Len(layout.ends) + 1
  /\ pc.at = "layout" => LayingOut /\ pc.i = Len(inst) + 1
  /\ pc.at \in {"set_engine", "preload"} => LayingOut /\ Len(inst) = N

LayoutInv ==
  /\ model \in Models
  /\ layout \in [ends : Seq(Nat), cursor : Nat, capacity : Nat, used : Nat]
  /\ Known /\ EndsOK /\ InstOK
  /\ (NoBuffer \/ LayingOut \/ LaidOut)
  /\ PhaseOK

LEMMA SeedTypes ==
  ASSUME model \in Models, KnownTypes
  PROVE  /\ N \in Nat
         /\ \A i \in 1 .. N : Desc(i).size \in Nat /\ Desc(i).align \in Nat
         /\ StatsType.size \in Nat /\ StatsType.align \in Nat
BY EngineAssumption DEF KnownTypes, N, Desc, Seed

(* Where a round of either pass leaves the cursor.                          *)
LEMMA AdvancedOK ==
  ASSUME model \in Models, KnownTypes, NEW i \in 1 .. N, NEW c \in Nat
  PROVE  /\ Advanced(i, c) \in Nat /\ Advanced(i, c) >= c
         /\ Placed(StatsType, c) \in Nat /\ Placed(StatsType, c) >= c
         /\ Placed(StatsType, c) % WorkloadAlign(StatsType) = 0
         /\ LET at == Placed(Desc(i), After(StatsType, c))
            IN /\ at \in Nat /\ at % WorkloadAlign(Desc(i)) = 0
               /\ Placed(StatsType, c) + StatsType.size <= at
               /\ at + Desc(i).size = Advanced(i, c)
<1>1. /\ Desc(i).size \in Nat /\ Desc(i).align \in Nat
      /\ StatsType.size \in Nat /\ StatsType.align \in Nat
  BY SeedTypes
<1>2. /\ After(StatsType, c) \in Nat
      /\ After(StatsType, c) = Placed(StatsType, c) + StatsType.size
      /\ After(StatsType, c) >= c
      /\ Placed(StatsType, c) \in Nat /\ Placed(StatsType, c) >= c
      /\ Placed(StatsType, c) % WorkloadAlign(StatsType) = 0
  BY <1>1, AfterOK
<1> DEFINE s == After(StatsType, c)
<1>3. /\ After(Desc(i), s) \in Nat
      /\ After(Desc(i), s) = Placed(Desc(i), s) + Desc(i).size
      /\ After(Desc(i), s) >= s
      /\ Placed(Desc(i), s) \in Nat /\ Placed(Desc(i), s) >= s
      /\ Placed(Desc(i), s) % WorkloadAlign(Desc(i)) = 0
  BY <1>1, <1>2, AfterOK
<1> QED
  BY <1>1, <1>2, <1>3 DEF Advanced

-----------------------------------------------------------------------------
(* What the invariant says of every offset.                                 *)

LEMMA InvImpliesLayoutOK == LayoutInv => LayoutOK
<1> SUFFICES ASSUME LayoutInv PROVE LayoutOK
  OBVIOUS
<1> USE DEF LayoutInv
<1>1. /\ MaxBlackboards \in Nat /\ SizeMax \in Nat
      /\ N \in Nat /\ Len(layout.ends) \in Nat /\ Len(inst) \in Nat
  BY EngineAssumption, LayoutAssumption DEF N, InstOK, EndsOK
<1>2. Total \in Nat
  BY <1>1 DEF Total, EndsOK
<1>3. \A k \in 1 .. Len(layout.ends) : layout.ends[k] \in Nat /\ layout.ends[k] <= Total
  BY <1>1 DEF Total, EndsOK
<1>4. \A k \in 1 .. Len(layout.ends) + 1 : Before(k) \in Nat /\ Before(k) <= Total
  BY <1>1, <1>2, <1>3 DEF Before
<1>5. layout.capacity <= SizeMax /\ layout.used <= layout.capacity /\ layout.cursor <= layout.capacity
  <2>1. CASE NoBuffer
    BY <2>1, <1>1 DEF NoBuffer
  <2>2. CASE LayingOut
    BY <2>2, <1>1, <1>2, <1>4 DEF LayingOut, Allocated, InstOK
  <2>3. CASE LaidOut
    BY <2>3, <1>1, <1>2 DEF LaidOut, Allocated
  <2> QED
    BY <2>1, <2>2, <2>3
<1>6. pc.at \in {"set_engine", "preload"} => layout.cursor = Total
  BY <1>1 DEF PhaseOK, LayingOut, Allocated, Before, Total, EndsOK
<1>7. ASSUME NEW i \in DOMAIN inst
      PROVE  /\ inst[i].stats + StatsType.size <= inst[i].at
             /\ inst[i].at + Desc(i).size <= InstanceEnds(i)
             /\ inst[i].stats % WorkloadAlign(StatsType) = 0
             /\ inst[i].at % WorkloadAlign(Desc(i)) = 0
             /\ inst[i].at + Desc(i).size <= Total
  <2>1. i \in 1 .. Len(inst) /\ i \in 1 .. Len(layout.ends) /\ i \in 1 .. N
    BY <1>1 DEF InstOK, EndsOK
  <2>2. KnownTypes
    BY <2>1 DEF Known
  <2>3. Before(i) \in Nat
    BY <1>4, <2>1
  <2>4. /\ inst[i].stats + StatsType.size <= inst[i].at
        /\ inst[i].stats % WorkloadAlign(StatsType) = 0
        /\ inst[i].at % WorkloadAlign(Desc(i)) = 0
        /\ inst[i].at + Desc(i).size = layout.ends[i]
    BY <2>1, <2>2, <2>3, AdvancedOK DEF InstOK, EndsOK
  <2>5. layout.ends[i] <= Total
    BY <1>3, <2>1
  <2>6. layout.ends[i] <= InstanceEnds(i)
    <3>1. CASE i < Len(inst)
      <4>1. i + 1 \in 1 .. Len(inst) /\ i + 1 \in 1 .. N /\ Before(i + 1) = layout.ends[i]
        <5>1. i \in Nat /\ i + 1 # 1 /\ (i + 1) - 1 = i /\ i + 1 <= Len(inst)
          BY <3>1, <2>1, <1>1
        <5>2. Len(inst) <= N
          BY <1>1 DEF InstOK, EndsOK
        <5> QED
          BY <5>1, <5>2, <1>1 DEF Before
      <4>2. layout.ends[i] \in Nat
        BY <1>3, <2>1
      <4>3. inst[i + 1].stats = Placed(StatsType, layout.ends[i])
        BY <4>1 DEF InstOK
      <4>4. Placed(StatsType, layout.ends[i]) >= layout.ends[i]
        BY <4>1, <4>2, <2>2, AdvancedOK
      <4> QED
        BY <4>3, <4>4, <3>1 DEF InstanceEnds
    <3>2. CASE ~(i < Len(inst))
      <4>1. i = Len(inst) /\ inst # <<>>
        BY <3>2, <2>1, <1>1
      <4>2. layout.cursor >= layout.ends[i]
        <5>1. CASE LayingOut
          BY <5>1, <4>1, <2>1, <1>1, <1>3 DEF LayingOut, Before
        <5>2. CASE LaidOut
          BY <5>2, <2>5, <1>2, <1>3, <2>1 DEF LaidOut
        <5> QED
          BY <4>1, <5>1, <5>2 DEF NoBuffer
      <4> QED
        BY <4>2, <3>2 DEF InstanceEnds
    <3> QED
      BY <3>1, <3>2
  <2> QED
    BY <2>4, <2>5, <2>6
<1> QED
  BY <1>5, <1>6, <1>7 DEF LayoutOK

-----------------------------------------------------------------------------
(* Steps.                                                                   *)

LEMMA LayoutInit == Init => LayoutInv
<1> SUFFICES ASSUME Init PROVE LayoutInv
  OBVIOUS
<1>1. model \in Models /\ N \in Nat
  BY EngineAssumption DEF Init, N
<1>2. layout = [ends |-> <<>>, cursor |-> 0, capacity |-> 0, used |-> 0] /\ inst = <<>>
  BY DEF Init
<1>3. pc = [at |-> "build", i |-> 1, entry |-> 1]
  BY DEF Init
<1>4. EndsOK /\ InstOK /\ Known /\ NoBuffer
  BY <1>1, <1>2, <1>3 DEF EndsOK, InstOK, Known, NoBuffer
<1> QED
  BY <1>1, <1>2, <1>3, <1>4 DEF LayoutInv, PhaseOK

(* Steps that change neither layout nor instances.                          *)
LEMMA StaticKept ==
  ASSUME LayoutInv, UNCHANGED <<model, layout, inst>>
  PROVE  /\ (model \in Models)'
         /\ (layout \in [ends : Seq(Nat), cursor : Nat, capacity : Nat, used : Nat])'
         /\ EndsOK' /\ InstOK' /\ (NoBuffer \/ LayingOut \/ LaidOut)'
         /\ KnownTypes' = KnownTypes
<1>1. model' = model /\ layout' = layout /\ inst' = inst
  OBVIOUS
<1>2. EndsOK' /\ InstOK'
  BY <1>1 DEF LayoutInv, EndsOK, InstOK, Before, N, Advanced, Desc, Seed
<1>3. (NoBuffer \/ LayingOut \/ LaidOut)'
  BY <1>1 DEF LayoutInv, NoBuffer, LayingOut, LaidOut, Allocated, Before, Total, N
<1> QED
  BY <1>1, <1>2, <1>3 DEF LayoutInv, KnownTypes, N, Seed

(* Steps behind the layout.                                                 *)
LEMMA StaticStep ==
  ASSUME LayoutInv, UNCHANGED <<model, layout, inst>>,
         pc.at \notin {"build", "fatal"},
         pc'.at \notin {"build", "idle", "size", "layout"},
         pc'.at \in {"set_engine", "preload"} => LayingOut /\ Len(inst) = N
  PROVE  LayoutInv'
<1>1. PhaseOK'
  BY DEF PhaseOK, LayingOut, Allocated, Before, Total, N
<1>2. Known'
  BY StaticKept DEF LayoutInv, Known
<1> QED
  BY <1>1, <1>2, StaticKept DEF LayoutInv

LEMMA BuildStep == LayoutInv /\ Build => LayoutInv'
<1> SUFFICES ASSUME LayoutInv, Build PROVE LayoutInv'
  OBVIOUS
<1>1. UNCHANGED <<model, layout, inst>> /\ pc.at = "build"
  BY DEF Build, static
<1>2. NoBuffer' /\ layout'.ends = <<>>
  BY <1>1 DEF LayoutInv, PhaseOK, NoBuffer
<1>3. \/ pc' = [at |-> "idle", i |-> 1, entry |-> 1] /\ KnownTypes
      \/ pc' = [at |-> "fatal", i |-> 0, entry |-> 1]
  BY DEF Build, Go, Exit, KnownTypes
<1> QED
  BY <1>1, <1>2, <1>3, StaticKept DEF LayoutInv, PhaseOK, Known

LEMMA LoadStep == LayoutInv /\ Load => LayoutInv'
<1> SUFFICES ASSUME LayoutInv, Load PROVE LayoutInv'
  OBVIOUS
<1>1. UNCHANGED <<model, layout, inst>> /\ pc.at = "idle"
  BY DEF Load, static
<1>2. NoBuffer' /\ layout'.ends = <<>> /\ KnownTypes
  BY <1>1 DEF LayoutInv, PhaseOK, NoBuffer, Known
<1>3. \/ pc' = [at |-> "size", i |-> 1, entry |-> 1]
      \/ pc' = [at |-> "fatal", i |-> 0, entry |-> 1]
  BY DEF Load, Go, Exit
<1> QED
  BY <1>1, <1>2, <1>3, StaticKept DEF LayoutInv, PhaseOK, Known

(* A round of the first pass.                                               *)
LEMMA SizeStep == LayoutInv /\ Size => LayoutInv'
<1> SUFFICES ASSUME LayoutInv, Size PROVE LayoutInv'
  OBVIOUS
<1>1. /\ pc.at = "size" /\ KnownTypes /\ NoBuffer /\ pc.i = Len(layout.ends) + 1 /\ pc.i <= N
      /\ model' = model /\ inst' = inst
  BY DEF Size, At, LayoutInv, PhaseOK, Known
<1>2. N \in Nat /\ Len(layout.ends) \in Nat /\ layout.ends \in Seq(Nat)
  BY EngineAssumption DEF LayoutInv, N, EndsOK
<1>3. CASE UNCHANGED layout /\ Exit
  <2>1. pc' = [at |-> "fatal", i |-> 0, entry |-> 1]
    BY <1>3 DEF Exit, Go
  <2> QED
    BY <1>1, <1>3, <2>1, StaticKept DEF LayoutInv, PhaseOK, Known
<1>4. CASE /\ pc' = [at |-> "size", i |-> pc.i + 1, entry |-> 1]
           /\ layout' = [layout EXCEPT !.ends = Append(@, Advanced(pc.i, Total))]
  <2> DEFINE n == Len(layout.ends)
  <2> DEFINE new == Advanced(pc.i, Total)
  <2>1. Total = Before(n + 1) /\ Total \in Nat
    BY <1>2 DEF Total, Before
  <2>2. pc.i \in 1 .. N
    BY <1>1, <1>2
  <2>3. new \in Nat /\ new >= Total
    BY <1>1, <2>1, <2>2, AdvancedOK DEF LayoutInv
  <2>4. /\ layout'.ends = Append(layout.ends, new)
        /\ layout'.cursor = layout.cursor /\ layout'.capacity = layout.capacity /\ layout'.used = layout.used
        /\ layout' \in [ends : Seq(Nat), cursor : Nat, capacity : Nat, used : Nat]
    <3>1. layout \in [ends : Seq(Nat), cursor : Nat, capacity : Nat, used : Nat]
      BY DEF LayoutInv
    <3>2. Append(layout.ends, new) \in Seq(Nat)
      BY <1>2, <2>3
    <3>3. layout' = [layout EXCEPT !.ends = Append(layout.ends, new)]
      BY <1>4
    <3> HIDE DEF new
    <3> QED
      BY <3>1, <3>2, <3>3
  <2>5. /\ layout'.ends \in Seq(Nat) /\ Len(layout'.ends) = n + 1
        /\ \A k \in 1 .. n : layout'.ends[k] = layout.ends[k]
        /\ layout'.ends[n + 1] = new
    BY <1>2, <2>3, <2>4
  <2>6. ASSUME NEW k \in 1 .. n + 1
        PROVE  layout'.ends[k] = Advanced(k, Before(k))'
    <3>1. Before(k)' = Before(k)
      BY <1>2, <2>5 DEF Before
    <3>2. CASE k \in 1 .. n
      BY <1>1, <2>5, <3>1, <3>2 DEF LayoutInv, EndsOK, Advanced, Desc, Seed
    <3>3. CASE k = n + 1
      BY <1>1, <2>1, <2>5, <3>1, <3>3 DEF Advanced, Desc, Seed
    <3> QED
      BY <1>2, <3>2, <3>3
  <2>7. ASSUME NEW j \in 1 .. n + 1, NEW k \in 1 .. n + 1, j <= k
        PROVE  layout'.ends[j] <= layout'.ends[k]
    <3>1. CASE k \in 1 .. n
      <4>1. j \in 1 .. n
        BY <1>2, <2>7, <3>1
      <4>2. layout.ends[j] <= layout.ends[k]
        BY <2>7, <3>1, <4>1 DEF LayoutInv, EndsOK
      <4> QED
        BY <2>5, <3>1, <4>1, <4>2
    <3>2. CASE k = n + 1 /\ j \in 1 .. n
      <4>1. layout.ends[j] <= layout.ends[n] /\ layout.ends[n] = Total /\ layout.ends[j] \in Nat
        BY <1>2, <3>2 DEF LayoutInv, EndsOK, Total
      <4> QED
        BY <2>1, <2>3, <2>5, <3>2, <4>1
    <3>3. CASE k = n + 1 /\ j = n + 1
      BY <2>3, <2>5, <3>3
    <3> QED
      BY <1>2, <3>1, <3>2, <3>3
  <2>8. EndsOK'
    BY <1>1, <1>2, <2>5, <2>6, <2>7 DEF EndsOK, N
  <2>9. NoBuffer' /\ InstOK'
    BY <1>1, <1>2, <2>4, <2>5 DEF NoBuffer, InstOK
  <2>10. KnownTypes'
    BY <1>1 DEF KnownTypes, N, Seed
  <2> QED
    BY <1>1, <1>4, <2>4, <2>5, <2>8, <2>9, <2>10 DEF LayoutInv, PhaseOK, Known
<1> QED
  BY <1>3, <1>4 DEF Size, Go

LEMMA AllocateStep == LayoutInv /\ Allocate => LayoutInv'
<1> SUFFICES ASSUME LayoutInv, Allocate PROVE LayoutInv'
  OBVIOUS
<1>1. /\ pc.at = "size" /\ KnownTypes /\ NoBuffer /\ pc.i = Len(layout.ends) + 1 /\ pc.i = N + 1
      /\ model' = model /\ inst' = inst
  BY DEF Allocate, Past, LayoutInv, PhaseOK, Known
<1>2. /\ N \in Nat /\ Len(layout.ends) \in Nat /\ layout.ends \in Seq(Nat)
      /\ MaxBlackboards \in Nat /\ SizeMax \in Nat
  BY EngineAssumption, LayoutAssumption DEF LayoutInv, N, EndsOK
<1>3. CASE UNCHANGED layout /\ Exit
  <2>1. pc' = [at |-> "fatal", i |-> 0, entry |-> 1]
    BY <1>3 DEF Exit, Go
  <2> QED
    BY <1>1, <1>3, <2>1, StaticKept DEF LayoutInv, PhaseOK, Known
<1>4. CASE /\ CanAdd(Total, MaxBlackboards)
           /\ pc' = [at |-> "layout", i |-> 1, entry |-> 1]
           /\ layout' = [layout EXCEPT !.capacity = Total + MaxBlackboards]
  <2>1. Total \in Nat /\ Total + MaxBlackboards <= SizeMax
    BY <1>2, <1>4 DEF Total, CanAdd
  <2>2. /\ layout'.ends = layout.ends /\ layout'.cursor = 0 /\ layout'.used = 0
        /\ layout'.capacity = Total + MaxBlackboards
        /\ layout' \in [ends : Seq(Nat), cursor : Nat, capacity : Nat, used : Nat]
    BY <1>1, <1>2, <1>4, <2>1 DEF LayoutInv, NoBuffer
  <2>3. EndsOK' /\ InstOK' /\ KnownTypes'
    BY <1>1, <2>2 DEF LayoutInv, EndsOK, InstOK, KnownTypes, Before, N, Advanced, Desc, Seed
  <2>4. LayingOut' /\ Len(inst') = 0
    <3>1. Len(inst') = 0 /\ Before(Len(inst) + 1)' = 0
      BY <1>1 DEF NoBuffer, Before
    <3>2. Allocated'
      BY <1>1, <1>2, <2>1, <2>2 DEF Allocated, N, Total
    <3> QED
      BY <3>1, <3>2, <2>2 DEF LayingOut
  <2> QED
    BY <1>1, <1>4, <2>2, <2>3, <2>4 DEF LayoutInv, PhaseOK, Known
<1> QED
  BY <1>3, <1>4 DEF Allocate, Go

(* A round of the second pass.                                              *)
LEMMA ConstructStep == LayoutInv /\ Construct => LayoutInv'
<1> SUFFICES ASSUME LayoutInv, Construct PROVE LayoutInv'
  OBVIOUS
<1>1. /\ pc.at = "layout" /\ KnownTypes /\ LayingOut /\ pc.i = Len(inst) + 1 /\ pc.i <= N
      /\ model' = model
  BY DEF Construct, At, LayoutInv, PhaseOK, Known
<1>2. /\ N \in Nat /\ Len(inst) \in Nat /\ inst \in Seq([stats : Nat, at : Nat])
      /\ layout.ends \in Seq(Nat) /\ Len(layout.ends) = N
  BY <1>1, EngineAssumption DEF LayoutInv, N, EndsOK, InstOK, LayingOut, Allocated
<1>3. CASE UNCHANGED <<layout, inst>> /\ Exit
  <2>1. pc' = [at |-> "fatal", i |-> 0, entry |-> 1]
    BY <1>3 DEF Exit, Go
  <2> QED
    BY <1>1, <1>3, <2>1, StaticKept DEF LayoutInv, PhaseOK, Known
<1> DEFINE c == layout.cursor
<1> DEFINE placed == [stats |-> Placed(StatsType, c), at |-> Placed(Desc(pc.i), After(StatsType, c))]
<1>4. CASE /\ pc' = [at |-> "layout", i |-> pc.i + 1, entry |-> 1]
           /\ layout' = [layout EXCEPT !.cursor = Advanced(pc.i, @)]
           /\ inst' = Append(inst, placed)
  <2> DEFINE n == Len(inst)
  <2>1. pc.i \in 1 .. N /\ pc.i = n + 1 /\ n + 1 \in 1 .. Len(layout.ends)
    BY <1>1, <1>2
  <2>2. c = Before(n + 1) /\ c \in Nat
    BY <1>1 DEF LayingOut, LayoutInv
  <2>3. placed \in [stats : Nat, at : Nat] /\ Advanced(pc.i, c) \in Nat
    BY <1>1, <2>1, <2>2, AdvancedOK DEF LayoutInv
  <2>4. Advanced(pc.i, c) = layout.ends[n + 1]
    BY <2>1, <2>2 DEF LayoutInv, EndsOK
  <2>5. /\ layout'.ends = layout.ends /\ layout'.cursor = layout.ends[n + 1]
        /\ layout'.capacity = layout.capacity /\ layout'.used = layout.used
        /\ layout' \in [ends : Seq(Nat), cursor : Nat, capacity : Nat, used : Nat]
    <3>1. layout \in [ends : Seq(Nat), cursor : Nat, capacity : Nat, used : Nat]
      BY DEF LayoutInv
    <3>2. layout' = [layout EXCEPT !.cursor = layout.ends[n + 1]] /\ layout.ends[n + 1] \in Nat
      BY <1>4, <2>3, <2>4
    <3> QED
      BY <3>1, <3>2
  <2>6. /\ inst' \in Seq([stats : Nat, at : Nat]) /\ Len(inst') = n + 1
        /\ \A k \in 1 .. n : inst'[k] = inst[k]
        /\ inst'[n + 1] = placed
    <3> HIDE DEF placed
    <3> QED
      BY <1>2, <1>4, <2>3
  <2>7. EndsOK' /\ KnownTypes'
    BY <1>1, <2>5 DEF LayoutInv, EndsOK, KnownTypes, Before, N, Advanced, Desc, Seed
  <2>8. ASSUME NEW k \in 1 .. n + 1
        PROVE  /\ inst'[k].stats = Placed(StatsType, Before(k))'
               /\ inst'[k].at = Placed(Desc(k), After(StatsType, Before(k)))'
    <3>1. Before(k)' = Before(k) /\ Desc(k)' = Desc(k)
      BY <1>1, <2>5 DEF Before, Desc, Seed
    <3>2. CASE k \in 1 .. n
      BY <2>6, <3>1, <3>2 DEF LayoutInv, InstOK
    <3>3. CASE k = n + 1
      BY <2>1, <2>2, <2>6, <3>1, <3>3
    <3> QED
      BY <1>2, <3>2, <3>3
  <2>9. InstOK'
    <3>1. Len(inst') <= Len(layout'.ends)
      BY <1>2, <2>1, <2>5, <2>6
    <3>2. \A k \in 1 .. Len(inst') :
            /\ inst'[k].stats = Placed(StatsType, Before(k))'
            /\ inst'[k].at = Placed(Desc(k), After(StatsType, Before(k)))'
      BY <2>6, <2>8
    <3> HIDE DEF placed
    <3>3. inst' \in Seq([stats : Nat, at : Nat])
      BY <2>6
    <3> QED
      BY <3>1, <3>2, <3>3 DEF InstOK
  <2>10. LayingOut'
    <3>1. Before(Len(inst) + 1)' = layout.ends[n + 1]
      BY <1>2, <2>5, <2>6 DEF Before
    <3>2. Allocated'
      BY <1>1, <2>5 DEF LayingOut, Allocated, N, Total
    <3> QED
      BY <1>1, <2>5, <3>1, <3>2 DEF LayingOut
  <2> QED
    BY <1>1, <1>4, <2>1, <2>5, <2>6, <2>7, <2>9, <2>10 DEF LayoutInv, PhaseOK, Known
<1> QED
  BY <1>3, <1>4 DEF Construct, Go

(* The blackboards are placed in the reserve behind the workloads.          *)
LEMMA BindBoardsStep == LayoutInv /\ BindBoards => LayoutInv'
<1> SUFFICES ASSUME LayoutInv, BindBoards PROVE LayoutInv'
  OBVIOUS
<1>1. /\ pc.at = "set_engine" /\ KnownTypes /\ LayingOut /\ Len(inst) = N
      /\ model' = model /\ inst' = inst
  BY DEF BindBoards, Past, LayoutInv, PhaseOK, Known
<1>2. /\ N \in Nat /\ layout.ends \in Seq(Nat) /\ Len(layout.ends) = N
      /\ MaxBlackboards \in Nat
  BY <1>1, EngineAssumption DEF LayoutInv, N, EndsOK, LayingOut, Allocated
<1>3. CASE UNCHANGED layout /\ Exit
  <2>1. pc' = [at |-> "fatal", i |-> 0, entry |-> 1]
    BY <1>3 DEF Exit, Go
  <2> QED
    BY <1>1, <1>3, <2>1, StaticKept DEF LayoutInv, PhaseOK, Known
<1>4. CASE /\ CanBind /\ pc' = [at |-> "configure", i |-> 1, entry |-> 1]
           /\ layout' = [layout EXCEPT !.cursor = @ + BoardsSize, !.used = layout.cursor + BoardsSize]
  <2> DEFINE size == BoardsSize
  <2>1. size \in 0 .. MaxBlackboards
    BY <1>4 DEF CanBind
  <2>2. Total \in Nat /\ layout.cursor = Total /\ layout.capacity = Total + MaxBlackboards
    BY <1>1, <1>2 DEF LayingOut, Allocated, Total, Before
  <2> HIDE DEF size
  <2>3. /\ layout'.ends = layout.ends /\ layout'.capacity = layout.capacity
        /\ layout'.cursor = Total + size /\ layout'.used = Total + size
        /\ layout' \in [ends : Seq(Nat), cursor : Nat, capacity : Nat, used : Nat]
    <3>1. layout \in [ends : Seq(Nat), cursor : Nat, capacity : Nat, used : Nat]
      BY DEF LayoutInv
    <3>2. layout' = [layout EXCEPT !.cursor = Total + size, !.used = Total + size]
      BY <1>4, <2>2, <3>1 DEF size
    <3>3. Total + size \in Nat
      BY <1>2, <2>1, <2>2
    <3> QED
      BY <3>1, <3>2, <3>3
  <2>4. EndsOK' /\ InstOK' /\ KnownTypes'
    BY <1>1, <2>3 DEF LayoutInv, EndsOK, InstOK, KnownTypes, Before, N, Advanced, Desc, Seed
  <2>5. Total' = Total /\ N' = N
    BY <1>1, <2>3 DEF Total, N
  <2>6. LaidOut'
    <3>1. Allocated'
      BY <1>1, <2>3, <2>5 DEF LayingOut, Allocated
    <3>2. Total + size \in Total .. layout.capacity /\ Total + size \in 0 .. layout.capacity
      BY <1>2, <2>1, <2>2
    <3> QED
      BY <1>1, <2>3, <2>5, <3>1, <3>2 DEF LaidOut
  <2> QED
    BY <1>1, <1>4, <2>3, <2>4, <2>6 DEF LayoutInv, PhaseOK, Known
<1> QED
  BY <1>3, <1>4 DEF BindBoards, Go

LEMMA LayoutNext == LayoutInv /\ [Next]_vars => LayoutInv'
<1> SUFFICES ASSUME LayoutInv, [Next]_vars PROVE LayoutInv'
  OBVIOUS
<1> USE DEF static, Go, Exit
<1>1. CASE Build
  BY <1>1, BuildStep
<1>2. CASE Load
  BY <1>2, LoadStep
<1>3. CASE Size
  BY <1>3, SizeStep
<1>4. CASE Allocate
  BY <1>4, AllocateStep
<1>5. CASE Construct
  BY <1>5, ConstructStep
<1>6. CASE BindBoards
  BY <1>6, BindBoardsStep
<1>7. CASE Constructed
  <2>1. /\ UNCHANGED <<model, layout, inst>> /\ pc.at = "layout"
        /\ pc' = [at |-> "set_engine", i |-> 1, entry |-> 1] /\ pc.i = N + 1
    BY <1>7 DEF Constructed, Past
  <2>2. N \in Nat /\ Len(inst) \in Nat
    BY EngineAssumption DEF LayoutInv, N, InstOK
  <2>3. LayingOut /\ Len(inst) = N
    BY <2>1, <2>2 DEF LayoutInv, PhaseOK
  <2> QED
    BY <2>1, <2>3, StaticStep
<1>8. CASE SetEngine \/ PreLoad
  <2>1. UNCHANGED <<model, layout, inst>> /\ pc.at \in {"set_engine", "preload"}
    BY <1>8 DEF SetEngine, PreLoad, At
  <2>2. \/ pc' = [at |-> "preload", i |-> pc.i, entry |-> 1]
        \/ pc' = [at |-> "set_engine", i |-> pc.i + 1, entry |-> 1]
        \/ pc' = [at |-> "fatal", i |-> 0, entry |-> 1]
    BY <1>8, Zenon DEF SetEngine, PreLoad, At
  <2>3. LayingOut /\ Len(inst) = N
    BY <2>1 DEF LayoutInv, PhaseOK
  <2> QED
    BY <2>1, <2>2, <2>3, StaticStep
<1>15. CASE Apply
  <2>1. UNCHANGED <<model, layout, inst>> /\ pc.at \in {"preload", "configure"}
    BY <1>15 DEF Apply, At
  <2>2. \/ pc' = [at |-> pc.at, i |-> pc.i, entry |-> pc.entry + 1]
        \/ pc' = [at |-> "fatal", i |-> 0, entry |-> 1]
    BY <1>15, Zenon DEF Apply
  <2>3. pc.at = "preload" => LayingOut /\ Len(inst) = N
    BY DEF LayoutInv, PhaseOK
  <2>4. pc'.at = pc.at \/ pc'.at = "fatal"
    BY <2>2
  <2> QED
    BY <2>1, <2>3, <2>4, StaticStep
<1>9. CASE Configure \/ Connect \/ Claim
  <2>1. UNCHANGED <<model, layout, inst>> /\ pc.at \in {"configure", "connect"}
    BY <1>9 DEF Configure, Connect, Claim, At
  <2>2. CASE Configure
    <3>1. \/ pc' = [at |-> "configure", i |-> pc.i + 1, entry |-> 1]
          \/ pc' = [at |-> "fatal", i |-> 0, entry |-> 1]
      BY <2>2, Zenon DEF Configure
    <3> QED
      BY <2>1, <3>1, StaticStep
  <2>3. CASE Connect
    <3>1. \/ pc' = [at |-> "connect", i |-> pc.i + 1, entry |-> 1]
          \/ pc' = [at |-> "fatal", i |-> 0, entry |-> 1]
      BY <2>3, Zenon DEF Connect
    <3> QED
      BY <2>1, <3>1, StaticStep
  <2>4. CASE Claim
    <3>1. \/ pc' = [at |-> "setup", i |-> 1, entry |-> 1]
          \/ pc' = [at |-> "fatal", i |-> 0, entry |-> 1]
      BY <2>4, Zenon DEF Claim
    <3> QED
      BY <2>1, <3>1, StaticStep
  <2> QED
    BY <1>9, <2>2, <2>3, <2>4
<1>14. CASE AllConfigured \/ LoadWorkload \/ HookUpChildren
  <2>1. /\ UNCHANGED <<model, layout, inst>>
        /\ pc.at \in {"configure", "load"}
        /\ pc'.at \in {"load", "connect", "fatal"}
    BY <1>14 DEF AllConfigured, LoadWorkload, HookUpChildren, At, Past
  <2> QED
    BY <2>1, StaticStep
<1>10. CASE Setup \/ SetupRemote \/ LoadAgain \/ Run \/ Copy \/ CopiesDone
  <2>1. /\ UNCHANGED <<model, layout, inst>>
        /\ pc.at \in {"setup", "loaded", "copy"}
        /\ pc'.at \in {"setup", "loaded", "copy", "tick", "fatal"}
    BY <1>10 DEF Setup, SetupRemote, LoadAgain, Run, Copy, CopiesDone, At, Past
  <2> QED
    BY <2>1, StaticStep
<1>11. CASE TickRoot \/ NextTick \/ BeginStop \/ Stop \/ Stopped
  <2>1. /\ UNCHANGED <<model, layout, inst>>
        /\ pc.at \in {"tick", "sleep", "stop"}
        /\ pc'.at \in {"sleep", "copy", "stop", "loaded"}
    BY <1>11 DEF TickRoot, NextTick, BeginStop, Stop, Stopped, At, Past
  <2> QED
    BY <2>1, StaticStep
<1>12. CASE BeginDestroy \/ Destroy \/ Destroyed
  <2>1. /\ UNCHANGED <<model, layout, inst>>
        /\ pc.at \in {"idle", "loaded", "destroy"}
        /\ pc'.at \in {"destroy", "gone"}
    BY <1>12 DEF BeginDestroy, Destroy, Destroyed
  <2> QED
    BY <2>1, StaticStep
<1>13. CASE UNCHANGED vars
  <2>1. UNCHANGED <<model, layout, inst>> /\ pc' = pc
    BY <1>13 DEF vars
  <2>2. PhaseOK' /\ Known'
    <3>1. model' = model /\ layout' = layout /\ inst' = inst /\ pc' = pc
      BY <2>1
    <3> QED
      BY <3>1 DEF LayoutInv, PhaseOK, Known, KnownTypes, NoBuffer, LayingOut, Allocated,
         Before, Total, N, Seed
  <2> QED
    BY <2>1, <2>2, StaticKept DEF LayoutInv
<1> QED
  BY <1>1, <1>2, <1>3, <1>4, <1>5, <1>6, <1>7, <1>8, <1>9, <1>10, <1>11, <1>12, <1>13, <1>14,
     <1>15 DEF Next

(* For every model that loads, and whatever happens afterwards: statistics  *)
(* and workloads lie at offsets their types can live at, one behind the     *)
(* other, inside what the size pass counted; the blackboards end inside the *)
(* buffer; the buffer's size is a size_t (Engine.cpp:141-263).              *)
THEOREM LayoutTheorem == Spec => []LayoutOK
<1>1. Init => LayoutInv
  BY LayoutInit
<1>2. LayoutInv /\ [Next]_vars => LayoutInv'
  BY LayoutNext
<1>3. LayoutInv => LayoutOK
  BY InvImpliesLayoutOK
<1> QED
  BY <1>1, <1>2, <1>3, PTL DEF Spec

-----------------------------------------------------------------------------
(* Induction, on sets of numbers.                                           *)
LEMMA Least ==
  ASSUME NEW T, T \subseteq Nat, T # {}
  PROVE  \E m \in T : \A k \in T : m <= k
<1> DEFINE R == OpToRel(<,Nat)
<1>1. IsWellFoundedOn(R, Nat)
  BY NatLessThanWellFounded
<1>2. \A x, y \in Nat : x < y => <<x, y>> \in R
  BY DEF OpToRel
<1> HIDE DEF R
<1>3. PICK m \in T : \A k \in T : ~ (<<k, m>> \in R)
  BY <1>1, WFMin
<1>4. ASSUME NEW k \in T
      PROVE  m <= k
  <2>1. m \in Nat /\ k \in Nat
    OBVIOUS
  <2>2. ~(k < m)
    BY <2>1, <1>2, <1>3
  <2> QED
    BY <2>1, <2>2
<1> QED
  BY <1>4

LEMMA Induct ==
  ASSUME NEW S, NEW m \in Nat, 0 \in S, \A n \in 0 .. m - 1 : n \in S => n + 1 \in S
  PROVE  0 .. m \subseteq S
<1> DEFINE T == (0 .. m) \ S
<1> SUFFICES ASSUME T # {} PROVE FALSE
  OBVIOUS
<1>1. T \subseteq Nat
  OBVIOUS
<1>2. PICK n \in T : \A k \in T : n <= k
  BY <1>1, Least
<1>3. n \in 0 .. m /\ n \notin S /\ n # 0
  OBVIOUS
<1>4. n - 1 \in 0 .. m - 1 /\ n - 1 \notin T
  BY <1>2, <1>3
<1>5. n - 1 \in S /\ (n - 1) + 1 = n
  BY <1>3, <1>4
<1> QED
  BY <1>3, <1>4, <1>5

(* A sequence of values each of which a function finds from the one before. *)
Recurs(f, m, base, g) == f = [i \in 0 .. m |-> IF i = 0 THEN base ELSE g[<<i, f[i - 1]>>]]

LEMMA Recursion ==
  ASSUME NEW V, NEW base \in V, NEW m \in Nat, NEW g \in [(1 .. m) \X V -> V]
  PROVE  \E f \in [0 .. m -> V] : Recurs(f, m, base, g)
<1> DEFINE Solves(f, n) == /\ f \in [0 .. n -> V] /\ f[0] = base
                           /\ \A i \in 1 .. n : f[i] = g[<<i, f[i - 1]>>]
<1> DEFINE S == {n \in 0 .. m : \E f : Solves(f, n)}
<1>1. 0 \in S
  <2>1. Solves([i \in 0 .. 0 |-> base], 0)
    OBVIOUS
  <2>2. 0 \in 0 .. m
    OBVIOUS
  <2> HIDE DEF Solves
  <2> QED
    BY <2>1, <2>2
<1>2. ASSUME NEW n \in 0 .. m - 1, n \in S
      PROVE  n + 1 \in S
  <2>1. PICK f : Solves(f, n)
    BY <1>2
  <2> DEFINE h == [i \in 0 .. n + 1 |-> IF i = n + 1 THEN g[<<n + 1, f[n]>>] ELSE f[i]]
  <2>2. n + 1 \in 1 .. m /\ f[n] \in V
    BY <2>1
  <2>3. g[<<n + 1, f[n]>>] \in V
    BY <2>2
  <2>4. h \in [0 .. n + 1 -> V] /\ h[0] = base
    BY <2>1, <2>3
  <2>5. ASSUME NEW i \in 1 .. n + 1
        PROVE  h[i] = g[<<i, h[i - 1]>>]
    <3>1. i - 1 \in 0 .. n /\ h[i - 1] = f[i - 1]
      OBVIOUS
    <3>2. CASE i = n + 1
      <4>1. i - 1 = n /\ i \in 0 .. n + 1
        BY <3>2
      <4>2. h[i] = g[<<n + 1, f[n]>>]
        BY <4>1, <3>2
      <4> QED
        BY <4>1, <4>2, <3>1, <3>2
    <3>3. CASE i # n + 1
      <4>1. i \in 1 .. n
        BY <3>3
      <4>2. f[i] = g[<<i, f[i - 1]>>]
        BY <4>1, <2>1
      <4>3. h[i] = f[i]
        BY <4>1
      <4> QED
        BY <4>2, <4>3, <3>1
    <3> QED
      BY <3>2, <3>3
  <2>6. Solves(h, n + 1)
    BY <2>4, <2>5
  <2> HIDE DEF h, Solves
  <2> QED
    BY <2>2, <2>6
<1>3. m \in S
  <2> HIDE DEF S
  <2>1. 0 .. m \subseteq S
    BY <1>1, <1>2, Induct
  <2> QED
    BY <2>1
<1>4. PICK f : Solves(f, m)
  BY <1>3
<1>5. f = [i \in 0 .. m |-> IF i = 0 THEN base ELSE g[<<i, f[i - 1]>>]]
  <2>1. f = [i \in 0 .. m |-> f[i]]
    BY <1>4
  <2>2. ASSUME NEW i \in 0 .. m
        PROVE  f[i] = IF i = 0 THEN base ELSE g[<<i, f[i - 1]>>]
    <3>1. CASE i = 0
      BY <1>4, <3>1
    <3>2. CASE i # 0
      <4>1. i \in 1 .. m
        BY <3>2
      <4> QED
        BY <1>4, <3>2, <4>1
    <3> QED
      BY <3>1, <3>2
  <2> QED
    BY <2>1, <2>2
<1>6. Recurs(f, m, base, g)
  BY <1>5 DEF Recurs
<1> QED
  BY <1>4, <1>6

(* What each value passes on to the next one, all of them have.             *)
LEMMA Chain ==
  ASSUME NEW V, NEW f, NEW m \in Nat, f[0] \in V,
         \A i \in 1 .. m : f[i - 1] \in V => f[i] \in V
  PROVE  \A i \in 0 .. m : f[i] \in V
<1> DEFINE S == {i \in 0 .. m : f[i] \in V}
<1>1. 0 \in S
  OBVIOUS
<1>2. ASSUME NEW n \in 0 .. m - 1, n \in S
      PROVE  n + 1 \in S
  <2>1. n + 1 \in 1 .. m /\ (n + 1) - 1 = n
    OBVIOUS
  <2> QED
    BY <1>2, <2>1
<1> HIDE DEF S
<1>3. 0 .. m \subseteq S
  BY <1>1, <1>2, Induct
<1> QED
  BY <1>3 DEF S

LEMMA Climbs ==
  ASSUME NEW f, NEW m \in Nat, \A i \in 0 .. m : f[i] \in Nat,
         \A i \in 1 .. m : f[i - 1] <= f[i]
  PROVE  \A i, j \in 0 .. m : i <= j => f[i] <= f[j]
<1> SUFFICES ASSUME NEW i \in 0 .. m
             PROVE  \A j \in 0 .. m : i <= j => f[i] <= f[j]
  OBVIOUS
<1> DEFINE S == {j \in 0 .. m : i <= j => f[i] <= f[j]}
<1>1. 0 \in S
  OBVIOUS
<1>2. ASSUME NEW n \in 0 .. m - 1, n \in S
      PROVE  n + 1 \in S
  <2>1. n + 1 \in 1 .. m /\ (n + 1) - 1 = n /\ n \in 0 .. m /\ n + 1 \in 0 .. m
    OBVIOUS
  <2>2. f[n] <= f[n + 1] /\ f[n] \in Nat /\ f[n + 1] \in Nat /\ f[i] \in Nat
    BY <2>1
  <2>3. CASE i <= n
    BY <1>2, <2>1, <2>2, <2>3
  <2>4. CASE ~(i <= n)
    <3>1. i <= n + 1 => i = n + 1
      BY <2>4
    <3> QED
      BY <2>1, <2>2, <3>1
  <2> QED
    BY <2>3, <2>4
<1> HIDE DEF S
<1>3. 0 .. m \subseteq S
  BY <1>1, <1>2, Induct
<1> QED
  BY <1>3 DEF S

-----------------------------------------------------------------------------
(* The fields of a blackboard.                                              *)

Sized(types) ==
  /\ Len(types) \in Nat /\ DOMAIN types = 1 .. Len(types)
  /\ \A i \in 1 .. Len(types) : types[i].size \in Nat /\ types[i].align \in Nat \ {0}

LEMMA FieldEndsDefined ==
  ASSUME NEW start \in Nat, NEW types, Sized(types)
  PROVE  FieldEnds(start, types) =
           [i \in 0 .. Len(types) |->
              IF i = 0 THEN start
              ELSE AlignedUp(FieldEnds(start, types)[i - 1], types[i].align) + types[i].size]
<1> DEFINE m == Len(types)
<1> DEFINE g == [p \in (1 .. m) \X Nat |-> AlignedUp(p[2], types[p[1]].align) + types[p[1]].size]
<1> DEFINE Solves(f) == f = [i \in 0 .. m |->
                               IF i = 0 THEN start ELSE AlignedUp(f[i - 1], types[i].align) + types[i].size]
<1>1. m \in Nat
  BY DEF Sized
<1>2. ASSUME NEW i \in 1 .. m, NEW c \in Nat
      PROVE  /\ AlignedUp(c, types[i].align) + types[i].size \in Nat
             /\ g[<<i, c>>] = AlignedUp(c, types[i].align) + types[i].size
  <2>1. types[i].size \in Nat /\ types[i].align \in Nat \ {0}
    BY DEF Sized
  <2>2. AlignedUp(c, types[i].align) \in Nat
    BY <2>1, AlignedUpOK
  <2> QED
    BY <2>1, <2>2
<1>3. g \in [(1 .. m) \X Nat -> Nat]
  BY <1>2
<1> HIDE DEF g, m
<1>4. PICK f \in [0 .. m -> Nat] : Recurs(f, m, start, g)
  BY <1>1, <1>3, Recursion
<1>5. Solves(f)
  <2>1. ASSUME NEW i \in 0 .. m, i # 0
        PROVE  g[<<i, f[i - 1]>>] = AlignedUp(f[i - 1], types[i].align) + types[i].size
    <3>1. i \in 1 .. m /\ i - 1 \in 0 .. m
      BY <1>1, <2>1
    <3>2. f[i - 1] \in Nat
      BY <3>1
    <3> QED
      BY <1>2, <3>1, <3>2
  <2> QED
    BY <1>4, <2>1 DEF Recurs
<1> HIDE DEF Solves
<1>6. Solves(CHOOSE e : Solves(e))
  BY <1>5
<1>7. FieldEnds(start, types) = CHOOSE e : Solves(e)
  BY DEF FieldEnds, Solves, m
<1>8. Solves(FieldEnds(start, types))
  BY <1>6, <1>7
<1> QED
  BY <1>8 DEF Solves, m

(* Every field is aligned and begins where the last one ended or behind it  *)
(* (Blackboard.cpp:60-101).                                                 *)
FieldOK(start, types, i) ==
  /\ FieldStart(start, types, i) \in Nat
  /\ FieldStart(start, types, i) >= FieldEnds(start, types)[i - 1]
  /\ FieldStart(start, types, i) % types[i].align = 0
  /\ FieldEnds(start, types)[i] = FieldStart(start, types, i) + types[i].size

LEMMA FieldEndsOK ==
  ASSUME NEW start \in Nat, NEW types, Sized(types)
  PROVE  /\ FieldEnds(start, types)[0] = start
         /\ \A i \in 0 .. Len(types) : FieldEnds(start, types)[i] \in Nat
         /\ \A i \in 1 .. Len(types) : FieldOK(start, types, i)
         /\ \A i, j \in 0 .. Len(types) :
              i <= j => FieldEnds(start, types)[i] <= FieldEnds(start, types)[j]
<1> DEFINE m == Len(types)
<1> DEFINE end == FieldEnds(start, types)
<1>1. m \in Nat
  BY DEF Sized
<1>2. /\ end[0] = start
      /\ \A i \in 1 .. m : end[i] = AlignedUp(end[i - 1], types[i].align) + types[i].size
  <2>1. end = [i \in 0 .. m |->
                 IF i = 0 THEN start ELSE AlignedUp(end[i - 1], types[i].align) + types[i].size]
    BY FieldEndsDefined
  <2> HIDE DEF end
  <2> QED
    BY <1>1, <2>1
<1>3. ASSUME NEW i \in 1 .. m, end[i - 1] \in Nat
      PROVE  FieldOK(start, types, i) /\ end[i] \in Nat /\ end[i - 1] <= end[i]
  <2>1. types[i].size \in Nat /\ types[i].align \in Nat \ {0}
    BY DEF Sized
  <2> DEFINE at == AlignedUp(end[i - 1], types[i].align)
  <2>2. at \in Nat /\ at >= end[i - 1] /\ at % types[i].align = 0
    BY <1>3, <2>1, AlignedUpOK
  <2>3. FieldStart(start, types, i) = at /\ end[i] = at + types[i].size
    BY <1>2 DEF FieldStart
  <2>4. FieldOK(start, types, i)
    BY <2>2, <2>3 DEF FieldOK
  <2> HIDE DEF at, end
  <2> QED
    BY <1>3, <2>1, <2>2, <2>3, <2>4
<1> HIDE DEF end, m
<1>4. \A i \in 0 .. m : end[i] \in Nat
  BY <1>1, <1>2, <1>3, Chain
<1>5. \A i \in 1 .. m : i - 1 \in 0 .. m /\ end[i - 1] \in Nat
  BY <1>1, <1>4
<1>6. \A i, j \in 0 .. m : i <= j => end[i] <= end[j]
  BY <1>1, <1>3, <1>4, <1>5, Climbs
<1> QED
  BY <1>2, <1>3, <1>4, <1>5, <1>6 DEF end, m

(* Two fields of one blackboard, whichever comes first.                     *)
LEMMA FieldsApart ==
  ASSUME NEW start \in Nat, NEW types, Sized(types),
         NEW k \in 1 .. Len(types), NEW l \in 1 .. Len(types), k < l
  PROVE  FieldStart(start, types, k) + types[k].size <= FieldStart(start, types, l)
<1>1. Len(types) \in Nat
  BY DEF Sized
<1>2. k \in 0 .. Len(types) /\ l - 1 \in 0 .. Len(types) /\ k <= l - 1
  BY <1>1
<1>3. FieldEnds(start, types)[k] <= FieldEnds(start, types)[l - 1]
  BY <1>2, FieldEndsOK
<1>4. FieldEnds(start, types)[k] \in Nat /\ FieldEnds(start, types)[l - 1] \in Nat
  BY <1>2, FieldEndsOK
<1>5. FieldEnds(start, types)[k] = FieldStart(start, types, k) + types[k].size
  BY FieldEndsOK DEF FieldOK
<1>6. /\ FieldStart(start, types, l) >= FieldEnds(start, types)[l - 1]
      /\ FieldStart(start, types, l) \in Nat
  BY FieldEndsOK DEF FieldOK
<1> QED
  BY <1>3, <1>4, <1>5, <1>6

LEMMA FieldInside ==
  ASSUME NEW start \in Nat, NEW types, Sized(types), NEW k \in 1 .. Len(types)
  PROVE  /\ FieldStart(start, types, k) \in Nat
         /\ start <= FieldStart(start, types, k)
         /\ FieldStart(start, types, k) + types[k].size <= FieldsEnd(start, types)
         /\ FieldStart(start, types, k) % types[k].align = 0
<1>1. Len(types) \in Nat
  BY DEF Sized
<1>2. k \in 0 .. Len(types) /\ k - 1 \in 0 .. Len(types) /\ Len(types) \in 0 .. Len(types) /\ 0 <= k - 1
      /\ 0 \in 0 .. Len(types) /\ k <= Len(types)
  BY <1>1
<1> DEFINE e(i) == FieldEnds(start, types)[i]
<1> DEFINE s == FieldStart(start, types, k)
<1>3. e(0) = start /\ e(0) <= e(k - 1) /\ e(k) <= e(Len(types)) /\ e(k - 1) \in Nat /\ e(k) \in Nat /\ e(Len(types)) \in Nat
  BY <1>2, FieldEndsOK
<1>4. s \in Nat /\ s >= e(k - 1) /\ s % types[k].align = 0 /\ e(k) = s + types[k].size
  <2>1. FieldOK(start, types, k)
    BY FieldEndsOK
  <2> QED
    BY <2>1 DEF FieldOK
<1>5. FieldsEnd(start, types) = e(Len(types))
  BY DEF FieldsEnd
<1> HIDE DEF e, s
<1>6. start <= s /\ s + types[k].size <= FieldsEnd(start, types)
  BY <1>3, <1>4, <1>5
<1> QED
  BY <1>4, <1>6 DEF s

LEMMA FieldsEndOK ==
  ASSUME NEW start \in Nat, NEW types, Sized(types)
  PROVE  FieldsEnd(start, types) \in Nat /\ start <= FieldsEnd(start, types)
<1>1. Len(types) \in Nat /\ 0 \in 0 .. Len(types) /\ Len(types) \in 0 .. Len(types) /\ 0 <= Len(types)
  BY DEF Sized
<1>2. /\ FieldEnds(start, types)[0] = start /\ FieldEnds(start, types)[Len(types)] \in Nat
      /\ FieldEnds(start, types)[0] <= FieldEnds(start, types)[Len(types)]
  BY <1>1, FieldEndsOK
<1> QED
  BY <1>2 DEF FieldsEnd

-----------------------------------------------------------------------------
(* The blackboards of an instance.                                          *)

(* Sequences one behind the other are a sequence of the same elements.      *)
LEMMA Flattened ==
  ASSUME NEW S, NEW seqs \in Seq(Seq(S))
  PROVE  FlattenSeq(seqs) \in Seq(S)
<1> DEFINE m == Len(seqs)
<1> DEFINE Solves(f) == f = [i \in 1 .. m |-> IF i = 1 THEN seqs[i] ELSE f[i - 1] \o seqs[i]]
<1> DEFINE g == [p \in (1 .. m) \X Seq(S) |-> p[2] \o seqs[p[1]]]
<1>1. m \in Nat /\ \A i \in 1 .. m : seqs[i] \in Seq(S)
  BY ElementOfSeq, LenProperties
<1>2. CASE m = 0
  BY <1>2, EmptySeq DEF FlattenSeq
<1>3. CASE m # 0
  <2>1. <<>> \in Seq(S) /\ g \in [(1 .. m) \X Seq(S) -> Seq(S)]
    BY <1>1, ConcatProperties
  <2> HIDE DEF g, m
  <2>2. PICK f \in [0 .. m -> Seq(S)] : Recurs(f, m, <<>>, g)
    BY <1>1, <2>1, Recursion
  <2>3. ASSUME NEW i \in 1 .. m
        PROVE  f[i] = IF i = 1 THEN seqs[i] ELSE f[i - 1] \o seqs[i]
    <3>1. i - 1 \in 0 .. m /\ i \in 0 .. m /\ i # 0 /\ (i = 1 => i - 1 = 0) /\ 0 \in 0 .. m
      BY <1>1
    <3>2. f[i] = g[<<i, f[i - 1]>>] /\ f[0] = <<>> /\ f[i - 1] \in Seq(S)
      BY <2>2, <3>1 DEF Recurs
    <3>3. f[i] = f[i - 1] \o seqs[i]
      BY <3>2 DEF g
    <3>4. <<>> \o seqs[i] = seqs[i]
      BY <1>1, ConcatEmptySeq
    <3> QED
      BY <3>1, <3>2, <3>3, <3>4
  <2> DEFINE h == [i \in 1 .. m |-> f[i]]
  <2>4. Solves(h)
    <3>1. ASSUME NEW i \in 1 .. m
          PROVE  f[i] = IF i = 1 THEN seqs[i] ELSE h[i - 1] \o seqs[i]
      <4>1. CASE i = 1
        BY <2>3, <4>1
      <4>2. CASE i # 1
        <5>1. i - 1 \in 1 .. m
          BY <1>1, <4>2
        <5>2. h[i - 1] = f[i - 1]
          BY <5>1
        <5> QED
          BY <2>3, <4>2, <5>2
      <4> QED
        BY <4>1, <4>2
    <3> QED
      BY <3>1
  <2> HIDE DEF Solves, h
  <2> DEFINE fl == CHOOSE e : Solves(e)
  <2>5. Solves(fl)
    BY <2>4
  <2>6. FlattenSeq(seqs) = fl[m]
    BY <1>3 DEF FlattenSeq, Solves, m
  <2> HIDE DEF fl
  <2> DEFINE c == [i \in 0 .. m |-> IF i = 0 THEN <<>> ELSE fl[i]]
  <2>7. ASSUME NEW i \in 1 .. m, c[i - 1] \in Seq(S)
        PROVE  c[i] \in Seq(S)
    <3>1. i \in 0 .. m /\ i # 0 /\ i - 1 \in 0 .. m
      BY <1>1
    <3>2. c[i] = fl[i]
      BY <3>1
    <3>3. CASE i = 1
      BY <1>1, <2>5, <3>2, <3>3 DEF Solves
    <3>4. CASE i # 1
      <4>1. c[i - 1] = fl[i - 1]
        BY <3>1, <3>4
      <4>2. fl[i] = fl[i - 1] \o seqs[i]
        BY <2>5, <3>4 DEF Solves
      <4> HIDE DEF c
      <4> QED
        BY <1>1, <2>7, <3>2, <4>1, <4>2, ConcatProperties
    <3> QED
      BY <3>3, <3>4
  <2>8. c[0] \in Seq(S)
    BY <1>1
  <2> HIDE DEF c
  <2>9. c[m] \in Seq(S)
    <3>1. m \in 0 .. m
      BY <1>1
    <3>2. \A i \in 0 .. m : c[i] \in Seq(S)
      BY <1>1, <2>7, <2>8, Chain
    <3> QED
      BY <3>1, <3>2
  <2> QED
    BY <1>1, <1>3, <2>6, <2>9 DEF c
<1> QED
  BY <1>2, <1>3

-----------------------------------------------------------------------------
(* The blackboards of the workloads, in the order the engine visits them,   *)
(* are members of workloads.                                                *)
LEMMA BoardsInOK ==
  ASSUME LayoutInv, KnownTypes, NEW i \in 1 .. N, Len(inst) = N, NEW section
  PROVE  BoardsIn(i, section) \in Seq(0 .. Total - 1)
<1> DEFINE S == 0 .. Total - 1
<1>1. CASE section \notin DOMAIN Desc(i).sections
  BY <1>1 DEF BoardsIn
<1>2. CASE section \in DOMAIN Desc(i).sections
  <2> DEFINE s == Desc(i).sections[section]
  <2> DEFINE fields == Types[s.type].fields
  <2> DEFINE address(k) == inst[i].at + s.offset + fields[k].offset
  <2> DEFINE parts == [k \in DOMAIN fields |-> IF Types[fields[k].type].kind = "board" THEN <<address(k)>>
                                               ELSE <<>>]
  <2>1. /\ inst[i].at \in Nat /\ Desc(i).size \in Nat /\ Total \in Nat
        /\ inst[i].at + Desc(i).size <= Total
    <3>1. inst \in Seq([stats : Nat, at : Nat]) /\ i \in 1 .. Len(inst) /\ i \in DOMAIN inst
      BY LenProperties DEF LayoutInv, InstOK
    <3>2. inst[i] \in [stats : Nat, at : Nat]
      BY <3>1, ElementOfSeq
    <3>3. Total \in Nat
      BY DEF LayoutInv, EndsOK, Total
    <3> QED
      BY <3>1, <3>2, <3>3, SeedTypes, InvImpliesLayoutOK DEF LayoutInv, LayoutOK
  <2>2. Desc(i) = Workloads[Seed(i).type] /\ Seed(i).type \in DOMAIN Workloads
    BY DEF KnownTypes, Desc
  <2>3. s.type \in DOMAIN Types /\ s.offset \in Nat /\ s.offset + SizeOf(s.type) <= Desc(i).size
    BY <1>2, <2>2, RegistryAssumption
  <2>4. /\ Len(fields) \in Nat /\ DOMAIN fields = 1 .. Len(fields)
        /\ \A k \in DOMAIN fields : fields[k].type \in DOMAIN Types
        /\ \A k \in DOMAIN fields :
             fields[k].offset \in Nat /\ fields[k].offset + SizeOf(fields[k].type) <= SizeOf(s.type)
    BY <2>3, RegistryAssumption DEF FieldsKnown, SizeOf
  <2>5. \A k \in DOMAIN fields : Types[fields[k].type].kind = "board" => SizeOf(fields[k].type) > 0
    BY <2>4, RegistryAssumption DEF SizeOf
  <2>6. SizeOf(s.type) \in Nat /\ \A k \in DOMAIN fields : SizeOf(fields[k].type) \in Nat
    BY <2>3, <2>4, RegistryAssumption DEF SizeOf
  <2> HIDE DEF fields
  <2> HIDE DEF s
  <2>7. ASSUME NEW k \in DOMAIN fields, Types[fields[k].type].kind = "board"
        PROVE  address(k) \in S
    <3>1. SizeOf(fields[k].type) > 0
      BY <2>5, <2>7
    <3> DEFINE o == fields[k].offset
    <3> DEFINE z == SizeOf(fields[k].type)
    <3>2. o \in Nat /\ z \in Nat /\ o + z <= SizeOf(s.type) /\ z > 0
      BY <2>4, <2>6, <3>1
    <3>3. inst[i].at + s.offset + o \in 0 .. Total - 1
      <4> HIDE DEF o, z
      <4> QED
        BY <2>1, <2>3, <2>6, <3>2
    <3> QED
      BY <3>3
  <2> HIDE DEF address, S
  <2>8. ASSUME NEW k \in DOMAIN fields
        PROVE  (IF Types[fields[k].type].kind = "board" THEN <<address(k)>> ELSE <<>>) \in Seq(S)
    BY <2>7
  <2>9. parts \in [1 .. Len(fields) -> Seq(S)]
    BY <2>4, <2>8
  <2> HIDE DEF parts
  <2>10. parts \in Seq(Seq(S))
    BY <2>4, <2>9, SeqDef
  <2>11. FlattenSeq(parts) \in Seq(S)
    BY <2>10, Flattened
  <2>12. BoardsIn(i, section) = FlattenSeq(parts)
    BY <1>2 DEF BoardsIn, parts, fields, address, s
  <2> QED
    BY <2>11, <2>12 DEF S
<1> QED
  BY <1>1, <1>2

LEMMA AllBoardsOK ==
  ASSUME LayoutInv, KnownTypes, Len(inst) = N
  PROVE  AllBoards \in Seq(0 .. Total - 1) /\ AllBoards \in Seq(Nat)
<1> DEFINE S == 0 .. Total - 1
<1> DEFINE of(i) == [k \in DOMAIN SectionNames |-> BoardsIn(i, SectionNames[k])]
<1> DEFINE parts == [i \in 1 .. N |-> FlattenSeq(of(i))]
<1>1. N \in Nat
  BY EngineAssumption DEF LayoutInv, N
<1>2. ASSUME NEW i \in 1 .. N
      PROVE  FlattenSeq(of(i)) \in Seq(S)
  <2>1. DOMAIN SectionNames = 1 .. 3
    BY DEF SectionNames
  <2> HIDE DEF S
  <2>2. \A k \in 1 .. 3 : BoardsIn(i, SectionNames[k]) \in Seq(S)
    BY BoardsInOK DEF S
  <2>3. PICK n \in Nat : of(i) \in [1 .. n -> Seq(S)]
    <3>1. of(i) \in [1 .. 3 -> Seq(S)] /\ 3 \in Nat
      BY <2>1, <2>2
    <3> HIDE DEF of
    <3> QED
      BY <3>1
  <2> HIDE DEF of
  <2>4. of(i) \in Seq(Seq(S))
    BY <2>3, SeqDef
  <2> QED
    BY <2>4, Flattened
<1> HIDE DEF of, S
<1>3. parts \in [1 .. N -> Seq(S)]
  BY <1>2
<1> HIDE DEF parts
<1>4. parts \in Seq(Seq(S))
  BY <1>1, <1>3, SeqDef
<1>5. FlattenSeq(parts) \in Seq(S)
  BY <1>4, Flattened
<1>6. AllBoards = FlattenSeq(parts)
  BY DEF AllBoards, parts, of
<1>7. \A a \in S : a \in Nat
  BY DEF S
<1>8. AllBoards \in Seq(S)
  BY <1>5, <1>6
<1>9. AllBoards \in Seq(Nat)
  BY <1>7, <1>8, SeqDef
<1> QED
  BY <1>8, <1>9 DEF S

-----------------------------------------------------------------------------
(* The storage of the blackboards.                                          *)

BoardsSized ==
  /\ Len(AllBoards) \in Nat
  /\ \A k \in 1 .. Len(AllBoards) : Sized(BoardTypes(AllBoards[k]))

LEMMA StorageEndsDefined ==
  ASSUME BoardsSized, layout.cursor \in Nat
  PROVE  StorageEnds = [k \in 0 .. Len(AllBoards) |->
                          IF k = 0 THEN layout.cursor
                          ELSE FieldsEnd(StorageEnds[k - 1], BoardTypes(AllBoards[k]))]
<1> DEFINE m == Len(AllBoards)
<1> DEFINE start == layout.cursor
<1> DEFINE g == [p \in (1 .. m) \X Nat |-> FieldsEnd(p[2], BoardTypes(AllBoards[p[1]]))]
<1> DEFINE Solves(f) == f = [k \in 0 .. m |->
                               IF k = 0 THEN start ELSE FieldsEnd(f[k - 1], BoardTypes(AllBoards[k]))]
<1>1. m \in Nat /\ start \in Nat
  BY DEF BoardsSized
<1>2. ASSUME NEW k \in 1 .. m, NEW c \in Nat
      PROVE  /\ FieldsEnd(c, BoardTypes(AllBoards[k])) \in Nat
             /\ g[<<k, c>>] = FieldsEnd(c, BoardTypes(AllBoards[k]))
  <2>1. Sized(BoardTypes(AllBoards[k]))
    BY DEF BoardsSized
  <2> QED
    BY <2>1, FieldsEndOK
<1>3. g \in [(1 .. m) \X Nat -> Nat]
  BY <1>2
<1> HIDE DEF g, m, start
<1>4. PICK f \in [0 .. m -> Nat] : Recurs(f, m, start, g)
  BY <1>1, <1>3, Recursion
<1>5. Solves(f)
  <2>1. ASSUME NEW k \in 0 .. m, k # 0
        PROVE  g[<<k, f[k - 1]>>] = FieldsEnd(f[k - 1], BoardTypes(AllBoards[k]))
    <3>1. k \in 1 .. m /\ k - 1 \in 0 .. m
      BY <1>1, <2>1
    <3>2. f[k - 1] \in Nat
      BY <3>1
    <3> QED
      BY <1>2, <3>1, <3>2
  <2> QED
    BY <1>4, <2>1 DEF Recurs
<1> HIDE DEF Solves
<1>6. Solves(CHOOSE e : Solves(e))
  BY <1>5
<1>7. StorageEnds = CHOOSE e : Solves(e)
  BY DEF StorageEnds, Solves, m, start
<1>8. Solves(StorageEnds)
  BY <1>6, <1>7
<1> QED
  BY <1>8 DEF Solves, m, start

(* Each board where the last one ended (Engine.cpp:625-640).                *)
StoredOK(k) ==
  /\ StorageEnds[k] = FieldsEnd(StorageEnds[k - 1], BoardTypes(AllBoards[k]))
  /\ StorageEnds[k - 1] <= StorageEnds[k]

LEMMA StorageEndsOK ==
  ASSUME BoardsSized, layout.cursor \in Nat
  PROVE  /\ StorageEnds[0] = layout.cursor
         /\ \A k \in 0 .. Len(AllBoards) : StorageEnds[k] \in Nat
         /\ \A k \in 1 .. Len(AllBoards) : StoredOK(k)
         /\ \A j, k \in 0 .. Len(AllBoards) : j <= k => StorageEnds[j] <= StorageEnds[k]
<1> DEFINE m == Len(AllBoards)
<1> DEFINE end == StorageEnds
<1>1. m \in Nat
  BY DEF BoardsSized
<1>2. /\ end[0] = layout.cursor
      /\ \A k \in 1 .. m : end[k] = FieldsEnd(end[k - 1], BoardTypes(AllBoards[k]))
  <2>1. end = [k \in 0 .. m |-> IF k = 0 THEN layout.cursor
                                ELSE FieldsEnd(end[k - 1], BoardTypes(AllBoards[k]))]
    BY StorageEndsDefined
  <2> HIDE DEF end
  <2> QED
    BY <1>1, <2>1
<1>3. ASSUME NEW k \in 1 .. m, end[k - 1] \in Nat
      PROVE  StoredOK(k) /\ end[k] \in Nat /\ end[k - 1] <= end[k]
  <2>1. Sized(BoardTypes(AllBoards[k]))
    BY DEF BoardsSized
  <2>2. /\ FieldsEnd(end[k - 1], BoardTypes(AllBoards[k])) \in Nat
        /\ end[k - 1] <= FieldsEnd(end[k - 1], BoardTypes(AllBoards[k]))
    BY <1>3, <2>1, FieldsEndOK
  <2> QED
    BY <1>2, <2>2 DEF StoredOK
<1> HIDE DEF end, m
<1>4. \A k \in 0 .. m : end[k] \in Nat
  BY <1>1, <1>2, <1>3, Chain
<1>5. \A k \in 1 .. m : k - 1 \in 0 .. m /\ end[k - 1] \in Nat
  BY <1>1, <1>4
<1>6. \A j, k \in 0 .. m : j <= k => end[j] <= end[k]
  BY <1>1, <1>3, <1>4, <1>5, Climbs
<1> QED
  BY <1>2, <1>3, <1>4, <1>5, <1>6 DEF end, m

(* Without storage there are no fields (Engine.cpp:254).                    *)
LEMMA NoStorage ==
  ASSUME BoardsSized, BoardsSize = 0, NEW k \in 1 .. Len(AllBoards),
         \A j \in 1 .. Len(BoardTypes(AllBoards[k])) : BoardTypes(AllBoards[k])[j].size > 0
  PROVE  Len(BoardTypes(AllBoards[k])) = 0
<1> DEFINE m == Len(AllBoards)
<1> DEFINE size(j) == FieldsEnd(0, BoardTypes(AllBoards[j]))
<1> DEFINE Solves(f) == f = [j \in 0 .. m |-> IF j = 0 THEN 0 ELSE f[j - 1] + size(j)]
<1> DEFINE g == [p \in (1 .. m) \X Nat |-> p[2] + size(p[1])]
<1>1. m \in Nat /\ \A j \in 1 .. m : size(j) \in Nat
  BY FieldsEndOK DEF BoardsSized
<1> HIDE DEF size, m
<1>2. g \in [(1 .. m) \X Nat -> Nat]
  BY <1>1
<1>3. \A j \in 1 .. m, c \in Nat : g[<<j, c>>] = c + size(j)
  OBVIOUS
<1> HIDE DEF g
<1>4. PICK f \in [0 .. m -> Nat] : Recurs(f, m, 0, g)
  BY <1>1, <1>2, Recursion
<1>5. Solves(f)
  <2>1. ASSUME NEW j \in 0 .. m, j # 0
        PROVE  g[<<j, f[j - 1]>>] = f[j - 1] + size(j)
    <3>1. j \in 1 .. m /\ j - 1 \in 0 .. m
      BY <1>1, <2>1
    <3>2. f[j - 1] \in Nat
      BY <3>1
    <3> QED
      BY <1>3, <3>1, <3>2
  <2> QED
    BY <1>4, <2>1 DEF Recurs
<1> HIDE DEF Solves
<1> DEFINE sum == CHOOSE e : Solves(e)
<1>6. Solves(sum)
  BY <1>5
<1>7. BoardsSize = sum[m]
  BY DEF BoardsSize, Solves, m, size
<1> HIDE DEF sum
<1>8. sum[0] = 0 /\ \A j \in 1 .. m : sum[j] = sum[j - 1] + size(j)
  BY <1>1, <1>6 DEF Solves
<1>9. \A j \in 0 .. m : sum[j] \in Nat
  <2>1. ASSUME NEW j \in 1 .. m, sum[j - 1] \in Nat
        PROVE  sum[j] \in Nat
    BY <1>1, <1>8, <2>1
  <2>2. sum[0] \in Nat
    BY <1>8
  <2> QED
    BY <1>1, <2>1, <2>2, Chain
<1>10. ASSUME NEW j \in 1 .. m
       PROVE  sum[j - 1] \in Nat /\ sum[j - 1] <= sum[j]
  <2>1. j - 1 \in 0 .. m
    BY <1>1
  <2>2. sum[j - 1] \in Nat
    BY <1>9, <2>1
  <2>3. sum[j] = sum[j - 1] + size(j) /\ size(j) \in Nat
    BY <1>1, <1>8
  <2> QED
    BY <2>2, <2>3
<1>11. \A i, j \in 0 .. m : i <= j => sum[i] <= sum[j]
  BY <1>1, <1>9, <1>10, Climbs
<1>12. size(k) = 0
  <2>1. k \in 1 .. m /\ k \in 0 .. m /\ m \in 0 .. m /\ k <= m /\ k - 1 \in 0 .. m
    BY <1>1 DEF m
  <2>2. sum[k] <= 0 /\ sum[k] = sum[k - 1] + size(k) /\ sum[k - 1] \in Nat /\ size(k) \in Nat
    BY <1>1, <1>7, <1>8, <1>9, <1>11, <2>1
  <2> QED
    BY <2>2
<1> DEFINE types == BoardTypes(AllBoards[k])
<1>13. Sized(types)
  BY DEF BoardsSized
<1>14. FieldsEnd(0, types) = 0 /\ \A j \in 1 .. Len(types) : types[j].size > 0
  BY <1>12 DEF size
<1> HIDE DEF types
<1>15. Len(types) \in Nat /\ \A j \in 1 .. Len(types) : types[j].size \in Nat
  BY <1>13 DEF Sized
<1>16. ASSUME Len(types) # 0
       PROVE  FALSE
  <2>1. 1 \in 1 .. Len(types)
    BY <1>15, <1>16
  <2>2. FieldStart(0, types, 1) \in Nat /\ FieldStart(0, types, 1) + types[1].size <= 0
    BY <1>13, <1>14, <2>1, FieldInside
  <2> QED
    BY <1>14, <1>15, <2>1, <2>2
<1> QED
  BY <1>16 DEF types

-----------------------------------------------------------------------------
(* What boards are made of.                                                 *)

Described(fields) ==
  /\ FieldsKnown(fields)
  /\ \A k \in DOMAIN fields :
       fields[k] = [name |-> fields[k].name, type |-> fields[k].type, offset |-> fields[k].offset]

BoardsDescribed == \A a \in DOMAIN boards : Described(boards[a].fields)

LEMMA InitialisedOK ==
  ASSUME BoardsDescribed, KnownTypes, NEW i \in 1 .. N, NEW at, NEW fn
  PROVE  \A a \in DOMAIN Initialised(i, at, fn) : Described(Initialised(i, at, fn)[a].fields)
<1> DEFINE own == {b \in ToSet(Desc(i).boards) : b.by = fn}
<1> DEFINE from(a) == (CHOOSE b \in own : BoardAt(i, at, b) = a).fields
<1> DEFINE fields(a) == [k \in DOMAIN from(a) |->
                          [name |-> from(a)[k].name, type |-> from(a)[k].type, offset |-> Unbound]]
<1> DEFINE new == Initialised(i, at, fn)
<1>1. new = [a \in DOMAIN boards \cup {BoardAt(i, at, b) : b \in own} |->
               IF \A b \in own : BoardAt(i, at, b) # a THEN boards[a] ELSE [fields |-> fields(a)]]
  BY DEF Initialised
<1> HIDE DEF new
<1>2. ASSUME NEW a, \E b \in own : BoardAt(i, at, b) = a
      PROVE  FieldsKnown(from(a))
  <2> DEFINE b == CHOOSE b \in own : BoardAt(i, at, b) = a
  <2>1. b \in own
    BY <1>2
  <2> HIDE DEF b
  <2>2. PICK k \in DOMAIN Desc(i).boards : b = Desc(i).boards[k]
    BY <2>1 DEF ToSet
  <2>3. Desc(i) = Workloads[Seed(i).type] /\ Seed(i).type \in DOMAIN Workloads
    BY DEF KnownTypes, Desc
  <2>4. FieldsKnown(b.fields)
    BY <2>2, <2>3, RegistryAssumption
  <2> QED
    BY <2>4 DEF b
<1>3. ASSUME NEW a, FieldsKnown(from(a))
      PROVE  Described(fields(a))
  <2> HIDE DEF from
  <2>1. /\ Len(from(a)) \in Nat /\ DOMAIN from(a) = 1 .. Len(from(a))
        /\ \A f \in DOMAIN from(a) : from(a)[f].type \in DOMAIN Types
    BY <1>3 DEF FieldsKnown
  <2>2. Len(fields(a)) = Len(from(a)) /\ DOMAIN fields(a) = DOMAIN from(a)
    BY <2>1, LenProperties
  <2> QED
    BY <2>1, <2>2 DEF Described, FieldsKnown
<1> HIDE DEF own, fields
<1> SUFFICES ASSUME NEW a \in DOMAIN new PROVE Described(new[a].fields)
  BY DEF new
<1>4. CASE \A b \in own : BoardAt(i, at, b) # a
  <2>1. new[a] = boards[a] /\ a \in DOMAIN boards
    BY <1>1, <1>4
  <2> QED
    BY <2>1 DEF BoardsDescribed
<1>5. CASE \E b \in own : BoardAt(i, at, b) = a
  <2>1. new[a] = [fields |-> fields(a)]
    BY <1>1, <1>5
  <2>2. Described(fields(a))
    BY <1>2, <1>3, <1>5
  <2> QED
    BY <2>1, <2>2
<1> QED
  BY <1>4, <1>5

(* The types of a board's fields, once their layout has been found.         *)
LEMMA BoardTypesOK ==
  ASSUME BoardsDescribed, NEW a \in DOMAIN boards
  PROVE  /\ BoardTypes(a) \in Seq(Range(Types))
         /\ DOMAIN BoardTypes(a) = DOMAIN boards[a].fields
         /\ DOMAIN BoardTypes(a) = 1 .. Len(BoardTypes(a)) /\ Len(BoardTypes(a)) \in Nat
         /\ \A k \in DOMAIN BoardTypes(a) : BoardTypes(a)[k] = Types[boards[a].fields[k].type]
<1> DEFINE fields == boards[a].fields
<1> DEFINE types == [k \in DOMAIN fields |-> Types[fields[k].type]]
<1>1. BoardTypes(a) = types
  BY DEF BoardTypes, FieldTypes
<1>2. Len(fields) \in Nat /\ DOMAIN fields = 1 .. Len(fields) /\ \A k \in DOMAIN fields : fields[k].type \in DOMAIN Types
  BY DEF BoardsDescribed, Described, FieldsKnown
<1> HIDE DEF fields
<1>3. types \in [1 .. Len(fields) -> Range(Types)]
  BY <1>2 DEF Range
<1>4. types \in Seq(Range(Types)) /\ Len(types) = Len(fields)
  BY <1>2, <1>3, SeqDef, LenProperties
<1>5. DOMAIN types = DOMAIN fields /\ \A k \in DOMAIN types : types[k] = Types[fields[k].type]
  OBVIOUS
<1> HIDE DEF types
<1> QED
  BY <1>1, <1>2, <1>4, <1>5 DEF fields

LEMMA SizedBoards ==
  ASSUME BoardsDescribed, NEW a, NEW start, CanLayOut(start, BoardTypes(a))
  PROVE  /\ Sized(BoardTypes(a))
         /\ \A k \in 1 .. Len(BoardTypes(a)) : BoardTypes(a)[k].size > 0
<1> DEFINE types == BoardTypes(a)
<1>1. CASE a \notin DOMAIN boards
  <2>1. types = <<>>
    BY <1>1 DEF BoardTypes
  <2> QED
    BY <2>1 DEF Sized
<1>2. CASE a \in DOMAIN boards
  <2>1. /\ Len(types) \in Nat /\ DOMAIN types = 1 .. Len(types)
        /\ \A k \in DOMAIN types : types[k] = Types[boards[a].fields[k].type]
        /\ \A k \in DOMAIN types : boards[a].fields[k].type \in DOMAIN Types
    BY <1>2, BoardTypesOK DEF BoardsDescribed, Described, FieldsKnown
  <2>2. \A k \in DOMAIN types : types[k].align > 0 /\ types[k].size > 0
    BY DEF CanLayOut, CanAlign
  <2> HIDE DEF types
  <2>3. \A k \in DOMAIN types : types[k].align \in Nat /\ types[k].size \in Nat
    BY <2>1, RegistryAssumption
  <2>4. Sized(types) /\ \A k \in 1 .. Len(types) : types[k].size > 0
    BY <2>1, <2>2, <2>3 DEF Sized
  <2> QED
    BY <2>4 DEF types
<1> QED
  BY <1>1, <1>2

-----------------------------------------------------------------------------
(* Where the fields of a bound board lie, and where they end.               *)

FieldAt(a, k) == FieldStart(StorageOf(a), BoardTypes(a), k)
FieldEnd(a, k) == FieldAt(a, k) + BoardTypes(a)[k].size

FieldsOfBoard(a) == 1 .. Len(BoardTypes(a))

LEMMA Indices ==
  ASSUME AllBoards \in Seq(Nat), BoardsSized, NEW a \in ToSet(AllBoards)
  PROVE  \E j \in 1 .. Len(AllBoards) : /\ AllBoards[j] = a /\ StorageOf(a) = StorageEnds[j - 1]
                                        /\ j - 1 \in 0 .. Len(AllBoards) /\ j \in 0 .. Len(AllBoards)
<1>1. DOMAIN AllBoards = 1 .. Len(AllBoards) /\ Len(AllBoards) \in Nat
  BY LenProperties
<1>2. \E j \in DOMAIN AllBoards : AllBoards[j] = a
  BY DEF ToSet
<1> DEFINE j == CHOOSE j \in DOMAIN AllBoards : AllBoards[j] = a
<1>3. j \in DOMAIN AllBoards /\ AllBoards[j] = a
  BY <1>2
<1>4. StorageOf(a) = StorageEnds[j - 1]
  BY DEF StorageOf
<1> HIDE DEF j
<1>5. j \in 1 .. Len(AllBoards) /\ j - 1 \in 0 .. Len(AllBoards) /\ j \in 0 .. Len(AllBoards)
  BY <1>1, <1>3
<1> QED
  BY <1>3, <1>4, <1>5

(* Each field lies, aligned, in the storage of its board.                   *)
LEMMA FieldInStorage ==
  ASSUME BoardsSized, layout.cursor \in Nat,
         NEW j \in 1 .. Len(AllBoards), NEW k \in FieldsOfBoard(AllBoards[j]),
         StorageOf(AllBoards[j]) = StorageEnds[j - 1]
  PROVE  /\ FieldAt(AllBoards[j], k) \in Nat /\ BoardTypes(AllBoards[j])[k].size \in Nat
         /\ layout.cursor <= FieldAt(AllBoards[j], k)
         /\ StorageEnds[j - 1] <= FieldAt(AllBoards[j], k)
         /\ FieldEnd(AllBoards[j], k) <= StorageEnds[j]
         /\ FieldAt(AllBoards[j], k) % BoardTypes(AllBoards[j])[k].align = 0
<1> DEFINE a == AllBoards[j]
<1> DEFINE types == BoardTypes(a)
<1> DEFINE start == StorageEnds[j - 1]
<1>1. Len(AllBoards) \in Nat /\ Sized(types)
  BY DEF BoardsSized
<1>2. j - 1 \in 0 .. Len(AllBoards) /\ 0 \in 0 .. Len(AllBoards) /\ 0 <= j - 1
  BY <1>1
<1>3. start \in Nat /\ layout.cursor <= start
  <2>1. StorageEnds[0] = layout.cursor /\ StorageEnds[0] <= StorageEnds[j - 1]
    BY <1>2, StorageEndsOK
  <2>2. StorageEnds[j - 1] \in Nat
    BY <1>2, StorageEndsOK
  <2> QED
    BY <2>1, <2>2
<1>4. StorageEnds[j] = FieldsEnd(start, types)
  <2>1. StoredOK(j)
    BY StorageEndsOK
  <2> QED
    BY <2>1 DEF StoredOK
<1>5. k \in 1 .. Len(types)
  BY DEF FieldsOfBoard
<1>6. FieldAt(a, k) = FieldStart(start, types, k) /\ FieldEnd(a, k) = FieldStart(start, types, k) + types[k].size
  BY DEF FieldAt, FieldEnd
<1>7. types[k].size \in Nat
  BY <1>1, <1>5 DEF Sized
<1> HIDE DEF types, start
<1>8. /\ FieldStart(start, types, k) \in Nat
      /\ start <= FieldStart(start, types, k)
      /\ FieldStart(start, types, k) + types[k].size <= FieldsEnd(start, types)
      /\ FieldStart(start, types, k) % types[k].align = 0
  BY <1>1, <1>3, <1>5, FieldInside
<1>9. layout.cursor <= FieldAt(a, k)
  BY <1>3, <1>6, <1>8
<1> QED
  BY <1>4, <1>6, <1>7, <1>8, <1>9 DEF types, start

(* Fields of one board are apart, and those of boards that are stored one   *)
(* behind the other.                                                        *)
LEMMA SameBoard ==
  ASSUME BoardsSized, layout.cursor \in Nat,
         NEW j \in 1 .. Len(AllBoards), StorageOf(AllBoards[j]) = StorageEnds[j - 1],
         NEW k \in FieldsOfBoard(AllBoards[j]), NEW l \in FieldsOfBoard(AllBoards[j]), k < l
  PROVE  FieldEnd(AllBoards[j], k) <= FieldAt(AllBoards[j], l)
<1>1. Sized(BoardTypes(AllBoards[j])) /\ Len(AllBoards) \in Nat
  BY DEF BoardsSized
<1>2. StorageEnds[j - 1] \in Nat
  <2>1. j - 1 \in 0 .. Len(AllBoards)
    BY <1>1
  <2> QED
    BY <2>1, StorageEndsOK
<1>3. FieldStart(StorageEnds[j - 1], BoardTypes(AllBoards[j]), k) + BoardTypes(AllBoards[j])[k].size
        <= FieldStart(StorageEnds[j - 1], BoardTypes(AllBoards[j]), l)
  BY <1>1, <1>2, FieldsApart DEF FieldsOfBoard
<1> QED
  BY <1>3 DEF FieldAt, FieldEnd

LEMMA LaterBoard ==
  ASSUME BoardsSized, layout.cursor \in Nat,
         NEW i \in 1 .. Len(AllBoards), StorageOf(AllBoards[i]) = StorageEnds[i - 1],
         NEW j \in 1 .. Len(AllBoards), StorageOf(AllBoards[j]) = StorageEnds[j - 1], i < j,
         NEW k \in FieldsOfBoard(AllBoards[i]), NEW l \in FieldsOfBoard(AllBoards[j])
  PROVE  FieldEnd(AllBoards[i], k) <= FieldAt(AllBoards[j], l)
<1> DEFINE e == FieldEnd(AllBoards[i], k)
<1> DEFINE s == FieldAt(AllBoards[j], l)
<1>1. Len(AllBoards) \in Nat
  BY DEF BoardsSized
<1>2. i \in 0 .. Len(AllBoards) /\ j - 1 \in 0 .. Len(AllBoards) /\ i <= j - 1
  BY <1>1
<1>3. StorageEnds[i] <= StorageEnds[j - 1] /\ StorageEnds[i] \in Nat /\ StorageEnds[j - 1] \in Nat
  BY <1>2, StorageEndsOK
<1>4. e <= StorageEnds[i] /\ e \in Nat
  <2>1. /\ FieldAt(AllBoards[i], k) \in Nat /\ BoardTypes(AllBoards[i])[k].size \in Nat
        /\ FieldEnd(AllBoards[i], k) <= StorageEnds[i]
    BY FieldInStorage
  <2> QED
    BY <2>1 DEF FieldEnd
<1>5. StorageEnds[j - 1] <= s /\ s \in Nat
  BY FieldInStorage
<1> HIDE DEF e, s
<1>6. e <= s
  BY <1>3, <1>4, <1>5
<1> QED
  BY <1>6 DEF e, s

LEMMA AllApart ==
  ASSUME AllBoards \in Seq(Nat), BoardsSized, layout.cursor \in Nat,
         NEW a \in ToSet(AllBoards), NEW b \in ToSet(AllBoards),
         NEW k \in FieldsOfBoard(a), NEW l \in FieldsOfBoard(b), a # b \/ k # l
  PROVE  FieldEnd(a, k) <= FieldAt(b, l) \/ FieldEnd(b, l) <= FieldAt(a, k)
<1>1. PICK i \in 1 .. Len(AllBoards) : AllBoards[i] = a /\ StorageOf(a) = StorageEnds[i - 1]
  BY Indices
<1>2. PICK j \in 1 .. Len(AllBoards) : AllBoards[j] = b /\ StorageOf(b) = StorageEnds[j - 1]
  BY Indices
<1>3. Len(AllBoards) \in Nat
  BY DEF BoardsSized
<1>4. CASE i < j
  BY <1>1, <1>2, <1>4, LaterBoard
<1>5. CASE j < i
  BY <1>1, <1>2, <1>5, LaterBoard
<1>6. CASE i = j
  <2>1. a = b /\ k # l
    BY <1>1, <1>2, <1>6
  <2>2. Len(BoardTypes(a)) \in Nat
    BY <1>1 DEF BoardsSized, Sized
  <2>3. k < l \/ l < k
    BY <2>1, <2>2 DEF FieldsOfBoard
  <2>4. CASE k < l
    BY <1>1, <2>1, <2>4, SameBoard
  <2>5. CASE l < k
    BY <1>1, <2>1, <2>5, SameBoard
  <2> QED
    BY <2>3, <2>4, <2>5
<1> QED
  BY <1>3, <1>4, <1>5, <1>6

-----------------------------------------------------------------------------
(* Binding.                                                                 *)

LEMMA CanBindOK ==
  ASSUME LayoutInv, BoardsDescribed, KnownTypes, Len(inst) = N, CanBind
  PROVE  /\ AllBoards \in Seq(Nat) /\ BoardsSized
         /\ BoardsSize = 0 => \A a \in BoundBoards : FieldsOfBoard(a) = {}
<1>1. AllBoards \in Seq(Nat)
  BY AllBoardsOK
<1>2. Len(AllBoards) \in Nat /\ DOMAIN AllBoards = 1 .. Len(AllBoards)
  BY <1>1, LenProperties
<1>3. ASSUME NEW k \in 1 .. Len(AllBoards)
      PROVE  /\ Sized(BoardTypes(AllBoards[k]))
             /\ \A j \in 1 .. Len(BoardTypes(AllBoards[k])) : BoardTypes(AllBoards[k])[j].size > 0
  <2>1. CanLayOut(StorageEnds[k - 1], BoardTypes(AllBoards[k]))
    BY <1>2 DEF CanBind
  <2> QED
    BY <2>1, SizedBoards
<1>4. BoardsSized
  BY <1>2, <1>3 DEF BoardsSized
<1>5. ASSUME BoardsSize = 0, NEW a \in BoundBoards
      PROVE  FieldsOfBoard(a) = {}
  <2>1. PICK k \in 1 .. Len(AllBoards) : AllBoards[k] = a
    BY <1>2 DEF BoundBoards, ToSet
  <2>2. Len(BoardTypes(AllBoards[k])) = 0
    BY <1>3, <1>4, <1>5, NoStorage
  <2> QED
    BY <2>1, <2>2 DEF FieldsOfBoard
<1> QED
  BY <1>1, <1>4, <1>5

(* What a bound board looks like.                                           *)
LEMMA BoundOK ==
  ASSUME BoardsDescribed
  PROVE  /\ DOMAIN Bound = DOMAIN boards
         /\ \A a \in DOMAIN boards :
              /\ Described(Bound[a].fields)
              /\ DOMAIN Bound[a].fields = DOMAIN boards[a].fields
              /\ \A k \in DOMAIN boards[a].fields :
                   /\ Bound[a].fields[k].type = boards[a].fields[k].type
                   /\ a \in BoundBoards => Bound[a].fields[k].offset = FieldAt(a, k) - a
<1>1. DOMAIN Bound = DOMAIN boards
  BY DEF Bound
<1>2. ASSUME NEW a \in DOMAIN boards
      PROVE  /\ Described(Bound[a].fields)
             /\ DOMAIN Bound[a].fields = DOMAIN boards[a].fields
             /\ \A k \in DOMAIN boards[a].fields :
                  /\ Bound[a].fields[k].type = boards[a].fields[k].type
                  /\ a \in BoundBoards => Bound[a].fields[k].offset = FieldAt(a, k) - a
  <2>1. CASE a \notin BoundBoards
    <3>1. Bound[a] = boards[a]
      BY <2>1 DEF Bound
    <3> QED
      BY <2>1, <3>1 DEF BoardsDescribed
  <2>2. CASE a \in BoundBoards
    <3> DEFINE old == boards[a].fields
    <3> DEFINE offset(k) == FieldAt(a, k) - a
    <3> DEFINE new == [k \in DOMAIN old |-> [old[k] EXCEPT !.offset = offset(k)]]
    <3>1. Bound[a].fields = new
      BY <2>2 DEF Bound, FieldAt
    <3>2. /\ Len(old) \in Nat /\ DOMAIN old = 1 .. Len(old)
          /\ \A k \in DOMAIN old : old[k].type \in DOMAIN Types
          /\ \A k \in DOMAIN old : old[k] = [name |-> old[k].name, type |-> old[k].type, offset |-> old[k].offset]
      BY DEF BoardsDescribed, Described, FieldsKnown
    <3> HIDE DEF old, offset
    <3>3. \A k \in DOMAIN old : new[k] = [name |-> old[k].name, type |-> old[k].type, offset |-> offset(k)]
      BY <3>2
    <3>4. DOMAIN new = DOMAIN old /\ Len(new) = Len(old)
      BY <3>2, LenProperties
    <3> HIDE DEF new
    <3>5. Described(new)
      BY <3>2, <3>3, <3>4 DEF Described, FieldsKnown
    <3>6. ASSUME NEW k \in DOMAIN old
          PROVE  new[k].type = old[k].type /\ new[k].offset = offset(k)
      <4> DEFINE n == old[k].name
      <4> DEFINE t == old[k].type
      <4> DEFINE o == offset(k)
      <4>1. new[k] = [name |-> n, type |-> t, offset |-> o]
        BY <3>3
      <4> HIDE DEF n, t, o
      <4>2. new[k].type = t /\ new[k].offset = o
        BY <4>1
      <4> QED
        BY <4>2 DEF t, o
    <3> QED
      BY <3>1, <3>4, <3>5, <3>6 DEF old, offset
  <2> QED
    BY <2>1, <2>2
<1> QED
  BY <1>1, <1>2

LEMMA BindingKept ==
  ASSUME UNCHANGED <<model, inst>>
  PROVE  AllBoards' = AllBoards /\ N' = N /\ KnownTypes' = KnownTypes
BY DEF AllBoards, BoardsIn, Desc, Seed, N, SectionNames, KnownTypes

LEMMA BindBoardsApart == LayoutInv /\ BoardsDescribed /\ BindBoards => BoardsDescribed' /\ BoardFieldsApart'
<1> SUFFICES ASSUME LayoutInv, BoardsDescribed, BindBoards
             PROVE  BoardsDescribed' /\ BoardFieldsApart'
  OBVIOUS
<1>1. /\ pc.at = "set_engine" /\ KnownTypes /\ LayingOut /\ Len(inst) = N
      /\ model' = model /\ inst' = inst
  BY DEF BindBoards, Past, LayoutInv, PhaseOK, Known
<1>2. CASE UNCHANGED <<layout, boards>> /\ Exit
  <2>1. pc' = [at |-> "fatal", i |-> 0, entry |-> 1] /\ boards' = boards
    BY <1>2 DEF Exit, Go
  <2>2. ~BoardsBound'
    BY <2>1 DEF BoardsBound, AfterBinding, AfterLoad, Running
  <2> QED
    BY <2>1, <2>2 DEF BoardsDescribed, BoardFieldsApart
<1>3. CASE /\ CanBind
           /\ layout' = [layout EXCEPT !.cursor = @ + BoardsSize, !.used = layout.cursor + BoardsSize]
           /\ boards' = IF BoardsSize > 0 THEN Bound ELSE boards
  <2>1. AllBoards \in Seq(Nat) /\ BoardsSized
    BY <1>1, <1>3, CanBindOK
  <2>2. layout.cursor = Total /\ layout.cursor \in Nat /\ layout'.ends = layout.ends
    <3>1. N \in Nat /\ Len(layout.ends) = N /\ layout.ends \in Seq(Nat)
      BY <1>1, EngineAssumption DEF LayingOut, Allocated, LayoutInv, EndsOK, N
    <3>2. layout.cursor = Total
      BY <1>1, <3>1 DEF LayingOut, Before, Total
    <3>3. layout \in [ends : Seq(Nat), cursor : Nat, capacity : Nat, used : Nat]
      BY DEF LayoutInv
    <3> QED
      BY <1>3, <3>2, <3>3
  <2>3. Total' = Total /\ AllBoards' = AllBoards
    BY <1>1, <2>2, BindingKept DEF Total
  <2>4. BoardsSize \in 0 .. MaxBlackboards /\ MaxBlackboards \in Nat
    BY <1>3, EngineAssumption DEF CanBind
  <2>5. DOMAIN boards' = DOMAIN boards /\ BoardsDescribed'
    BY <1>3, BoundOK DEF BoardsDescribed
  <2>6. BoundBoards' = BoundBoards /\ BoundBoards \subseteq ToSet(AllBoards)
    BY <2>3, <2>5 DEF BoundBoards
  <2>7. ASSUME NEW a \in BoundBoards, NEW k \in DOMAIN boards'[a].fields
        PROVE  /\ k \in FieldsOfBoard(a)
               /\ a + boards'[a].fields[k].offset = FieldAt(a, k)
               /\ Types[boards'[a].fields[k].type] = BoardTypes(a)[k]
    <3>1. a \in DOMAIN boards /\ a \in ToSet(AllBoards)
      BY DEF BoundBoards
    <3>2. /\ FieldsOfBoard(a) = DOMAIN boards[a].fields
          /\ \A l \in FieldsOfBoard(a) : BoardTypes(a)[l] = Types[boards[a].fields[l].type]
      BY <3>1, BoardTypesOK DEF FieldsOfBoard
    <3>3. CASE BoardsSize > 0
      <4>1. boards' = Bound
        BY <1>3, <3>3
      <4>2. k \in DOMAIN boards[a].fields /\ boards'[a].fields[k].type = boards[a].fields[k].type
        BY <3>1, <4>1, BoundOK
      <4>3. boards'[a].fields[k].offset = FieldAt(a, k) - a
        BY <3>1, <4>1, <4>2, BoundOK
      <4>4. a \in Nat /\ FieldAt(a, k) \in Nat
        <5>1. PICK j \in 1 .. Len(AllBoards) : AllBoards[j] = a /\ StorageOf(a) = StorageEnds[j - 1]
          BY <2>1, <3>1, Indices
        <5>2. a \in Nat
          BY <2>1, <5>1, ElementOfSeq
        <5>3. FieldAt(AllBoards[j], k) \in Nat
          BY <2>1, <2>2, <3>2, <4>2, <5>1, FieldInStorage
        <5> QED
          BY <5>1, <5>2, <5>3
      <4> QED
        BY <3>2, <4>2, <4>3, <4>4
    <3>4. CASE ~(BoardsSize > 0)
      <4>1. BoardsSize = 0 /\ boards' = boards
        BY <1>3, <2>4, <3>4
      <4>2. FieldsOfBoard(a) = {}
        BY <1>1, <1>3, <4>1, CanBindOK
      <4> QED
        BY <3>2, <4>1, <4>2
    <3> QED
      BY <3>3, <3>4
  <2> DEFINE Lies(f, a, k) == /\ f = [board |-> a, k |-> k, at |-> FieldAt(a, k), type |-> boards'[a].fields[k].type]
                              /\ f.at = FieldAt(a, k) /\ SizeOf(f.type) = BoardTypes(a)[k].size
                              /\ Types[f.type].align = BoardTypes(a)[k].align
  <2>8. ASSUME NEW f \in BoardFields'
        PROVE  \E a \in BoundBoards : \E k \in FieldsOfBoard(a) : Lies(f, a, k)
    <3>3. PICK a \in BoundBoards : \E k \in DOMAIN boards'[a].fields :
            f = [board |-> a, k |-> k, at |-> a + boards'[a].fields[k].offset, type |-> boards'[a].fields[k].type]
      BY <2>6 DEF BoardFields
    <3>1. PICK k \in DOMAIN boards'[a].fields :
            f = [board |-> a, k |-> k, at |-> a + boards'[a].fields[k].offset, type |-> boards'[a].fields[k].type]
      BY <3>3
    <3>2. Lies(f, a, k)
      BY <2>7, <3>1 DEF SizeOf
    <3> QED
      BY <2>7, <3>2
  <2>9. ASSUME NEW f \in BoardFields'
        PROVE  f.at % Types[f.type].align = 0 /\ f.at >= Total'
    <3>6. PICK a \in BoundBoards : \E k \in FieldsOfBoard(a) : Lies(f, a, k)
      BY <2>8
    <3>1. PICK k \in FieldsOfBoard(a) : Lies(f, a, k)
      BY <3>6
    <3>2. PICK j \in 1 .. Len(AllBoards) : AllBoards[j] = a /\ StorageOf(a) = StorageEnds[j - 1]
      BY <2>1, <2>6, Indices
    <3>3. /\ FieldAt(AllBoards[j], k) \in Nat
          /\ layout.cursor <= FieldAt(AllBoards[j], k)
          /\ FieldAt(AllBoards[j], k) % BoardTypes(AllBoards[j])[k].align = 0
      BY <2>1, <2>2, <3>2, FieldInStorage
    <3> QED
      BY <2>2, <2>3, <3>1, <3>2, <3>3
  <2>10. ASSUME NEW f \in BoardFields', NEW g \in BoardFields', f # g
         PROVE  ~Overlap(f.at, SizeOf(f.type), g.at, SizeOf(g.type))
    <3>6. PICK a \in BoundBoards : \E k \in FieldsOfBoard(a) : Lies(f, a, k)
      BY <2>8
    <3>1. PICK k \in FieldsOfBoard(a) : Lies(f, a, k)
      BY <3>6
    <3>7. PICK b \in BoundBoards : \E l \in FieldsOfBoard(b) : Lies(g, b, l)
      BY <2>8
    <3>2. PICK l \in FieldsOfBoard(b) : Lies(g, b, l)
      BY <3>7
    <3>3. a # b \/ k # l
      BY <2>10, <3>1, <3>2
    <3>4. FieldEnd(a, k) <= FieldAt(b, l) \/ FieldEnd(b, l) <= FieldAt(a, k)
      BY <2>1, <2>2, <2>6, <3>3, AllApart
    <3>5. /\ FieldAt(a, k) \in Nat /\ BoardTypes(a)[k].size \in Nat
          /\ FieldAt(b, l) \in Nat /\ BoardTypes(b)[l].size \in Nat
      <4>1. PICK i \in 1 .. Len(AllBoards) : AllBoards[i] = a /\ StorageOf(a) = StorageEnds[i - 1]
        BY <2>1, <2>6, Indices
      <4>2. PICK j \in 1 .. Len(AllBoards) : AllBoards[j] = b /\ StorageOf(b) = StorageEnds[j - 1]
        BY <2>1, <2>6, Indices
      <4>3. FieldAt(AllBoards[i], k) \in Nat /\ BoardTypes(AllBoards[i])[k].size \in Nat
        BY <2>1, <2>2, <4>1, FieldInStorage
      <4>4. FieldAt(AllBoards[j], l) \in Nat /\ BoardTypes(AllBoards[j])[l].size \in Nat
        BY <2>1, <2>2, <4>2, FieldInStorage
      <4> QED
        BY <4>1, <4>2, <4>3, <4>4
    <3> QED
      BY <3>1, <3>2, <3>4, <3>5 DEF FieldEnd, Overlap
  <2> QED
    BY <2>5, <2>9, <2>10 DEF BoardFieldsApart
<1> QED
  BY <1>2, <1>3 DEF BindBoards

-----------------------------------------------------------------------------
(* The inductive invariant of BoardFieldsApart: blackboards that exist were *)
(* initialised from descriptions of their fields, and once they are bound,  *)
(* what was placed stays where it is.                                       *)
RoundOK == pc.at \in {"set_engine", "preload"} => pc.i \in Nat \ {0}

BoardsInv == BoardsDescribed /\ RoundOK /\ BoardFieldsApart

LEMMA BoardsInit == Init => BoardsInv
<1> SUFFICES ASSUME Init PROVE BoardsInv
  OBVIOUS
<1>1. DOMAIN boards = {}
  BY DEF Init
<1>2. pc.at = "build"
  BY DEF Init
<1> QED
  BY <1>1, <1>2 DEF BoardsInv, RoundOK, BoardsDescribed, BoardFieldsApart, BoardsBound,
     AfterBinding, AfterLoad, Running

(* Steps before binding, and steps that change no board.                    *)
LEMMA BoardsUnbound ==
  ASSUME BoardsDescribed', RoundOK', pc'.at \notin AfterBinding
  PROVE  BoardsInv'
BY DEF BoardsInv, BoardFieldsApart, BoardsBound

LEMMA BoardsKept ==
  ASSUME BoardsInv, UNCHANGED <<model, layout, inst, boards>>, RoundOK',
         pc.at \in AfterBinding \/ pc'.at \notin AfterBinding
  PROVE  BoardsInv'
<1>1. BoardsDescribed'
  BY DEF BoardsInv, BoardsDescribed
<1>2. CASE pc'.at \notin AfterBinding
  BY <1>1, <1>2, BoardsUnbound
<1>3. CASE pc.at \in AfterBinding
  <2>1. BoundBoards' = BoundBoards
    BY BindingKept DEF BoundBoards
  <2>2. BoardFields' = BoardFields /\ Total' = Total
    BY <2>1 DEF BoardFields, Total
  <2>3. BoardFieldsApart'
    BY <1>3, <2>2 DEF BoardsInv, BoardFieldsApart, BoardsBound
  <2> QED
    BY <1>1, <2>3 DEF BoardsInv
<1> QED
  BY <1>2, <1>3

LEMMA BoardsNext == LayoutInv /\ BoardsInv /\ [Next]_vars => BoardsInv'
<1> SUFFICES ASSUME LayoutInv, BoardsInv, [Next]_vars PROVE BoardsInv'
  OBVIOUS
<1> USE DEF static, AfterBinding, AfterLoad, Running
<1>1. CASE Build \/ Load \/ Constructed \/ SetEngine
  <2>1. UNCHANGED <<model, layout, inst, boards>>
    BY <1>1 DEF Build, Load, Constructed, SetEngine
  <2>2. pc'.at \in {"idle", "size", "set_engine", "preload", "fatal"} /\ RoundOK'
    <3>1. \/ pc' = [at |-> "idle", i |-> 1, entry |-> 1]
          \/ pc' = [at |-> "size", i |-> 1, entry |-> 1]
          \/ pc' = [at |-> "set_engine", i |-> 1, entry |-> 1]
          \/ pc' = [at |-> "preload", i |-> pc.i, entry |-> 1] /\ pc.at = "set_engine"
          \/ pc' = [at |-> "fatal", i |-> 0, entry |-> 1]
      BY <1>1, Zenon DEF Build, Load, Constructed, SetEngine, Go, Exit, At
    <3> QED
      BY <3>1 DEF BoardsInv, RoundOK
  <2> QED
    BY <2>1, <2>2, BoardsKept
<1>2. CASE Size \/ Allocate
  <2>1. boards' = boards /\ pc'.at \in {"size", "layout", "fatal"}
    BY <1>2 DEF Size, Allocate, Go, Exit
  <2>2. BoardsDescribed'
    BY <2>1 DEF BoardsInv, BoardsDescribed
  <2> QED
    BY <2>1, <2>2, BoardsUnbound DEF RoundOK
<1>3. CASE Construct
  <2>1. pc.at = "layout" /\ KnownTypes /\ pc.i \in 1 .. N /\ pc'.at \in {"layout", "fatal"}
    <3>1. pc.at = "layout" /\ pc.i <= N /\ pc.i = Len(inst) + 1 /\ KnownTypes
      BY <1>3 DEF Construct, At, LayoutInv, PhaseOK, Known
    <3>2. N \in Nat /\ Len(inst) \in Nat
      BY EngineAssumption DEF LayoutInv, N, InstOK
    <3>3. \/ pc' = [at |-> "layout", i |-> pc.i + 1, entry |-> 1]
          \/ pc' = [at |-> "fatal", i |-> 0, entry |-> 1]
      BY <1>3, Zenon DEF Construct, Go, Exit
    <3> QED
      BY <3>1, <3>2, <3>3
  <2>2. boards' = boards \/ \E at : boards' = Initialised(pc.i, at, "construct")
    BY <1>3, Zenon DEF Construct
  <2>3. BoardsDescribed'
    BY <2>1, <2>2, InitialisedOK DEF BoardsInv, BoardsDescribed
  <2> QED
    BY <2>1, <2>3, BoardsUnbound DEF RoundOK
<1>4. CASE PreLoad
  <2>1. pc.at = "preload" /\ KnownTypes /\ pc.i \in 1 .. N /\ pc'.at \in {"set_engine", "fatal"} /\ RoundOK'
    <3>1. \/ pc' = [at |-> "set_engine", i |-> pc.i + 1, entry |-> 1]
          \/ pc' = [at |-> "fatal", i |-> 0, entry |-> 1]
      BY <1>4, Zenon DEF PreLoad, Go, Exit
    <3>2. pc.at = "preload" /\ KnownTypes /\ pc.i <= N
      BY <1>4 DEF PreLoad, At, LayoutInv, PhaseOK, Known
    <3>3. pc.i \in Nat \ {0} /\ N \in Nat
      BY <3>2, EngineAssumption DEF BoardsInv, RoundOK, LayoutInv, N
    <3> QED
      BY <3>1, <3>2, <3>3 DEF RoundOK
  <2>2. boards' = boards \/ \E at : boards' = Initialised(pc.i, at, "pre_load")
    BY <1>4, Zenon DEF PreLoad
  <2>3. BoardsDescribed'
    BY <2>1, <2>2, InitialisedOK DEF BoardsInv, BoardsDescribed
  <2> QED
    BY <2>1, <2>3, BoardsUnbound
<1>5. CASE BindBoards
  <2>1. \/ pc' = [at |-> "configure", i |-> 1, entry |-> 1]
        \/ pc' = [at |-> "fatal", i |-> 0, entry |-> 1]
    BY <1>5, Zenon DEF BindBoards, Go, Exit
  <2> QED
    BY <1>5, <2>1, BindBoardsApart DEF BoardsInv, RoundOK
<1>6. CASE Apply
  <2>1. UNCHANGED <<model, layout, inst, boards>> /\ pc.at \in {"preload", "configure"}
    BY <1>6 DEF Apply, At
  <2>2. \/ pc' = [at |-> pc.at, i |-> pc.i, entry |-> pc.entry + 1]
        \/ pc' = [at |-> "fatal", i |-> 0, entry |-> 1]
    BY <1>6, Zenon DEF Apply, Go, Exit
  <2> QED
    BY <2>1, <2>2, BoardsKept DEF BoardsInv, RoundOK
<1>7. CASE Configure \/ AllConfigured \/ LoadWorkload \/ HookUpChildren \/ Connect \/ Claim
  <2>1. pc.at \in {"configure", "load", "connect"} /\ UNCHANGED <<model, layout, inst, boards>>
    BY <1>7 DEF Configure, AllConfigured, LoadWorkload, HookUpChildren, Connect, Claim, At, Past
  <2>2. \/ pc' = [at |-> "configure", i |-> pc.i + 1, entry |-> 1]
        \/ pc' = [at |-> "load", i |-> 1, entry |-> 1]
        \/ pc' = [at |-> "load", i |-> pc.i + 1, entry |-> 1]
        \/ pc' = [at |-> "connect", i |-> 1, entry |-> 1]
        \/ pc' = [at |-> "connect", i |-> pc.i + 1, entry |-> 1]
        \/ pc' = [at |-> "setup", i |-> 1, entry |-> 1]
        \/ pc' = [at |-> "fatal", i |-> 0, entry |-> 1]
    BY <1>7, Zenon DEF Configure, AllConfigured, LoadWorkload, HookUpChildren, Connect, Claim,
       Go, Exit
  <2> QED
    BY <2>1, <2>2, BoardsKept DEF RoundOK
<1>8. CASE Setup \/ SetupRemote \/ LoadAgain \/ Run \/ Copy \/ CopiesDone
  <2>1. pc.at \in {"setup", "loaded", "copy"} /\ UNCHANGED <<model, layout, inst, boards>>
    BY <1>8 DEF Setup, SetupRemote, LoadAgain, Run, Copy, CopiesDone, At, Past
  <2>2. pc'.at \in {"setup", "loaded", "copy", "tick", "fatal"}
    BY <1>8 DEF Setup, SetupRemote, LoadAgain, Run, Copy, CopiesDone, Go, Exit
  <2> QED
    BY <2>1, <2>2, BoardsKept DEF RoundOK
<1>9. CASE TickRoot \/ NextTick \/ BeginStop \/ Stop \/ Stopped
  <2>1. pc.at \in {"tick", "sleep", "stop"} /\ UNCHANGED <<model, layout, inst, boards>>
    BY <1>9 DEF TickRoot, NextTick, BeginStop, Stop, Stopped, At, Past
  <2>2. pc'.at \in {"sleep", "copy", "stop", "loaded"}
    BY <1>9 DEF TickRoot, NextTick, BeginStop, Stop, Stopped, Go
  <2> QED
    BY <2>1, <2>2, BoardsKept DEF RoundOK
<1>10. CASE BeginDestroy \/ Destroy \/ Destroyed
  <2>1. pc'.at \in {"destroy", "gone"} /\ UNCHANGED <<model, layout, inst, boards>>
    BY <1>10 DEF BeginDestroy, Destroy, Destroyed, Go
  <2> QED
    BY <2>1, BoardsKept DEF RoundOK
<1>11. CASE UNCHANGED vars
  <2>1. UNCHANGED <<model, layout, inst, boards>> /\ pc' = pc
    BY <1>11 DEF vars
  <2> QED
    BY <2>1, BoardsKept DEF BoardsInv, RoundOK
<1> QED
  BY <1>1, <1>2, <1>3, <1>4, <1>5, <1>6, <1>7, <1>8, <1>9, <1>10, <1>11 DEF Next

(* For every model, whatever blackboards its workloads initialise with      *)
(* whatever fields, and in one load() after the next: the fields that       *)
(* bind() places are aligned, lie behind all workloads and share no byte    *)
(* (Blackboard.cpp:60-123, Engine.cpp:609-640).                             *)
THEOREM BoardFieldsTheorem == Spec => []BoardFieldsApart
<1>1. Init => LayoutInv /\ BoardsInv
  BY LayoutInit, BoardsInit
<1>2. LayoutInv /\ BoardsInv /\ [Next]_vars => LayoutInv' /\ BoardsInv'
  BY LayoutNext, BoardsNext
<1>3. BoardsInv => BoardFieldsApart
  BY DEF BoardsInv
<1> QED
  BY <1>1, <1>2, <1>3, PTL DEF Spec

-----------------------------------------------------------------------------
(* Callbacks.  c is a sequence of calls.                                    *)
Callbacks == {"construct", "set_engine", "pre_load", "load", "set_children", "setup", "start", "tick",
              "stop", "destruct"}

(* Who is called: a workload by its number, or the root.                    *)
Callers == Nat \cup {Root}

(* Logs of calls.                                                           *)
CallLog == Seq([fn : Callbacks, of : Callers])

(* No call of a rank above r.                                               *)
Within(c, r) == \A k \in 1 .. Len(c) : Rank[c[k].fn] <= r

(* The phases are barriers: the first part of CallbacksInOrder.             *)
Ordered(c) ==
  \A k \in 2 .. Len(c) :
    \/ Rank[c[k - 1].fn] <= Rank[c[k].fn]
    \/ c[k - 1].fn = "stop" /\ c[k].fn \in {"start", "tick"}
    \/ c[k - 1].fn = "tick" /\ c[k].fn = "start"

(* The calls of fn for i, by their places in the log.                       *)
Times(c, fn, i) == {k \in 1 .. Len(c) : c[k] = [fn |-> fn, of |-> i]}

(* fn is called for i once, and not at all.                                 *)
Once(c, fn, i) == \E k \in 1 .. Len(c) : Times(c, fn, i) = {k}
Never(c, fn, i) == Times(c, fn, i) = {}

(* Every callback has a rank.                                               *)
LEMMA RankOK ==
  ASSUME NEW fn \in Callbacks
  PROVE  Rank[fn] \in 1 .. 9
BY DEF Callbacks, Rank

(* A call is appended to the log when the workload has the function.        *)
LEMMA CalledLog ==
  ASSUME NEW c \in CallLog, NEW i \in Callers, NEW fn \in Callbacks
  PROVE  /\ Called(c, i, fn) \in CallLog
         /\ \/ Called(c, i, fn) = c
            \/ /\ Called(c, i, fn) = Append(c, [fn |-> fn, of |-> i])
               /\ Len(Called(c, i, fn)) = Len(c) + 1
               /\ Called(c, i, fn)[Len(c) + 1] = [fn |-> fn, of |-> i]
               /\ \A k \in 1 .. Len(c) : Called(c, i, fn)[k] = c[k]
<1>1. [fn |-> fn, of |-> i] \in [fn : Callbacks, of : Callers]
  OBVIOUS
<1>2. c \in Seq([fn : Callbacks, of : Callers])
  BY DEF CallLog
<1>3. CASE fn \in Desc(i).fns
  <2> DEFINE e == [fn |-> fn, of |-> i]
  <2>1. Called(c, i, fn) = Append(c, e)
    BY <1>3 DEF Called
  <2> HIDE DEF e
  <2>2. e \in [fn : Callbacks, of : Callers]
    BY <1>1 DEF e
  <2>3. /\ Append(c, e) \in CallLog /\ Len(Append(c, e)) = Len(c) + 1
        /\ Append(c, e)[Len(c) + 1] = e
        /\ \A k \in 1 .. Len(c) : Append(c, e)[k] = c[k]
    BY <1>2, <2>2 DEF CallLog
  <2> QED BY <2>1, <2>3 DEF e
<1>4. CASE fn \notin Desc(i).fns
  BY <1>4 DEF Called
<1> QED BY <1>3, <1>4

(* A call of fn after calls of rank r at most keeps the phases apart.       *)
LEMMA CalledOrdered ==
  ASSUME NEW c \in CallLog, NEW i \in Callers, NEW fn \in Callbacks, NEW r \in Nat, NEW q \in Nat,
         Ordered(c), Within(c, r), r <= q, Rank[fn] <= q,
         r <= Rank[fn] \/ (r <= 8 /\ fn \in {"start", "tick"})
  PROVE  Ordered(Called(c, i, fn)) /\ Within(Called(c, i, fn), q)
<1> DEFINE d == Called(c, i, fn)
<1>1. \A k \in 1 .. Len(c) : c[k].fn \in Callbacks /\ Rank[c[k].fn] \in 1 .. 9 /\ Rank[c[k].fn] <= r
  <2> SUFFICES ASSUME NEW k \in 1 .. Len(c)
               PROVE  c[k].fn \in Callbacks /\ Rank[c[k].fn] \in 1 .. 9 /\ Rank[c[k].fn] <= r
    OBVIOUS
  <2>1. c[k] \in [fn : Callbacks, of : Callers]
    BY ElementOfSeq DEF CallLog
  <2>2. c[k].fn \in Callbacks
    BY <2>1
  <2> QED BY <2>2, RankOK DEF Within
<1>2. Len(c) \in Nat
  BY DEF CallLog
<1>3. CASE d = c
  BY <1>1, <1>2, <1>3 DEF Within
<1>4. CASE /\ Len(d) = Len(c) + 1 /\ d[Len(c) + 1].fn = fn
           /\ \A k \in 1 .. Len(c) : d[k] = c[k]
  <2> HIDE DEF d
  <2>1. Within(d, q)
    <3> SUFFICES ASSUME NEW k \in 1 .. Len(d) PROVE Rank[d[k].fn] <= q
      BY DEF Within
    <3>1. CASE k \in 1 .. Len(c)
      <4>1. d[k] = c[k] /\ Rank[c[k].fn] \in 1 .. 9 /\ Rank[c[k].fn] <= r
        BY <1>1, <1>4, <3>1
      <4> DEFINE x == Rank[c[k].fn]
      <4>2. x \in 1 .. 9 /\ x <= r /\ Rank[d[k].fn] = x
        BY <4>1
      <4> HIDE DEF x
      <4> QED BY <4>2
    <3>2. CASE k = Len(c) + 1
      BY <1>4, <3>2
    <3> QED BY <1>2, <1>4, <3>1, <3>2
  <2>2. Ordered(d)
    <3> SUFFICES ASSUME NEW k \in 2 .. Len(d)
                 PROVE  \/ Rank[d[k - 1].fn] <= Rank[d[k].fn]
                        \/ d[k - 1].fn = "stop" /\ d[k].fn \in {"start", "tick"}
                        \/ d[k - 1].fn = "tick" /\ d[k].fn = "start"
      BY DEF Ordered
    <3>1. CASE k \in 2 .. Len(c)
      <4>1. k - 1 \in 1 .. Len(c) /\ k \in 1 .. Len(c)
        BY <1>2, <3>1
      <4> QED BY <1>4, <3>1, <4>1 DEF Ordered
    <3>2. CASE k = Len(c) + 1
      <4>1. k - 1 \in 1 .. Len(c) /\ k - 1 = Len(c)
        BY <1>2, <3>2
      <4>2. d[k - 1] = c[k - 1] /\ d[k].fn = fn
        BY <1>4, <3>2, <4>1
      <4> DEFINE last == c[k - 1].fn
      <4>3. last \in Callbacks /\ Rank[last] <= r
        BY <1>1, <4>1
      <4> HIDE DEF last
      <4>4. CASE r <= Rank[fn]
        <5> DEFINE x == Rank[last]
        <5> DEFINE y == Rank[fn]
        <5>1. x \in 1 .. 9 /\ y \in 1 .. 9 /\ x <= r /\ r <= y
          BY <4>3, <4>4, RankOK
        <5> HIDE DEF x, y
        <5>2. x <= y
          BY <5>1
        <5> QED BY <4>2, <5>2 DEF x, y, last
      <4>5. CASE r <= 8 /\ fn \in {"start", "tick"}
        <5>1. Rank[last] <= 8
          BY <4>3, <4>5, RankOK
        <5>2. last # "destruct"
          BY <5>1 DEF Rank
        <5>3. last \in {"construct", "set_engine", "pre_load", "load", "set_children", "setup", "start"}
              \/ last = "tick" \/ last = "stop"
          BY <4>3, <5>2 DEF Callbacks
        <5>4. last \in {"construct", "set_engine", "pre_load", "load", "set_children", "setup", "start"}
                => Rank[last] <= 6
          BY DEF Rank
        <5>5. Rank["start"] = 6 /\ Rank["tick"] = 7
          BY DEF Rank
        <5>6. Rank[last] <= Rank[fn] \/ (last = "stop" /\ fn \in {"start", "tick"})
                \/ (last = "tick" /\ fn = "start")
          BY <4>3, <4>5, <5>3, <5>4, <5>5, RankOK
        <5> QED BY <4>2, <5>6 DEF last
      <4> QED BY <4>4, <4>5
    <3> QED BY <1>2, <1>4, <3>1, <3>2
  <2> QED BY <2>1, <2>2 DEF d
<1>5. \/ d = c
      \/ /\ Len(d) = Len(c) + 1 /\ d[Len(c) + 1].fn = fn
         /\ \A k \in 1 .. Len(c) : d[k] = c[k]
  <2> DEFINE e == [fn |-> fn, of |-> i]
  <2>1. \/ d = c
        \/ /\ Len(d) = Len(c) + 1 /\ d[Len(c) + 1] = e
           /\ \A k \in 1 .. Len(c) : d[k] = c[k]
    BY CalledLog
  <2>2. e.fn = fn
    OBVIOUS
  <2> HIDE DEF d, e
  <2> QED BY <2>1, <2>2
<1> QED BY <1>3, <1>4, <1>5

(* ... and adds to how often fn was called for i, if i has it.              *)
LEMMA CalledTimes ==
  ASSUME NEW c \in CallLog, NEW i \in Callers, NEW fn \in Callbacks
  PROVE  /\ \A f, j : f # fn \/ j # i => Times(Called(c, i, fn), f, j) = Times(c, f, j)
         /\ fn \notin Desc(i).fns => Times(Called(c, i, fn), fn, i) = Times(c, fn, i)
         /\ fn \in Desc(i).fns /\ Never(c, fn, i) => Once(Called(c, i, fn), fn, i)
<1> DEFINE d == Called(c, i, fn)
<1> DEFINE e == [fn |-> fn, of |-> i]
<1>1. Len(c) \in Nat
  BY DEF CallLog
<1>2. \A f, j : f # fn \/ j # i => [fn |-> f, of |-> j] # e
  OBVIOUS
<1>3. CASE fn \notin Desc(i).fns
  BY <1>3 DEF Called
<1>4. CASE fn \in Desc(i).fns
  <2>1. d = Append(c, e) /\ c \in Seq([fn : Callbacks, of : Callers]) /\ e \in [fn : Callbacks, of : Callers]
    BY <1>4 DEF Called, CallLog
  <2> HIDE DEF d, e
  <2>2. Len(d) = Len(c) + 1 /\ d[Len(c) + 1] = e /\ \A k \in 1 .. Len(c) : d[k] = c[k]
    BY <2>1
  <2>3. \A x : {k \in 1 .. Len(d) : d[k] = x}
                 = {k \in 1 .. Len(c) : c[k] = x} \cup (IF x = e THEN {Len(c) + 1} ELSE {})
    BY <1>1, <2>2
  <2>4. \A f, j : Times(d, f, j) = Times(c, f, j) \cup (IF [fn |-> f, of |-> j] = e THEN {Len(c) + 1} ELSE {})
    BY <2>3 DEF Times
  <2>5. \A f, j : f # fn \/ j # i => Times(d, f, j) = Times(c, f, j)
    BY <1>2, <2>4
  <2>6. Never(c, fn, i) => Times(d, fn, i) = {Len(c) + 1}
    BY <2>4 DEF Never, e
  <2>7. Never(c, fn, i) => Once(d, fn, i)
    BY <1>1, <2>2, <2>6 DEF Once
  <2> QED BY <1>4, <2>5, <2>7 DEF d
<1> QED BY <1>3, <1>4

-----------------------------------------------------------------------------
(* How far load() and the destructor are with the callbacks of a workload.  *)

(* Where the loop of Engine.cpp is that calls fn of every workload, ...     *)
Loop == [construct |-> {"layout"}, set_engine |-> {"set_engine", "preload"},
         pre_load |-> {"set_engine", "preload"}, load |-> {"load"}, setup |-> {"setup"}]

(* ... the phases behind that loop, ...                                     *)
Later == [construct |-> {"set_engine", "preload"} \cup AfterBinding, set_engine |-> AfterBinding,
          pre_load |-> AfterBinding, load |-> {"connect", "setup"} \cup AfterLoad,
          setup |-> AfterLoad]

(* ... and whether fn of workload i has had its turn.                       *)
Behind(fn, i) ==
  \/ pc.at \in Later[fn]
  \/ pc.at \in Loop[fn] /\ i < pc.i
  \/ fn = "set_engine" /\ pc.at = "preload" /\ i = pc.i

(* The phases in which load() no longer counts.                             *)
Ends == {"fatal", "destroy", "gone"}

(* The loops over all workloads of the model.                               *)
Loops == {"layout", "set_engine", "preload", "configure", "load", "setup", "stop"}

(* The highest rank a call can have that is made before or in a phase.      *)
Highest == [build |-> 0, idle |-> 0, size |-> 0, layout |-> 1, set_engine |-> 2,
            preload |-> 2, configure |-> 2,
            load |-> 3, connect |-> 3, setup |-> 5, loaded |-> 8, copy |-> 8, tick |-> 8,
            sleep |-> 8, stop |-> 8, destroy |-> 9, gone |-> 9, fatal |-> 9]

(* fn is called for i in its turn, once, and not before it.                 *)
Counted(fn, i) ==
  IF Behind(fn, i) /\ fn \in Desc(i).fns THEN Once(calls, fn, i) ELSE Never(calls, fn, i)

(* Where the loops can be.                                                  *)
RoundsOK ==
  /\ pc.at \in DOMAIN Highest
  /\ pc.at \in Loops \cup {"destroy"} => pc.i \in Nat \ {0}
  /\ pc.at \in Loops => pc.i <= N + 1

(* How often the callbacks of loading have come, ...                        *)
LoadCounts == pc.at \notin Ends => \A i \in 1 .. N : \A fn \in LoadCallbacks : Counted(fn, i)

(* ... and the destructors, which only ~Engine() calls.                     *)
EndCounts ==
  /\ pc.at \notin Ends => \A i \in 1 .. N : Never(calls, "destruct", i)
  /\ pc.at = "destroy" =>
       \A i \in 1 .. Len(inst) :
         IF i < pc.i /\ "destruct" \in Desc(i).fns THEN Once(calls, "destruct", i)
         ELSE Never(calls, "destruct", i)
  /\ pc.at = "gone" =>
       \A i \in 1 .. Len(inst) : "destruct" \in Desc(i).fns => Once(calls, "destruct", i)

(* The inductive invariant of the callbacks.                                *)
CallsInv ==
  /\ calls \in CallLog /\ Ordered(calls) /\ Within(calls, Highest[pc.at])
  /\ RoundsOK /\ LoadCounts /\ EndCounts

(* Where the same calls stand at the same places, as many were made.        *)
LEMMA SameTimes ==
  ASSUME NEW c, NEW d, NEW fn, NEW i, Times(d, fn, i) = Times(c, fn, i)
  PROVE  (Once(d, fn, i) <=> Once(c, fn, i)) /\ (Never(d, fn, i) <=> Never(c, fn, i))
<1>1. \A k : k \in Times(c, fn, i) => k \in 1 .. Len(c)
  BY DEF Times
<1>2. \A k : k \in Times(d, fn, i) => k \in 1 .. Len(d)
  BY DEF Times
<1> QED BY <1>1, <1>2 DEF Once, Never

(* What has had its turn, function by function, in this state ...           *)
LEMMA BehindMeans ==
  /\ \A j : Behind("construct", j) <=>
              pc.at \in {"set_engine", "preload"} \cup AfterBinding \/ (pc.at = "layout" /\ j < pc.i)
  /\ \A j : Behind("set_engine", j) <=>
              \/ pc.at \in AfterBinding \/ (pc.at \in {"set_engine", "preload"} /\ j < pc.i)
              \/ pc.at = "preload" /\ j = pc.i
  /\ \A j : Behind("pre_load", j) <=>
              pc.at \in AfterBinding \/ (pc.at \in {"set_engine", "preload"} /\ j < pc.i)
  /\ \A j : Behind("load", j) <=>
              pc.at \in {"connect", "setup"} \cup AfterLoad \/ (pc.at = "load" /\ j < pc.i)
  /\ \A j : Behind("setup", j) <=> pc.at \in AfterLoad \/ (pc.at = "setup" /\ j < pc.i)
BY DEF Behind, Loop, Later

(* ... and in the next one.                                                 *)
LEMMA BehindMeansNext ==
  /\ \A j : Behind("construct", j)' <=>
              pc'.at \in {"set_engine", "preload"} \cup AfterBinding \/ (pc'.at = "layout" /\ j < pc'.i)
  /\ \A j : Behind("set_engine", j)' <=>
              \/ pc'.at \in AfterBinding \/ (pc'.at \in {"set_engine", "preload"} /\ j < pc'.i)
              \/ pc'.at = "preload" /\ j = pc'.i
  /\ \A j : Behind("pre_load", j)' <=>
              pc'.at \in AfterBinding \/ (pc'.at \in {"set_engine", "preload"} /\ j < pc'.i)
  /\ \A j : Behind("load", j)' <=>
              pc'.at \in {"connect", "setup"} \cup AfterLoad \/ (pc'.at = "load" /\ j < pc'.i)
  /\ \A j : Behind("setup", j)' <=> pc'.at \in AfterLoad \/ (pc'.at = "setup" /\ j < pc'.i)
BY DEF Behind, Loop, Later

(* The model never changes, nor do the logs that are possible for it.       *)
LEMMA LogKept ==
  ASSUME model' = model
  PROVE  CallLog' = CallLog /\ N' = N /\ (\A i : Desc(i)' = Desc(i)) /\ Callers' = Callers
BY DEF CallLog, Callers, Root, Instance, N, Seed, Desc

(* What a step has to show that calls the functions F of workload i.        *)
LEMMA CallsKept ==
  ASSUME CallsInv, NEW F \in SUBSET LoadCallbacks, NEW i,
         model' = model, pc.at \notin Ends, pc'.at \notin Ends, RoundsOK',
         calls' \in CallLog, Ordered(calls'), Within(calls', Highest[pc'.at]),
         \A f, j : f \in LoadCallbacks \cup {"destruct"} /\ (f \notin F \/ j # i)
                     => Times(calls', f, j) = Times(calls, f, j),
         \A f \in F : IF f \in Desc(i).fns THEN Once(calls', f, i) ELSE Never(calls', f, i),
         \A f \in LoadCallbacks : \A j \in 1 .. N :
           Behind(f, j)' <=> Behind(f, j) \/ (f \in F /\ j = i)
  PROVE  CallsInv'
<1>1. N' = N /\ \A j : Desc(j)' = Desc(j)
  BY LogKept
<1>2. LoadCounts'
  <2> SUFFICES ASSUME NEW j \in 1 .. N, NEW f \in LoadCallbacks
               PROVE  IF Behind(f, j)' /\ f \in Desc(j).fns THEN Once(calls', f, j)
                      ELSE Never(calls', f, j)
    BY <1>1 DEF LoadCounts, Counted
  <2>1. CASE f \in F /\ j = i
    BY <2>1
  <2>2. CASE ~(f \in F /\ j = i)
    <3>1. Times(calls', f, j) = Times(calls, f, j)
      BY <2>2
    <3>2. Counted(f, j)
      BY DEF CallsInv, LoadCounts
    <3>3. Behind(f, j)' <=> Behind(f, j)
      BY <2>2
    <3>4. (Once(calls', f, j) <=> Once(calls, f, j)) /\ (Never(calls', f, j) <=> Never(calls, f, j))
      BY <3>1, SameTimes
    <3> QED BY <3>2, <3>3, <3>4 DEF Counted
  <2> QED BY <2>1, <2>2
<1>3. EndCounts'
  <2>1. pc'.at \notin Ends /\ pc'.at # "destroy" /\ pc'.at # "gone"
    BY DEF Ends
  <2> SUFFICES ASSUME NEW j \in 1 .. N PROVE Never(calls', "destruct", j)
    BY <1>1, <2>1 DEF EndCounts
  <2>2. Never(calls, "destruct", j)
    BY DEF CallsInv, EndCounts
  <2>3. "destruct" \notin F
    BY DEF LoadCallbacks
  <2>4. Times(calls', "destruct", j) = Times(calls, "destruct", j)
    BY <2>3
  <2> QED BY <2>2, <2>4, SameTimes
<1>4. (calls \in CallLog /\ Ordered(calls) /\ Within(calls, Highest[pc.at]))'
  BY LogKept
<1> QED BY <1>2, <1>3, <1>4 DEF CallsInv

(* Every phase has its highest rank.                                        *)
LEMMA HighestOK ==
  /\ \A at \in DOMAIN Highest : Highest[at] \in 0 .. 9
  /\ DOMAIN Highest = {"build", "idle", "size", "layout", "set_engine", "preload", "configure",
                       "load", "connect", "setup", "loaded", "copy", "tick", "sleep", "stop", "destroy", "gone", "fatal"}
BY DEF Highest

(* A bound on the ranks can only grow.                                      *)
LEMMA WithinMore ==
  ASSUME NEW c \in CallLog, NEW r \in Nat, NEW q \in Nat, Within(c, r), r <= q
  PROVE  Within(c, q)
<1> SUFFICES ASSUME NEW k \in 1 .. Len(c) PROVE Rank[c[k].fn] <= q
  BY DEF Within
<1>1. c[k] \in [fn : Callbacks, of : Callers]
  BY ElementOfSeq DEF CallLog
<1> DEFINE x == Rank[c[k].fn]
<1>2. x \in 1 .. 9 /\ x <= r
  BY <1>1, RankOK DEF Within
<1> HIDE DEF x
<1>3. x <= q
  BY <1>2
<1> QED BY <1>3 DEF x

(* Steps that call nothing, ...                                             *)
LEMMA QuietStep ==
  ASSUME CallsInv, model' = model, calls' = calls, pc.at \notin Ends, pc'.at \notin Ends, RoundsOK',
         Highest[pc.at] <= Highest[pc'.at],
         \A f \in LoadCallbacks : \A j \in 1 .. N : Behind(f, j)' <=> Behind(f, j)
  PROVE  CallsInv'
<1>1. Highest[pc.at] \in Nat /\ Highest[pc'.at] \in Nat
  BY HighestOK DEF CallsInv, RoundsOK
<1>2. Within(calls', Highest[pc'.at])
  BY <1>1, WithinMore DEF CallsInv
<1> DEFINE F == {}
<1>3. F \in SUBSET LoadCallbacks
  OBVIOUS
<1>4. calls' \in CallLog /\ Ordered(calls')
  BY DEF CallsInv
<1>5. /\ \A f, j : f \in LoadCallbacks \cup {"destruct"} /\ (f \notin F \/ j # 0)
                     => Times(calls', f, j) = Times(calls, f, j)
      /\ \A f \in F : IF f \in Desc(0).fns THEN Once(calls', f, 0) ELSE Never(calls', f, 0)
      /\ \A f \in LoadCallbacks : \A j \in 1 .. N :
           Behind(f, j)' <=> Behind(f, j) \/ (f \in F /\ j = 0)
  OBVIOUS
<1> HIDE DEF F
<1> QED BY <1>2, <1>3, <1>4, <1>5, CallsKept

(* ... that end the process, ...                                            *)
LEMMA FatalStep ==
  ASSUME CallsInv, model' = model, calls' = calls, pc'.at = "fatal"
  PROVE  CallsInv'
<1>1. Highest[pc.at] \in 0 .. 9 /\ Highest["fatal"] = 9
  BY HighestOK DEF CallsInv, RoundsOK, Highest
<1>2. Within(calls', Highest[pc'.at])
  BY <1>1, WithinMore DEF CallsInv
<1>3. RoundsOK'
  BY HighestOK DEF RoundsOK, Loops
<1>4. LoadCounts' /\ EndCounts'
  BY DEF LoadCounts, EndCounts, Ends
<1>5. calls' \in CallLog' /\ Ordered(calls')
  BY LogKept DEF CallsInv
<1> QED BY <1>2, <1>3, <1>4, <1>5 DEF CallsInv

(* ... and that call one function fn of workload i.                         *)
LEMMA CallingStep ==
  ASSUME CallsInv, model' = model, pc.at \notin Ends, pc'.at \notin Ends, RoundsOK',
         NEW fn \in Callbacks \ {"destruct"}, NEW i \in Callers, calls' = Call(i, fn),
         Highest[pc.at] <= Highest[pc'.at], Rank[fn] <= Highest[pc'.at],
         Highest[pc.at] <= Rank[fn] \/ (Highest[pc.at] <= 8 /\ fn \in {"start", "tick"}),
         fn \in LoadCallbacks => i \in 1 .. N /\ ~Behind(fn, i),
         \A f \in LoadCallbacks : \A j \in 1 .. N :
           Behind(f, j)' <=> Behind(f, j) \/ (f = fn /\ j = i)
  PROVE  CallsInv'
<1>1. Highest[pc.at] \in Nat /\ Highest[pc'.at] \in Nat
  BY HighestOK DEF CallsInv, RoundsOK
<1>2. calls' = Called(calls, i, fn) /\ calls \in CallLog /\ Ordered(calls) /\ Within(calls, Highest[pc.at])
  BY DEF Call, CallsInv
<1>3. calls' \in CallLog
  <2>1. fn \in Callbacks
    OBVIOUS
  <2>2. Called(calls, i, fn) \in CallLog
    BY <1>2, <2>1, CalledLog
  <2> QED BY <1>2, <2>2
<1>4. Ordered(calls') /\ Within(calls', Highest[pc'.at])
  BY <1>1, <1>2, CalledOrdered
<1> DEFINE F == {fn} \cap LoadCallbacks
<1>5. F \in SUBSET LoadCallbacks
  OBVIOUS
<1>6. \A f, j : f # fn \/ j # i => Times(calls', f, j) = Times(calls, f, j)
  BY <1>2, CalledTimes
<1>7. \A f, j : f \in LoadCallbacks \cup {"destruct"} /\ (f \notin F \/ j # i)
                  => Times(calls', f, j) = Times(calls, f, j)
  BY <1>6
<1>8. ASSUME NEW f \in F
      PROVE  IF f \in Desc(i).fns THEN Once(calls', f, i) ELSE Never(calls', f, i)
  <2>1. f = fn /\ f \in LoadCallbacks /\ i \in 1 .. N /\ ~Behind(f, i)
    OBVIOUS
  <2>2. Never(calls, f, i)
    BY <2>1 DEF CallsInv, LoadCounts, Counted
  <2>3. CASE f \in Desc(i).fns
    BY <1>2, <2>1, <2>2, <2>3, CalledTimes
  <2>4. CASE f \notin Desc(i).fns
    <3>1. Times(calls', f, i) = Times(calls, f, i)
      BY <1>2, <2>1, <2>4, CalledTimes
    <3> QED BY <2>2, <2>4, <3>1, SameTimes
  <2> QED BY <2>3, <2>4
<1>9. \A f \in LoadCallbacks : \A j \in 1 .. N :
        Behind(f, j)' <=> Behind(f, j) \/ (f \in F /\ j = i)
  OBVIOUS
<1> HIDE DEF F
<1> QED BY <1>3, <1>4, <1>5, <1>7, <1>8, <1>9, CallsKept

(* Nothing is called before load().                                         *)
LEMMA InitCalls == Init => CallsInv
<1> SUFFICES ASSUME Init PROVE CallsInv
  OBVIOUS
<1>1. calls = <<>> /\ pc.at = "build" /\ pc.i = 1
  BY DEF Init
<1>2. calls \in CallLog /\ Len(calls) = 0
  BY <1>1 DEF CallLog
<1>3. Ordered(calls) /\ Within(calls, Highest[pc.at])
  BY <1>2 DEF Ordered, Within
<1>4. RoundsOK
  BY <1>1, HighestOK DEF RoundsOK, Loops
<1>5. \A fn, i : Never(calls, fn, i)
  BY <1>2 DEF Never, Times
<1>6. \A i \in 1 .. N : \A fn \in LoadCallbacks : ~Behind(fn, i)
  BY <1>1, BehindMeans DEF LoadCallbacks, AfterBinding, AfterLoad, Running
<1>7. LoadCounts /\ EndCounts
  BY <1>1, <1>5, <1>6 DEF LoadCounts, EndCounts, Counted
<1> QED BY <1>2, <1>3, <1>4, <1>7 DEF CallsInv

(* A model has some number of workloads.                                    *)
LEMMA NumberOfSeeds == LayoutInv => N \in Nat
BY EngineAssumption DEF LayoutInv, N

(* From one loop of load() to the next, and to its next round.              *)
LEMMA QuietLoading ==
  ASSUME LayoutInv, CallsInv, model' = model, calls' = calls,
         \/ pc.at = "build" /\ pc'.at = "idle"
         \/ pc.at = "idle" /\ pc'.at = "size"
         \/ pc.at = "size" /\ pc'.at = "size"
         \/ pc.at = "size" /\ pc'.at = "layout" /\ pc'.i = 1
         \/ pc.at = "layout" /\ pc.i = N + 1 /\ pc'.at = "set_engine" /\ pc'.i = 1
         \/ pc.at \in {"preload", "configure"} /\ pc'.at = pc.at /\ pc'.i = pc.i
         \/ pc.at = "set_engine" /\ pc.i = N + 1 /\ pc'.at = "configure" /\ pc'.i = 1
         \/ pc.at = "configure" /\ pc.i <= N /\ pc'.at = "configure" /\ pc'.i = pc.i + 1
         \/ pc.at = "configure" /\ pc'.at = "load" /\ pc'.i = 1
         \/ pc.at = "load" /\ pc.i = N + 1 /\ pc'.at = "connect"
         \/ pc.at = "connect" /\ pc'.at = "connect"
         \/ pc.at = "setup" /\ pc.i = N + 1 /\ pc'.at = "loaded"
  PROVE  CallsInv'
<1>1. N \in Nat /\ N' = N
  BY NumberOfSeeds, LogKept
<1>2. RoundsOK
  BY DEF CallsInv
<1>3. RoundsOK'
  BY <1>1, <1>2, HighestOK DEF RoundsOK, Loops
<1>4. Highest[pc.at] <= Highest[pc'.at]
  BY DEF Highest
<1>5. pc.at \notin Ends /\ pc'.at \notin Ends
  BY DEF Ends
<1>6. \A f \in LoadCallbacks : \A j \in 1 .. N : Behind(f, j)' <=> Behind(f, j)
  <2> SUFFICES ASSUME NEW f \in LoadCallbacks, NEW j \in 1 .. N PROVE Behind(f, j)' <=> Behind(f, j)
    OBVIOUS
  <2>1. j \in Nat /\ j <= N /\ ~(j < 1) /\ (pc.i = N + 1 => j < pc.i)
    BY <1>1
  <2>2. f \in {"construct", "set_engine", "pre_load", "load", "setup"}
    BY DEF LoadCallbacks
  <2>3. CASE f = "construct"
    BY <2>1, <2>3, BehindMeans, BehindMeansNext DEF AfterBinding, AfterLoad, Running
  <2>4. CASE f \in {"set_engine", "pre_load"}
    BY <2>1, <2>4, BehindMeans, BehindMeansNext DEF AfterBinding, AfterLoad, Running
  <2>5. CASE f = "load"
    BY <2>1, <2>5, BehindMeans, BehindMeansNext DEF AfterBinding, AfterLoad, Running
  <2>6. CASE f = "setup"
    BY <2>1, <2>6, BehindMeans, BehindMeansNext DEF AfterBinding, AfterLoad, Running
  <2> QED BY <2>2, <2>3, <2>4, <2>5, <2>6
<1> QED BY <1>3, <1>4, <1>5, <1>6, QuietStep

(* ... and while the engine runs.                                           *)
LEMMA QuietRunning ==
  ASSUME LayoutInv, CallsInv, model' = model, calls' = calls,
         pc.at \in AfterLoad, pc'.at \in AfterLoad, pc'.at = "stop" => pc'.i = 1
  PROVE  CallsInv'
<1>1. N \in Nat /\ N' = N
  BY NumberOfSeeds, LogKept
<1>2. RoundsOK'
  BY <1>1, HighestOK DEF RoundsOK, Loops, AfterLoad, Running
<1>3. Highest[pc.at] = 8 /\ Highest[pc'.at] = 8
  BY DEF Highest, AfterLoad, Running
<1>4. pc.at \notin Ends /\ pc'.at \notin Ends
  BY DEF Ends, AfterLoad, Running
<1>5. \A f \in LoadCallbacks : \A j \in 1 .. N : Behind(f, j)' <=> Behind(f, j)
  <2>1. \A f \in LoadCallbacks : \A j \in 1 .. N : Behind(f, j)' /\ Behind(f, j)
    BY BehindMeans, BehindMeansNext DEF LoadCallbacks, AfterBinding
  <2> QED BY <2>1
<1> QED BY <1>2, <1>3, <1>4, <1>5, QuietStep

(* Callbacks that do not belong to load(), while the engine runs.           *)
LEMMA RunningCall ==
  ASSUME LayoutInv, CallsInv, model' = model, NEW fn \in {"start", "tick", "stop"}, NEW i \in Callers,
         calls' = Call(i, fn), pc.at \in AfterLoad, pc'.at \in AfterLoad,
         pc'.at = "stop" => pc'.i \in 1 .. N + 1
  PROVE  CallsInv'
<1>1. N \in Nat /\ N' = N
  BY NumberOfSeeds, LogKept
<1>2. RoundsOK'
  BY <1>1, HighestOK DEF RoundsOK, Loops, AfterLoad, Running
<1>3. Highest[pc.at] = 8 /\ Highest[pc'.at] = 8
  BY DEF Highest, AfterLoad, Running
<1>4. pc.at \notin Ends /\ pc'.at \notin Ends
  BY DEF Ends, AfterLoad, Running
<1>5. fn \in Callbacks \ {"destruct"} /\ fn \notin LoadCallbacks
  BY DEF Callbacks, LoadCallbacks
<1>6. Rank[fn] <= 8 /\ (8 <= Rank[fn] \/ fn \in {"start", "tick"})
  BY DEF Rank
<1>7. \A f \in LoadCallbacks : \A j \in 1 .. N : Behind(f, j)' <=> Behind(f, j) \/ (f = fn /\ j = i)
  <2>1. \A f \in LoadCallbacks : \A j \in 1 .. N : Behind(f, j)' /\ Behind(f, j)
    BY BehindMeans, BehindMeansNext DEF LoadCallbacks, AfterBinding
  <2> QED BY <2>1
<1> QED BY <1>2, <1>3, <1>4, <1>5, <1>6, <1>7, CallingStep

(* One round of a loop that calls one function of every workload.           *)
LEMMA LoadingCall ==
  ASSUME LayoutInv, CallsInv, model' = model, NEW fn,
         \/ fn = "construct" /\ pc.at = "layout"
         \/ fn = "load" /\ pc.at = "load"
         \/ fn = "setup" /\ pc.at = "setup",
         pc.i <= N, calls' = Call(pc.i, fn), pc'.at = pc.at, pc'.i = pc.i + 1
  PROVE  CallsInv'
<1>1. N \in Nat /\ N' = N
  BY NumberOfSeeds, LogKept
<1>2. pc.i \in 1 .. N
  BY <1>1 DEF CallsInv, RoundsOK, Loops
<1>3. RoundsOK'
  BY <1>1, <1>2, HighestOK DEF RoundsOK, Loops
<1>4. Highest[pc.at] = Rank[fn] /\ Highest[pc'.at] = Rank[fn] /\ Rank[fn] \in Nat
  BY DEF Highest, Rank
<1>5. pc.at \notin Ends /\ pc'.at \notin Ends
  BY DEF Ends
<1>6. fn \in Callbacks \ {"destruct"} /\ fn \in LoadCallbacks /\ pc.i \in Callers
  BY <1>2 DEF Callbacks, LoadCallbacks, Callers
<1>7. ~Behind(fn, pc.i)
  BY <1>2, BehindMeans DEF AfterBinding, AfterLoad, Running
<1>8. ASSUME NEW f \in LoadCallbacks, NEW j \in 1 .. N
      PROVE  Behind(f, j)' <=> Behind(f, j) \/ (f = fn /\ j = pc.i)
  <2>1. j < pc'.i <=> j < pc.i \/ j = pc.i
    BY <1>2
  <2>2. f \in {"construct", "set_engine", "pre_load", "load", "setup"}
    BY DEF LoadCallbacks
  <2>3. CASE f = "construct"
    BY <2>1, <2>3, BehindMeans, BehindMeansNext DEF AfterBinding, AfterLoad, Running
  <2>4. CASE f \in {"set_engine", "pre_load"}
    BY <2>1, <2>4, BehindMeans, BehindMeansNext DEF AfterBinding, AfterLoad, Running
  <2>5. CASE f = "load"
    BY <2>1, <2>5, BehindMeans, BehindMeansNext DEF AfterBinding, AfterLoad, Running
  <2>6. CASE f = "setup"
    BY <2>1, <2>6, BehindMeans, BehindMeansNext DEF AfterBinding, AfterLoad, Running
  <2> QED BY <2>2, <2>3, <2>4, <2>5, <2>6
<1> QED BY <1>2, <1>3, <1>4, <1>5, <1>6, <1>7, <1>8, CallingStep

(* set_children_fn of the root.                                             *)
LEMMA ClaimCall ==
  ASSUME LayoutInv, CallsInv, model' = model, calls' = Call(Root, "set_children"),
         pc.at = "connect", pc'.at = "setup", pc'.i = 1
  PROVE  CallsInv'
<1>1. N \in Nat /\ N' = N
  BY NumberOfSeeds, LogKept
<1>2. RoundsOK'
  BY <1>1, HighestOK DEF RoundsOK, Loops
<1>3. Highest[pc.at] = 3 /\ Highest[pc'.at] = 5 /\ Rank["set_children"] = 4
  BY DEF Highest, Rank
<1>4. pc.at \notin Ends /\ pc'.at \notin Ends
  BY DEF Ends
<1>5. "set_children" \in Callbacks \ {"destruct"} /\ "set_children" \notin LoadCallbacks /\ Root \in Callers
  BY DEF Callbacks, LoadCallbacks, Callers
<1>6. ASSUME NEW f \in LoadCallbacks, NEW j \in 1 .. N
      PROVE  Behind(f, j)' <=> Behind(f, j) \/ (f = "set_children" /\ j = Root)
  <2>1. ~(j < 1)
    BY <1>1
  <2> QED BY <1>5, <2>1, BehindMeans, BehindMeansNext DEF LoadCallbacks, AfterBinding,
             AfterLoad, Running
<1> QED BY <1>2, <1>3, <1>4, <1>5, <1>6, CallingStep

(* set_engine_fn and pre_load_fn of one workload.                           *)
LEMMA ConfiguringCall ==
  ASSUME LayoutInv, CallsInv, model' = model, NEW fn,
         \/ fn = "set_engine" /\ pc.at = "set_engine" /\ pc'.at = "preload" /\ pc'.i = pc.i
         \/ fn = "pre_load" /\ pc.at = "preload" /\ pc'.at = "set_engine" /\ pc'.i = pc.i + 1,
         pc.i <= N, calls' = Call(pc.i, fn)
  PROVE  CallsInv'
<1>1. N \in Nat /\ N' = N
  BY NumberOfSeeds, LogKept
<1>2. pc.i \in 1 .. N
  BY <1>1 DEF CallsInv, RoundsOK, Loops
<1>3. RoundsOK'
  BY <1>1, <1>2, HighestOK DEF RoundsOK, Loops
<1>4. Highest[pc.at] = 2 /\ Highest[pc'.at] = 2 /\ Rank[fn] = 2
  BY DEF Highest, Rank
<1>5. pc.at \notin Ends /\ pc'.at \notin Ends
  BY DEF Ends
<1>6. fn \in Callbacks \ {"destruct"} /\ fn \in LoadCallbacks /\ pc.i \in Callers
  BY <1>2 DEF Callbacks, LoadCallbacks, Callers
<1>7. ~Behind(fn, pc.i)
  BY <1>2, BehindMeans DEF AfterBinding, AfterLoad, Running
<1>8. ASSUME NEW f \in LoadCallbacks, NEW j \in 1 .. N
      PROVE  Behind(f, j)' <=> Behind(f, j) \/ (f = fn /\ j = pc.i)
  <2>1. pc'.i = pc.i + 1 => (j < pc'.i <=> j < pc.i \/ j = pc.i)
    BY <1>2
  <2>2. f \in {"construct", "set_engine", "pre_load", "load", "setup"}
    BY DEF LoadCallbacks
  <2>3. CASE f \in {"construct", "load", "setup"}
    BY <2>3, BehindMeans, BehindMeansNext DEF AfterBinding, AfterLoad, Running
  <2>4. CASE f = "set_engine"
    BY <1>2, <2>1, <2>4, BehindMeans, BehindMeansNext DEF AfterBinding, AfterLoad, Running
  <2>5. CASE f = "pre_load"
    BY <1>2, <2>1, <2>5, BehindMeans, BehindMeansNext DEF AfterBinding, AfterLoad, Running
  <2> QED BY <2>2, <2>3, <2>4, <2>5
<1> QED BY <1>2, <1>3, <1>4, <1>5, <1>6, <1>7, <1>8, CallingStep

(* The destructor begins, ...                                               *)
LEMMA BeginDestroyStep ==
  ASSUME LayoutInv, CallsInv, model' = model, calls' = calls, inst' = inst,
         pc.at \in {"idle", "loaded"}, pc'.at = "destroy", pc'.i = 1
  PROVE  CallsInv'
<1>1. RoundsOK'
  BY HighestOK DEF RoundsOK, Loops
<1>2. Highest[pc.at] \in 0 .. 9 /\ Highest[pc'.at] = 9
  BY DEF Highest
<1>3. Within(calls', Highest[pc'.at])
  BY <1>2, WithinMore DEF CallsInv
<1>4. Len(inst) <= N /\ Len(inst) \in Nat /\ N \in Nat
  <2>1. Len(inst) <= Len(layout.ends) /\ Len(layout.ends) <= N /\ inst \in Seq([stats : Nat, at : Nat])
        /\ layout.ends \in Seq(Nat)
    BY DEF LayoutInv, InstOK, EndsOK
  <2> QED BY <2>1, NumberOfSeeds
<1>5. \A i \in 1 .. Len(inst) : Never(calls, "destruct", i) /\ ~(i < pc'.i)
  <2>1. \A i \in 1 .. N : Never(calls, "destruct", i)
    BY DEF CallsInv, EndCounts, Ends
  <2> QED BY <1>4, <2>1
<1>6. EndCounts' /\ LoadCounts'
  BY <1>5 DEF EndCounts, LoadCounts, Ends
<1>7. calls' \in CallLog' /\ Ordered(calls')
  BY LogKept DEF CallsInv
<1> QED BY <1>1, <1>3, <1>6, <1>7 DEF CallsInv

(* ... ends one workload in each round ...                                  *)
LEMMA DestroyRound ==
  ASSUME LayoutInv, CallsInv, model' = model, inst' = inst, pc.at = "destroy", pc.i <= Len(inst),
         calls' = Call(pc.i, "destruct"), pc'.at = "destroy", pc'.i = pc.i + 1
  PROVE  CallsInv'
<1> DEFINE i == pc.i
<1>1. Len(inst) \in Nat /\ i \in 1 .. Len(inst) /\ i \in Callers
  <2>1. inst \in Seq([stats : Nat, at : Nat]) /\ i \in Nat \ {0}
    BY DEF LayoutInv, InstOK, CallsInv, RoundsOK
  <2> QED BY <2>1 DEF Callers
<1>2. RoundsOK'
  BY <1>1, HighestOK DEF RoundsOK, Loops
<1>3. Highest["destroy"] = 9 /\ Rank["destruct"] = 9 /\ "destruct" \in Callbacks
  BY DEF Highest, Rank, Callbacks
<1>4. calls' = Called(calls, i, "destruct") /\ calls \in CallLog /\ Ordered(calls) /\ Within(calls, 9)
  BY <1>3 DEF Call, CallsInv
<1>5. calls' \in CallLog /\ Ordered(calls') /\ Within(calls', 9)
  <2> HIDE DEF i
  <2>1. 9 \in Nat /\ 9 <= 9 /\ Rank["destruct"] <= 9 /\ 9 <= Rank["destruct"]
    BY <1>3
  <2>2. Called(calls, i, "destruct") \in CallLog
    BY <1>1, <1>3, <1>4, CalledLog
  <2>3. Ordered(Called(calls, i, "destruct")) /\ Within(Called(calls, i, "destruct"), 9)
    BY <1>1, <1>3, <1>4, <2>1, CalledOrdered
  <2> QED BY <1>4, <2>2, <2>3
<1>6. ASSUME NEW j \in 1 .. Len(inst)
      PROVE  IF j < pc'.i /\ "destruct" \in Desc(j).fns THEN Once(calls', "destruct", j)
             ELSE Never(calls', "destruct", j)
  <2>1. IF j < i /\ "destruct" \in Desc(j).fns THEN Once(calls, "destruct", j)
        ELSE Never(calls, "destruct", j)
    BY DEF CallsInv, EndCounts
  <2>2. CASE j # i
    <3>1. Times(calls', "destruct", j) = Times(calls, "destruct", j)
      BY <1>1, <1>3, <1>4, <2>2, CalledTimes
    <3>2. j < pc'.i <=> j < i
      BY <1>1, <2>2
    <3> QED BY <2>1, <3>1, <3>2, SameTimes
  <2>3. CASE j = i
    <3>1. ~(j < i) /\ j < pc'.i /\ Never(calls, "destruct", i)
      BY <1>1, <2>1, <2>3
    <3>2. CASE "destruct" \in Desc(i).fns
      BY <1>1, <1>3, <1>4, <2>3, <3>1, <3>2, CalledTimes
    <3>3. CASE "destruct" \notin Desc(i).fns
      <4>1. Times(calls', "destruct", i) = Times(calls, "destruct", i)
        BY <1>1, <1>3, <1>4, <3>3, CalledTimes
      <4> QED BY <2>3, <3>1, <3>3, <4>1, SameTimes
    <3> QED BY <3>2, <3>3
  <2> QED BY <2>2, <2>3
<1>7. EndCounts' /\ LoadCounts'
  <2>1. \A j : Desc(j)' = Desc(j)
    BY LogKept
  <2> QED BY <1>6, <2>1 DEF EndCounts, LoadCounts, Ends
<1>8. calls' \in CallLog'
  BY <1>5, LogKept
<1> QED BY <1>2, <1>3, <1>5, <1>7, <1>8 DEF CallsInv

(* ... and is done.                                                         *)
LEMMA DestroyedStep ==
  ASSUME LayoutInv, CallsInv, model' = model, inst' = inst, calls' = calls,
         pc.at = "destroy", pc.i > Len(inst), pc'.at = "gone"
  PROVE  CallsInv'
<1>1. RoundsOK'
  BY HighestOK DEF RoundsOK, Loops
<1>2. Highest["destroy"] = 9 /\ Highest["gone"] = 9
  BY DEF Highest
<1>3. \A j \in 1 .. Len(inst) : j < pc.i
  <2>1. inst \in Seq([stats : Nat, at : Nat]) /\ pc.i \in Nat \ {0}
    BY DEF LayoutInv, InstOK, CallsInv, RoundsOK
  <2> QED BY <2>1
<1>4. \A j \in 1 .. Len(inst) : "destruct" \in Desc(j).fns => Once(calls, "destruct", j)
  BY <1>3 DEF CallsInv, EndCounts
<1>5. EndCounts' /\ LoadCounts'
  <2>1. \A j : Desc(j)' = Desc(j)
    BY LogKept
  <2> QED BY <1>4, <2>1 DEF EndCounts, LoadCounts, Ends
<1>6. calls' \in CallLog' /\ Ordered(calls') /\ Within(calls', Highest[pc'.at])
  BY <1>2, LogKept DEF CallsInv
<1> QED BY <1>1, <1>5, <1>6 DEF CallsInv

(* Every step keeps the invariant of the callbacks.                         *)
LEMMA CallsNext == LayoutInv /\ CallsInv /\ [Next]_vars => CallsInv'
<1> SUFFICES ASSUME LayoutInv, CallsInv, [Next]_vars PROVE CallsInv'
  OBVIOUS
<1>1. CASE Build
  BY <1>1, QuietLoading, FatalStep DEF Build, Go, Exit, static
<1>2. CASE Load
  <2>1. model' = model /\ calls' = calls /\ pc.at = "idle"
    BY <1>2 DEF Load, static
  <2>2. \/ pc' = [at |-> "size", i |-> 1, entry |-> 1]
        \/ pc' = [at |-> "fatal", i |-> 0, entry |-> 1]
    BY <1>2, Zenon DEF Load, Go, Exit
  <2>3. pc'.at \in {"size", "fatal"}
    BY <2>2
  <2> QED BY <2>1, <2>3, QuietLoading, FatalStep
<1>3. CASE Size
  BY <1>3, QuietLoading, FatalStep DEF Size, At, Go, Exit
<1>4. CASE Allocate
  BY <1>4, QuietLoading, FatalStep DEF Allocate, Past, Go, Exit
<1>5. CASE Construct
  <2>1. model' = model /\ pc.at = "layout" /\ pc.i <= N
    BY <1>5 DEF Construct, At
  <2>2. \/ calls' = Call(pc.i, "construct") /\ pc'.at = pc.at /\ pc'.i = pc.i + 1
        \/ calls' = calls /\ pc'.at = "fatal"
    BY <1>5 DEF Construct, At, Go, Exit
  <2> QED BY <2>1, <2>2, LoadingCall, FatalStep
<1>6. CASE Constructed
  BY <1>6, QuietLoading DEF Constructed, Past, Go, static
<1>7. CASE Apply
  <2>1. model' = model /\ calls' = calls /\ pc.at \in {"preload", "configure"}
    BY <1>7 DEF Apply, At, static
  <2>2. \/ pc'.at = pc.at /\ pc'.i = pc.i
        \/ pc'.at = "fatal"
    BY <1>7 DEF Apply, Exit, Go
  <2> QED BY <2>1, <2>2, QuietLoading, FatalStep
<1>31. CASE SetEngine
  <2>1. /\ model' = model /\ pc.at = "set_engine" /\ pc.i <= N
        /\ calls' = Call(pc.i, "set_engine") /\ pc'.at = "preload" /\ pc'.i = pc.i
    BY <1>31 DEF SetEngine, At, Go, static
  <2> QED BY <2>1, ConfiguringCall
<1>8. CASE PreLoad
  <2>1. model' = model /\ pc.at = "preload" /\ pc.i <= N
    BY <1>8 DEF PreLoad, At, static
  <2>2. \/ calls' = Call(pc.i, "pre_load") /\ pc'.at = "set_engine" /\ pc'.i = pc.i + 1
        \/ calls' = calls /\ pc'.at = "fatal"
    BY <1>8 DEF PreLoad, PreLoadCalls, Go, Exit
  <2> QED BY <2>1, <2>2, ConfiguringCall, FatalStep
<1>9. CASE BindBoards
  BY <1>9, QuietLoading, FatalStep DEF BindBoards, Past, Go, Exit
<1>10. CASE Configure
  BY <1>10, QuietLoading DEF Configure, At, Go, static
<1>11. CASE AllConfigured
  BY <1>11, QuietLoading DEF AllConfigured, Past, Go, static
<1>12. CASE LoadWorkload
  <2>1. /\ model' = model /\ pc.at = "load" /\ pc.i <= N
        /\ calls' = Call(pc.i, "load") /\ pc'.at = pc.at /\ pc'.i = pc.i + 1
    BY <1>12 DEF LoadWorkload, At, Go, static
  <2> QED BY <2>1, LoadingCall
<1>13. CASE HookUpChildren
  BY <1>13, QuietLoading, FatalStep DEF HookUpChildren, Past, Go, Exit, static
<1>14. CASE Connect
  BY <1>14, QuietLoading, FatalStep DEF Connect, Go, Exit, static
<1>15. CASE Claim
  <2>1. model' = model /\ pc.at = "connect"
    BY <1>15 DEF Claim, static
  <2>2. \/ calls' = Call(Root, "set_children") /\ pc'.at = "setup" /\ pc'.i = 1
        \/ calls' = calls /\ pc'.at = "fatal"
    BY <1>15 DEF Claim, Go, Exit, Root
  <2> QED BY <2>1, <2>2, ClaimCall, FatalStep
<1>16. CASE Setup
  <2>1. /\ model' = model /\ pc.at = "setup" /\ pc.i <= N
        /\ calls' = Call(pc.i, "setup") /\ pc'.at = pc.at /\ pc'.i = pc.i + 1
    BY <1>16 DEF Setup, At, Go, static
  <2> QED BY <2>1, LoadingCall
<1>17. CASE SetupRemote
  BY <1>17, QuietLoading, FatalStep DEF SetupRemote, Past, Go, Exit, static
<1>18. CASE LoadAgain
  BY <1>18, FatalStep DEF LoadAgain, Go, Exit, static
<1>19. CASE Run
  <2>1. model' = model /\ pc.at \in AfterLoad /\ Root \in Callers
    BY <1>19 DEF Run, static, AfterLoad, Callers
  <2>2. \/ calls' = Call(Root, "start") /\ pc'.at = "copy"
        \/ calls' = calls /\ pc'.at = "fatal"
    BY <1>19 DEF Run, Go, Exit
  <2>3. "copy" \in AfterLoad
    BY DEF AfterLoad, Running
  <2> QED BY <2>1, <2>2, <2>3, RunningCall, FatalStep
<1>20. CASE Copy
  <2>1. model' = model /\ calls' = calls /\ pc.at \in AfterLoad
    BY <1>20 DEF Copy, static, AfterLoad, Running
  <2>2. pc'.at \in {"copy", "fatal"}
    BY <1>20 DEF Copy, Go, Exit
  <2>3. "copy" \in AfterLoad
    BY DEF AfterLoad, Running
  <2> QED BY <2>1, <2>2, <2>3, QuietRunning, FatalStep
<1>21. CASE CopiesDone
  BY <1>21, QuietRunning DEF CopiesDone, Go, static, AfterLoad, Running
<1>22. CASE TickRoot
  <2>1. /\ model' = model /\ pc.at \in AfterLoad /\ Root \in Callers
        /\ calls' = Call(Root, "tick") /\ pc'.at = "sleep" /\ "sleep" \in AfterLoad
    BY <1>22 DEF TickRoot, Go, static, AfterLoad, Running, Callers
  <2> QED BY <2>1, RunningCall
<1>23. CASE NextTick
  BY <1>23, QuietRunning DEF NextTick, Go, static, AfterLoad, Running
<1>24. CASE BeginStop
  BY <1>24, QuietRunning DEF BeginStop, Go, static, AfterLoad, Running
<1>25. CASE Stop
  <2>1. /\ model' = model /\ pc.at = "stop" /\ pc.at \in AfterLoad /\ pc.i <= N
        /\ calls' = Call(pc.i, "stop") /\ pc'.at = "stop" /\ pc'.i = pc.i + 1
    BY <1>25 DEF Stop, At, Go, static, AfterLoad, Running
  <2>2. N \in Nat /\ pc.i \in Nat \ {0}
    BY <2>1, NumberOfSeeds DEF CallsInv, RoundsOK, Loops
  <2>3. pc.i \in Callers /\ pc'.i \in 1 .. N + 1
    BY <2>1, <2>2 DEF Callers
  <2> QED BY <2>1, <2>3, RunningCall
<1>26. CASE Stopped
  BY <1>26, QuietRunning DEF Stopped, Past, Go, static, AfterLoad, Running
<1>27. CASE BeginDestroy
  BY <1>27, BeginDestroyStep DEF BeginDestroy, Go, static
<1>28. CASE Destroy
  BY <1>28, DestroyRound DEF Destroy, Go, static
<1>29. CASE Destroyed
  BY <1>29, DestroyedStep DEF Destroyed, Go, static
<1>30. CASE UNCHANGED vars
  <2>1. model' = model /\ pc' = pc /\ inst' = inst /\ calls' = calls
    BY <1>30 DEF vars
  <2>2. CallLog' = CallLog /\ N' = N /\ \A i : Desc(i)' = Desc(i)
    BY <2>1, LogKept
  <2>3. calls' \in CallLog' /\ Ordered(calls') /\ Within(calls', Highest[pc'.at])
    BY <2>1, <2>2 DEF CallsInv
  <2>4. RoundsOK' /\ EndCounts'
    BY <2>1, <2>2 DEF CallsInv, RoundsOK, EndCounts
  <2>5. LoadCounts'
    BY <2>1, <2>2 DEF CallsInv, LoadCounts, Counted, Behind
  <2> QED BY <2>3, <2>4, <2>5 DEF CallsInv
<1> QED
  BY <1>1, <1>2, <1>3, <1>4, <1>5, <1>6, <1>7, <1>8, <1>9, <1>10, <1>11, <1>12, <1>13, <1>14,
     <1>15,
     <1>16, <1>17, <1>18, <1>19, <1>20, <1>21, <1>22, <1>23, <1>24, <1>25, <1>26, <1>27, <1>28, <1>29,
     <1>30, <1>31 DEF Next

(* Called once is one call in the log.                                      *)
LEMMA CountOfOnce ==
  ASSUME CallsInv, NEW fn, NEW i, Once(calls, fn, i)
  PROVE  Cardinality(CallsOf(fn, i)) = 1
<1>1. DOMAIN calls = 1 .. Len(calls)
  BY DEF CallsInv, CallLog
<1>2. CallsOf(fn, i) = Times(calls, fn, i)
  BY <1>1 DEF CallsOf, Times
<1>3. PICK k : Times(calls, fn, i) = {k}
  BY DEF Once
<1> QED BY <1>2, <1>3, FS_Singleton

(* The invariant says what the properties ask for.                          *)
LEMMA CallsInvImplies ==
  LayoutInv /\ CallsInv => CallbacksInOrder /\ EveryInstanceDestroyed
<1> SUFFICES ASSUME LayoutInv, CallsInv PROVE CallbacksInOrder /\ EveryInstanceDestroyed
  OBVIOUS
<1>1. \A k \in 2 .. Len(calls) :
        \/ Rank[calls[k - 1].fn] <= Rank[calls[k].fn]
        \/ calls[k - 1].fn = "stop" /\ calls[k].fn \in {"start", "tick"}
        \/ calls[k - 1].fn = "tick" /\ calls[k].fn = "start"
  BY DEF CallsInv, Ordered
<1>2. ASSUME pc.at \in AfterLoad, NEW i \in 1 .. N, NEW fn \in LoadCallbacks \cap Desc(i).fns
      PROVE  Cardinality(CallsOf(fn, i)) = 1
  <2>1. pc.at \notin Ends
    BY <1>2 DEF Ends, AfterLoad, Running
  <2>2. Behind(fn, i)
    BY <1>2, BehindMeans DEF LoadCallbacks, AfterBinding
  <2>3. Once(calls, fn, i)
    BY <2>1, <2>2 DEF CallsInv, LoadCounts, Counted
  <2> QED BY <2>3, CountOfOnce
<1>3. ASSUME pc.at = "gone", NEW i \in DOMAIN inst, "destruct" \in Desc(i).fns
      PROVE  Cardinality(CallsOf("destruct", i)) = 1
  <2>1. i \in 1 .. Len(inst)
    BY DEF LayoutInv, InstOK
  <2>2. Once(calls, "destruct", i)
    BY <1>3, <2>1 DEF CallsInv, EndCounts
  <2> QED BY <2>2, CountOfOnce
<1> QED BY <1>1, <1>2, <1>3 DEF CallbacksInOrder, EveryInstanceDestroyed

(* However a model is built, loaded, run, stopped and run again: no         *)
(* workload enters a phase before all have left the one before it, and each *)
(* callback of loading comes once for every workload that has it            *)
(* (Engine.cpp:178-390, 417-493).                                           *)
THEOREM CallbacksTheorem == Spec => []CallbacksInOrder
<1>1. Init => LayoutInv /\ CallsInv
  BY LayoutInit, InitCalls
<1>2. LayoutInv /\ CallsInv /\ [Next]_vars => LayoutInv' /\ CallsInv'
  BY LayoutNext, CallsNext
<1>3. LayoutInv /\ CallsInv => CallbacksInOrder
  BY CallsInvImplies
<1> QED BY <1>1, <1>2, <1>3, PTL DEF Spec

(* However often it ran, ~Engine() ends every workload that load()          *)
(* constructed, once (Engine.cpp:48-63).                                    *)
THEOREM DestructionTheorem == Spec => []EveryInstanceDestroyed
<1>1. Init => LayoutInv /\ CallsInv
  BY LayoutInit, InitCalls
<1>2. LayoutInv /\ CallsInv /\ [Next]_vars => LayoutInv' /\ CallsInv'
  BY LayoutNext, CallsNext
<1>3. LayoutInv /\ CallsInv => EveryInstanceDestroyed
  BY CallsInvImplies
<1> QED BY <1>1, <1>2, <1>3, PTL DEF Spec

-----------------------------------------------------------------------------
(* The copies of one tick.                                                  *)

(* A connection, and where those that are made lie.                         *)
DataConnectionInfo == [src : Nat, dst : Nat, size : Nat, handler : {"Unassigned", "Group", "Engine"}]

ConnsOK ==
  /\ conns \in Seq(DataConnectionInfo)
  /\ \A k \in 1 .. Len(conns) :
       /\ conns[k].src + conns[k].size <= layout.capacity
       /\ conns[k].dst + conns[k].size <= layout.capacity
  /\ pc.at \in {"build", "idle", "size"} => conns = <<>>

(* A copy before round n writes to what connection k joins.                 *)
Disturbed(k, n) ==
  \E j \in Acquired :
    /\ k <= j /\ j < n
    /\ \/ j > k /\ Overlap(conns[j].dst, conns[j].size, conns[k].dst, conns[k].size)
       \/ Overlap(conns[j].dst, conns[j].size, conns[k].src, conns[k].size)

(* The destination of k holds what its source holds.                        *)
Arrived(k) ==
  \A b \in 0 .. conns[k].size - 1 : memory[conns[k].dst + b] = memory[conns[k].src + b]

(* So far as round n the copies have reached their destinations.            *)
CopiedUpTo(n) == \A k \in Acquired : k < n /\ ~Disturbed(k, n) => Arrived(k)

(* The inductive invariant of the copies.                                   *)
CopyInv ==
  /\ DOMAIN memory = 0 .. layout.capacity - 1
  /\ ConnsOK
  /\ pc.at = "copy" => pc.i \in Nat \ {0} /\ CopiedUpTo(pc.i)
  /\ CopiesReachTick

(* Nothing is connected and no buffer exists at the start.                  *)
LEMMA CopyInit == Init => CopyInv
<1> SUFFICES ASSUME Init PROVE CopyInv
  OBVIOUS
<1>1. memory = <<>> /\ layout.capacity = 0 /\ conns = <<>> /\ pc.at = "build"
  BY DEF Init
<1>2. DOMAIN memory = 0 .. layout.capacity - 1
  BY <1>1
<1>3. conns \in Seq(DataConnectionInfo) /\ Len(conns) = 0
  BY <1>1, EmptySeq
<1> QED BY <1>1, <1>2, <1>3 DEF CopyInv, ConnsOK, CopiesReachTick

(* What a step has to show that leaves the connections and the size of the  *)
(* buffer alone.                                                            *)
LEMMA CopyStatic ==
  ASSUME CopyInv, conns' = conns, layout'.capacity = layout.capacity, DOMAIN memory' = DOMAIN memory,
         pc'.at \in {"build", "idle", "size"} => pc.at \in {"build", "idle", "size"},
         pc'.at = "copy" => pc'.i \in Nat \ {0} /\ CopiedUpTo(pc.i)',
         pc'.at # "tick"
  PROVE  CopyInv'
BY DEF CopyInv, ConnsOK, CopiesReachTick

(* What is known of every connection.                                       *)
LEMMA ConnsNumbers ==
  ASSUME ConnsOK, NEW k \in DOMAIN conns
  PROVE  /\ k \in 1 .. Len(conns) /\ Len(conns) \in Nat
         /\ conns[k] \in DataConnectionInfo
         /\ conns[k].src \in Nat /\ conns[k].dst \in Nat /\ conns[k].size \in Nat
         /\ conns[k].src + conns[k].size <= layout.capacity
         /\ conns[k].dst + conns[k].size <= layout.capacity
<1>1. conns \in Seq(DataConnectionInfo)
  BY DEF ConnsOK
<1>2. Len(conns) \in Nat /\ k \in 1 .. Len(conns)
  BY <1>1, LenProperties
<1>3. conns[k] \in DataConnectionInfo
  BY <1>1, <1>2, ElementOfSeq
<1> QED BY <1>2, <1>3 DEF ConnsOK, DataConnectionInfo

(* The buffer is allocated before anything is connected.                    *)
LEMMA AllocateCopy ==
  ASSUME LayoutInv, CopyInv, Allocate
  PROVE  CopyInv'
<1>1. pc.at = "size" /\ conns = <<>> /\ conns' = conns
  BY DEF Allocate, Past, CopyInv, ConnsOK
<1>2. CASE Exit /\ UNCHANGED <<layout, memory>>
  BY <1>1, <1>2, CopyStatic DEF Exit, Go
<1>3. CASE /\ Go("layout", 1)
           /\ layout' = [layout EXCEPT !.capacity = Total + MaxBlackboards]
           /\ memory' = [a \in 0 .. layout'.capacity - 1 |-> 0]
  <2>1. pc'.at = "layout"
    BY <1>3 DEF Go
  <2>2. DOMAIN memory' = 0 .. layout'.capacity - 1
    BY <1>3
  <2>3. conns' \in Seq(DataConnectionInfo) /\ Len(conns') = 0
    BY <1>1, EmptySeq
  <2> QED BY <2>1, <2>2, <2>3 DEF CopyInv, ConnsOK, CopiesReachTick
<1> QED BY <1>2, <1>3 DEF Allocate

(* A connection is only made between fields within the used part of the     *)
(* buffer.                                                                  *)
LEMMA ConnectCopy ==
  ASSUME LayoutInv, CopyInv, Connect
  PROVE  CopyInv'
<1>1. pc.at = "connect" /\ layout' = layout /\ memory' = memory
  BY DEF Connect, static
<1>2. CASE Exit /\ UNCHANGED conns
  BY <1>1, <1>2, CopyStatic DEF Exit, Go
<1>3. ASSUME NEW src, NEW dst, CanConnect(src, dst, conns, layout.used),
             Go("connect", pc.i + 1), conns' = Append(conns, Connection(src, dst))
      PROVE  CopyInv'
  <2> DEFINE c == Connection(src, dst)
  <2>1. layout.used \in Nat /\ layout.capacity \in Nat /\ layout.used <= layout.capacity
    BY InvImpliesLayoutOK DEF LayoutInv, LayoutOK
  <2>2. SizeOf(src.type) \in 0 .. layout.used /\ src.at \in 0 .. layout.used - SizeOf(src.type)
        /\ dst.at \in 0 .. layout.used - SizeOf(src.type)
    BY <1>3 DEF CanConnect, InUsedSpace
  <2>3. /\ c \in DataConnectionInfo
        /\ c.src + c.size <= layout.capacity /\ c.dst + c.size <= layout.capacity
    BY <2>1, <2>2 DEF Connection, DataConnectionInfo
  <2> HIDE DEF c
  <2>4. conns \in Seq(DataConnectionInfo) /\ conns' = Append(conns, c)
    BY <1>3 DEF CopyInv, ConnsOK, c
  <2>5. /\ conns' \in Seq(DataConnectionInfo)
        /\ Len(conns') = Len(conns) + 1 /\ conns'[Len(conns) + 1] = c
        /\ \A k \in 1 .. Len(conns) : conns'[k] = conns[k]
    BY <2>3, <2>4, AppendProperties
  <2>6. Len(conns) \in Nat
    BY <2>4, LenProperties
  <2>7. ASSUME NEW k \in 1 .. Len(conns')
        PROVE  /\ conns'[k].src + conns'[k].size <= layout'.capacity
               /\ conns'[k].dst + conns'[k].size <= layout'.capacity
    <3>1. CASE k \in 1 .. Len(conns)
      BY <1>1, <2>5, <3>1 DEF CopyInv, ConnsOK
    <3>2. CASE k = Len(conns) + 1
      BY <1>1, <2>3, <2>5, <3>2
    <3> QED BY <2>5, <2>6, <3>1, <3>2
  <2>8. pc'.at = "connect"
    BY <1>3 DEF Go
  <2> QED BY <1>1, <2>5, <2>7, <2>8 DEF CopyInv, ConnsOK, CopiesReachTick
<1> QED BY <1>2, <1>3 DEF Connect

(* Claiming connections changes their handlers only.                        *)
LEMMA ClaimCopy ==
  ASSUME LayoutInv, CopyInv, Claim
  PROVE  CopyInv'
<1>1. pc.at = "connect" /\ layout' = layout /\ memory' = memory
  BY DEF Claim, static
<1>2. CASE Exit /\ UNCHANGED conns
  BY <1>1, <1>2, CopyStatic DEF Exit, Go
<1>3. ASSUME NEW claimed, NEW handler \in [DOMAIN conns -> claimed],
             claimed \subseteq {"Group", "DelegateToParent", "Unassigned"},
             \A k \in DOMAIN conns : handler[k] # "Unassigned",
             Go("setup", 1),
             conns' = [k \in DOMAIN conns |-> [conns[k] EXCEPT !.handler =
                         IF handler[k] = "DelegateToParent" THEN "Engine" ELSE handler[k]]]
      PROVE  CopyInv'
  <2> DEFINE h(k) == IF handler[k] = "DelegateToParent" THEN "Engine" ELSE handler[k]
  <2>1. conns \in Seq(DataConnectionInfo) /\ Len(conns) \in Nat /\ DOMAIN conns = 1 .. Len(conns)
    BY LenProperties DEF CopyInv, ConnsOK
  <2>2. ASSUME NEW k \in 1 .. Len(conns)
        PROVE  /\ conns'[k] \in DataConnectionInfo
               /\ conns'[k].src = conns[k].src /\ conns'[k].dst = conns[k].dst
               /\ conns'[k].size = conns[k].size
    <3>1. h(k) \in {"Group", "Engine"}
      BY <1>3, <2>1
    <3>2. conns'[k] = [conns[k] EXCEPT !.handler = h(k)]
      BY <1>3, <2>1
    <3>3. conns[k] \in DataConnectionInfo
      BY <2>1, ElementOfSeq
    <3> HIDE DEF h
    <3> QED BY <3>1, <3>2, <3>3 DEF DataConnectionInfo
  <2>3. conns' \in [1 .. Len(conns) -> DataConnectionInfo]
    <3>1. DOMAIN conns' = 1 .. Len(conns) /\ conns' = [k \in 1 .. Len(conns) |-> conns'[k]]
      BY <1>3, <2>1
    <3> QED BY <2>2, <3>1
  <2>4. conns' \in Seq(DataConnectionInfo)
    BY <2>1, <2>3, SeqDef
  <2>5. Len(conns') = Len(conns)
    BY <2>1, <2>3, <2>4, LenProperties
  <2>6. \A k \in 1 .. Len(conns') :
          /\ conns'[k].src + conns'[k].size <= layout'.capacity
          /\ conns'[k].dst + conns'[k].size <= layout'.capacity
    BY <1>1, <2>2, <2>5 DEF CopyInv, ConnsOK
  <2>7. pc'.at = "setup"
    BY <1>3 DEF Go
  <2> QED BY <1>1, <2>4, <2>6, <2>7 DEF CopyInv, ConnsOK, CopiesReachTick
<1>4. (IF "set_children" \in Desc(Root).fns THEN {"Group", "DelegateToParent", "Unassigned"}
       ELSE {"Unassigned"}) \subseteq {"Group", "DelegateToParent", "Unassigned"}
  OBVIOUS
<1>5. CASE ~(Exit /\ UNCHANGED conns)
  <2> DEFINE claimed == IF "set_children" \in Desc(Root).fns THEN {"Group", "DelegateToParent", "Unassigned"}
                        ELSE {"Unassigned"}
  <2>1. \E handler \in [DOMAIN conns -> claimed] :
          /\ \A k \in DOMAIN conns : handler[k] # "Unassigned"
          /\ Go("setup", 1)
          /\ conns' = [k \in DOMAIN conns |-> [conns[k] EXCEPT !.handler =
                         IF handler[k] = "DelegateToParent" THEN "Engine" ELSE handler[k]]]
    BY <1>5, Zenon DEF Claim, Root
  <2> HIDE DEF claimed
  <2>2. claimed \subseteq {"Group", "DelegateToParent", "Unassigned"}
    BY <1>4 DEF claimed
  <2> QED BY <1>3, <2>1, <2>2
<1> QED BY <1>2, <1>5

(* One copy: the connections copied before keep what reached them, unless   *)
(* this one writes to them.                                                 *)
LEMMA OneCopy ==
  ASSUME LayoutInv, CopyInv, pc.at = "copy", NEW m \in Left, \A j \in Left : m <= j,
         conns' = conns, memory' = Copied(memory, conns[m]), pc'.i = m + 1
  PROVE  CopiedUpTo(pc.i)'
<1>1. pc.i \in Nat \ {0} /\ CopiedUpTo(pc.i)
  BY DEF CopyInv
<1>2. m \in Acquired /\ pc.i <= m /\ m \in DOMAIN conns
  BY DEF Left, Acquired
<1>3. m \in Nat
  BY <1>2, ConnsNumbers DEF CopyInv
<1>4. Acquired' = Acquired
  BY DEF Acquired
<1> SUFFICES ASSUME NEW k \in Acquired, k < m + 1, ~Disturbed(k, m + 1)'
             PROVE  Arrived(k)'
  BY <1>4 DEF CopiedUpTo
<1>5. k \in DOMAIN conns /\ k \in Nat
  BY ConnsNumbers DEF Acquired, CopyInv
<1>6. ~Disturbed(k, m + 1)
  BY <1>4 DEF Disturbed
<1> DEFINE s == conns[m].size
<1> DEFINE d == conns[m].dst
<1> DEFINE n == conns[k].size
<1> DEFINE to == conns[k].dst
<1> DEFINE from == conns[k].src
<1>7. s \in Nat /\ d \in Nat /\ n \in Nat /\ to \in Nat /\ from \in Nat
      /\ to + n <= layout.capacity /\ from + n <= layout.capacity
  BY <1>2, <1>5, ConnsNumbers DEF CopyInv
<1>8. DOMAIN memory = 0 .. layout.capacity - 1 /\ layout.capacity \in Nat
  BY DEF CopyInv, LayoutInv
<1>9. ~Overlap(d, s, from, n) /\ (m > k => ~Overlap(d, s, to, n))
  BY <1>2, <1>3, <1>5, <1>6 DEF Disturbed
<1>10. ASSUME NEW b \in 0 .. n - 1
       PROVE  memory'[from + b] = memory[from + b]
  <2>1. from + b \in DOMAIN memory
    BY <1>7, <1>8
  <2>2. from + b \notin d .. d + s - 1
    BY <1>7, <1>9 DEF Overlap
  <2> QED BY <2>1, <2>2 DEF Copied
<1>11. CASE k < pc.i
  <2>1. ~Disturbed(k, pc.i)
    BY <1>1, <1>2, <1>3, <1>5, <1>6, ConnsNumbers DEF Disturbed, Acquired, CopyInv
  <2>2. Arrived(k)
    BY <1>1, <1>11, <2>1 DEF CopiedUpTo
  <2>3. m > k
    BY <1>1, <1>2, <1>3, <1>5, <1>11
  <2>4. ASSUME NEW b \in 0 .. n - 1
        PROVE  memory'[to + b] = memory'[from + b]
    <3>1. to + b \in DOMAIN memory
      BY <1>7, <1>8
    <3>2. to + b \notin d .. d + s - 1
      BY <1>7, <1>9, <2>3 DEF Overlap
    <3>3. memory'[to + b] = memory[to + b]
      BY <3>1, <3>2 DEF Copied
    <3> QED BY <1>10, <2>2, <3>3 DEF Arrived
  <2> QED BY <2>4 DEF Arrived
<1>12. CASE pc.i <= k
  <2>1. k = m
    BY <1>3, <1>5, <1>12 DEF Left
  <2>2. ASSUME NEW b \in 0 .. n - 1
        PROVE  memory'[to + b] = memory'[from + b]
    <3>1. to = d /\ n = s
      BY <2>1
    <3> HIDE DEF to, d, n, s, from
    <3>2. to + b \in DOMAIN memory /\ to + b \in d .. d + s - 1 /\ (to + b) - d = b
      BY <1>7, <1>8, <3>1
    <3>3. memory'[to + b] = memory[from + b]
      BY <2>1, <3>2 DEF Copied, to, d, n, s, from
    <3> QED BY <1>10, <3>3
  <2> QED BY <2>2 DEF Arrived
<1> QED BY <1>1, <1>5, <1>11, <1>12

(* ... and when none is left, all have had their turn.                      *)
LEMMA AllCopied ==
  ASSUME CopyInv, pc.at = "copy", Left = {}, conns' = conns, memory' = memory
  PROVE  CopiesReachTick'
<1>1. pc.i \in Nat /\ CopiedUpTo(pc.i)
  BY DEF CopyInv
<1>2. ASSUME NEW k \in DOMAIN conns, conns[k].handler = "Engine",
             ~\E j \in k .. Len(conns) :
                /\ conns[j].handler = "Engine"
                /\ \/ j > k /\ Overlap(conns[j].dst, conns[j].size, conns[k].dst, conns[k].size)
                   \/ Overlap(conns[j].dst, conns[j].size, conns[k].src, conns[k].size)
      PROVE  \A b \in 0 .. conns[k].size - 1 : memory[conns[k].dst + b] = memory[conns[k].src + b]
  <2>1. k \in Acquired /\ k \in Nat
    BY <1>2, ConnsNumbers DEF Acquired, CopyInv
  <2>2. k < pc.i
    BY <1>1, <2>1 DEF Left
  <2>3. \A j \in Acquired : j \in 1 .. Len(conns) /\ Len(conns) \in Nat /\ conns[j].handler = "Engine"
    BY ConnsNumbers DEF Acquired, CopyInv
  <2>4. ~Disturbed(k, pc.i)
    BY <1>2, <2>1, <2>3 DEF Disturbed
  <2> QED BY <1>1, <2>1, <2>2, <2>4 DEF CopiedUpTo, Arrived
<1> QED BY <1>2 DEF CopiesReachTick

(* Every step keeps the invariant of the copies.                            *)
LEMMA CopyNext == LayoutInv /\ CopyInv /\ [Next]_vars => CopyInv'
<1> SUFFICES ASSUME LayoutInv, CopyInv, [Next]_vars PROVE CopyInv'
  OBVIOUS
<1>1. CASE Build
  <2>1. pc.at = "build" /\ conns' = conns /\ layout' = layout /\ memory' = memory
    BY <1>1 DEF Build, static
  <2>2. \/ pc' = [at |-> "idle", i |-> 1, entry |-> 1]
        \/ pc' = [at |-> "fatal", i |-> 0, entry |-> 1]
    BY <1>1, Zenon DEF Build, Go, Exit
  <2> QED BY <2>1, <2>2, CopyStatic
<1>2. CASE Load
  <2>1. pc.at = "idle" /\ conns' = conns /\ layout' = layout /\ memory' = memory
    BY <1>2 DEF Load, static
  <2>2. \/ pc' = [at |-> "size", i |-> 1, entry |-> 1]
        \/ pc' = [at |-> "fatal", i |-> 0, entry |-> 1]
    BY <1>2, Zenon DEF Load, Go, Exit
  <2> QED BY <2>1, <2>2, CopyStatic
<1>3. CASE Size
  <2>1. pc.at = "size" /\ conns' = conns /\ memory' = memory
    BY <1>3 DEF Size, At
  <2>2. pc'.at \in {"size", "fatal"}
    BY <1>3 DEF Size, Go, Exit
  <2>3. layout'.capacity = layout.capacity
    BY <1>3 DEF Size, LayoutInv
  <2> QED BY <2>1, <2>2, <2>3, CopyStatic
<1>4. CASE Allocate
  BY <1>4, AllocateCopy
<1>5. CASE Construct
  <2>1. conns' = conns /\ memory' = memory
    BY <1>5 DEF Construct
  <2>2. pc'.at \in {"layout", "fatal"}
    BY <1>5 DEF Construct, Go, Exit
  <2>3. layout'.capacity = layout.capacity
    BY <1>5 DEF Construct, LayoutInv
  <2> QED BY <2>1, <2>2, <2>3, CopyStatic
<1>6. CASE Constructed
  BY <1>6, CopyStatic DEF Constructed, Past, Go, static
<1>7. CASE Apply
  <2>1. conns' = conns /\ layout' = layout /\ pc.at \in {"preload", "configure"}
    BY <1>7 DEF Apply, At, static
  <2>2. pc'.at \in {pc.at, "fatal"}
    BY <1>7 DEF Apply, Go, Exit
  <2>3. DOMAIN memory' = DOMAIN memory
    <3>1. memory' = memory \/ \E at, size, raw : memory' = Stored(memory, at, size, raw)
      BY <1>7, Zenon DEF Apply
    <3> QED BY <3>1 DEF Stored
  <2> QED BY <2>1, <2>2, <2>3, CopyStatic
<1>8. CASE SetEngine \/ PreLoad
  BY <1>8, CopyStatic DEF SetEngine, PreLoad, At, Go, Exit, static
<1>9. CASE BindBoards
  <2>1. conns' = conns /\ memory' = memory
    BY <1>9 DEF BindBoards
  <2>2. pc'.at \in {"configure", "fatal"}
    BY <1>9 DEF BindBoards, Go, Exit
  <2>3. layout'.capacity = layout.capacity
    BY <1>9 DEF BindBoards, LayoutInv
  <2> QED BY <2>1, <2>2, <2>3, CopyStatic
<1>10. CASE Configure \/ AllConfigured
  BY <1>10, CopyStatic DEF Configure, AllConfigured, At, Past, Go, static
<1>11. CASE LoadWorkload \/ HookUpChildren
  BY <1>11, CopyStatic DEF LoadWorkload, HookUpChildren, At, Past, Go, Exit, static
<1>12. CASE Connect
  BY <1>12, ConnectCopy
<1>13. CASE Claim
  BY <1>13, ClaimCopy
<1>14. CASE Setup \/ SetupRemote \/ LoadAgain
  BY <1>14, CopyStatic DEF Setup, SetupRemote, LoadAgain, At, Past, Go, Exit, static
<1>15. CASE Run \/ NextTick
  <2>1. conns' = conns /\ layout' = layout /\ memory' = memory
    BY <1>15 DEF Run, NextTick, static
  <2>2. pc'.at = "fatal" \/ (pc'.at = "copy" /\ pc'.i = 1)
    BY <1>15 DEF Run, NextTick, Go, Exit
  <2>3. pc'.i = 1 => CopiedUpTo(pc.i)'
    <3>1. \A k \in Acquired' : k \in Nat \ {0}
      BY <2>1, ConnsNumbers DEF Acquired, CopyInv
    <3> QED BY <3>1 DEF CopiedUpTo
  <2> QED BY <2>1, <2>2, <2>3, CopyStatic
<1>16. CASE Copy
  <2>1. pc.at = "copy" /\ conns' = conns /\ layout' = layout
    BY <1>16 DEF Copy, static
  <2>2. PICK k \in Left : /\ \A j \in Left : k <= j
                          /\ \/ pc'.at = "copy" /\ pc'.i = k + 1 /\ memory' = Copied(memory, conns[k])
                             \/ pc'.at = "fatal" /\ memory' = memory
    BY <1>16 DEF Copy, Go, Exit
  <2>3. CASE pc'.at = "fatal" /\ memory' = memory
    BY <2>1, <2>3, CopyStatic
  <2>4. CASE pc'.at = "copy" /\ pc'.i = k + 1 /\ memory' = Copied(memory, conns[k])
    <3>1. k \in Nat \ {0}
      BY ConnsNumbers DEF Left, Acquired, CopyInv
    <3>2. CopiedUpTo(pc.i)'
      BY <2>1, <2>2, <2>4, OneCopy
    <3>3. DOMAIN memory' = DOMAIN memory
      BY <2>4 DEF Copied
    <3> QED BY <2>1, <2>4, <3>1, <3>2, <3>3, CopyStatic
  <2> QED BY <2>2, <2>3, <2>4
<1>17. CASE CopiesDone
  <2>1. /\ pc.at = "copy" /\ Left = {} /\ conns' = conns /\ layout' = layout /\ memory' = memory
        /\ pc'.at = "tick"
    BY <1>17 DEF CopiesDone, Go, static
  <2>2. CopiesReachTick'
    BY <2>1, AllCopied
  <2> QED BY <2>1, <2>2 DEF CopyInv, ConnsOK
<1>18. CASE TickRoot
  BY <1>18, CopyStatic DEF TickRoot, Go, static, Stored
<1>19. CASE BeginStop \/ Stop \/ Stopped
  BY <1>19, CopyStatic DEF BeginStop, Stop, Stopped, At, Past, Go, static
<1>20. CASE BeginDestroy \/ Destroy \/ Destroyed
  BY <1>20, CopyStatic DEF BeginDestroy, Destroy, Destroyed, Go, static
<1>21. CASE UNCHANGED vars
  BY <1>21 DEF vars, CopyInv, ConnsOK, CopiedUpTo, Disturbed, Arrived, Acquired, CopiesReachTick
<1> QED
  BY <1>1, <1>2, <1>3, <1>4, <1>5, <1>6, <1>7, <1>8, <1>9, <1>10, <1>11, <1>12, <1>13, <1>14,
     <1>15,
     <1>16, <1>17, <1>18, <1>19, <1>20, <1>21 DEF Next

(* For every set of connections, in every tick of every run: when the root  *)
(* ticks, what the engine has to copy has reached its destination, unless a *)
(* connection copied later has written to it (Engine.cpp:455-459).          *)
THEOREM CopiesTheorem == Spec => []CopiesReachTick
<1>1. Init => LayoutInv /\ CopyInv
  BY LayoutInit, CopyInit
<1>2. LayoutInv /\ CopyInv /\ [Next]_vars => LayoutInv' /\ CopyInv'
  BY LayoutNext, CopyNext
<1>3. CopyInv => CopiesReachTick
  BY DEF CopyInv
<1> QED BY <1>1, <1>2, <1>3, PTL DEF Spec

-----------------------------------------------------------------------------
(* The window of tick durations.                                            *)

(* The index steps round the window (WorkloadInstanceInfo.h:92).            *)
LEMMA IndexSteps ==
  ASSUME NEW w \in Nat \ {0}, NEW c \in 0 .. w - 1
  PROVE  (c + 1) % w = IF c + 1 = w THEN 0 ELSE c + 1
<1>1. CASE c + 1 = w
  BY <1>1, Multiple, w * 1 = w
<1>2. CASE c + 1 # w
  BY <1>2, SMTT(30)
<1> QED
  BY <1>1, <1>2

(* A window read from the place after index i to its end, then from its     *)
(* start to i.                                                              *)
LEMMA Turned ==
  ASSUME NEW S, NEW w \in Seq(S), NEW i \in 0 .. Len(w) - 1,
         NEW t, t = SubSeq(w, i + 1, Len(w)) \o SubSeq(w, 1, i)
  PROVE  /\ t \in Seq(S) /\ Len(t) = Len(w)
         /\ \A k \in 1 .. Len(w) :
              t[k] = IF k <= Len(w) - i THEN w[i + k] ELSE w[k - (Len(w) - i)]
<1> DEFINE a == SubSeq(w, i + 1, Len(w))
<1> DEFINE b == SubSeq(w, 1, i)
<1> DEFINE m == Len(w) - i
<1>1. Len(w) \in Nat /\ i \in Int /\ 1 \in Int /\ i + 1 \in Int /\ Len(w) \in Int
  OBVIOUS
<1>2. /\ \A j \in i + 1 .. Len(w) : w[j] \in S
      /\ \A j \in 1 .. i : w[j] \in S
  BY <1>1, ElementOfSeq
<1>3. a \in Seq(S) /\ Len(a) = m /\ \A k \in 1 .. m : a[k] = w[i + k]
  <2>1. /\ a \in Seq(S)
        /\ Len(a) = IF i + 1 <= Len(w) THEN Len(w) - (i + 1) + 1 ELSE 0
        /\ \A k \in 1 .. Len(w) - (i + 1) + 1 : a[k] = w[(i + 1) + k - 1]
    BY <1>1, <1>2, SubSeqProperties
  <2>2. Len(w) - (i + 1) + 1 = m /\ m \in Nat
    BY <1>1
  <2>3. Len(a) = m
    BY <1>1, <2>1, <2>2
  <2> HIDE DEF a, m
  <2>4. ASSUME NEW k \in 1 .. m
        PROVE  a[k] = w[i + k]
    <3>1. a[k] = w[(i + 1) + k - 1]
      BY <2>1, <2>2
    <3>2. (i + 1) + k - 1 = i + k
      BY <1>1, <2>2
    <3> QED
      BY <3>1, <3>2
  <2> QED
    BY <2>1, <2>3, <2>4
<1>4. b \in Seq(S) /\ Len(b) = i /\ \A k \in 1 .. i : b[k] = w[k]
  <2>1. /\ b \in Seq(S)
        /\ Len(b) = IF 1 <= i THEN i - 1 + 1 ELSE 0
        /\ \A k \in 1 .. i - 1 + 1 : b[k] = w[1 + k - 1]
    BY <1>1, <1>2, SubSeqProperties
  <2> HIDE DEF b
  <2> QED
    BY <1>1, <2>1
<1>5. t = a \o b
  OBVIOUS
<1>6. m \in Nat /\ i \in Nat /\ m + i = Len(w)
  BY <1>1
<1> HIDE DEF a, b, m
<1>7. /\ a \o b \in Seq(S) /\ Len(a \o b) = Len(a) + Len(b)
      /\ \A k \in 1 .. Len(a) + Len(b) :
           (a \o b)[k] = IF k <= Len(a) THEN a[k] ELSE b[k - Len(a)]
  BY <1>3, <1>4, ConcatProperties
<1>8. t \in Seq(S) /\ Len(t) = Len(w)
  BY <1>3, <1>4, <1>5, <1>6, <1>7
<1>9. ASSUME NEW k \in 1 .. Len(w)
      PROVE  t[k] = IF k <= m THEN w[i + k] ELSE w[k - m]
  <2>1. t[k] = IF k <= m THEN a[k] ELSE b[k - m]
    BY <1>3, <1>4, <1>5, <1>6, <1>7
  <2>2. CASE k <= m
    <3>1. k \in 1 .. m
      BY <1>6, <2>2
    <3> QED
      BY <1>3, <2>1, <2>2, <3>1
  <2>3. CASE ~(k <= m)
    <3>1. k - m \in 1 .. i
      BY <1>6, <2>3
    <3> QED
      BY <1>4, <2>1, <2>3, <3>1
  <2> QED
    BY <2>2, <2>3
<1> QED
  BY <1>8, <1>9 DEF m

(* How far behind the oldest sample the place j of a full window lies.      *)
Age(j) == IF j > stats.index THEN j - stats.index ELSE j + Window - stats.index

(* The inductive invariant: until it is full the window is the history, and *)
(* from then on place j holds the sample of the last Window whose age is    *)
(* Age(j), so that the index is the place of the oldest one.                *)
StatsInv ==
  LET n == Len(stats.history)
  IN /\ stats \in [window : Seq(Samples), index : 0 .. Window - 1, history : Seq(Samples)]
     /\ n < Window => stats.index = n /\ stats.window = stats.history
     /\ n >= Window => /\ Len(stats.window) = Window
                       /\ \A j \in 1 .. Window : stats.window[j] = stats.history[n - Window + Age(j)]

(* A window starts empty.                                                   *)
LEMMA StatsInit == Init => StatsInv
<1> SUFFICES ASSUME Init PROVE StatsInv
  OBVIOUS
<1>1. stats = [window |-> <<>>, index |-> 0, history |-> <<>>] /\ Window \in Nat \ {0}
  BY EngineAssumption DEF Init
<1>2. <<>> \in Seq(Samples) /\ Len(<<>>) = 0 /\ 0 \in 0 .. Window - 1
  BY <1>1
<1> QED
  BY <1>1, <1>2 DEF StatsInv

(* One recorded sample: it takes the place of the oldest one, and every     *)
(* other sample gets one older (WorkloadInstanceInfo.h:83-93).              *)
LEMMA RecordedOK ==
  ASSUME StatsInv, NEW sample \in Samples, stats' = Recorded(stats, sample)
  PROVE  StatsInv'
<1> DEFINE n == Len(stats.history)
<1> DEFINE next == IF stats.index + 1 = Window THEN 0 ELSE stats.index + 1
<1>1. /\ Window \in Nat \ {0} /\ n \in Nat /\ stats.index \in 0 .. Window - 1
      /\ stats.window \in Seq(Samples) /\ stats.history \in Seq(Samples)
  BY EngineAssumption DEF StatsInv
<1>2. stats'.index = next /\ next \in 0 .. Window - 1
  <2>1. stats'.index = (stats.index + 1) % Window
    BY DEF Recorded
  <2> QED
    BY <1>1, <2>1, IndexSteps
<1>3. /\ stats'.history = Append(stats.history, sample)
      /\ Len(stats'.history) = n + 1 /\ stats'.history \in Seq(Samples)
      /\ \A k \in 1 .. n : stats'.history[k] = stats.history[k]
      /\ stats'.history[n + 1] = sample
  BY <1>1 DEF Recorded
<1>4. CASE n < Window
  <2>1. stats.index = n /\ stats.window = stats.history
    BY <1>4 DEF StatsInv
  <2>2. stats'.window = stats'.history
    BY <1>3, <1>4, <2>1 DEF Recorded
  <2>3. stats' \in [window : Seq(Samples), index : 0 .. Window - 1, history : Seq(Samples)]
    BY <1>2, <1>3, <2>2 DEF Recorded
  <2>4. n + 1 < Window => stats'.index = n + 1
    BY <1>1, <1>2, <2>1
  <2>5. n + 1 >= Window => /\ n + 1 = Window /\ stats'.index = 0
                           /\ \A j \in 1 .. Window : Age(j)' = j
    BY <1>1, <1>2, <1>4, <2>1 DEF Age
  <2> QED
    BY <1>1, <1>3, <2>2, <2>3, <2>4, <2>5 DEF StatsInv
<1>5. CASE n >= Window
  <2>1. Len(stats.window) = Window
        /\ \A j \in 1 .. Window : stats.window[j] = stats.history[n - Window + Age(j)]
    BY <1>5 DEF StatsInv
  <2>2. stats'.window = [stats.window EXCEPT ![stats.index + 1] = sample]
    BY <1>1, <2>1 DEF Recorded
  <2>3. /\ stats'.window \in Seq(Samples) /\ Len(stats'.window) = Window
        /\ stats'.window[stats.index + 1] = sample
        /\ \A j \in 1 .. Window : j # stats.index + 1 => stats'.window[j] = stats.window[j]
    BY <1>1, <2>1, <2>2
  <2>4. stats' \in [window : Seq(Samples), index : 0 .. Window - 1, history : Seq(Samples)]
    BY <1>2, <1>3, <2>3 DEF Recorded
  <2>5. ASSUME NEW j \in 1 .. Window
        PROVE  stats'.window[j] = stats'.history[n + 1 - Window + Age(j)']
    <3>1. CASE j = stats.index + 1
      <4>1. Age(j)' = Window
        BY <1>1, <1>2, <3>1 DEF Age
      <4> QED
        BY <1>1, <1>3, <2>3, <3>1, <4>1
    <3>2. CASE j # stats.index + 1
      <4> DEFINE age == Age(j)
      <4>1. age \in 2 .. Window
        BY <1>1, <3>2 DEF Age
      <4>2. Age(j)' = age - 1
        <5>1. CASE stats.index + 1 = Window
          BY <1>1, <1>2, <3>2, <5>1 DEF Age
        <5>2. CASE stats.index + 1 # Window /\ j > stats.index
          BY <1>1, <1>2, <3>2, <5>2 DEF Age
        <5>3. CASE stats.index + 1 # Window /\ ~(j > stats.index)
          BY <1>1, <1>2, <3>2, <5>3 DEF Age
        <5> QED
          BY <5>1, <5>2, <5>3
      <4>3. stats.window[j] = stats.history[n - Window + age]
        BY <2>1
      <4> HIDE DEF age
      <4>4. n - Window + age \in 1 .. n /\ n + 1 - Window + (age - 1) = n - Window + age
        BY <1>1, <1>5, <4>1
      <4> QED
        BY <1>3, <2>3, <3>2, <4>2, <4>3, <4>4
    <3> QED
      BY <3>1, <3>2
  <2>6. n + 1 >= Window /\ ~(n + 1 < Window)
    BY <1>1, <1>5
  <2>7. Len(stats'.history) = n + 1 /\ Len(stats'.window) = Window
    BY <1>3, <2>3
  <2> QED
    BY <2>4, <2>5, <2>6, <2>7 DEF StatsInv
<1> QED
  BY <1>1, <1>4, <1>5

(* Only a tick of the root records a sample (Engine.cpp:467-478).           *)
LEMMA StatsNext == StatsInv /\ [Next]_vars => StatsInv'
<1> SUFFICES ASSUME StatsInv, [Next]_vars PROVE StatsInv'
  OBVIOUS
<1>1. CASE TickRoot
  <2>1. PICK sample \in Samples : stats' = Recorded(stats, sample)
    BY <1>1 DEF TickRoot
  <2> QED
    BY <2>1, RecordedOK
<1>2. CASE UNCHANGED stats
  BY <1>2 DEF StatsInv, Age
<1>3. TickRoot \/ UNCHANGED stats
  BY DEF Next, vars, Build, Load, Size, Allocate, Construct, Constructed, SetEngine, Apply,
     PreLoad, BindBoards,
         Configure, AllConfigured, LoadWorkload, HookUpChildren, Connect, Claim, Setup,
         SetupRemote, LoadAgain, Run, Copy, CopiesDone, NextTick, BeginStop, Stop, Stopped,
         BeginDestroy, Destroy, Destroyed
<1> QED
  BY <1>1, <1>2, <1>3

(* The invariant gives the property: read from its index on, the window     *)
(* goes through the ages 1 .. Window in order.                              *)
LEMMA StatsInvImplies == StatsInv => StatsWindow
<1> SUFFICES ASSUME StatsInv PROVE StatsWindow
  OBVIOUS
<1> DEFINE n == Len(stats.history)
<1> DEFINE i == stats.index
<1> DEFINE w == stats.window
<1> DEFINE h == stats.history
<1>1. /\ Window \in Nat \ {0} /\ n \in Nat /\ i \in 0 .. Window - 1
      /\ w \in Seq(Samples) /\ h \in Seq(Samples)
  BY EngineAssumption DEF StatsInv
<1>2. CASE n < Window
  <2>1. w = h /\ Len(w) = n
    BY <1>2 DEF StatsInv
  <2>2. SubSeq(h, n - n + 1, n) = h
    BY <1>1
  <2> QED
    BY <1>1, <1>2, <2>1, <2>2 DEF StatsWindow
<1>3. CASE n >= Window
  <2>1. Len(w) = Window /\ \A j \in 1 .. Window : w[j] = h[n - Window + Age(j)]
    BY <1>3 DEF StatsInv
  <2> DEFINE turned == SubSeq(w, i + 1, Len(w)) \o SubSeq(w, 1, i)
  <2> DEFINE last == SubSeq(h, n - Window + 1, n)
  <2>2. /\ turned \in Seq(Samples) /\ Len(turned) = Window
        /\ \A k \in 1 .. Window :
             turned[k] = IF k <= Window - i THEN w[i + k] ELSE w[k - (Window - i)]
    <3>1. i \in 0 .. Len(w) - 1
      BY <1>1, <2>1
    <3> HIDE DEF i, w
    <3>2. /\ turned \in Seq(Samples) /\ Len(turned) = Len(w)
          /\ \A k \in 1 .. Len(w) :
               turned[k] = IF k <= Len(w) - i THEN w[i + k] ELSE w[k - (Len(w) - i)]
      BY <1>1, <3>1, Turned
    <3> QED
      BY <2>1, <3>2
  <2>3. /\ last \in Seq(Samples) /\ Len(last) = Window
        /\ \A k \in 1 .. Window : last[k] = h[n - Window + k]
    <3>1. \A k \in n - Window + 1 .. n : h[k] \in Samples
      BY <1>1, <1>3, ElementOfSeq
    <3>2. n - Window + 1 \in Int /\ n \in Int
      BY <1>1
    <3>3. /\ last \in Seq(Samples)
          /\ Len(last) = IF n - Window + 1 <= n THEN n - (n - Window + 1) + 1 ELSE 0
          /\ \A k \in 1 .. n - (n - Window + 1) + 1 : last[k] = h[(n - Window + 1) + k - 1]
      BY <3>1, <3>2, SubSeqProperties
    <3>4. /\ n - (n - Window + 1) + 1 = Window /\ n - Window + 1 <= n
          /\ \A k \in Int : (n - Window + 1) + k - 1 = n - Window + k
      BY <1>1
    <3> HIDE DEF last
    <3> QED
      BY <1>1, <3>3, <3>4
  <2> HIDE DEF turned, last
  <2>4. ASSUME NEW k \in 1 .. Window
        PROVE  turned[k] = last[k]
    <3>1. CASE k <= Window - i
      <4>1. Age(i + k) = k /\ i + k \in 1 .. Window
        BY <1>1, <3>1 DEF Age
      <4>2. w[i + k] = h[n - Window + k]
        BY <2>1, <4>1
      <4> QED
        BY <2>2, <2>3, <3>1, <4>2
    <3>2. CASE ~(k <= Window - i)
      <4> DEFINE j == k - (Window - i)
      <4>1. Age(j) = k /\ j \in 1 .. Window
        BY <1>1, <3>2 DEF Age
      <4>2. w[j] = h[n - Window + k]
        BY <2>1, <4>1
      <4> QED
        BY <2>2, <2>3, <3>2, <4>2
    <3> QED
      BY <3>1, <3>2
  <2>5. turned = last
    BY <2>2, <2>3, <2>4, SeqEqual
  <2>6. SubSeq(w, i + 1, Len(w)) \o SubSeq(w, 1, i) = SubSeq(h, n - Len(w) + 1, n)
    BY <2>1, <2>5 DEF turned, last
  <2>7. ~(n < Window) /\ ~(Len(w) < Window)
    BY <1>1, <1>3, <2>1
  <2> QED
    BY <2>1, <2>6, <2>7 DEF StatsWindow
<1> QED
  BY <1>1, <1>2, <1>3

(* The window of tick durations holds the newest samples in their order,    *)
(* for every length of the window and any number of ticks and runs          *)
(* (WorkloadInstanceInfo.h:72-103).                                         *)
THEOREM StatsTheorem == Spec => []StatsWindow
<1>1. Init => StatsInv
  BY StatsInit
<1>2. StatsInv /\ [Next]_vars => StatsInv'
  BY StatsNext
<1>3. StatsInv => StatsWindow
  BY StatsInvImplies
<1> QED
  BY <1>1, <1>2, <1>3, PTL DEF Spec
=============================================================================
