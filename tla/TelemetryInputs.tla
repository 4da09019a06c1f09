-------------------------- MODULE TelemetryInputs --------------------------
(***************************************************************************)
(* Workload inputs set over HTTP (TelemetryServer.cpp).  A thread of the   *)
(* web server stages a POSTed value in the slot of the field it names; the *)
(* tick thread copies all staged values into the workload memory, holding  *)
(* pending_input_writes_mutex, and then ticks the workloads.  Clients name *)
(* fields by the handles of a layout they fetched earlier, perhaps from an *)
(* engine that has been restarted since.                                   *)
(*                                                                         *)
(* A value is the number of the write that brought it, counted in the      *)
(* order in which writes were accepted.  It implements InputLog.           *)
(***************************************************************************)
EXTENDS Integers, Sequences

CONSTANTS
  SlotCount,    \* size of writable_input_fields
  Fields,       \* paths that requests name, writable ones and others
  Layouts,      \* which of them each handle may stand for, one per build of the model
  Clients,
  ClientSeqs,   \* values of "seq" that clients send; 0: none, or not positive
  MaxWrites,    \* bound on the writes accepted in one session
  MaxSessions   \* bound on the sessions

Slots == 1 .. SlotCount
Sessions == 1 .. MaxSessions

ASSUME InputsAssumption ==
  /\ SlotCount \in Nat
  /\ MaxWrites \in Nat
  /\ MaxSessions \in Nat \ {0}
  /\ ClientSeqs \subseteq Nat
  /\ Layouts # {} /\ \A l \in Layouts : l \in [Slots -> Fields]

VARIABLES
  phase,     \* where the tick thread is
  cursor,    \* the slot at which apply_pending_input_writes() has arrived
  locked,    \* whether the tick thread holds pending_input_writes_mutex
  slot,      \* pending_input_writes: [pending, write, seq]
  counter,   \* write_seq_counter
  input,     \* workload memory: Slots -> write whose value it holds, or 0
  session,   \* number of the engine's session_id
  layout,    \* writable_input_fields of this session
  known,     \* Clients -> [session, layout] of the layout the client fetched
  answer,    \* Clients -> the last answer to a POST
  log,       \* history: the slots of the writes accepted in this session
  posts,     \* history: what else is known of them, [seq, auto, meant]
  covered,   \* history: how many of them the last apply had before it
  shown,     \* history: input when the workloads were last ticked
  seen       \* history: covered when the workloads were last ticked

engineVars == <<cursor, locked, input, covered, shown, seen>>
clientVars == <<known, answer>>
sessionVars == <<session, layout>>
stagedVars == <<slot, counter, log, posts>>
vars == <<phase, engineVars, stagedVars, sessionVars, clientVars>>

NothingStaged == [pending |-> FALSE, write |-> 0, seq |-> 0]
NoLayout == [session |-> 0, layout |-> <<>>]

(* The web server runs from before the first tick until the end of run().   *)
Serving == phase \in {"starting", "sleeping", "applying", "ticking", "stopping"}

(* TelemetryServer::setup(), called by Engine::load().                      *)
Fresh ==
  /\ phase' = "loaded" /\ cursor' = 1 /\ locked' = FALSE
  /\ slot' = [s \in Slots |-> NothingStaged]
  /\ counter' = 0
  /\ input' = [s \in Slots |-> 0]
  /\ layout' \in Layouts
  /\ log' = <<>> /\ posts' = <<>> /\ covered' = 0 /\ seen' = 0
  /\ shown' = [s \in Slots |-> 0]

Init ==
  /\ phase = "loaded" /\ cursor = 1 /\ locked = FALSE
  /\ slot = [s \in Slots |-> NothingStaged]
  /\ counter = 0
  /\ input = [s \in Slots |-> 0]
  /\ session = 1 /\ layout \in Layouts
  /\ known = [cl \in Clients |-> NoLayout]
  /\ answer = [cl \in Clients |-> "none"]
  /\ log = <<>> /\ posts = <<>> /\ covered = 0 /\ seen = 0
  /\ shown = [s \in Slots |-> 0]

-----------------------------------------------------------------------------
(* The tick thread.                                                         *)

(* run() starts, perhaps once more after an earlier one has returned; what  *)
(* was staged and not applied is still there.                               *)
Start ==
  /\ phase \in {"loaded", "stopped"}
  /\ phase' = "starting"
  /\ UNCHANGED <<engineVars, stagedVars, sessionVars, clientVars>>

(* A tick gets to apply_pending_input_writes() and takes the mutex.         *)
BeginApply ==
  /\ phase \in {"starting", "sleeping"} /\ ~locked
  /\ phase' = "applying" /\ locked' = TRUE /\ cursor' = 1
  /\ UNCHANGED <<input, covered, shown, seen, stagedVars, sessionVars, clientVars>>

ApplyKeepingPending ==        \* slip: the slot stays pending
  /\ phase = "applying" /\ cursor <= SlotCount
  /\ input' = IF slot[cursor].pending
              THEN [input EXCEPT ![cursor] = slot[cursor].write] ELSE input
  /\ cursor' = cursor + 1
  /\ UNCHANGED <<phase, locked, covered, shown, seen, stagedVars, sessionVars, clientVars>>
ApplyBreaking ==              \* slip: break for continue, at the first empty slot
  /\ phase = "applying" /\ cursor <= SlotCount
  /\ input' = IF slot[cursor].pending
              THEN [input EXCEPT ![cursor] = slot[cursor].write] ELSE input
  /\ slot' = [slot EXCEPT ![cursor].pending = FALSE]
  /\ cursor' = IF slot[cursor].pending THEN cursor + 1 ELSE SlotCount + 1
  /\ UNCHANGED <<phase, locked, covered, shown, seen, counter, log, posts, sessionVars, clientVars>>
(* One round of its loop.  The sizes of a staged value and of its field     *)
(* always agree, so nothing is dropped.                                     *)
ApplyOne ==
  /\ phase = "applying" /\ cursor <= SlotCount
  /\ input' = IF slot[cursor].pending
              THEN [input EXCEPT ![cursor] = slot[cursor].write] ELSE input
  /\ slot' = [slot EXCEPT ![cursor].pending = FALSE]
  /\ cursor' = cursor + 1
  /\ UNCHANGED <<phase, locked, covered, shown, seen, counter, log, posts, sessionVars, clientVars>>

EndApply ==
  /\ phase = "applying" /\ cursor > SlotCount
  /\ phase' = "ticking" /\ locked' = FALSE
  /\ covered' = Len(log)
  /\ UNCHANGED <<cursor, input, shown, seen, stagedVars, sessionVars, clientVars>>

(* root_tick_fn(): the workloads read their inputs.                         *)
TickWorkloads ==
  /\ phase = "ticking"
  /\ phase' = "sleeping"
  /\ shown' = input /\ seen' = covered
  /\ UNCHANGED <<cursor, locked, input, covered, stagedVars, sessionVars, clientVars>>

BeginStop ==
  /\ phase = "sleeping"
  /\ phase' = "stopping"
  /\ UNCHANGED <<engineVars, stagedVars, sessionVars, clientVars>>

(* TelemetryServer::stop(), after every stop_fn.                            *)
Stop ==
  /\ phase = "stopping"
  /\ phase' = "stopped"
  /\ UNCHANGED <<engineVars, stagedVars, sessionVars, clientVars>>

(* The engine's process dies, or ends, and another one loads a model: the   *)
(* same, or one whose handles stand for other fields.                       *)
Restart ==
  /\ session < MaxSessions
  /\ session' = session + 1
  /\ Fresh
  /\ UNCHANGED clientVars

-----------------------------------------------------------------------------
(* The web server's threads.                                                *)

(* handle_get_workloads_buffer_layout()                                     *)
FetchLayout(cl) ==
  /\ Serving
  /\ known' = [known EXCEPT ![cl] = [session |-> session, layout |-> layout]]
  /\ UNCHANGED <<phase, engineVars, stagedVars, sessionVars, answer>>

Answer(cl, a) == answer' = [answer EXCEPT ![cl] = a]

(* The end of handle_set_workload_input_field_data(): under the mutex the   *)
(* value takes the slot, whether or not an earlier one still waits there.   *)
StageWithoutLock(cl, s, meant, seq) ==    \* slip: no LockGuard
  /\ Len(log) < MaxWrites
  /\ LET number == IF seq = 0 THEN counter + 1 ELSE seq IN
     /\ counter' = IF seq = 0 THEN counter + 1 ELSE counter
     /\ slot' = [slot EXCEPT ![s] = [pending |-> TRUE, write |-> Len(log) + 1, seq |-> number]]
     /\ posts' = Append(posts, [seq |-> number, auto |-> seq = 0, meant |-> meant])
  /\ log' = Append(log, s)
  /\ Answer(cl, "accepted")
StageNotCounting(cl, s, meant, seq) ==    \* slip: the counter is not stored
  /\ ~locked /\ Len(log) < MaxWrites
  /\ LET number == IF seq = 0 THEN counter + 1 ELSE seq IN
     /\ counter' = counter
     /\ slot' = [slot EXCEPT ![s] = [pending |-> TRUE, write |-> Len(log) + 1, seq |-> number]]
     /\ posts' = Append(posts, [seq |-> number, auto |-> seq = 0, meant |-> meant])
  /\ log' = Append(log, s)
  /\ Answer(cl, "accepted")
Stage(cl, s, meant, seq) ==
  /\ ~locked /\ Len(log) < MaxWrites
  /\ LET number == IF seq = 0 THEN counter + 1 ELSE seq IN
     /\ counter' = IF seq = 0 THEN counter + 1 ELSE counter
     /\ slot' = [slot EXCEPT ![s] = [pending |-> TRUE, write |-> Len(log) + 1, seq |-> number]]
     /\ posts' = Append(posts, [seq |-> number, auto |-> seq = 0, meant |-> meant])
  /\ log' = Append(log, s)
  /\ Answer(cl, "accepted")

AnySession(cl) == TRUE                    \* slip: engine_session_id is not compared
SameSession(cl) == known[cl].session = session

(* find_writable_input_index_by_path(): s is the first slot of that path.   *)
ByPath(path, s) == layout[s] = path /\ \A r \in Slots : layout[r] = path => s <= r
Writable(path) == \E s \in Slots : layout[s] = path

(* The field that a request is about, and what it says of it: a handle (0:  *)
(* none, or one no field has), a path that need not be writable, or both,   *)
(* which then have to agree.                                                *)
Target(h, path, s) ==
  \/ ByPath(path, s) /\ h \in {0, s}
  \/ h = s /\ ~Writable(path)
Named(cl, h, path) ==
  {known[cl].layout[s] : s \in Slots \cap {h}} \cup {f \in {path} : Writable(f)}

Refuse(cl, error) == Answer(cl, error) /\ UNCHANGED stagedVars

(* handle_set_workload_input_field_data(); "bad_request" is any of invalid  *)
(* or missing json, session, handle and value.                              *)
Post(cl, h, path, seq) ==
  /\ Serving /\ known[cl].session > 0
  /\ \/ Refuse(cl, "bad_request")
     \/ ~SameSession(cl) /\ Refuse(cl, "session_mismatch")
     \/ /\ SameSession(cl)
        /\ \E s \in Slots : ByPath(path, s) /\ h \notin {0, s}
        /\ Refuse(cl, "field_handle_path_mismatch")
     \/ /\ SameSession(cl) /\ h = 0 /\ ~Writable(path)
        /\ Refuse(cl, "writable_input_not_found")
     \/ /\ SameSession(cl)
        /\ \E s \in Slots : Target(h, path, s) /\ Stage(cl, s, Named(cl, h, path), seq)
  /\ UNCHANGED <<phase, engineVars, sessionVars, known>>

-----------------------------------------------------------------------------
EngineStep ==
  \/ Start \/ BeginApply \/ ApplyOne \/ EndApply \/ TickWorkloads
  \/ BeginStop \/ Stop

ClientStep ==
  \E cl \in Clients :
    \/ FetchLayout(cl)
    \/ \E h \in Slots \cup {0}, path \in Fields, seq \in ClientSeqs : Post(cl, h, path, seq)

Next == EngineStep \/ ClientStep \/ Restart

Spec == Init /\ [][Next]_vars

(* The loop of run() goes on ticking, and waits for the mutex only while a  *)
(* handler copies one value.                                                *)
LiveSpec == Spec /\ WF_vars(EngineStep)

-----------------------------------------------------------------------------
(* Properties.                                                              *)

Phases == {"loaded", "starting", "sleeping", "applying", "ticking", "stopping", "stopped"}
Answers == {"none", "accepted", "bad_request", "session_mismatch",
            "field_handle_path_mismatch", "writable_input_not_found"}

TypeOK ==
  /\ phase \in Phases
  /\ cursor \in 1 .. (SlotCount + 1)
  /\ locked \in BOOLEAN
  /\ slot \in [Slots -> [pending : BOOLEAN, write : Nat, seq : Nat]]
  /\ counter \in 0 .. Len(log)
  /\ input \in [Slots -> Nat]
  /\ session \in Sessions
  /\ layout \in Layouts
  /\ known \in [Clients -> [session : Nat, layout : Layouts \cup {<<>>}]]
  /\ answer \in [Clients -> Answers]
  /\ log \in Seq(Slots)
  /\ posts \in Seq([seq : Nat, auto : BOOLEAN, meant : SUBSET Fields])
  /\ Len(posts) = Len(log)
  /\ covered \in 0 .. Len(log) /\ seen \in 0 .. Len(log)
  /\ shown \in [Slots -> Nat]

(* TelemetryServer.cpp:508-558: an accepted value goes to the one field     *)
(* that the request named, in the layout its sender knew, by handle and by  *)
(* path; also when the sender's layout is that of another session in which  *)
(* the handle stood for another field.  A path that is unknown or not       *)
(* writable names nothing: with a handle beside it the value goes to the    *)
(* handle's field (lines 542-558), and the sender is not told.              *)
WritesReachTheFieldMeant == \A k \in 1 .. Len(log) : posts[k].meant = {layout[log[k]]}

(* Numbers chosen by the server (line 611) tell accepted writes apart and   *)
(* say which came later, whatever numbers clients mix in.                   *)
ServerSeqsIncrease ==
  \A j, k \in 1 .. Len(log) :
    (j < k /\ posts[j].auto /\ posts[k].auto) => posts[j].seq < posts[k].seq

(* Workloads see a growing prefix of the accepted writes.                   *)
Log == INSTANCE InputLog WITH length <- seen
ImplementsLog == Log!Spec

(* A tick never sees a later write without the earlier ones (that nothing   *)
(* newer replaced): the inductive invariant.  A slot the loop has passed    *)
(* has everything accepted in memory; any other has what was accepted       *)
(* before the last apply, and the newest later write waits in it.           *)
Passed(s) == phase = "applying" /\ s < cursor

SlotOK(s) ==
  /\ ~Passed(s) => Log!IsLast(s, covered, input[s])
  /\ IF slot[s].pending
     THEN ~Passed(s) /\ slot[s].write > covered /\ Log!IsLast(s, Len(log), slot[s].write)
     ELSE Log!IsLast(s, Len(log), input[s])

PrefixOK ==
  /\ locked <=> phase = "applying"
  /\ seen <= covered
  /\ \A s \in Slots : SlotOK(s)
  /\ \A s \in Slots : Log!IsLast(s, seen, shown[s])

(* A client that names the current session has this session's layout, and   *)
(* the counter is not behind the numbers it has given out.                  *)
KnownOK == \A cl \in Clients :
  known[cl].session <= session /\ (SameSession(cl) => known[cl].layout = layout)
SeqsOK == \A k \in 1 .. Len(log) : posts[k].auto => posts[k].seq <= counter

IInv == /\ TypeOK /\ PrefixOK /\ KnownOK /\ SeqsOK
        /\ WritesReachTheFieldMeant /\ ServerSeqsIncrease

(* "accepted" is a promise while run() goes on: the write is in the memory  *)
(* of some later tick, unless a newer one of the same field took its place, *)
(* the engine stops or it is started again.                                 *)
AcceptedIsShown ==
  \A k \in 1 .. MaxWrites :
    Len(log) >= k ~> \/ Len(log) < k
                     \/ shown[log[k]] >= k
                     \/ phase \in {"loaded", "stopping", "stopped"}
=============================================================================
