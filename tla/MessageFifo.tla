---------------------------- MODULE MessageFifo ----------------------------
(***************************************************************************)
(* What one direction of a remote connection promises to the layer above   *)
(* InProgressMessage: whole messages, numbered as they are begun, come out *)
(* in order and at most once; a lost connection loses all that is queued   *)
(* and never a part of a message.                                          *)
(***************************************************************************)
EXTENDS Naturals, Sequences

VARIABLES
  last,    \* number of the last message put in
  queue,   \* numbers of the messages put in and not taken out
  got      \* number of the last message taken out, 0 before the first

Init == last = 0 /\ queue = <<>> /\ got = 0

Put == /\ last' = last + 1
       /\ queue' = Append(queue, last + 1)
       /\ UNCHANGED got

Get == /\ queue # <<>>
       /\ got' = Head(queue)
       /\ queue' = Tail(queue)
       /\ UNCHANGED last

Lose == /\ queue' = <<>>
        /\ UNCHANGED <<last, got>>

Next == Put \/ Get \/ Lose

Spec == Init /\ [][Next]_<<last, queue, got>>
=============================================================================
