----------------------------- MODULE LineChannel -----------------------------
(***************************************************************************)
(* What a radio bridge promises to one source of lines: each line is taken  *)
(* whole and in order, is sent once, and arrives whole or not at all.       *)
(***************************************************************************)
EXTENDS Naturals, Sequences

CONSTANTS
  Message,     \* a line with its destination
  NoMessage,
  Dropped      \* the messages to no destination, which nobody is handed

VARIABLES
  queue,       \* the complete lines that have not been sent
  air,         \* the line sent and not yet handed over: a set of at most one
  handed       \* the last line handed over

Init == queue = <<>> /\ air = {} /\ handed = NoMessage

\* Any line may be added at the end; stated of queue' so that Message may be infinite.
Enter ==
  /\ Len(queue') = Len(queue) + 1
  /\ queue'[Len(queue')] \in Message
  /\ queue' = Append(queue, queue'[Len(queue')])
  /\ UNCHANGED <<air, handed>>

\* A line that is sent while another is on the way is lost.
Send ==
  /\ queue # <<>>
  /\ queue' = Tail(queue)
  /\ air' = air \/ (air = {} /\ air' = {Head(queue)})
  /\ UNCHANGED handed

Receive ==
  /\ air # {}
  /\ air' = {}
  /\ IF air \subseteq Dropped THEN UNCHANGED handed ELSE handed' \in air
  /\ UNCHANGED queue

Next ==
  \/ Enter
  \/ Send
  \/ Receive

Spec == Init /\ [][Next]_<<queue, air, handed>>

=============================================================================
