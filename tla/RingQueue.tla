------------------------------ MODULE RingQueue ------------------------------
(***************************************************************************)
(* The transmit queue of comm_udp.c and comm_tcp.c: a fixed array used as  *)
(* a ring, with a head index, a tail index and a count.  Both files hold   *)
(* the same code, so it is written once and extended by CommUdp and        *)
(* CommTcp.  The operators are the bodies of the critical sections under   *)
(* queue_mutex; who may run one, and when, is said by the module that      *)
(* extends this one.                                                       *)
(*                                                                         *)
(* A slot holds a frame or NULL: the code sets .data = NULL, .len = 0 in   *)
(* the slot it has taken a frame from.                                     *)
(***************************************************************************)
EXTENDS Naturals, Sequences

CONSTANTS Capacity,  \* COMM_UDP_QUEUE_CAPACITY, COMM_TCP_QUEUE_CAPACITY
          NULL       \* a slot without a frame, a frame variable never assigned

ASSUME CapacityAssumption == Capacity \in Nat \ {0}

VARIABLES queue,        \* queue[i], i \in 0 .. Capacity - 1
          queue_head,   \* the slot the next frame is taken from
          queue_tail,   \* the slot the next frame is stored in
          queue_count   \* the number of frames held

queueVars == <<queue, queue_head, queue_tail, queue_count>>

Slot == 0 .. Capacity - 1

\* Mutant of Advance: no wrap.
Advance_unwrapped(i) == i + 1

\* (i + 1U) % CAPACITY
Advance(i) == (i + 1) % Capacity

QueueInit == /\ queue = [i \in Slot |-> NULL]
             /\ queue_head = 0
             /\ queue_tail = 0
             /\ queue_count = 0

\* Mutant of QueueFull: one frame too many, over the oldest.
QueueFull_off_by_one == queue_count > Capacity

QueueFull == queue_count = Capacity

QueueEmpty == queue_count = 0

Enqueue(frame) == /\ queue' = [queue EXCEPT ![queue_tail] = frame]
                  /\ queue_tail' = Advance(queue_tail)
                  /\ queue_count' = queue_count + 1
                  /\ UNCHANGED queue_head

Front == queue[queue_head]

\* Mutant of Dequeue: the slot keeps its frame.
Dequeue_uncleared == /\ queue_head' = Advance(queue_head)
                     /\ queue_count' = queue_count - 1
                     /\ UNCHANGED <<queue, queue_tail>>

Dequeue == /\ queue' = [queue EXCEPT ![queue_head] = NULL]
           /\ queue_head' = Advance(queue_head)
           /\ queue_count' = queue_count - 1
           /\ UNCHANGED queue_tail

(***************************************************************************)
(* What the ring stands for: the frames held, oldest first.                *)
(***************************************************************************)
SlotOf(i) == (queue_head + i - 1) % Capacity

Contents == [i \in 1 .. queue_count |-> queue[SlotOf(i)]]

(***************************************************************************)
(* The ring is consistent: the tail is count slots after the head, and the *)
(* slots from head to tail are the ones that hold a frame.                 *)
(***************************************************************************)
RingOK ==
  /\ queue_count \in 0 .. Capacity
  /\ queue_head \in Slot
  /\ queue_tail = (queue_head + queue_count) % Capacity
  /\ \A s \in Slot :
       queue[s] # NULL <=> \E i \in 1 .. queue_count : s = SlotOf(i)
==============================================================================
