---------------------------- MODULE CommUdpProofs ----------------------------
(***************************************************************************)
(* Proofs about CommUdp, for every number of peers, sender threads and     *)
(* slots, and about NetSend, which builds what CommUdp queues, for any     *)
(* calls with any payloads.                                                *)
(***************************************************************************)
EXTENDS CommUdp, NetSend, RingQueueProofs, WellFoundedInduction

(***************************************************************************)
(* The inductive invariant: what the position of a thread says of the data *)
(* it has seen.  The socket is published before a peer can be known, a     *)
(* peer is known before a frame can be queued; the rx thread does not take *)
(* a new datagram, so does not change last_peer, before it has answered.   *)
(***************************************************************************)
ThreadsInv ==
  /\ \A g \in Gnss : pc[g] \in {"idle", "peer", "push"} /\ req[g] = NoPeer
  /\ pc[Rx] \in {"off", "create", "publish", "recv", "note", "process", "peer", "push", "dead"}
  /\ pc[Tx] \in {"off", "pop", "wait", "getfd", "send"}
  /\ pc[Main] \in {"init", "init_tx"} => pc[Tx] = "off"

SocketInv ==
  /\ last_peer # NoPeer => fd = ServerFd
  /\ pc[Rx] \in {"recv", "note", "process", "peer", "push"} => fd = ServerFd
  /\ \A t \in Senders : pc[t] = "push" => dest[t] \in Peers /\ fd = ServerFd
  /\ ~QueueEmpty => fd = ServerFd
  /\ IF pc[Tx] \in {"getfd", "send"} THEN hand \in Frame /\ fd = ServerFd ELSE hand = NULL
  /\ pc[Tx] = "send" => hand_fd = ServerFd

AnswerInv ==
  /\ pc[Rx] \in {"note", "process", "peer", "push"} => req[Rx] \in Peers
  /\ pc[Rx] \in {"process", "peer", "push"} => last_peer = req[Rx]
  /\ pc[Rx] = "push" => dest[Rx] = req[Rx]

IInv == /\ TypeOK
        /\ RingOK
        /\ ThreadsInv
        /\ SocketInv
        /\ AnswerInv
        /\ ReplyToRequester
        /\ NoLostWakeup

-----------------------------------------------------------------------------
\* The thread names are distinct.
LEMMA ThreadsDistinct ==
  /\ Rx \in Senders /\ Rx \in Threads /\ Tx \in Threads /\ Main \in Threads
  /\ Senders \subseteq Threads /\ Gnss \subseteq Senders
  /\ Rx # Tx /\ Rx # Main /\ Main # Tx
  /\ Main \notin Senders /\ Tx \notin Senders /\ Rx \notin Gnss
  /\ \A t \in Senders : t # Rx => t \in Gnss
  BY UdpAssumption DEF Senders, Threads

\* The invariant holds initially.
LEMMA InitInv == Init => IInv
  <1> SUFFICES ASSUME Init PROVE IInv
    OBVIOUS
  <1>1. queue = [s \in Slot |-> NULL] /\ queue_head = 0 /\ queue_tail = 0 /\ queue_count = 0
    BY DEF Init, QueueInit
  <1>2. 0 \in Slot /\ 0 \in 0 .. Capacity /\ Capacity \in Nat
    BY CapacityAssumption DEF Slot
  <1>3. RingOK
    <2>1. queue_tail = (queue_head + queue_count) % Capacity
      <3>1. (0 + 0) % Capacity = 0
        BY SlotAfter, CapacityAssumption DEF Slot
      <3>2. QED
        BY <1>1, <3>1
    <2>2. ASSUME NEW s \in Slot
          PROVE  queue[s] # NULL <=> \E i \in 1 .. queue_count : s = SlotOf(i)
      BY <1>1
    <2>3. QED
      BY <1>1, <1>2, <2>1, <2>2 DEF RingOK
  <1>4. TypeOK
    <2>1. pc \in [Threads -> Labels]
      BY DEF Init, Labels
    <2>2. sent \in Seq(Frame) /\ accepted \in 0 .. MaxFrames
      BY UdpAssumption DEF Init
    <2>3. QED
      BY <1>1, <1>2, <2>1, <2>2 DEF Init, TypeOK
  <1>5. ThreadsInv /\ SocketInv /\ AnswerInv /\ NoLostWakeup
    BY <1>1, ThreadsDistinct, UdpAssumption
       DEF Init, ThreadsInv, SocketInv, AnswerInv, NoLostWakeup, At, QueueEmpty
  <1>6. Frames = {}
    BY <1>1 DEF Init, Frames
  <1>7. QED
    BY <1>3, <1>4, <1>5, <1>6 DEF IInv, ReplyToRequester

\* A step that leaves the ring and the frames alone keeps what is said of them.
LEMMA FramesUnchanged ==
  ASSUME UNCHANGED <<queueVars, hand, sent>>
  PROVE  /\ RingOK => RingOK'
         /\ ReplyToRequester => ReplyToRequester'
         /\ QueueEmpty' = QueueEmpty
  <1>1. UNCHANGED <<queue, queue_head, queue_tail, queue_count, hand, sent>>
    BY DEF queueVars
  <1>2. Frames' = Frames
    BY <1>1 DEF Frames, Slot
  <1>3. QED
    BY <1>1, <1>2 DEF RingOK, SlotOf, Slot, QueueEmpty, ReplyToRequester

\* Every step keeps the invariant.
LEMMA StepInv ==
  ASSUME IInv, [Next]_vars
  PROVE  IInv'
  <1> USE ThreadsDistinct
  <1>0. /\ TypeOK /\ RingOK /\ ThreadsInv /\ SocketInv
        /\ AnswerInv /\ ReplyToRequester /\ NoLostWakeup
    BY DEF IInv
  <1>1. CASE InitRx
    <2>1. UNCHANGED <<queueVars, hand, sent>>
      BY <1>1 DEF InitRx, localVars
    <2>2. RingOK' /\ ReplyToRequester' /\ QueueEmpty' = QueueEmpty
      BY <1>0, <2>1, FramesUnchanged
    <2>3. TypeOK'
      BY <1>0, <1>1, <2>1 DEF InitRx, TypeOK, Labels, Goto, localVars, queueVars
    <2>4. ThreadsInv' /\ SocketInv' /\ AnswerInv' /\ NoLostWakeup'
      BY <1>0, <1>1, <2>1, <2>2, UdpAssumption
         DEF InitRx, TypeOK, ThreadsInv, SocketInv, AnswerInv, NoLostWakeup, At, Goto, localVars
    <2>5. QED
      BY <2>2, <2>3, <2>4 DEF IInv
  <1>2. CASE InitTx
    <2>1. UNCHANGED <<queueVars, hand, sent>>
      BY <1>2 DEF InitTx, localVars
    <2>2. RingOK' /\ ReplyToRequester' /\ QueueEmpty' = QueueEmpty
      BY <1>0, <2>1, FramesUnchanged
    <2>3. TypeOK'
      BY <1>0, <1>2, <2>1 DEF InitTx, TypeOK, Labels, Goto, localVars, queueVars
    <2>4. ThreadsInv' /\ SocketInv' /\ AnswerInv' /\ NoLostWakeup'
      BY <1>0, <1>2, <2>1, <2>2, UdpAssumption
         DEF InitTx, TypeOK, ThreadsInv, SocketInv, AnswerInv, NoLostWakeup, At, Goto, localVars
    <2>5. QED
      BY <2>2, <2>3, <2>4 DEF IInv
  <1>3. CASE CreateServer
    <2>1. UNCHANGED <<queueVars, hand, sent>>
      BY <1>3 DEF CreateServer, localVars
    <2>2. RingOK' /\ ReplyToRequester' /\ QueueEmpty' = QueueEmpty
      BY <1>0, <2>1, FramesUnchanged
    <2>3. TypeOK'
      BY <1>0, <1>3, <2>1 DEF CreateServer, TypeOK, Labels, Goto, localVars, queueVars
    <2>4. ThreadsInv' /\ SocketInv' /\ AnswerInv' /\ NoLostWakeup'
      BY <1>0, <1>3, <2>1, <2>2, UdpAssumption
         DEF CreateServer, TypeOK, ThreadsInv, SocketInv, AnswerInv, NoLostWakeup, At, Goto, localVars
    <2>5. QED
      BY <2>2, <2>3, <2>4 DEF IInv
  <1>4. CASE PublishFd
    <2>1. UNCHANGED <<queueVars, hand, sent>>
      BY <1>4 DEF PublishFd, localVars
    <2>2. RingOK' /\ ReplyToRequester' /\ QueueEmpty' = QueueEmpty
      BY <1>0, <2>1, FramesUnchanged
    <2>3. TypeOK'
      BY <1>0, <1>4, <2>1 DEF PublishFd, TypeOK, Labels, Goto, localVars, queueVars
    <2>4. ThreadsInv' /\ SocketInv' /\ AnswerInv' /\ NoLostWakeup'
      BY <1>0, <1>4, <2>1, <2>2, UdpAssumption
         DEF PublishFd, TypeOK, ThreadsInv, SocketInv, AnswerInv, NoLostWakeup, At, Goto, localVars
    <2>5. QED
      BY <2>2, <2>3, <2>4 DEF IInv
  <1>5. ASSUME NEW p \in Peers, Receive(p) PROVE IInv'
    <2>1. UNCHANGED <<queueVars, hand, sent>>
      BY <1>5 DEF Receive, localVars
    <2>2. RingOK' /\ ReplyToRequester' /\ QueueEmpty' = QueueEmpty
      BY <1>0, <2>1, FramesUnchanged
    <2>3. TypeOK'
      BY <1>0, <1>5, <2>1 DEF Receive, TypeOK, Labels, Goto, localVars, queueVars
    <2>4. ThreadsInv' /\ SocketInv' /\ AnswerInv' /\ NoLostWakeup'
      BY <1>0, <1>5, <2>1, <2>2, UdpAssumption
         DEF Receive, TypeOK, ThreadsInv, SocketInv, AnswerInv, NoLostWakeup, At, Goto, localVars
    <2>5. QED
      BY <2>2, <2>3, <2>4 DEF IInv
  <1>6. CASE NotePeer
    <2>1. UNCHANGED <<queueVars, hand, sent>>
      BY <1>6 DEF NotePeer, localVars
    <2>2. RingOK' /\ ReplyToRequester' /\ QueueEmpty' = QueueEmpty
      BY <1>0, <2>1, FramesUnchanged
    <2>3. TypeOK'
      BY <1>0, <1>6, <2>1 DEF NotePeer, TypeOK, Labels, Goto, localVars, queueVars
    <2>4. ThreadsInv' /\ SocketInv' /\ AnswerInv' /\ NoLostWakeup'
      BY <1>0, <1>6, <2>1, <2>2, UdpAssumption
         DEF NotePeer, TypeOK, ThreadsInv, SocketInv, AnswerInv, NoLostWakeup, At, Goto, localVars
    <2>5. QED
      BY <2>2, <2>3, <2>4 DEF IInv
  <1>7. CASE Process
    <2>1. UNCHANGED <<queueVars, hand, sent>>
      BY <1>7 DEF Process, localVars
    <2>2. RingOK' /\ ReplyToRequester' /\ QueueEmpty' = QueueEmpty
      BY <1>0, <2>1, FramesUnchanged
    <2>3. TypeOK'
      BY <1>0, <1>7, <2>1 DEF Process, TypeOK, Labels, Goto, localVars, queueVars
    <2>4. ThreadsInv' /\ SocketInv' /\ AnswerInv' /\ NoLostWakeup'
      BY <1>0, <1>7, <2>1, <2>2, UdpAssumption
         DEF Process, TypeOK, ThreadsInv, SocketInv, AnswerInv, NoLostWakeup, At, Goto, localVars
    <2>5. QED
      BY <2>2, <2>3, <2>4 DEF IInv
  <1>8. ASSUME NEW t \in Senders, BeginSend(t) PROVE IInv'
    <2>1. UNCHANGED <<queueVars, hand, sent>>
      BY <1>8 DEF BeginSend, localVars
    <2>2. RingOK' /\ ReplyToRequester' /\ QueueEmpty' = QueueEmpty
      BY <1>0, <2>1, FramesUnchanged
    <2>3. TypeOK'
      BY <1>0, <1>8, <2>1 DEF BeginSend, TypeOK, Labels, Goto, localVars, queueVars
    <2>4. ThreadsInv' /\ SocketInv' /\ AnswerInv' /\ NoLostWakeup'
      BY <1>0, <1>8, <2>1, <2>2, UdpAssumption
         DEF BeginSend, TypeOK, ThreadsInv, SocketInv, AnswerInv, NoLostWakeup, At, Goto, localVars
    <2>5. QED
      BY <2>2, <2>3, <2>4 DEF IInv
  <1>9. ASSUME NEW t \in Senders, ReadPeer(t) PROVE IInv'
    <2>1. UNCHANGED <<queueVars, hand, sent>>
      BY <1>9 DEF ReadPeer, localVars
    <2>2. RingOK' /\ ReplyToRequester' /\ QueueEmpty' = QueueEmpty
      BY <1>0, <2>1, FramesUnchanged
    <2>3. TypeOK'
      BY <1>0, <1>9, <2>1 DEF ReadPeer, Return, Home, TypeOK, Labels, Goto, localVars, queueVars
    <2>4. ThreadsInv' /\ SocketInv' /\ AnswerInv' /\ NoLostWakeup'
      BY <1>0, <1>9, <2>1, <2>2, UdpAssumption
         DEF ReadPeer, Return, Home, TypeOK, ThreadsInv, SocketInv, AnswerInv, NoLostWakeup, At, Goto, localVars
    <2>5. QED
      BY <2>2, <2>3, <2>4 DEF IInv
  <1>10. ASSUME NEW t \in Senders, PushFail(t) PROVE IInv'
    <2>1. UNCHANGED <<queueVars, hand, sent>>
      BY <1>10 DEF PushFail, localVars
    <2>2. RingOK' /\ ReplyToRequester' /\ QueueEmpty' = QueueEmpty
      BY <1>0, <2>1, FramesUnchanged
    <2>3. TypeOK'
      BY <1>0, <1>10, <2>1 DEF PushFail, Return, Home, TypeOK, Labels, Goto, localVars, queueVars
    <2>4. ThreadsInv' /\ SocketInv' /\ AnswerInv' /\ NoLostWakeup'
      BY <1>0, <1>10, <2>1, <2>2, UdpAssumption
         DEF PushFail, Return, Home, TypeOK, ThreadsInv, SocketInv, AnswerInv, NoLostWakeup, At, Goto, localVars
    <2>5. QED
      BY <2>2, <2>3, <2>4 DEF IInv
  <1>11. CASE WaitFrame
    <2>1. UNCHANGED <<queueVars, hand, sent>>
      BY <1>11 DEF WaitFrame, localVars
    <2>2. RingOK' /\ ReplyToRequester' /\ QueueEmpty' = QueueEmpty
      BY <1>0, <2>1, FramesUnchanged
    <2>3. TypeOK'
      BY <1>0, <1>11, <2>1 DEF WaitFrame, TypeOK, Labels, Goto, localVars, queueVars
    <2>4. ThreadsInv' /\ SocketInv' /\ AnswerInv' /\ NoLostWakeup'
      BY <1>0, <1>11, <2>1, <2>2, UdpAssumption
         DEF WaitFrame, TypeOK, ThreadsInv, SocketInv, AnswerInv, NoLostWakeup, At, Goto, localVars
    <2>5. QED
      BY <2>2, <2>3, <2>4 DEF IInv
  <1>12. CASE SpuriousWake
    <2>1. UNCHANGED <<queueVars, hand, sent>>
      BY <1>12 DEF SpuriousWake, localVars
    <2>2. RingOK' /\ ReplyToRequester' /\ QueueEmpty' = QueueEmpty
      BY <1>0, <2>1, FramesUnchanged
    <2>3. TypeOK'
      BY <1>0, <1>12, <2>1 DEF SpuriousWake, TypeOK, Labels, Goto, localVars, queueVars
    <2>4. ThreadsInv' /\ SocketInv' /\ AnswerInv' /\ NoLostWakeup'
      BY <1>0, <1>12, <2>1, <2>2, UdpAssumption
         DEF SpuriousWake, TypeOK, ThreadsInv, SocketInv, AnswerInv, NoLostWakeup, At, Goto, localVars
    <2>5. QED
      BY <2>2, <2>3, <2>4 DEF IInv
  <1>13. CASE GetFd
    <2>1. UNCHANGED <<queueVars, hand, sent>>
      BY <1>13 DEF GetFd, localVars
    <2>2. RingOK' /\ ReplyToRequester' /\ QueueEmpty' = QueueEmpty
      BY <1>0, <2>1, FramesUnchanged
    <2>3. TypeOK'
      BY <1>0, <1>13, <2>1 DEF GetFd, TypeOK, Labels, Goto, localVars, queueVars
    <2>4. ThreadsInv' /\ SocketInv' /\ AnswerInv' /\ NoLostWakeup'
      BY <1>0, <1>13, <2>1, <2>2, UdpAssumption
         DEF GetFd, TypeOK, ThreadsInv, SocketInv, AnswerInv, NoLostWakeup, At, Goto, localVars
    <2>5. QED
      BY <2>2, <2>3, <2>4 DEF IInv
  <1>14. ASSUME NEW t \in Senders, PushOk(t) PROVE IInv'
    <2> DEFINE f == [id |-> accepted + 1, from |-> t, req |-> req[t], peer |-> dest[t]]
    <2>1. /\ Enqueue(f) /\ ~QueueFull
          /\ UNCHANGED <<fd, last_peer, dest, hand, hand_fd, sent>>
          /\ accepted < MaxFrames /\ accepted' = accepted + 1
          /\ pc[t] = "push"
          /\ pc' = SignalTx([pc EXCEPT ![t] = Home(t)])
          /\ req' = [req EXCEPT ![t] = NoPeer]
      BY <1>14 DEF PushOk, At
    <2>2. f \in Frame
      <3>1. accepted + 1 \in 1 .. MaxFrames
        BY <1>0, <2>1, UdpAssumption DEF TypeOK
      <3>2. dest[t] \in Peers /\ req[t] \in Peers \cup {NoPeer}
        BY <1>0, <2>1 DEF SocketInv, TypeOK
      <3>3. QED
        BY <3>1, <3>2 DEF Frame
    <2>3. /\ RingOK'
          /\ queue' \in [Slot -> Frame \cup {NULL}]
          /\ queue_tail' \in Slot
      BY <1>0, <2>1, <2>2, UdpAssumption, EnqueueAppends DEF TypeOK
    <2>4. fd = ServerFd
      BY <1>0, <2>1 DEF SocketInv
    <2>5. pc' = [pc EXCEPT ![t] = Home(t), ![Tx] = IF pc[Tx] = "wait" THEN "pop" ELSE pc[Tx]]
      BY <1>0, <2>1 DEF TypeOK, SignalTx
    <2>6. TypeOK'
      <3>1. queue_head' \in Slot /\ queue_count' \in 0 .. Capacity
        BY <2>3 DEF RingOK
      <3>2. pc' \in [Threads -> Labels]
        BY <1>0, <2>5 DEF TypeOK, Labels, Home
      <3>3. req' \in [Senders -> Peers \cup {NoPeer}]
        BY <1>0, <2>1 DEF TypeOK
      <3>4. accepted' \in 0 .. MaxFrames
        BY <1>0, <2>1, UdpAssumption DEF TypeOK
      <3>5. QED
        BY <1>0, <2>1, <2>3, <3>1, <3>2, <3>3, <3>4 DEF TypeOK
    <2>7. ThreadsInv' /\ SocketInv' /\ AnswerInv' /\ NoLostWakeup'
      <3>1. /\ \A u \in Threads : pc'[u] = IF u = t THEN Home(t)
                                       ELSE IF u = Tx /\ pc[Tx] = "wait" THEN "pop" ELSE pc[u]
            /\ t # Tx /\ t # Main /\ t \in Threads
            /\ Home(t) = IF t = Rx THEN "recv" ELSE "idle"
        BY <1>0, <2>5 DEF TypeOK, Home
      <3>2. \A u \in Senders : req'[u] = IF u = t THEN NoPeer ELSE req[u]
        BY <1>0, <2>1 DEF TypeOK
      <3>3. ThreadsInv'
        BY <1>0, <3>1, <3>2 DEF ThreadsInv
      <3>4. SocketInv'
        BY <1>0, <2>1, <2>4, <3>1 DEF SocketInv, ThreadsInv
      <3>5. AnswerInv' /\ NoLostWakeup'
        BY <1>0, <2>1, <3>1, <3>2 DEF AnswerInv, NoLostWakeup, At
      <3>6. QED
        BY <3>3, <3>4, <3>5
    <2>8. Frames' \subseteq Frames \cup {f}
      <3>1. \A s \in Slot : queue'[s] \in {queue[s], f}
        BY <1>0, <2>1 DEF TypeOK, Enqueue
      <3>2. QED
        BY <3>1, <2>1 DEF Frames, Slot
    <2>9. IF t = Rx THEN f.peer = f.req ELSE f.req = NoPeer
      BY <1>0, <2>1 DEF AnswerInv, ThreadsInv
    <2>10. ReplyToRequester'
      BY <1>0, <2>8, <2>9 DEF ReplyToRequester
    <2>11. QED
      BY <2>3, <2>6, <2>7, <2>10 DEF IInv
  <1>15. CASE Pop
    <2>1. /\ pc[Tx] = "pop" /\ ~QueueEmpty /\ hand' = Front /\ Dequeue
          /\ pc' = [pc EXCEPT ![Tx] = "getfd"]
          /\ UNCHANGED <<fd, last_peer, req, dest, hand_fd, accepted, sent>>
      BY <1>15 DEF Pop, At, Goto
    <2>2. /\ Front \in Frame
          /\ RingOK'
          /\ queue' \in [Slot -> Frame \cup {NULL}]
      BY <1>0, <2>1, UdpAssumption, DequeueTakesHead DEF TypeOK
    <2>3. queue_tail' = queue_tail
      BY <2>1 DEF Dequeue
    <2>4. TypeOK'
      BY <1>0, <2>1, <2>2, <2>3 DEF TypeOK, RingOK, Labels
    <2>5. fd = ServerFd
      BY <1>0, <2>1 DEF SocketInv
    <2>6. ThreadsInv' /\ SocketInv' /\ AnswerInv' /\ NoLostWakeup'
      BY <1>0, <2>1, <2>2, <2>5
         DEF TypeOK, ThreadsInv, SocketInv, AnswerInv, NoLostWakeup, At
    <2>7. Frames' \subseteq Frames
      <3>1. \A s \in Slot : queue'[s] \in {queue[s], NULL}
        BY <1>0, <2>1 DEF TypeOK, Dequeue
      <3>2. hand' \in {queue[s] : s \in Slot}
        BY <1>0, <2>1 DEF TypeOK, Front
      <3>3. QED
        BY <3>1, <3>2, <2>1 DEF Frames, Slot
    <2>8. ReplyToRequester'
      BY <1>0, <2>7 DEF ReplyToRequester
    <2>9. QED
      BY <2>2, <2>4, <2>6, <2>8 DEF IInv
  <1>16. CASE SendTo
    <2>1. /\ pc[Tx] = "send" /\ hand' = NULL
          /\ sent' = Append(sent, hand) \/ sent' = sent
          /\ pc' = [pc EXCEPT ![Tx] = "pop"]
          /\ UNCHANGED <<queue, queue_head, queue_tail, queue_count>>
          /\ UNCHANGED <<fd, last_peer, req, dest, hand_fd, accepted>>
      BY <1>16 DEF SendTo, At, Goto, queueVars
    <2>2. hand \in Frame
      BY <1>0, <2>1 DEF SocketInv
    <2>3. RingOK' /\ QueueEmpty' = QueueEmpty
      BY <1>0, <2>1 DEF RingOK, SlotOf, Slot, QueueEmpty
    <2>4. sent' \in Seq(Frame)
      <3>1. sent \in Seq(Frame)
        BY <1>0 DEF TypeOK
      <3>2. Append(sent, hand) \in Seq(Frame)
        BY <2>2, <3>1, AppendProperties
      <3>3. QED
        BY <2>1, <3>1, <3>2
    <2>5. TypeOK'
      BY <1>0, <2>1, <2>4 DEF TypeOK, Labels
    <2>6. ThreadsInv' /\ SocketInv' /\ AnswerInv' /\ NoLostWakeup'
      BY <1>0, <2>1, <2>3
         DEF TypeOK, ThreadsInv, SocketInv, AnswerInv, NoLostWakeup, At
    <2>7. Frames' \subseteq Frames
      <3>1. \A i \in DOMAIN sent' : sent'[i] \in {sent[j] : j \in DOMAIN sent} \cup {hand}
        BY <1>0, <2>1, <2>2 DEF TypeOK
      <3>2. QED
        BY <3>1, <2>1 DEF Frames, Slot
    <2>8. ReplyToRequester'
      BY <1>0, <2>7 DEF ReplyToRequester
    <2>9. QED
      BY <2>3, <2>5, <2>6, <2>8 DEF IInv
  <1>17. CASE UNCHANGED vars
    <2>1. UNCHANGED <<queueVars, pc, fd, last_peer, req, dest, hand, hand_fd, accepted, sent>>
      BY <1>17 DEF vars, localVars
    <2>2. RingOK' /\ ReplyToRequester' /\ QueueEmpty' = QueueEmpty
      BY <1>0, <2>1, FramesUnchanged
    <2>3. TypeOK' /\ ThreadsInv' /\ SocketInv' /\ AnswerInv' /\ NoLostWakeup'
      BY <1>0, <2>1, <2>2
         DEF TypeOK, queueVars, ThreadsInv, SocketInv, AnswerInv, NoLostWakeup, At
    <2>4. QED
      BY <2>2, <2>3 DEF IInv
  <1>18. QED
    BY <1>1, <1>2, <1>3, <1>4, <1>5, <1>6, <1>7, <1>8, <1>9, <1>10, <1>11, <1>12, <1>13, <1>14, <1>15, <1>16, <1>17
       DEF Next, RxNext, SendNext, TxNext

\* comm_udp.c:17-53: the variables keep their shapes, the ring stays consistent.
THEOREM TypeCorrect == Spec => [](TypeOK /\ RingOK)
  <1>1. Init => IInv
    BY InitInv
  <1>2. IInv /\ [Next]_vars => IInv'
    BY StepInv
  <1>3. IInv => TypeOK /\ RingOK
    BY DEF IInv
  <1>4. QED
    BY <1>1, <1>2, <1>3, PTL DEF Spec

\* comm_udp.c:192-197, 255-266: an answer goes to the peer that asked.
THEOREM AnswersReachRequester == Spec => []ReplyToRequester
  <1>1. Init => IInv
    BY InitInv
  <1>2. IInv /\ [Next]_vars => IInv'
    BY StepInv
  <1>3. IInv => ReplyToRequester
    BY DEF IInv
  <1>4. QED
    BY <1>1, <1>2, <1>3, PTL DEF Spec

\* comm_udp.c:229: no frame meets a tx thread without a socket.
THEOREM SocketBeforeFrames == Spec => []FrameHasSocket
  <1>1. Init => IInv
    BY InitInv
  <1>2. IInv /\ [Next]_vars => IInv'
    BY StepInv
  <1>3. IInv => FrameHasSocket
    BY DEF IInv, SocketInv, FrameHasSocket, At
  <1>4. QED
    BY <1>1, <1>2, <1>3, PTL DEF Spec

\* comm_udp.c:80, 88-92: tx never sleeps on a ring that holds a frame.
THEOREM NoWakeupIsLost == Spec => []NoLostWakeup
  <1>1. Init => IInv
    BY InitInv
  <1>2. IInv /\ [Next]_vars => IInv'
    BY StepInv
  <1>3. IInv => NoLostWakeup
    BY DEF IInv
  <1>4. QED
    BY <1>1, <1>2, <1>3, PTL DEF Spec

-----------------------------------------------------------------------------
(* CommUdp implements FrameChannel. *)

\* A step that leaves the ring, the frame in hand and the frames sent alone is
\* a stuttering step of the channel.
LEMMA ChannelStutters ==
  ASSUME UNCHANGED <<queueVars, hand, sent>>
  PROVE  UNCHANGED Channel!chanVars
  <1>1. UNCHANGED <<queue, queue_head, queue_tail, queue_count, hand, sent>>
    BY DEF queueVars
  <1>2. Contents' = Contents
    BY <1>1 DEF Contents, SlotOf
  <1>3. QED
    BY <1>1, <1>2 DEF Channel!chanVars, InFlight

\* A frame put in the ring is appended to the frames in flight.
LEMMA PushAccepts ==
  ASSUME IInv, NEW t \in Senders, PushOk(t)
  PROVE  Channel!Accept
  <1> DEFINE f == [id |-> accepted + 1, from |-> t, req |-> req[t], peer |-> dest[t]]
             H == IF hand = NULL THEN <<>> ELSE <<hand>>
  <1>1. TypeOK /\ RingOK /\ SocketInv
    BY DEF IInv
  <1>2. Enqueue(f) /\ ~QueueFull /\ UNCHANGED <<hand, sent>> /\ pc[t] = "push" /\ accepted < MaxFrames
    BY DEF PushOk, At
  <1>3. f \in Frame
    <2>1. accepted + 1 \in 1 .. MaxFrames
      BY <1>1, <1>2, UdpAssumption DEF TypeOK
    <2>2. dest[t] \in Peers /\ req[t] \in Peers \cup {NoPeer}
      BY <1>1, <1>2 DEF SocketInv, TypeOK
    <2>3. QED
      BY <2>1, <2>2 DEF Frame
  <1>4. Contents' = Append(Contents, f)
    BY <1>1, <1>2, <1>3, UdpAssumption, EnqueueAppends DEF TypeOK
  <1>5. Contents \in Seq(Frame) /\ Len(Contents) = queue_count
    BY <1>1, UdpAssumption, ContentsType DEF TypeOK
  <1>6. H \in Seq(Frame) /\ Len(H) <= 1 /\ Len(H) \in Nat
    BY <1>1 DEF TypeOK
  <1>7. Len(InFlight) <= Capacity
    <2>1. queue_count < Capacity
      BY <1>1, <1>2, CapacityAssumption DEF RingOK, QueueFull
    <2>2. Len(InFlight) = Len(H) + queue_count
      BY <1>5, <1>6, ConcatProperties DEF InFlight
    <2>3. QED
      BY <2>1, <2>2, <1>1, <1>6, CapacityAssumption DEF RingOK
  <1>8. InFlight' = Append(InFlight, f)
    <2>1. InFlight' = H \o Append(Contents, f)
      BY <1>2, <1>4 DEF InFlight
    <2>2. H \o Append(Contents, f) = Append(H \o Contents, f)
      <3>1. Append(Contents, f) = Contents \o <<f>> /\ <<f>> \in Seq(Frame)
        BY <1>3, <1>5, AppendIsConcat
      <3>2. H \o (Contents \o <<f>>) = (H \o Contents) \o <<f>>
        BY <1>5, <1>6, <3>1, ConcatAssociative
      <3>3. (H \o Contents) \in Seq(Frame)
        BY <1>5, <1>6, ConcatProperties
      <3>4. Append(H \o Contents, f) = (H \o Contents) \o <<f>>
        BY <1>3, <3>3, AppendIsConcat
      <3>5. QED
        BY <3>1, <3>2, <3>4
    <2>3. QED
      BY <2>1, <2>2 DEF InFlight
  <1>9. QED
    BY <1>2, <1>3, <1>7, <1>8 DEF Channel!Accept

\* Taking a frame from the ring moves it, and leaves the frames in flight as they are.
LEMMA PopStutters ==
  ASSUME IInv, Pop
  PROVE  UNCHANGED Channel!chanVars
  <1>1. TypeOK /\ RingOK /\ SocketInv
    BY DEF IInv
  <1>2. pc[Tx] = "pop" /\ ~QueueEmpty /\ hand' = Front /\ Dequeue /\ sent' = sent
    BY DEF Pop, At
  <1>3. hand = NULL
    BY <1>1, <1>2 DEF SocketInv
  <1>4. /\ Front \in Frame
        /\ Front = Head(Contents)
        /\ Contents # <<>>
        /\ Contents' = Tail(Contents)
    BY <1>1, <1>2, UdpAssumption, DequeueTakesHead DEF TypeOK
  <1>5. Contents \in Seq(Frame)
    BY <1>1, UdpAssumption, ContentsType DEF TypeOK
  <1>6. InFlight = Contents
    BY <1>3, <1>5, ConcatEmptySeq DEF InFlight
  <1>7. InFlight' = <<Head(Contents)>> \o Tail(Contents)
    BY <1>2, <1>4, UdpAssumption DEF InFlight
  <1>8. <<Head(Contents)>> \o Tail(Contents) = Contents
    BY <1>4, <1>5, HeadThenTail
  <1>9. QED
    BY <1>2, <1>6, <1>7, <1>8 DEF Channel!chanVars

\* The frame tx has tried is the oldest in flight.
LEMMA SendToResolves ==
  ASSUME IInv, SendTo
  PROVE  Channel!Send \/ Channel!Lose
  <1>1. TypeOK /\ RingOK /\ SocketInv
    BY DEF IInv
  <1>2. /\ pc[Tx] = "send" /\ hand' = NULL /\ UNCHANGED queueVars
        /\ sent' = Append(sent, hand) \/ sent' = sent
    BY DEF SendTo, At
  <1>3. hand \in Frame /\ hand # NULL
    BY <1>1, <1>2, UdpAssumption DEF SocketInv
  <1>4. Contents \in Seq(Frame)
    BY <1>1, UdpAssumption, ContentsType DEF TypeOK
  <1>5. InFlight = <<hand>> \o Contents /\ <<hand>> \in Seq(Frame)
    BY <1>3 DEF InFlight
  <1>6. InFlight' = Contents
    <2>1. Contents' = Contents
      BY <1>2 DEF queueVars, Contents, SlotOf
    <2>2. QED
      BY <1>2, <1>4, <2>1, ConcatEmptySeq DEF InFlight
  <1>7. InFlight # <<>> /\ Head(InFlight) = hand /\ Tail(InFlight) = Contents
    BY <1>3, <1>4, <1>5, PartsOfCons
  <1>8. QED
    BY <1>2, <1>6, <1>7 DEF Channel!Send, Channel!Lose

\* comm_udp.c:55-108, 213-245: the service is a bounded FIFO channel.
THEOREM ImplementsChannel == Spec => FifoChannel
  <1>1. Init => IInv
    BY InitInv
  <1>2. IInv /\ [Next]_vars => IInv'
    BY StepInv
  <1>3. Init => Channel!ChanInit
    <2> SUFFICES ASSUME Init PROVE Channel!ChanInit
      OBVIOUS
    <2>1. hand = NULL /\ sent = <<>> /\ queue_count = 0
      BY DEF Init, QueueInit
    <2>2. Contents = <<>>
      BY <2>1 DEF Contents
    <2>3. QED
      BY <2>1, <2>2 DEF Channel!ChanInit, InFlight
  <1>4. IInv /\ [Next]_vars => [Channel!ChanNext]_(Channel!chanVars)
    <2> SUFFICES ASSUME IInv, [Next]_vars
                 PROVE  Channel!ChanNext \/ UNCHANGED Channel!chanVars
      OBVIOUS
    <2>1. CASE \E t \in Senders : PushOk(t)
      BY <2>1, PushAccepts DEF Channel!ChanNext
    <2>2. CASE Pop
      BY <2>2, PopStutters
    <2>3. CASE SendTo
      BY <2>3, SendToResolves DEF Channel!ChanNext
    <2>4. CASE /\ ~\E t \in Senders : PushOk(t)
               /\ ~Pop
               /\ ~SendTo
      <3>1. UNCHANGED <<queueVars, hand, sent>>
        BY <2>4 DEF Next, RxNext, SendNext, TxNext, vars, localVars, InitRx, InitTx, CreateServer,
             PublishFd, Receive, NotePeer, Process, BeginSend, ReadPeer, PushFail, WaitFrame,
             SpuriousWake, GetFd
      <3>2. QED
        BY <3>1, ChannelStutters
    <2>5. QED
      BY <2>1, <2>2, <2>3, <2>4
  <1>5. QED
    BY <1>1, <1>2, <1>3, <1>4, PTL DEF Spec, FifoChannel, Channel!ChanSpec

-----------------------------------------------------------------------------
(* The frames of NetSend *)

\* A set of naturals that is not empty has a least member.
LEMMA LeastMember ==
  ASSUME NEW T \in SUBSET Nat, T # {}
  PROVE  \E i \in T : \A j \in T : i <= j
  <1>1. PICK i \in T : \A j \in T : ~(<<j, i>> \in OpToRel(<, Nat))
    BY NatLessThanWellFounded, WFMin
  <1>2. ASSUME NEW j \in T PROVE i <= j
    <2>1. <<j, i>> \in Nat \X Nat /\ ~(<<j, i>> \in OpToRel(<, Nat))
      BY <1>1
    <2>2. ~(j < i)
      BY <2>1, Zenon DEF OpToRel
    <2>3. QED
      BY <2>2
  <1>3. QED
    BY <1>2

\* What holds of 0, and of a position when it holds of the one before, holds of all.
LEMMA Upwards ==
  ASSUME NEW n \in Nat, NEW P \in SUBSET (0 .. n), 0 \in P,
         \A k \in 1 .. n : k - 1 \in P => k \in P
  PROVE  \A k \in 0 .. n : k \in P
  <1> DEFINE T == (0 .. n) \ P
  <1>1. SUFFICES ASSUME T # {} PROVE FALSE
    OBVIOUS
  <1>2. T \in SUBSET Nat
    OBVIOUS
  <1>3. PICK k \in T : \A j \in T : k <= j
    BY <1>1, <1>2, LeastMember
  <1>4. k \in 1 .. n
    OBVIOUS
  <1>5. k - 1 \in 0 .. n /\ ~(k <= k - 1)
    BY <1>4
  <1>6. k - 1 \notin T
    BY <1>3, <1>5
  <1>7. QED
    BY <1>4, <1>5, <1>6

\* A loop over 1 .. n that adds up, from 0: what F says of the step and the sum so far.
LoopOf(f, n, F) == f = [i \in 0 .. n |-> IF i = 0 THEN 0 ELSE F[<<i, f[i - 1]>>]]

\* The loop is well defined.
LEMMA LoopDefined ==
  ASSUME NEW n \in Nat, NEW F
  PROVE  \E f : LoopOf(f, n, F)
  <1> DEFINE Value(f, i) == IF i = 0 THEN 0 ELSE F[<<i, f[i - 1]>>]
             To(k, f) == f = [i \in 0 .. k |-> Value(f, i)]
             P == {k \in 0 .. n : \E f : To(k, f)}
  <1>1. 0 \in P
    <2> DEFINE f == [i \in 0 .. 0 |-> 0]
    <2>1. \A i \in 0 .. 0 : Value(f, i) = 0
      OBVIOUS
    <2> HIDE DEF Value
    <2>2. To(0, f)
      BY <2>1
    <2>3. \E g : To(0, g)
      BY <2>2
    <2>4. QED
      BY <2>3
  <1>2. ASSUME NEW k \in 1 .. n, k - 1 \in P PROVE k \in P
    <2>1. PICK f : To(k - 1, f)
      BY <1>2
    <2> DEFINE h == [i \in 0 .. k |-> IF i = k THEN Value(f, k) ELSE f[i]]
    <2>2. ASSUME NEW i \in 0 .. k PROVE Value(h, i) = Value(f, i)
      <3>1. CASE i = 0
        BY <3>1
      <3>2. CASE i # 0
        <4>1. h[i - 1] = f[i - 1]
          BY <3>2
        <4> HIDE DEF h
        <4>2. QED
          BY <4>1
      <3>3. QED
        BY <3>1, <3>2
    <2>3. \A i \in 0 .. k - 1 : f[i] = Value(f, i)
      BY <2>1
    <2> HIDE DEF Value
    <2>4. To(k, h)
      <3>1. \A i \in 0 .. k : h[i] = Value(h, i)
        BY <2>2, <2>3
      <3>2. QED
        BY <3>1
    <2> HIDE DEF h
    <2>5. \E g : To(k, g)
      BY <2>4
    <2>6. QED
      BY <2>5
  <1>3. P \in SUBSET (0 .. n) /\ n \in 0 .. n
    OBVIOUS
  <1> HIDE DEF P
  <1>4. n \in P
    BY <1>1, <1>2, <1>3, Upwards
  <1>5. QED
    BY <1>4 DEF P, LoopOf

\* A buffer holds the bytes s from an offset.
Holds(b, at, s) == \A i \in 1 .. Len(s) : b[at + i - 1] = s[i]

\* The sum, as its loop goes.
LEMMA TotalLoop ==
  ASSUME NEW s \in Seq(Nat)
  PROVE  \E sum : /\ sum[0] = 0
                  /\ \A i \in 1 .. Len(s) : sum[i] = sum[i - 1] + s[i]
                  /\ Total(s) = sum[Len(s)]
  <1> DEFINE n == Len(s)
             Step(f) == f = [i \in 0 .. n |-> IF i = 0 THEN 0 ELSE f[i - 1] + s[i]]
             F == [p \in (1 .. n) \X Nat |-> p[2] + s[p[1]]]
             sum == CHOOSE f : Step(f)
  <1>1. n \in Nat
    OBVIOUS
  <1>2. PICK f : LoopOf(f, n, F)
    BY <1>1, LoopDefined
  <1>3. \A i \in 0 .. n : f[i] = IF i = 0 THEN 0 ELSE F[<<i, f[i - 1]>>]
    BY <1>2 DEF LoopOf
  <1> DEFINE P == {k \in 0 .. n : f[k] \in Nat}
  <1>4. 0 \in P
    <2> HIDE DEF F
    <2>1. 0 \in 0 .. n
      BY <1>1
    <2>2. f[0] = 0
      BY <1>3, <2>1
    <2>3. QED
      BY <2>1, <2>2
  <1>5. ASSUME NEW k \in 1 .. n, k - 1 \in P PROVE k \in P
    <2>1. f[k - 1] \in Nat /\ s[k] \in Nat
      BY <1>5
    <2>2. F[<<k, f[k - 1]>>] = f[k - 1] + s[k]
      BY <2>1
    <2> HIDE DEF F
    <2>3. f[k] = f[k - 1] + s[k]
      BY <1>1, <1>3, <2>2
    <2>4. QED
      BY <2>1, <2>3
  <1>6. \A k \in 0 .. n : k \in P
    <2>1. P \in SUBSET (0 .. n)
      OBVIOUS
    <2> HIDE DEF P, n
    <2>2. QED
      BY <1>1, <1>4, <1>5, <2>1, Upwards
  <1>7. \A i \in 1 .. n : F[<<i, f[i - 1]>>] = f[i - 1] + s[i]
    <2>1. ASSUME NEW i \in 1 .. n PROVE F[<<i, f[i - 1]>>] = f[i - 1] + s[i]
      <3>1. f[i - 1] \in Nat
        BY <1>6
      <3>2. QED
        BY <3>1
    <2>2. QED
      BY <2>1
  <1>8. Step(f)
    <2> HIDE DEF F
    <2>1. \A i \in 0 .. n : f[i] = IF i = 0 THEN 0 ELSE f[i - 1] + s[i]
      <3>1. \A i \in 0 .. n : i = 0 \/ i \in 1 .. n
        BY <1>1
      <3>2. QED
        BY <1>3, <1>7, <3>1
    <2>2. f = [i \in 0 .. n |-> f[i]]
      BY <1>2 DEF LoopOf
    <2>3. QED
      BY <2>1, <2>2
  <1>9. Step(sum)
    BY <1>8
  <1>10. Total(s) = sum[n]
    BY DEF Total
  <1> HIDE DEF sum
  <1>11. sum[0] = 0 /\ \A i \in 1 .. n : sum[i] = sum[i - 1] + s[i]
    BY <1>1, <1>9
  <1>12. QED
    BY <1>10, <1>11

\* check_sum, as its loop goes over the bytes s.
LEMMA CheckLoop ==
  ASSUME NEW s \in Seq(Nat), NEW b, NEW at \in Nat, Holds(b, at, s)
  PROVE  \E sum : /\ sum[0] = 0
                  /\ \A i \in 1 .. Len(s) : sum[i] = (sum[i - 1] + s[i]) % 256
                  /\ check_sum(b, at, Len(s)) = sum[Len(s)]
  <1> DEFINE n == Len(s)
             Step(f) == f = [i \in 0 .. n |-> IF i = 0 THEN 0 ELSE (f[i - 1] + b[at + i - 1]) % 256]
             F == [p \in (1 .. n) \X Nat |-> (p[2] + b[at + p[1] - 1]) % 256]
             sum == CHOOSE f : Step(f)
  <1>1. n \in Nat /\ \A i \in 1 .. n : b[at + i - 1] = s[i] /\ s[i] \in Nat
    BY DEF Holds
  <1>2. PICK f : LoopOf(f, n, F)
    BY <1>1, LoopDefined
  <1>3. \A i \in 0 .. n : f[i] = IF i = 0 THEN 0 ELSE F[<<i, f[i - 1]>>]
    BY <1>2 DEF LoopOf
  <1> DEFINE P == {k \in 0 .. n : f[k] \in Nat}
  <1>4. 0 \in P
    <2> HIDE DEF F
    <2>1. 0 \in 0 .. n
      BY <1>1
    <2>2. f[0] = 0
      BY <1>3, <2>1
    <2>3. QED
      BY <2>1, <2>2
  <1>5. ASSUME NEW k \in 1 .. n, k - 1 \in P PROVE k \in P
    <2>1. f[k - 1] \in Nat /\ b[at + k - 1] \in Nat
      BY <1>1, <1>5
    <2>2. F[<<k, f[k - 1]>>] = (f[k - 1] + b[at + k - 1]) % 256
      BY <2>1
    <2> HIDE DEF F
    <2>3. f[k] = (f[k - 1] + b[at + k - 1]) % 256
      BY <1>1, <1>3, <2>2
    <2>4. QED
      BY <2>1, <2>3
  <1>6. \A k \in 0 .. n : k \in P
    <2>1. P \in SUBSET (0 .. n)
      OBVIOUS
    <2> HIDE DEF P, n
    <2>2. QED
      BY <1>1, <1>4, <1>5, <2>1, Upwards
  <1>7. \A i \in 1 .. n : F[<<i, f[i - 1]>>] = (f[i - 1] + b[at + i - 1]) % 256
    <2>1. ASSUME NEW i \in 1 .. n PROVE F[<<i, f[i - 1]>>] = (f[i - 1] + b[at + i - 1]) % 256
      <3>1. f[i - 1] \in Nat
        BY <1>6
      <3>2. QED
        BY <3>1
    <2>2. QED
      BY <2>1
  <1>8. Step(f)
    <2> HIDE DEF F
    <2>1. \A i \in 0 .. n : f[i] = IF i = 0 THEN 0 ELSE (f[i - 1] + b[at + i - 1]) % 256
      <3>1. \A i \in 0 .. n : i = 0 \/ i \in 1 .. n
        BY <1>1
      <3>2. QED
        BY <1>3, <1>7, <3>1
    <2>2. f = [i \in 0 .. n |-> f[i]]
      BY <1>2 DEF LoopOf
    <2>3. QED
      BY <2>1, <2>2
  <1>9. Step(sum)
    BY <1>8
  <1>10. check_sum(b, at, n) = sum[n]
    BY DEF check_sum
  <1> HIDE DEF sum
  <1>11. sum[0] = 0 /\ \A i \in 1 .. n : sum[i] = (sum[i - 1] + b[at + i - 1]) % 256
    <2>1. \A i \in 1 .. n : i \in 0 .. n /\ i # 0
      BY <1>1
    <2>2. 0 \in 0 .. n
      BY <1>1
    <2>3. \A i \in 0 .. n : sum[i] = IF i = 0 THEN 0 ELSE (sum[i - 1] + b[at + i - 1]) % 256
      BY <1>9
    <2> HIDE DEF n
    <2>4. QED
      BY <2>1, <2>2, <2>3
  <1>12. QED
    BY <1>1, <1>10, <1>11

\* The sum modulo 256 does not depend on when the remainder is taken.
LEMMA SumModulo == \A x, y \in Nat : ((x % 256) + y) % 256 = (x + y) % 256
  OBVIOUS

\* The loop in a uint8_t comes to the sum of the bytes, modulo 256.
LEMMA CheckIsTotal ==
  ASSUME NEW s \in Seq(Nat), NEW b, NEW at \in Nat, Holds(b, at, s)
  PROVE  check_sum(b, at, Len(s)) = Total(s) % 256 /\ Total(s) \in Nat
  <1>1. PICK sum : /\ sum[0] = 0
                   /\ \A i \in 1 .. Len(s) : sum[i] = sum[i - 1] + s[i]
                   /\ Total(s) = sum[Len(s)]
    BY TotalLoop
  <1>2. PICK low : /\ low[0] = 0
                   /\ \A i \in 1 .. Len(s) : low[i] = (low[i - 1] + s[i]) % 256
                   /\ check_sum(b, at, Len(s)) = low[Len(s)]
    BY CheckLoop
  <1> DEFINE n == Len(s)
             P == {k \in 0 .. n : sum[k] \in Nat /\ low[k] = sum[k] % 256}
  <1>3. n \in Nat /\ P \in SUBSET (0 .. n)
    OBVIOUS
  <1>4. 0 \in P
    BY <1>1, <1>2
  <1>5. ASSUME NEW k \in 1 .. n, k - 1 \in P PROVE k \in P
    <2>1. sum[k - 1] \in Nat /\ low[k - 1] = sum[k - 1] % 256 /\ s[k] \in Nat
      BY <1>5
    <2>2. sum[k] = sum[k - 1] + s[k] /\ low[k] = (low[k - 1] + s[k]) % 256
      BY <1>1, <1>2
    <2>3. sum[k] \in Nat
      BY <2>1, <2>2
    <2>4. low[k] = ((sum[k - 1] % 256) + s[k]) % 256
      BY <2>1, <2>2
    <2>5. low[k] = sum[k] % 256
      <3>1. ((sum[k - 1] % 256) + s[k]) % 256 = (sum[k - 1] + s[k]) % 256
        BY <2>1, SumModulo
      <3>2. QED
        BY <2>2, <2>4, <3>1
    <2>6. k \in 0 .. n
      OBVIOUS
    <2>7. QED
      BY <2>3, <2>5, <2>6
  <1>6. n \in P
    <2> HIDE DEF P, n
    <2>1. \A k \in 0 .. n : k \in P
      BY <1>3, <1>4, <1>5, Upwards
    <2>2. QED
      BY <1>3, <2>1
  <1>7. QED
    BY <1>1, <1>2, <1>6

\* What a statement has written is there, and what is elsewhere is kept.
LEMMA PutHolds ==
  ASSUME NEW n \in Nat, NEW b, DOMAIN b = 0 .. n - 1, NEW at \in Nat, NEW w \in Seq(Nat),
         at + Len(w) <= n
  PROVE  Holds(Put(b, at, w), at, w)
  <1>1. ASSUME NEW i \in 1 .. Len(w) PROVE Put(b, at, w)[at + i - 1] = w[i]
    <2>1. /\ at + i - 1 \in DOMAIN b /\ at + i - 1 \in at .. at + Len(w) - 1
          /\ at + i - 1 - at + 1 = i
      OBVIOUS
    <2>2. QED
      BY <2>1 DEF Put
  <1>2. QED
    BY <1>1 DEF Holds

\* ... where "elsewhere" is before it or after it.
LEMMA PutKeeps ==
  ASSUME NEW n \in Nat, NEW b, DOMAIN b = 0 .. n - 1, NEW at \in Nat, NEW w \in Seq(Nat),
         NEW p \in Nat, NEW s \in Seq(Nat), Holds(b, p, s), p + Len(s) <= n,
         p + Len(s) <= at \/ at + Len(w) <= p
  PROVE  Holds(Put(b, at, w), p, s)
  <1>1. ASSUME NEW i \in 1 .. Len(s) PROVE Put(b, at, w)[p + i - 1] = s[i]
    <2>1. p + i - 1 \in DOMAIN b /\ p + i - 1 \notin at .. at + Len(w) - 1
      OBVIOUS
    <2>2. b[p + i - 1] = s[i]
      BY DEF Holds
    <2>3. QED
      BY <2>1, <2>2 DEF Put
  <1>2. QED
    BY <1>1 DEF Holds

\* One sequence after another.
LEMMA Joined ==
  ASSUME NEW s \in Seq(Nat), NEW r \in Seq(Nat)
  PROVE  /\ s \o r \in Seq(Nat) /\ Len(s \o r) = Len(s) + Len(r)
         /\ \A i \in 1 .. Len(s) : (s \o r)[i] = s[i]
         /\ \A i \in 1 .. Len(r) : (s \o r)[Len(s) + i] = r[i]
  OBVIOUS

\* The same, without the elements.
LEMMA JoinedBytes ==
  ASSUME NEW s \in Seq(Nat), NEW r \in Seq(Nat)
  PROVE  s \o r \in Seq(Nat) /\ Len(s \o r) = Len(s) + Len(r)
  OBVIOUS

\* The body of a frame is five bytes longer than its payload.
LEMMA FourJoined ==
  ASSUME NEW s \in Seq(Nat), NEW m \in Seq(Nat), NEW r \in Seq(Nat), NEW p \in Seq(Nat),
         Len(s) = 2, Len(m) = 1, Len(r) = 2
  PROVE  s \o m \o r \o p \in Seq(Nat) /\ Len(s \o m \o r \o p) = Len(p) + 5
  <1>1. s \o m \in Seq(Nat) /\ Len(s \o m) = Len(s) + Len(m)
    BY JoinedBytes, Zenon
  <1>2. s \o m \o r \in Seq(Nat) /\ Len(s \o m \o r) = Len(s \o m) + Len(r)
    BY <1>1, JoinedBytes, Zenon
  <1>3. /\ s \o m \o r \o p \in Seq(Nat)
        /\ Len(s \o m \o r \o p) = Len(s \o m \o r) + Len(p)
    BY <1>2, JoinedBytes, Zenon
  <1>4. Len(p) \in Nat
    OBVIOUS
  <1> DEFINE a == Len(s \o m)
             b == Len(s \o m \o r)
             d == Len(s \o m \o r \o p)
  <1>5. a = 3
    BY <1>1
  <1>6. b = 5
    BY <1>2, <1>5
  <1> HIDE DEF a, b, d
  <1>7. d = Len(p) + 5
    BY <1>3, <1>4, <1>6 DEF b, d
  <1>8. QED
    BY <1>3, <1>7 DEF d

\* Two fields that follow one another.
LEMMA HoldsBoth ==
  ASSUME NEW b, NEW at \in Nat, NEW s \in Seq(Nat), NEW r \in Seq(Nat),
         Holds(b, at, s), Holds(b, at + Len(s), r)
  PROVE  Holds(b, at, s \o r) /\ s \o r \in Seq(Nat) /\ Len(s \o r) = Len(s) + Len(r)
  <1>1. /\ s \o r \in Seq(Nat) /\ Len(s \o r) = Len(s) + Len(r)
        /\ \A i \in 1 .. Len(s) : (s \o r)[i] = s[i]
        /\ \A i \in 1 .. Len(r) : (s \o r)[Len(s) + i] = r[i]
    BY Joined
  <1>2. Len(s) \in Nat /\ Len(r) \in Nat
    OBVIOUS
  <1> HIDE DEF Holds
  <1> DEFINE q == s \o r
  <1>3. \A i \in 1 .. Len(s) : b[at + i - 1] = q[i]
    BY <1>1 DEF Holds
  <1>4. ASSUME NEW i \in 1 .. Len(q), i > Len(s) PROVE b[at + i - 1] = q[i]
    <2>1. i - Len(s) \in 1 .. Len(r) /\ Len(s) + (i - Len(s)) = i
      BY <1>1, <1>2, <1>4
    <2>2. at + Len(s) + (i - Len(s)) - 1 = at + i - 1
      BY <1>2, <1>4
    <2>3. q[Len(s) + (i - Len(s))] = r[i - Len(s)] /\ b[at + Len(s) + (i - Len(s)) - 1] = r[i - Len(s)]
      BY <1>1, <2>1 DEF Holds
    <2>4. QED
      BY <2>1, <2>2, <2>3
  <1>5. \A i \in 1 .. Len(q) : i \in 1 .. Len(s) \/ i > Len(s)
    BY <1>1, <1>2
  <1>6. Holds(b, at, q)
    <2> HIDE DEF q
    <2>1. QED
      BY <1>3, <1>4, <1>5 DEF Holds
  <1>7. QED
    BY <1>1, <1>6

\* The four fields that the check sum is taken over.
LEMMA HoldsFour ==
  ASSUME NEW b, NEW s \in Seq(Nat), NEW m \in Seq(Nat), NEW r \in Seq(Nat), NEW p \in Seq(Nat),
         Len(s) = 2, Len(m) = 1, Len(r) = 2,
         Holds(b, 2, s), Holds(b, 4, m), Holds(b, 5, r), Holds(b, 7, p)
  PROVE  Holds(b, 2, s \o m \o r \o p)
  <1>1. /\ Holds(b, 2, s \o m) /\ s \o m \in Seq(Nat)
        /\ Len(s \o m) = Len(s) + Len(m)
    <2>1. Holds(b, 2 + Len(s), m)
      OBVIOUS
    <2>2. 2 \in Nat
      OBVIOUS
    <2>3. Holds(b, 2, s \o m)
      BY <2>1, <2>2, HoldsBoth, Zenon
    <2>4. QED
      BY <2>3, JoinedBytes, Zenon
  <1> DEFINE u == s \o m
  <1>2. u \in Seq(Nat) /\ Len(u) = 3 /\ Holds(b, 2, u)
    BY <1>1
  <1> HIDE DEF u
  <1>3. Holds(b, 2, u \o r) /\ u \o r \in Seq(Nat) /\ Len(u \o r) = Len(u) + Len(r)
    <2>1. Holds(b, 2 + Len(u), r)
      BY <1>2
    <2>2. 2 \in Nat
      OBVIOUS
    <2>3. Holds(b, 2, u \o r)
      BY <1>2, <2>1, <2>2, HoldsBoth, Zenon
    <2>4. QED
      BY <1>2, <2>3, JoinedBytes, Zenon
  <1> DEFINE v == u \o r
  <1>4. v \in Seq(Nat) /\ Len(v) = 5 /\ Holds(b, 2, v)
    BY <1>2, <1>3
  <1> HIDE DEF v
  <1>5. Holds(b, 2, v \o p)
    <2>1. Holds(b, 2 + Len(v), p)
      BY <1>4
    <2>2. 2 \in Nat
      OBVIOUS
    <2>3. QED
      BY <1>4, <2>1, <2>2, HoldsBoth, Zenon
  <1>6. QED
    BY <1>5 DEF u, v

\* The arguments of a call of one of the two functions.
Sendable(c) ==
  /\ c # Idle /\ c.fn \in Builders /\ c.cmd \in Nat /\ c.payload \in Seq(Nat)
  /\ FrameSize(Len(c.payload)) <= BufSize

\* The fields of the frame of c in the order in which they are written: what FrameOf
\* says they are, and where.
Body(c) == LE16(DeviceId) \o <<c.cmd>> \o LE16(Len(c.payload)) \o c.payload

Bytes(k, c) ==
  CASE k = 1 -> LE16(HEAD) [] k = 2 -> <<c.cmd>> [] k = 3 -> LE16(Len(c.payload))
    [] k = 4 -> LE16(DeviceId) [] k = 5 -> c.payload [] k = 6 -> <<Total(Body(c)) % 256>>
    [] k = 7 -> LE16(TAIL)

Place(k, c) ==
  CASE k = 1 -> 0 [] k = 2 -> 4 [] k = 3 -> 5 [] k = 4 -> 2 [] k = 5 -> 7
    [] k = 6 -> 7 + Len(c.payload) [] k = 7 -> 8 + Len(c.payload)

Built(b, k, c) == \A j \in 1 .. k - 1 : Holds(b, Place(j, c), Bytes(j, c))

\* A uint16_t takes two bytes.
LEMMA Two ==
  ASSUME NEW x \in Nat
  PROVE  /\ LE16(x) \in Seq(Nat) /\ Len(LE16(x)) = 2
         /\ LE16(x)[1] = x % 256 /\ LE16(x)[2] = x \div 256
         /\ LE16(x)[1] + 256 * LE16(x)[2] = x
  <1>1. x % 256 \in Nat /\ x \div 256 \in Nat /\ (x % 256) + 256 * (x \div 256) = x
    OBVIOUS
  <1> DEFINE a == x % 256
             d == x \div 256
  <1>2. LE16(x) = <<a, d>>
    BY DEF LE16
  <1>3. a \in Nat /\ d \in Nat /\ a + 256 * d = x
    BY <1>1
  <1> HIDE DEF a, d
  <1>4. LE16(x) \in Seq(Nat) /\ Len(LE16(x)) = 2 /\ LE16(x)[1] = a /\ LE16(x)[2] = d
    BY <1>2, <1>3
  <1>5. QED
    BY <1>3, <1>4 DEF a, d

\* The device's number is a uint16_t, and the buffer has a size.
LEMMA DeviceIsWord == DeviceId \in Nat /\ DeviceId < 65536 /\ BufSize \in Nat
  BY NetSendAssumption

\* What the fields are, one by one.
LEMMA FieldBytes ==
  ASSUME NEW c, Sendable(c)
  PROVE  /\ Body(c) \in Seq(Nat) /\ Len(Body(c)) = Len(c.payload) + 5
         /\ Len(c.payload) \in Nat /\ Total(Body(c)) \in Nat
         /\ \A k \in 1 .. 7 : /\ Place(k, c) \in Nat /\ Bytes(k, c) \in Seq(Nat)
                              /\ Len(Bytes(k, c)) = CASE k \in {1, 3, 4, 7} -> 2 [] k \in {2, 6} -> 1
                                                      [] k = 5 -> Len(c.payload)
  <1> DEFINE n == Len(c.payload)
  <1>1. n \in Nat /\ c.payload \in Seq(Nat) /\ c.cmd \in Nat
    BY DEF Sendable
  <1>2. DeviceId \in Nat /\ HEAD \in Nat /\ TAIL \in Nat
    BY DeviceIsWord DEF HEAD, TAIL
  <1>3. /\ LE16(DeviceId) \in Seq(Nat) /\ Len(LE16(DeviceId)) = 2
        /\ LE16(n) \in Seq(Nat) /\ Len(LE16(n)) = 2
        /\ LE16(HEAD) \in Seq(Nat) /\ Len(LE16(HEAD)) = 2
        /\ LE16(TAIL) \in Seq(Nat) /\ Len(LE16(TAIL)) = 2
    BY <1>1, <1>2, Two
  <1>4. <<c.cmd>> \in Seq(Nat) /\ Len(<<c.cmd>>) = 1
    BY <1>1
  <1>5. Body(c) \in Seq(Nat) /\ Len(Body(c)) = n + 5
    <2> DEFINE s == LE16(DeviceId)
               m == <<c.cmd>>
               r == LE16(n)
               p == c.payload
               q == s \o m \o r \o p
    <2>1. /\ s \in Seq(Nat) /\ m \in Seq(Nat) /\ r \in Seq(Nat) /\ p \in Seq(Nat)
          /\ Len(s) = 2 /\ Len(m) = 1 /\ Len(r) = 2
      BY <1>1, <1>3, <1>4
    <2>2. Body(c) = q
      BY DEF Body
    <2> HIDE DEF s, m, r, p
    <2>3. q \in Seq(Nat) /\ Len(q) = Len(p) + 5
      BY <2>1, FourJoined
    <2>4. QED
      BY <2>2, <2>3 DEF p
  <1>6. Total(Body(c)) \in Nat
    <2> DEFINE b == [i \in 0 .. n + 4 |-> Body(c)[i + 1]]
    <2>1. Holds(b, 0, Body(c))
      <3>1. ASSUME NEW i \in 1 .. Len(Body(c)) PROVE b[0 + i - 1] = Body(c)[i]
        <4>1. 0 + i - 1 \in 0 .. n + 4 /\ 0 + i - 1 + 1 = i
          BY <1>1, <1>5
        <4>2. QED
          BY <4>1
      <3>2. QED
        BY <3>1 DEF Holds
    <2> HIDE DEF b
    <2>2. QED
      BY <2>1, <1>5, CheckIsTotal
  <1>7. <<Total(Body(c)) % 256>> \in Seq(Nat) /\ Len(<<Total(Body(c)) % 256>>) = 1
    <2>1. Total(Body(c)) % 256 \in Nat
      BY <1>6
    <2>2. QED
      BY <2>1
  <1>8. ASSUME NEW k \in 1 .. 7
        PROVE  /\ Place(k, c) \in Nat /\ Bytes(k, c) \in Seq(Nat)
               /\ Len(Bytes(k, c)) = CASE k \in {1, 3, 4, 7} -> 2 [] k \in {2, 6} -> 1
                                       [] k = 5 -> Len(c.payload)
    <2>1. Place(k, c) \in Nat
      BY <1>1 DEF Place
    <2>2. CASE k \in {1, 3, 4, 7}
      <3>1. Bytes(k, c) \in {LE16(DeviceId), LE16(n), LE16(HEAD), LE16(TAIL)}
        BY <2>2 DEF Bytes
      <3>2. Bytes(k, c) \in Seq(Nat) /\ Len(Bytes(k, c)) = 2
        BY <3>1, <1>3, Zenon
      <3>3. QED
        BY <2>1, <2>2, <3>2
    <2>3. CASE k = 2
      BY <2>1, <2>3, <1>4 DEF Bytes
    <2>4. CASE k = 6
      BY <2>1, <2>4, <1>7 DEF Bytes
    <2>5. CASE k = 5
      BY <2>1, <2>5, <1>1 DEF Bytes
    <2>6. QED
      BY <2>2, <2>3, <2>4, <2>5
  <1>9. QED
    BY <1>1, <1>5, <1>6, <1>8

\* Where field k of a frame with n bytes of payload lies, and how long it is.
From(k, n) == IF k = 1 THEN 0 ELSE IF k = 2 THEN 4 ELSE IF k = 3 THEN 5 ELSE IF k = 4 THEN 2
              ELSE IF k = 5 THEN 7 ELSE IF k = 6 THEN 7 + n ELSE 8 + n
Width(k, n) == IF k \in {2, 6} THEN 1 ELSE IF k = 5 THEN n ELSE 2

\* No field reaches into one that is written before it.
LEMMA Apart ==
  ASSUME NEW n \in Nat, NEW k \in 1 .. 7, NEW j \in 1 .. k - 1
  PROVE  /\ From(j, n) + Width(j, n) <= n + 10
         /\ \/ From(j, n) + Width(j, n) <= From(k, n)
            \/ From(k, n) + (IF k = 6 THEN 2 ELSE Width(k, n)) <= From(j, n)
  <1>1. /\ k = 1 \/ k = 2 \/ k = 3 \/ k = 4 \/ k = 5 \/ k = 6 \/ k = 7
        /\ j = 1 \/ j = 2 \/ j = 3 \/ j = 4 \/ j = 5 \/ j = 6
    OBVIOUS
  <1>2. QED
    BY <1>1 DEF From, Width

\* Place and Bytes in these terms.
LEMMA Lies ==
  ASSUME NEW c, Sendable(c), NEW k \in 1 .. 7
  PROVE  /\ Place(k, c) = From(k, Len(c.payload)) /\ Place(k, c) \in Nat
         /\ Bytes(k, c) \in Seq(Nat) /\ Len(Bytes(k, c)) = Width(k, Len(c.payload))
  <1>1. k = 1 \/ k = 2 \/ k = 3 \/ k = 4 \/ k = 5 \/ k = 6 \/ k = 7
    OBVIOUS
  <1>2. Place(k, c) = From(k, Len(c.payload))
    BY <1>1 DEF Place, From
  <1>3. /\ Place(k, c) \in Nat /\ Bytes(k, c) \in Seq(Nat)
        /\ Len(Bytes(k, c)) = CASE k \in {1, 3, 4, 7} -> 2 [] k \in {2, 6} -> 1
                                 [] k = 5 -> Len(c.payload)
    BY FieldBytes
  <1>4. Len(Bytes(k, c)) = Width(k, Len(c.payload))
    BY <1>1, <1>3 DEF Width
  <1>5. QED
    BY <1>2, <1>3, <1>4

\* A buffer with the four fields that the check sum is taken over.
LEMMA BodyHeld ==
  ASSUME NEW c, Sendable(c), NEW b, Holds(b, 2, LE16(DeviceId)), Holds(b, 4, <<c.cmd>>),
         Holds(b, 5, LE16(Len(c.payload))), Holds(b, 7, c.payload)
  PROVE  Holds(b, 2, Body(c))
  <1> DEFINE id == LE16(DeviceId)
             cmd == <<c.cmd>>
             len == LE16(Len(c.payload))
             data == c.payload
  <1>1. DeviceId \in Nat /\ Len(data) \in Nat /\ c.cmd \in Nat /\ data \in Seq(Nat)
    BY DeviceIsWord DEF Sendable
  <1>2. /\ id \in Seq(Nat) /\ Len(id) = 2 /\ cmd \in Seq(Nat) /\ Len(cmd) = 1
        /\ len \in Seq(Nat) /\ Len(len) = 2 /\ data \in Seq(Nat)
    <2>1. id \in Seq(Nat) /\ Len(id) = 2
      BY <1>1, Two
    <2>2. cmd \in Seq(Nat) /\ Len(cmd) = 1
      BY <1>1
    <2>3. len \in Seq(Nat) /\ Len(len) = 2
      BY <1>1, Two
    <2>4. QED
      BY <1>1, <2>1, <2>2, <2>3
  <1>3. Body(c) = id \o cmd \o len \o data
    BY DEF Body
  <1>4. Holds(b, 2, id) /\ Holds(b, 4, cmd) /\ Holds(b, 5, len) /\ Holds(b, 7, data)
    OBVIOUS
  <1> HIDE DEF id, cmd, len, data
  <1>5. Holds(b, 2, id \o cmd \o len \o data)
    BY <1>2, <1>4, HoldsFour
  <1>6. QED
    BY <1>3, <1>5

\* No statement changes the size of the buffer.
LEMMA WrittenDomain ==
  ASSUME NEW c, NEW b, NEW k \in 1 .. 7
  PROVE  DOMAIN Written(Statements[k], c, b) = DOMAIN b
  <1>1. Statements[k] \in {"head", "cmd", "len", "id", "payload", "check", "tail"}
    BY DEF Statements
  <1>2. \A at, s : DOMAIN Put(b, at, s) = DOMAIN b
    BY DEF Put
  <1>3. QED
    BY <1>1, <1>2 DEF Written

\* What a statement of a call leaves in the buffer: the field it is for, and those
\* before it.  The check sum is right when the fields it is taken over are.
LEMMA WrittenBuilds ==
  ASSUME NEW c, Sendable(c), NEW b, DOMAIN b = 0 .. BufSize - 1, NEW k \in 1 .. 7, Built(b, k, c)
  PROVE  Built(Written(Statements[k], c, b), k + 1, c)
  <1> DEFINE n == Len(c.payload)
             after == Written(Statements[k], c, b)
  <1>1. BufSize \in Nat /\ n \in Nat /\ n + 10 <= BufSize /\ c.payload \in Seq(Nat)
    BY DeviceIsWord DEF Sendable, FrameSize, PayloadAt
  <1>2. \A j \in 1 .. 7 : /\ Place(j, c) = From(j, n) /\ Place(j, c) \in Nat
                          /\ Bytes(j, c) \in Seq(Nat) /\ Len(Bytes(j, c)) = Width(j, n)
    BY Lies
  <1>3. ASSUME NEW w \in Seq(Nat), after = Put(b, Place(k, c), w),
               Len(w) = IF k = 6 THEN 2 ELSE Len(Bytes(k, c)),
               \A i \in 1 .. Len(Bytes(k, c)) : w[i] = Bytes(k, c)[i]
        PROVE  Built(after, k + 1, c)
    <2> HIDE DEF n
    <2>0. /\ Place(k, c) \in Nat /\ Place(k, c) = From(k, n)
          /\ Bytes(k, c) \in Seq(Nat) /\ Len(Bytes(k, c)) = Width(k, n)
      BY <1>2
    <2>1. Place(k, c) + Len(w) <= BufSize
      <3>1. From(k, n) + (IF k = 6 THEN 2 ELSE Width(k, n)) <= n + 10
        BY <1>1 DEF From, Width
      <3>2. Len(w) = (IF k = 6 THEN 2 ELSE Width(k, n))
        BY <2>0, <1>3
      <3>3. From(k, n) + Len(w) <= n + 10 /\ From(k, n) \in Nat /\ Len(w) \in Nat
        BY <2>0, <3>1, <3>2, <1>3
      <3>4. QED
        BY <2>0, <3>3, <1>1
    <2>2. Holds(after, Place(k, c), w)
      <3>1. Holds(Put(b, Place(k, c), w), Place(k, c), w)
        BY <2>0, <2>1, <1>1, <1>3, PutHolds
      <3>2. QED
        BY <3>1, <1>3
    <2>3. Holds(after, Place(k, c), Bytes(k, c))
      <3>1. \A i \in 1 .. Len(Bytes(k, c)) : i \in 1 .. Len(w)
        BY <2>0, <1>3 DEF Width
      <3>2. QED
        BY <2>2, <3>1, <1>3 DEF Holds
    <2>4. ASSUME NEW j \in 1 .. k - 1 PROVE Holds(after, Place(j, c), Bytes(j, c))
      <3>1. Holds(b, Place(j, c), Bytes(j, c))
        BY DEF Built
      <3>2. j \in 1 .. 7 /\ j < k
        OBVIOUS
      <3>3. /\ Place(j, c) \in Nat /\ Place(j, c) = From(j, n)
            /\ Bytes(j, c) \in Seq(Nat) /\ Len(Bytes(j, c)) = Width(j, n)
        BY <3>2, <1>2
      <3>4. /\ From(j, n) + Width(j, n) <= n + 10
            /\ \/ From(j, n) + Width(j, n) <= From(k, n)
               \/ From(k, n) + (IF k = 6 THEN 2 ELSE Width(k, n)) <= From(j, n)
        BY <1>1, Apart
      <3>5. Len(w) = (IF k = 6 THEN 2 ELSE Width(k, n))
        BY <2>0, <1>3
      <3>6. /\ Place(j, c) + Len(Bytes(j, c)) <= Place(k, c)
               \/ Place(k, c) + Len(w) <= Place(j, c)
            /\ Place(j, c) + Len(Bytes(j, c)) <= n + 10
        BY <2>0, <3>3, <3>4, <3>5
      <3>7. Place(j, c) + Len(Bytes(j, c)) <= BufSize
        BY <3>3, <3>6, <1>1
      <3>8. Holds(Put(b, Place(k, c), w), Place(j, c), Bytes(j, c))
        BY <2>0, <3>1, <3>3, <3>6, <3>7, <1>1, <1>3, PutKeeps
      <3>9. QED
        BY <3>8, <1>3
    <2>5. \A j \in 1 .. k + 1 - 1 : j = k \/ j \in 1 .. k - 1
      OBVIOUS
    <2> HIDE DEF after
    <2>6. QED
      BY <2>3, <2>4, <2>5 DEF Built
  <1>3a. ASSUME k # 6, after = Put(b, Place(k, c), Bytes(k, c)), Bytes(k, c) \in Seq(Nat)
        PROVE  Built(after, k + 1, c)
    <2> DEFINE w == Bytes(k, c)
    <2>1. \A i \in 1 .. Len(Bytes(k, c)) : w[i] = Bytes(k, c)[i]
      OBVIOUS
    <2>2. /\ w \in Seq(Nat) /\ after = Put(b, Place(k, c), w)
          /\ Len(w) = IF k = 6 THEN 2 ELSE Len(Bytes(k, c))
      BY <1>3a
    <2> HIDE DEF after, w
    <2>3. QED
      BY <2>1, <2>2, <1>3, Zenon
  <1>4. CASE k \in {1, 3, 4, 7}
    <2>1. Statements[k] = CASE k = 1 -> "head" [] k = 3 -> "len" [] k = 4 -> "id" [] k = 7 -> "tail"
      BY <1>4 DEF Statements
    <2>2. after = Put(b, Place(k, c), Bytes(k, c))
      BY <1>4, <2>1 DEF Written, Place, Bytes, LenAt, IdAt, TailAt, PayloadAt
    <2>3. Bytes(k, c) \in Seq(Nat)
      BY Lies
    <2>4. QED
      BY <2>2, <2>3, <1>4, <1>3a
  <1>5. CASE k \in {2, 5}
    <2>1. Statements[k] = IF k = 2 THEN "cmd" ELSE "payload"
      BY <1>5 DEF Statements
    <2>2. after = Put(b, Place(k, c), Bytes(k, c))
      BY <1>5, <2>1 DEF Written, Place, Bytes, CmdAt, PayloadAt
    <2>3. Bytes(k, c) \in Seq(Nat)
      BY Lies
    <2>4. QED
      BY <2>2, <2>3, <1>5, <1>3a
  <1>6. CASE k = 6
    <2> DEFINE sum == check_sum(b, IdAt, n + 5)
    <2>1. Holds(b, 2, Body(c))
      <3>1. \A j \in 2 .. 5 : Holds(b, Place(j, c), Bytes(j, c))
        BY <1>6 DEF Built
      <3>2. /\ Holds(b, 2, LE16(DeviceId)) /\ Holds(b, 4, <<c.cmd>>) /\ Holds(b, 5, LE16(n))
            /\ Holds(b, 7, c.payload)
        BY <3>1 DEF Place, Bytes
      <3>3. QED
        BY <3>2, BodyHeld
    <2>2. sum = Total(Body(c)) % 256
      <3>1. Body(c) \in Seq(Nat) /\ Len(Body(c)) = n + 5
        BY FieldBytes
      <3>2. QED
        BY <2>1, <3>1, CheckIsTotal DEF IdAt
    <2>3. Statements[6] = "check"
      BY DEF Statements
    <2>4. after = Put(b, Place(k, c), LE16(sum))
      BY <1>6, <2>3 DEF Written, Place, CheckAt, PayloadAt
    <2>5. Total(Body(c)) \in Nat /\ sum \in Nat /\ sum % 256 = sum
      <3>1. Total(Body(c)) \in Nat
        BY FieldBytes
      <3> DEFINE x == Total(Body(c))
      <3> HIDE DEF x, sum
      <3>2. x \in Nat /\ sum = x % 256
        BY <2>2, <3>1 DEF x
      <3>3. x % 256 \in Nat /\ (x % 256) % 256 = x % 256
        BY <3>2
      <3>4. QED
        BY <3>1, <3>2, <3>3
    <2>6. LE16(sum) \in Seq(Nat) /\ Len(LE16(sum)) = 2 /\ LE16(sum)[1] = sum
      BY <2>5, Two
    <2>7. Bytes(6, c) = <<sum>> /\ Len(Bytes(6, c)) = 1 /\ Bytes(6, c)[1] = sum
      BY <2>2 DEF Bytes
    <2> HIDE DEF sum, after
    <2>8. QED
      BY <2>4, <2>6, <2>7, <1>3, <1>6 DEF after
  <1>7. QED
    BY <1>4, <1>5, <1>6

\* A buffer with all fields holds the frame that the protocol prescribes.
LEMMA FrameBuilt ==
  ASSUME NEW c, Sendable(c), NEW b, Built(b, 8, c)
  PROVE  Holds(b, 0, FrameOf(c)) /\ Len(FrameOf(c)) = Len(c.payload) + 10
  <1> DEFINE n == Len(c.payload)
             head == LE16(HEAD)
             body == Body(c)
             check == <<Total(body) % 256>>
             tail == LE16(TAIL)
  <1>1. \A j \in 1 .. 7 : Holds(b, Place(j, c), Bytes(j, c))
    BY DEF Built
  <1>2. n \in Nat /\ body \in Seq(Nat) /\ Len(body) = n + 5
    BY FieldBytes
  <1>3. /\ head \in Seq(Nat) /\ Len(head) = 2 /\ check \in Seq(Nat) /\ Len(check) = 1
        /\ tail \in Seq(Nat) /\ Len(tail) = 2
    <2>1. head \in Seq(Nat) /\ Len(head) = 2 /\ tail \in Seq(Nat) /\ Len(tail) = 2
      <3>1. HEAD \in Nat /\ TAIL \in Nat
        BY DEF HEAD, TAIL
      <3>2. QED
        BY <3>1, Two
    <2>2. Total(body) % 256 \in Nat
      <3>1. Total(body) \in Nat
        BY FieldBytes
      <3>2. QED
        BY <3>1
    <2>3. check \in Seq(Nat) /\ Len(check) = 1
      BY <2>2
    <2>4. QED
      BY <2>1, <2>3
  <1>4. /\ Holds(b, 0, head) /\ Holds(b, 7 + n, check) /\ Holds(b, 8 + n, tail)
        /\ Holds(b, 2, LE16(DeviceId)) /\ Holds(b, 4, <<c.cmd>>) /\ Holds(b, 5, LE16(n))
        /\ Holds(b, 7, c.payload)
    BY <1>1 DEF Place, Bytes
  <1>5. Holds(b, 2, body)
    BY <1>4, BodyHeld
  <1>6. FrameOf(c) = head \o body \o check \o tail
    BY DEF FrameOf, Body
  <1> HIDE DEF n, head, body, check, tail
  <1>7. Holds(b, 0, head \o body) /\ head \o body \in Seq(Nat) /\ Len(head \o body) = Len(head) + Len(body)
    <2>1. Holds(b, 0 + Len(head), body) /\ 0 \in Nat
      BY <1>3, <1>5
    <2>2. Holds(b, 0, head \o body)
      BY <1>2, <1>3, <1>4, <2>1, HoldsBoth, Zenon
    <2>3. QED
      BY <2>2, <1>2, <1>3, JoinedBytes, Zenon
  <1> DEFINE u == head \o body
  <1>8. u \in Seq(Nat) /\ Len(u) = n + 7 /\ Holds(b, 0, u)
    BY <1>2, <1>3, <1>7
  <1> HIDE DEF u
  <1>9. Holds(b, 0, u \o check) /\ u \o check \in Seq(Nat) /\ Len(u \o check) = Len(u) + Len(check)
    <2>1. Holds(b, 0 + Len(u), check) /\ 0 \in Nat
      <3>1. 0 + Len(u) = 7 + n
        BY <1>2, <1>8
      <3>2. QED
        BY <3>1, <1>4
    <2>2. Holds(b, 0, u \o check)
      BY <1>3, <1>8, <2>1, HoldsBoth, Zenon
    <2>3. QED
      BY <2>2, <1>3, <1>8, JoinedBytes, Zenon
  <1> DEFINE v == u \o check
  <1>10. v \in Seq(Nat) /\ Len(v) = n + 8 /\ Holds(b, 0, v)
    BY <1>2, <1>3, <1>8, <1>9
  <1> HIDE DEF v
  <1>11. Holds(b, 0, v \o tail) /\ Len(v \o tail) = Len(v) + Len(tail)
    <2>1. Holds(b, 0 + Len(v), tail) /\ 0 \in Nat
      <3>1. 0 + Len(v) = 8 + n
        BY <1>2, <1>10
      <3>2. QED
        BY <3>1, <1>4
    <2>2. Holds(b, 0, v \o tail)
      BY <1>3, <1>10, <2>1, HoldsBoth, Zenon
    <2>3. QED
      BY <2>2, <1>3, <1>10, JoinedBytes, Zenon
  <1>12. Len(v \o tail) = n + 10
    BY <1>2, <1>3, <1>10, <1>11
  <1>13. FrameOf(c) = v \o tail
    BY <1>6 DEF u, v
  <1>14. QED
    BY <1>11, <1>12, <1>13 DEF n

\* It passes the tests of the receiver.
LEMMA FrameAccepted ==
  ASSUME NEW c, Sendable(c), NEW b, Built(b, 8, c)
  PROVE  Accepted(b, Len(c.payload) + 10)
  <1> DEFINE n == Len(c.payload)
  <1>1. n \in Nat /\ Body(c) \in Seq(Nat) /\ Len(Body(c)) = n + 5 /\ Total(Body(c)) \in Nat
    BY FieldBytes
  <1>2. \A j \in 1 .. 7 : Holds(b, Place(j, c), Bytes(j, c))
    BY DEF Built
  <1>3. /\ Holds(b, 0, LE16(HEAD)) /\ Holds(b, 7 + n, <<Total(Body(c)) % 256>>)
        /\ Holds(b, 8 + n, LE16(TAIL)) /\ Holds(b, 5, LE16(n))
        /\ Holds(b, 2, LE16(DeviceId)) /\ Holds(b, 4, <<c.cmd>>) /\ Holds(b, 7, c.payload)
    BY <1>2 DEF Place, Bytes
  <1>4. ASSUME NEW x \in Nat, NEW at \in Nat, Holds(b, at, LE16(x)) PROVE U16(b, at) = x
    <2>1. LE16(x) \in Seq(Nat) /\ Len(LE16(x)) = 2 /\ LE16(x)[1] + 256 * LE16(x)[2] = x
      BY Two
    <2>2. /\ 1 \in 1 .. Len(LE16(x)) /\ 2 \in 1 .. Len(LE16(x))
          /\ at + 1 - 1 = at /\ at + 2 - 1 = at + 1
      BY <2>1
    <2>3. b[at] = LE16(x)[1] /\ b[at + 1] = LE16(x)[2]
      <3>1. b[at + 1 - 1] = LE16(x)[1] /\ b[at + 2 - 1] = LE16(x)[2]
        BY <2>2, <1>4, Zenon DEF Holds
      <3>2. QED
        BY <3>1, <2>2
    <2>4. QED
      BY <2>1, <2>3 DEF U16
  <1>5. HEAD \in Nat /\ TAIL \in Nat
    BY DEF HEAD, TAIL
  <1>6. U16(b, 0) = HEAD /\ U16(b, 5) = n /\ U16(b, 8 + n) = TAIL
    <2>1. 0 \in Nat /\ 5 \in Nat /\ 8 + n \in Nat
      BY <1>1
    <2>2. U16(b, 0) = HEAD
      BY <2>1, <1>3, <1>4, <1>5
    <2>3. U16(b, 5) = n
      BY <2>1, <1>1, <1>3, <1>4
    <2>4. U16(b, 8 + n) = TAIL
      BY <2>1, <1>3, <1>4, <1>5
    <2>5. QED
      BY <2>2, <2>3, <2>4
  <1>7. b[7 + n] = check_sum(b, 2, n + 5)
    <2>1. Holds(b, 2, Body(c))
      BY <1>3, BodyHeld
    <2>2. check_sum(b, 2, n + 5) = Total(Body(c)) % 256
      <3>1. 2 \in Nat
        OBVIOUS
      <3>2. check_sum(b, 2, Len(Body(c))) = Total(Body(c)) % 256
        BY <2>1, <1>1, <3>1, CheckIsTotal, Zenon
      <3>3. QED
        BY <3>2, <1>1
    <2> DEFINE x == Total(Body(c)) % 256
    <2>3. b[7 + n] = x
      <3>1. x \in Nat
        BY <1>1
      <3>2. Holds(b, 7 + n, <<x>>)
        BY <1>3
      <3> HIDE DEF x
      <3>3. <<x>>[1] = x /\ 1 \in 1 .. Len(<<x>>) /\ 7 + n + 1 - 1 = 7 + n
        BY <3>1, <1>1
      <3>4. b[7 + n + 1 - 1] = <<x>>[1]
        BY <3>2, <3>3, Zenon DEF Holds
      <3>5. QED
        BY <3>3, <3>4
    <2>4. QED
      BY <2>2, <2>3
  <1> HIDE DEF n
  <1>8. /\ LenAt = 5 /\ IdAt = 2 /\ CheckAt(n) = 7 + n /\ TailAt(n) = 8 + n /\ FrameSize(n) = n + 10
    BY <1>1 DEF LenAt, IdAt, CheckAt, TailAt, FrameSize, PayloadAt
  <1>9. Accepted(b, n + 10)
    BY <1>1, <1>6, <1>7, <1>8 DEF Accepted
  <1>10. QED
    BY <1>9 DEF n

\* Of the calls of a thread.
LEMMA CallSendable ==
  ASSUME NEW t \in Callers, NEW c \in CallsOf(t)
  PROVE  Sendable(c) /\ (c.fn = "net_send_eph" => t = GnssCaller)
  <1>1. /\ c # Idle /\ c.cmd \in Byte /\ c.payload \in Seq(Byte)
        /\ FrameSize(Len(c.payload)) <= BufSize
    BY CallsAssumption, Zenon
  <1>2. c.fn \in Builders /\ (c.fn = "net_send_eph" => t = GnssCaller)
    BY DEF CallsOf, Builders, Callers
  <1>3. c.cmd \in Nat /\ c.payload \in Seq(Nat)
    <2>1. Byte \subseteq Nat
      BY DEF Byte
    <2>2. c.payload \in Seq(Nat)
      <3> DEFINE s == c.payload
      <3>1. s \in Seq(Byte)
        BY <1>1
      <3> HIDE DEF s
      <3>2. PICK n \in Nat : s \in [1 .. n -> Byte]
        BY <3>1, SeqDef
      <3>3. s \in [1 .. n -> Nat]
        BY <2>1, <3>2
      <3>4. s \in Seq(Nat)
        BY <3>3, SeqDef
      <3>5. QED
        BY <3>4 DEF s
    <2>3. QED
      BY <1>1, <2>1, <2>2
  <1>4. QED
    BY <1>1, <1>2, <1>3 DEF Sendable

\* The statements are eight, one after the other.
LEMMA StatementOrder ==
  /\ \A j, k \in 1 .. 8 : Statements[j] = Statements[k] => j = k
  /\ \A k \in 1 .. 8 : Statements[k] # Idle
  /\ \A k \in 1 .. 7 : After(Statements[k]) = Statements[k + 1]
  /\ Statements[1] = "head" /\ Statements[8] = "queue"
  <1>1. Statements[1] = "head" /\ Statements[8] = "queue" /\ Len(Statements) = 8
    BY DEF Statements
  <1>2. \A j, k \in 1 .. 8 : Statements[j] = Statements[k] => j = k
    BY DEF Statements
  <1>3. \A k \in 1 .. 8 : Statements[k] # Idle
    BY <1>1, CallsAssumption
  <1>4. ASSUME NEW k \in 1 .. 7 PROVE After(Statements[k]) = Statements[k + 1]
    <2> DEFINE i == CHOOSE i \in 1 .. 7 : Statements[i] = Statements[k]
    <2>1. i \in 1 .. 7 /\ Statements[i] = Statements[k]
      OBVIOUS
    <2>2. After(Statements[k]) = Statements[i + 1]
      BY DEF After
    <2> HIDE DEF i
    <2>3. i \in 1 .. 8 /\ k \in 1 .. 8
      BY <2>1
    <2>4. i = k
      BY <2>1, <2>3, <1>2
    <2>5. QED
      BY <2>2, <2>4
  <1>5. QED
    BY <1>1, <1>2, <1>3, <1>4

(***************************************************************************)
(* The inductive invariant of NetSend: a thread outside the functions has  *)
(* no call; a call that shares its buffer has lost "alone", and a call of  *)
(* net_send_eph never shares one; a call that is alone finds in its buffer *)
(* all that it has written so far.                                         *)
(***************************************************************************)
CallsInv ==
  /\ DOMAIN stmt = Callers /\ DOMAIN call = Callers /\ DOMAIN buf = Builders
  /\ \A f \in Builders : DOMAIN buf[f] = 0 .. BufSize - 1
  /\ \A t \in Callers :
       IF stmt[t] = Idle THEN call[t] = Idle
         ELSE call[t] \in CallsOf(t) /\ \E k \in 1 .. 8 : stmt[t] = Statements[k]

AloneInv ==
  /\ \A t \in Callers : \A u \in Callers :
       /\ t # u /\ call[t] # Idle /\ call[u] # Idle /\ BufferOf(call[t]) = BufferOf(call[u])
       => ~alone[t]
  /\ \A t \in Callers : call[t] # Idle /\ call[t].fn = "net_send_eph" => alone[t]

BuiltInv ==
  \A t \in Callers : \A k \in 1 .. 8 :
    stmt[t] = Statements[k] /\ alone[t] => Built(buf[BufferOf(call[t])], k, call[t])

NetInv == CallsInv /\ AloneInv /\ BuiltInv

\* A thread that has a call.
LEMMA CallOf ==
  ASSUME CallsInv, NEW t \in Callers, stmt[t] # Idle
  PROVE  /\ call[t] \in CallsOf(t) /\ Sendable(call[t]) /\ call[t] # Idle
         /\ BufferOf(call[t]) \in Builders /\ BufferOf(call[t]) = call[t].fn
         /\ \E k \in 1 .. 8 : stmt[t] = Statements[k]
  <1>1. call[t] \in CallsOf(t) /\ \E k \in 1 .. 8 : stmt[t] = Statements[k]
    BY DEF CallsInv
  <1>2. Sendable(call[t])
    BY <1>1, CallSendable
  <1>3. QED
    BY <1>1, <1>2 DEF Sendable, BufferOf

\* A call begins.
LEMMA BeginKeeps ==
  ASSUME NetInv, NEW t \in Callers, NEW c \in CallsOf(t), Begin(t, c)
  PROVE  NetInv' /\ out' = Idle
  <1> DEFINE others == {u \in Callers \ {t} : InBuffer(u, BufferOf(c))}
  <1>1. /\ stmt[t] = Idle /\ call' = [call EXCEPT ![t] = c] /\ stmt' = [stmt EXCEPT ![t] = "head"]
        /\ alone' = [u \in Callers |-> IF u = t THEN others = {} ELSE alone[u] /\ u \notin others]
        /\ out' = Idle /\ buf' = buf
    BY Zenon DEF Begin
  <1>2. Sendable(c) /\ c # Idle
    BY CallSendable DEF Sendable
  <1>3. CallsInv
    BY DEF NetInv
  <1>4. /\ call'[t] = c /\ stmt'[t] = "head"
        /\ \A u \in Callers \ {t} : call'[u] = call[u] /\ stmt'[u] = stmt[u]
        /\ DOMAIN call' = Callers /\ DOMAIN stmt' = Callers
    BY <1>1, <1>3 DEF CallsInv
  <1>5. \A u \in Callers \ {t} : call[u] # Idle <=> stmt[u] # Idle
    BY <1>3, CallOf DEF CallsInv
  <1>6. CallsInv'
    <2>1. "head" = Statements[1] /\ "head" # Idle
      BY StatementOrder
    <2>2. ASSUME NEW u \in Callers
          PROVE  IF stmt'[u] = Idle THEN call'[u] = Idle
                   ELSE call'[u] \in CallsOf(u) /\ \E k \in 1 .. 8 : stmt'[u] = Statements[k]
      <3>1. CASE u = t
        BY <3>1, <2>1, <1>4
      <3>2. CASE u # t
        BY <3>2, <1>3, <1>4 DEF CallsInv
      <3>3. QED
        BY <3>1, <3>2
    <2>3. QED
      BY <2>2, <1>1, <1>3, <1>4 DEF CallsInv
  <1>7. \A u \in Callers \ {t} : /\ alone'[u] => alone[u] /\ u \notin others
                                 /\ u \notin others => (alone'[u] <=> alone[u])
    BY <1>1, Zenon
  <1>8. alone'[t] <=> others = {}
    BY <1>1, Zenon
  <1>9. AloneInv'
    <2>1. ASSUME NEW u \in Callers, NEW w \in Callers, u # w, call'[u] # Idle, call'[w] # Idle,
                 BufferOf(call'[u]) = BufferOf(call'[w])
          PROVE  ~alone'[u]
      <3>1. CASE u = t
        <4>1. w \in Callers \ {t} /\ call[w] # Idle /\ BufferOf(call[w]) = BufferOf(c)
          BY <3>1, <2>1, <1>4
        <4>2. w \in others
          BY <4>1 DEF InBuffer
        <4>3. QED
          BY <4>2, <3>1, <1>8
      <3>2. CASE w = t
        <4>1. u \in Callers \ {t} /\ call[u] # Idle /\ BufferOf(call[u]) = BufferOf(c)
          BY <3>2, <2>1, <1>4
        <4>2. u \in others
          BY <4>1 DEF InBuffer
        <4>3. QED
          BY <4>1, <4>2, <1>7
      <3>3. CASE u # t /\ w # t
        <4>1. ~alone[u]
          <5>1. /\ call[u] # Idle /\ call[w] # Idle /\ BufferOf(call[u]) = BufferOf(call[w])
            BY <3>3, <2>1, <1>4
          <5>2. QED
            BY <5>1, <2>1, Zenon DEF NetInv, AloneInv
        <4>2. QED
          BY <4>1, <3>3, <1>7
      <3>4. QED
        BY <3>1, <3>2, <3>3
    <2>2. ASSUME NEW u \in Callers, call'[u] # Idle, call'[u].fn = "net_send_eph" PROVE alone'[u]
      <3>1. \A w \in Callers : call[w] # Idle /\ call[w].fn = "net_send_eph" => w = GnssCaller
        BY <1>3, CallSendable DEF CallsInv
      <3>2. CASE u = t
        <4>1. c.fn = "net_send_eph" /\ t = GnssCaller
          BY <3>2, <2>2, <1>4, CallSendable
        <4>2. others = {}
          BY <4>1, <3>1 DEF InBuffer, BufferOf
        <4>3. QED
          BY <4>2, <3>2, <1>8
      <3>3. CASE u # t
        <4>1. call[u] # Idle /\ call[u].fn = "net_send_eph" /\ u = GnssCaller
          BY <3>1, <3>3, <2>2, <1>4
        <4>2. c.fn # "net_send_eph"
          BY <4>1, <3>3, CallSendable
        <4>3. u \notin others
          BY <4>1, <4>2 DEF InBuffer, BufferOf
        <4>4. alone[u]
          BY <4>1, Zenon DEF NetInv, AloneInv
        <4>5. QED
          BY <4>3, <4>4, <3>3, <1>7
      <3>4. QED
        BY <3>2, <3>3
    <2>3. QED
      BY <2>1, <2>2, Zenon DEF AloneInv
  <1>10. BuiltInv'
    <2>1. ASSUME NEW u \in Callers, NEW k \in 1 .. 8, stmt'[u] = Statements[k], alone'[u]
          PROVE  Built(buf'[BufferOf(call'[u])], k, call'[u])
      <3>1. CASE u = t
        <4>1. k = 1
          <5>1. Statements[k] = Statements[1] /\ 1 \in 1 .. 8
            BY <3>1, <2>1, <1>4, StatementOrder
          <5>2. QED
            BY <5>1, StatementOrder
        <4>2. QED
          BY <4>1 DEF Built
      <3>2. CASE u # t
        <4>1. stmt[u] = Statements[k] /\ alone[u] /\ call'[u] = call[u]
          BY <3>2, <2>1, <1>4, <1>7
        <4>2. Built(buf[BufferOf(call[u])], k, call[u])
          BY <4>1, Zenon DEF NetInv, BuiltInv
        <4>3. QED
          BY <4>1, <4>2, <1>1
      <3>3. QED
        BY <3>1, <3>2
    <2>2. QED
      BY <2>1, Zenon DEF BuiltInv
  <1>11. QED
    BY <1>1, <1>6, <1>9, <1>10 DEF NetInv

\* A statement is executed.
LEMMA WriteKeeps ==
  ASSUME NetInv, NEW t \in Callers, Write(t)
  PROVE  NetInv' /\ out' = Idle
  <1> DEFINE c == call[t]
             f == BufferOf(call[t])
             b == buf[f]
  <1>1. /\ stmt[t] # Idle /\ stmt[t] # "queue"
        /\ buf' = [buf EXCEPT ![f] = Written(stmt[t], c, b)]
        /\ stmt' = [stmt EXCEPT ![t] = After(stmt[t])]
        /\ out' = Idle /\ call' = call /\ alone' = alone
    BY DEF Write
  <1>2. CallsInv
    BY DEF NetInv
  <1>3. /\ c \in CallsOf(t) /\ Sendable(c) /\ c # Idle /\ f \in Builders
        /\ \E k \in 1 .. 8 : stmt[t] = Statements[k]
    BY <1>1, <1>2, CallOf
  <1>4. PICK k \in 1 .. 8 : stmt[t] = Statements[k]
    BY <1>3
  <1>5. k \in 1 .. 7
    <2>1. k # 8
      BY <1>1, <1>4, StatementOrder
    <2>2. QED
      BY <2>1
  <1>6. After(stmt[t]) = Statements[k + 1] /\ k + 1 \in 1 .. 8
    BY <1>4, <1>5, StatementOrder
  <1>7. /\ stmt'[t] = Statements[k + 1] /\ DOMAIN stmt' = Callers
        /\ \A u \in Callers \ {t} : stmt'[u] = stmt[u]
    BY <1>1, <1>2, <1>6 DEF CallsInv
  <1>8. /\ buf'[f] = Written(Statements[k], c, b) /\ DOMAIN buf' = Builders
        /\ \A g \in Builders \ {f} : buf'[g] = buf[g]
    BY <1>1, <1>2, <1>3, <1>4 DEF CallsInv
  <1>9. DOMAIN b = 0 .. BufSize - 1
    BY <1>2, <1>3 DEF CallsInv
  <1> HIDE DEF c, f, b
  <1>10. CallsInv'
    <2>1. DOMAIN buf'[f] = 0 .. BufSize - 1
      BY <1>5, <1>8, <1>9, WrittenDomain
    <2>2. \A g \in Builders : DOMAIN buf'[g] = 0 .. BufSize - 1
      BY <2>1, <1>2, <1>8 DEF CallsInv
    <2>3. ASSUME NEW u \in Callers
          PROVE  IF stmt'[u] = Idle THEN call'[u] = Idle
                   ELSE call'[u] \in CallsOf(u) /\ \E j \in 1 .. 8 : stmt'[u] = Statements[j]
      <3>1. CASE u = t
        BY <3>1, <1>1, <1>3, <1>6, <1>7, StatementOrder DEF c
      <3>2. CASE u # t
        BY <3>2, <1>1, <1>2, <1>7 DEF CallsInv
      <3>3. QED
        BY <3>1, <3>2
    <2>4. QED
      BY <2>2, <2>3, <1>1, <1>2, <1>7, <1>8 DEF CallsInv
  <1>11. AloneInv'
    <2>1. AloneInv
      BY DEF NetInv
    <2>2. QED
      BY <2>1, <1>1, Zenon DEF AloneInv
  <1>12. BuiltInv'
    <2>1. ASSUME NEW u \in Callers, NEW j \in 1 .. 8, stmt'[u] = Statements[j], alone'[u]
          PROVE  Built(buf'[BufferOf(call'[u])], j, call'[u])
      <3>1. CASE u = t
        <4>1. j = k + 1
          BY <3>1, <2>1, <1>6, <1>7, StatementOrder
        <4>2. alone[t]
          BY <3>1, <2>1, <1>1
        <4>3. Built(b, k, c)
          BY <4>2, <1>4, Zenon DEF NetInv, BuiltInv, b, c, f
        <4>4. Built(Written(Statements[k], c, b), k + 1, c)
          BY <4>3, <1>3, <1>5, <1>9, WrittenBuilds
        <4>5. call'[u] = c /\ BufferOf(c) = f
          BY <3>1, <1>1 DEF c, f
        <4>6. QED
          BY <4>1, <4>4, <4>5, <1>8
      <3>2. CASE u # t
        <4>1. stmt[u] = Statements[j] /\ alone[u]
          BY <3>2, <2>1, <1>1, <1>7
        <4>2. stmt[u] # Idle
          BY <4>1, StatementOrder
        <4>3. call[u] # Idle /\ BufferOf(call[u]) \in Builders
          BY <4>2, <1>2, CallOf
        <4>4. BufferOf(call[u]) # f
          BY <4>1, <4>3, <3>2, <1>3, Zenon DEF NetInv, AloneInv, c, f
        <4>5. buf'[BufferOf(call'[u])] = buf[BufferOf(call[u])] /\ call'[u] = call[u]
          BY <4>3, <4>4, <1>1, <1>8
        <4>6. Built(buf[BufferOf(call[u])], j, call[u])
          BY <4>1, Zenon DEF NetInv, BuiltInv
        <4>7. QED
          BY <4>5, <4>6
      <3>3. QED
        BY <3>1, <3>2
    <2>2. QED
      BY <2>1, Zenon DEF BuiltInv
  <1>13. QED
    BY <1>1, <1>10, <1>11, <1>12 DEF NetInv

\* A frame is queued: that of its call, if the call was alone.
LEMMA QueueKeeps ==
  ASSUME NetInv, NEW t \in Callers, Queue(t)
  PROVE  NetInv' /\ AloneIntact' /\ EphIntact'
  <1> DEFINE c == call[t]
             b == buf[BufferOf(call[t])]
             n == QueuedSize(call[t])
             bytes == [i \in 0 .. n - 1 |-> b[i]]
  <1>1. /\ stmt[t] = "queue"
        /\ out' = [size |-> n, bytes |-> bytes, call |-> c, alone |-> alone[t]]
        /\ stmt' = [stmt EXCEPT ![t] = Idle] /\ call' = [call EXCEPT ![t] = Idle]
        /\ buf' = buf /\ alone' = alone
    BY DEF Queue
  <1>2. CallsInv
    BY DEF NetInv
  <1>3. stmt[t] = Statements[8] /\ stmt[t] # Idle
    BY <1>1, StatementOrder
  <1>4. c \in CallsOf(t) /\ Sendable(c) /\ c # Idle /\ BufferOf(c) \in Builders
    BY <1>2, <1>3, CallOf
  <1>5. /\ call'[t] = Idle /\ stmt'[t] = Idle /\ DOMAIN call' = Callers /\ DOMAIN stmt' = Callers
        /\ \A u \in Callers \ {t} : call'[u] = call[u] /\ stmt'[u] = stmt[u]
    BY <1>1, <1>2 DEF CallsInv
  <1>6. /\ out'.size = n /\ out'.bytes = bytes /\ out'.call = c /\ (out'.alone <=> alone[t])
    <2> HIDE DEF n, bytes, c
    <2>1. out'.size = n /\ out'.bytes = bytes /\ out'.call = c
      BY <1>1
    <2>2. out'.alone = alone[t]
      BY <1>1
    <2>3. QED
      BY <2>1, <2>2, Zenon
  <1>7. alone[t] => IsFrameOf(out')
    <2> SUFFICES ASSUME alone[t] PROVE IsFrameOf(out')
      OBVIOUS
    <2>1. Built(b, 8, c)
      <3>1. 8 \in 1 .. 8
        OBVIOUS
      <3>2. QED
        BY <3>1, <1>3, Zenon DEF NetInv, BuiltInv
    <2> DEFINE m == Len(c.payload)
    <2> HIDE DEF b, c
    <2>2. m \in Nat /\ n = m + 10
      BY <1>4 DEF Sendable, QueuedSize, FrameSize, PayloadAt, c
    <2>3. \A j \in 1 .. 7 : /\ Place(j, c) = From(j, m) /\ Bytes(j, c) \in Seq(Nat)
                            /\ Len(Bytes(j, c)) = Width(j, m)
      BY <1>4, Lies
    <2> HIDE DEF m, n
    <2>4. Built(bytes, 8, c)
      <3>1. ASSUME NEW j \in 1 .. 7 PROVE Holds(bytes, Place(j, c), Bytes(j, c))
        <4>1. ASSUME NEW i \in 1 .. Len(Bytes(j, c))
              PROVE  bytes[Place(j, c) + i - 1] = Bytes(j, c)[i]
          <5>1. b[Place(j, c) + i - 1] = Bytes(j, c)[i]
            <6>1. j \in 1 .. 8 - 1
              OBVIOUS
            <6>2. QED
              BY <2>1, <6>1, Zenon DEF Built, Holds
          <5>2. From(j, m) \in Nat /\ From(j, m) + Width(j, m) <= m + 10
            BY <2>2 DEF From, Width
          <5>3. Place(j, c) + i - 1 \in 0 .. n - 1
            <6>1. Place(j, c) = From(j, m) /\ Len(Bytes(j, c)) = Width(j, m)
              BY <2>3
            <6>2. Width(j, m) \in Nat
              BY <2>2 DEF Width
            <6>3. i \in 1 .. Width(j, m)
              BY <6>1
            <6>4. QED
              BY <5>2, <6>1, <6>2, <6>3, <2>2
          <5>4. QED
            BY <5>1, <5>3
        <4>2. QED
          BY <4>1 DEF Holds
      <3>2. \A j \in 1 .. 8 - 1 : j \in 1 .. 7
        OBVIOUS
      <3> HIDE DEF bytes
      <3>3. QED
        BY <3>1, <3>2 DEF Built
    <2> HIDE DEF bytes
    <2>5. Holds(bytes, 0, FrameOf(c)) /\ Len(FrameOf(c)) = n
      <3>1. Holds(bytes, 0, FrameOf(c)) /\ Len(FrameOf(c)) = Len(c.payload) + 10
        BY <2>4, <1>4, FrameBuilt
      <3>2. QED
        BY <3>1, <2>2 DEF m
    <2>6. Accepted(bytes, n)
      <3>1. Accepted(bytes, Len(c.payload) + 10)
        BY <2>4, <1>4, FrameAccepted
      <3>2. QED
        BY <3>1, <2>2 DEF m
    <2>7. \A i \in 1 .. n : bytes[i - 1] = FrameOf(c)[i]
      <3>1. ASSUME NEW i \in 1 .. n PROVE bytes[i - 1] = FrameOf(c)[i]
        <4>1. i \in 1 .. Len(FrameOf(c)) /\ 0 + i - 1 = i - 1
          BY <2>2, <2>5
        <4>2. bytes[0 + i - 1] = FrameOf(c)[i]
          BY <2>5, <4>1, Zenon DEF Holds
        <4>3. QED
          BY <4>1, <4>2
      <3>2. QED
        BY <3>1
    <2>8. QED
      BY <2>5, <2>6, <2>7, <1>6 DEF IsFrameOf
  <1>8. AloneIntact'
    BY <1>6, <1>7, Zenon DEF AloneIntact
  <1>9. EphIntact'
    <2>1. c.fn = "net_send_eph" => alone[t]
      BY <1>4, Zenon DEF NetInv, AloneInv
    <2>2. QED
      BY <2>1, <1>6, <1>7, Zenon DEF EphIntact
  <1> HIDE DEF b, c, n, bytes
  <1>10. CallsInv'
    <2>1. ASSUME NEW u \in Callers
          PROVE  IF stmt'[u] = Idle THEN call'[u] = Idle
                   ELSE call'[u] \in CallsOf(u) /\ \E k \in 1 .. 8 : stmt'[u] = Statements[k]
      BY <1>2, <1>5 DEF CallsInv
    <2>2. QED
      BY <2>1, <1>1, <1>2, <1>5 DEF CallsInv
  <1>11. AloneInv'
    <2>1. \A u \in Callers : call'[u] # Idle => u # t /\ call'[u] = call[u]
      BY <1>5
    <2>2. AloneInv
      BY DEF NetInv
    <2>3. QED
      BY <2>1, <2>2, <1>1, Zenon DEF AloneInv
  <1>12. BuiltInv'
    <2>1. \A u \in Callers : \A k \in 1 .. 8 :
            stmt'[u] = Statements[k] => stmt[u] = Statements[k] /\ call'[u] = call[u]
      BY <1>5, StatementOrder
    <2>2. BuiltInv
      BY DEF NetInv
    <2>3. QED
      BY <2>1, <2>2, <1>1, Zenon DEF BuiltInv
  <1>13. QED
    BY <1>8, <1>9, <1>10, <1>11, <1>12 DEF NetInv

\* The invariant holds initially, ...
LEMMA NetInitInv == NetInit => NetInv
  <1> SUFFICES ASSUME NetInit PROVE NetInv
    OBVIOUS
  <1>1. /\ stmt = [t \in Callers |-> Idle] /\ call = [t \in Callers |-> Idle]
        /\ buf = [f \in Builders |-> [i \in 0 .. BufSize - 1 |-> 0]]
    BY DEF NetInit
  <1>2. \A t \in Callers : stmt[t] = Idle /\ call[t] = Idle
    BY <1>1
  <1>3. CallsInv
    BY <1>1, <1>2 DEF CallsInv
  <1>4. AloneInv
    BY <1>2, Zenon DEF AloneInv
  <1>5. BuiltInv
    BY <1>2, StatementOrder DEF BuiltInv
  <1>6. QED
    BY <1>3, <1>4, <1>5 DEF NetInv

\* ... and with every step, which queues only what the properties say.
LEMMA NetSteps == NetInv /\ AloneIntact /\ EphIntact /\ [NetNext]_netVars
                    => NetInv' /\ AloneIntact' /\ EphIntact'
  <1> SUFFICES ASSUME NetInv, AloneIntact, EphIntact, [NetNext]_netVars
               PROVE  NetInv' /\ AloneIntact' /\ EphIntact'
    OBVIOUS
  <1>1. ASSUME NEW t \in Callers, NEW c \in CallsOf(t), Begin(t, c)
        PROVE  NetInv' /\ AloneIntact' /\ EphIntact'
    BY <1>1, BeginKeeps DEF AloneIntact, EphIntact
  <1>2. ASSUME NEW t \in Callers, Write(t) PROVE NetInv' /\ AloneIntact' /\ EphIntact'
    BY <1>2, WriteKeeps DEF AloneIntact, EphIntact
  <1>3. ASSUME NEW t \in Callers, Queue(t) PROVE NetInv' /\ AloneIntact' /\ EphIntact'
    BY <1>3, QueueKeeps
  <1>4. CASE UNCHANGED netVars
    <2>1. /\ stmt' = stmt /\ call' = call /\ buf' = buf /\ alone' = alone /\ out' = out
      BY <1>4 DEF netVars
    <2>2. NetInv'
      BY <2>1, Zenon DEF NetInv, CallsInv, AloneInv, BuiltInv
    <2>3. AloneIntact' /\ EphIntact'
      BY <2>1, Zenon DEF AloneIntact, EphIntact
    <2>4. QED
      BY <2>2, <2>3
  <1>5. QED
    BY <1>1, <1>2, <1>3, <1>4, Zenon DEF NetNext

\* Nothing is queued at first.
LEMMA NetStarts == NetInit => AloneIntact /\ EphIntact
  BY DEF NetInit, AloneIntact, EphIntact

\* A call of net_send that no other call overlapped queues exactly its frame, whatever the
\* static buffer still held, and the receiver accepts it: for any calls of the two threads
\* and payloads of any length that fits (comm_service.c:127-140).
THEOREM LoneFrameIntact == NetSpec => []AloneIntact
  <1>1. QED
    BY NetInitInv, NetStarts, NetSteps, PTL DEF NetSpec

\* An ephemeris frame is never damaged, whatever answers and positions are built at the
\* same time: its buffer is its own, and one thread calls net_send_eph (comm_service.c:152-166).
THEOREM EphemerisIntact == NetSpec => []EphIntact
  <1>1. QED
    BY NetInitInv, NetStarts, NetSteps, PTL DEF NetSpec
==============================================================================
