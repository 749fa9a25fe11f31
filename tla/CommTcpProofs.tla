---------------------------- MODULE CommTcpProofs ----------------------------
(***************************************************************************)
(* Proofs about CommTcp, for every number of senders, clients, descriptors *)
(* and slots.                                                              *)
(***************************************************************************)
EXTENDS CommTcp, RingQueueProofs

(***************************************************************************)
(* The inductive invariant.  OwnedFds is not inductive by itself: one has  *)
(* to know when the accept thread holds a descriptor that is not published *)
(* yet, and that it is another one than the client's.                      *)
(***************************************************************************)
ShapeInv == /\ pc = [t \in Threads |-> pc[t]]
            /\ files \in [Fds -> Nat]
            /\ conns \in Nat
            /\ client_fd \in Fds \cup {NoFd}
            /\ new_fd \in Fds \cup {NoFd}

AcceptInv == /\ new_fd # NoFd <=> pc[Acceptor] = "publish"
             /\ pc[Main] = "init" => pc[Acceptor] = "off"
             /\ new_fd # NoFd => files[new_fd] # NoConn /\ new_fd # client_fd

IInv == ShapeInv /\ AcceptInv /\ ClientFdOpen /\ OwnedFds

-----------------------------------------------------------------------------
\* The thread names are distinct.
LEMMA ThreadsDistinct ==
  /\ Main \in Threads /\ Acceptor \in Threads /\ Rx \in Threads /\ Tx \in Threads
  /\ Senders \subseteq Threads
  /\ Main # Acceptor /\ Main # Rx /\ Main # Tx /\ Acceptor # Rx /\ Acceptor # Tx
  /\ \A t \in Senders : t # Main /\ t # Acceptor
  BY TcpAssumption DEF Threads

\* The invariant holds initially.
LEMMA InitInv == Init => IInv
  BY ThreadsDistinct
     DEF Init, IInv, ShapeInv, AcceptInv, ClientFdOpen, OwnedFds, Fds, NoFd, NoConn

\* A step of another thread that leaves the descriptors alone keeps the invariant.
LEMMA OtherThread ==
  ASSUME IInv, UNCHANGED clientVars,
         pc' = [u \in Threads |-> pc'[u]], pc'[Acceptor] = pc[Acceptor],
         pc'[Main] = "init" => pc[Main] = "init"
  PROVE  IInv'
  <1>1. UNCHANGED <<files, conns, client_fd, new_fd>>
    BY DEF clientVars
  <1>2. QED
    BY <1>1 DEF IInv, ShapeInv, AcceptInv, ClientFdOpen, OwnedFds

\* Closing the client keeps the invariant, whichever thread does it.
LEMMA CloseClientInv ==
  ASSUME IInv, CloseClient,
         pc' = [u \in Threads |-> pc'[u]], pc'[Acceptor] = pc[Acceptor],
         pc'[Main] = "init" => pc[Main] = "init"
  PROVE  IInv'
  <1>1. /\ client_fd' = NoFd /\ UNCHANGED <<conns, new_fd>>
        /\ files' = IF client_fd = NoFd THEN files ELSE [files EXCEPT ![client_fd] = NoConn]
    BY DEF CloseClient, Closed
  <1>2. NoConn \in Nat /\ NoFd \notin Fds
    BY DEF NoConn, NoFd, Fds
  <1>3. ShapeInv'
    BY <1>1, <1>2 DEF IInv, ShapeInv
  <1>4. \A f \in Fds : files'[f] = IF f = client_fd THEN NoConn ELSE files[f]
    BY <1>1, <1>2 DEF IInv, ShapeInv
  <1>5. AcceptInv'
    BY <1>1, <1>2, <1>4 DEF IInv, ShapeInv, AcceptInv
  <1>6. ClientFdOpen' /\ OwnedFds'
    BY <1>1, <1>4 DEF IInv, ClientFdOpen, OwnedFds
  <1>7. QED
    BY <1>3, <1>5, <1>6 DEF IInv

\* Every step keeps the invariant.
LEMMA StepInv ==
  ASSUME IInv, [Next]_vars
  PROVE  IInv'
  <1> USE ThreadsDistinct
  <1>0. pc = [t \in Threads |-> pc[t]]
    BY DEF IInv, ShapeInv
  <1>1. CASE InitAccept
    <2>1. /\ pc[Main] = "init" /\ pc[Acceptor] = "off" /\ new_fd = NoFd
          /\ UNCHANGED <<files, conns, client_fd, new_fd>>
      BY <1>1 DEF IInv, AcceptInv, InitAccept, Create, At, clientVars
    <2>2. pc' = [pc EXCEPT ![Main] = "init_rx", ![Acceptor] = "create"]
             \/ pc' = [pc EXCEPT ![Main] = "done"]
      BY <1>1 DEF InitAccept, Create, Goto
    <2>3. pc' = [u \in Threads |-> pc'[u]] /\ pc'[Acceptor] # "publish" /\ pc'[Main] # "init"
      BY <1>0, <2>1, <2>2
    <2>4. QED
      BY <2>1, <2>3 DEF IInv, ShapeInv, AcceptInv, ClientFdOpen, OwnedFds
  <1>2. CASE InitRx
    <2>1. UNCHANGED clientVars
      BY <1>2 DEF InitRx, Create
    <2>2. /\ pc' = [u \in Threads |-> pc'[u]] /\ pc'[Acceptor] = pc[Acceptor]
          /\ pc'[Main] = "init" => pc[Main] = "init"
      BY <1>0, <1>2 DEF InitRx, Create, Goto, At
    <2>3. QED
      BY <2>1, <2>2, OtherThread
  <1>3. CASE InitTx
    <2>1. UNCHANGED clientVars
      BY <1>3 DEF InitTx, Create
    <2>2. /\ pc' = [u \in Threads |-> pc'[u]] /\ pc'[Acceptor] = pc[Acceptor]
          /\ pc'[Main] = "init" => pc[Main] = "init"
      BY <1>0, <1>3 DEF InitTx, Create, Goto, At
    <2>3. QED
      BY <2>1, <2>2, OtherThread
  <1>4. CASE RxGetFd
    <2>1. UNCHANGED clientVars
      BY <1>4 DEF RxGetFd
    <2>2. /\ pc' = [u \in Threads |-> pc'[u]] /\ pc'[Acceptor] = pc[Acceptor]
          /\ pc'[Main] = "init" => pc[Main] = "init"
      BY <1>0, <1>4 DEF RxGetFd, Goto, At
    <2>3. QED
      BY <2>1, <2>2, OtherThread
  <1>5. CASE RxRecv
    <2>1. UNCHANGED clientVars
      BY <1>5 DEF RxRecv
    <2>2. /\ pc' = [u \in Threads |-> pc'[u]] /\ pc'[Acceptor] = pc[Acceptor]
          /\ pc'[Main] = "init" => pc[Main] = "init"
      BY <1>0, <1>5 DEF RxRecv, Goto, At
    <2>3. QED
      BY <2>1, <2>2, OtherThread
  <1>6. CASE RxReturn
    <2>1. UNCHANGED clientVars
      BY <1>6 DEF RxReturn
    <2>2. /\ pc' = [u \in Threads |-> pc'[u]] /\ pc'[Acceptor] = pc[Acceptor]
          /\ pc'[Main] = "init" => pc[Main] = "init"
      BY <1>0, <1>6 DEF RxReturn, Goto, At
    <2>3. QED
      BY <2>1, <2>2, OtherThread
  <1>7. CASE WaitFrame
    <2>1. UNCHANGED clientVars
      BY <1>7 DEF WaitFrame
    <2>2. /\ pc' = [u \in Threads |-> pc'[u]] /\ pc'[Acceptor] = pc[Acceptor]
          /\ pc'[Main] = "init" => pc[Main] = "init"
      BY <1>0, <1>7 DEF WaitFrame, Goto, At
    <2>3. QED
      BY <2>1, <2>2, OtherThread
  <1>8. CASE SpuriousWake
    <2>1. UNCHANGED clientVars
      BY <1>8 DEF SpuriousWake
    <2>2. /\ pc' = [u \in Threads |-> pc'[u]] /\ pc'[Acceptor] = pc[Acceptor]
          /\ pc'[Main] = "init" => pc[Main] = "init"
      BY <1>0, <1>8 DEF SpuriousWake, Goto, At
    <2>3. QED
      BY <2>1, <2>2, OtherThread
  <1>9. CASE Pop
    <2>1. UNCHANGED clientVars
      BY <1>9 DEF Pop
    <2>2. /\ pc' = [u \in Threads |-> pc'[u]] /\ pc'[Acceptor] = pc[Acceptor]
          /\ pc'[Main] = "init" => pc[Main] = "init"
      BY <1>0, <1>9 DEF Pop, Goto, At
    <2>3. QED
      BY <2>1, <2>2, OtherThread
  <1>10. CASE TxGetFd
    <2>1. UNCHANGED clientVars
      BY <1>10 DEF TxGetFd
    <2>2. /\ pc' = [u \in Threads |-> pc'[u]] /\ pc'[Acceptor] = pc[Acceptor]
          /\ pc'[Main] = "init" => pc[Main] = "init"
      BY <1>0, <1>10 DEF TxGetFd, Goto, At
    <2>3. QED
      BY <2>1, <2>2, OtherThread
  <1>11. CASE TxSend
    <2>1. UNCHANGED clientVars
      BY <1>11 DEF TxSend
    <2>2. /\ pc' = [u \in Threads |-> pc'[u]] /\ pc'[Acceptor] = pc[Acceptor]
          /\ pc'[Main] = "init" => pc[Main] = "init"
      BY <1>0, <1>11 DEF TxSend, Goto, At
    <2>3. QED
      BY <2>1, <2>2, OtherThread
  <1>12. ASSUME NEW t \in Senders, BeginSend(t) PROVE IInv'
    <2>1. UNCHANGED clientVars
      BY <1>12 DEF BeginSend
    <2>2. /\ pc' = [u \in Threads |-> pc'[u]] /\ pc'[Acceptor] = pc[Acceptor]
          /\ pc'[Main] = "init" => pc[Main] = "init"
      BY <1>0, <1>12 DEF BeginSend, Goto, At
    <2>3. QED
      BY <2>1, <2>2, OtherThread
  <1>13. ASSUME NEW t \in Senders, PushFail(t) PROVE IInv'
    <2>1. UNCHANGED clientVars
      BY <1>13 DEF PushFail
    <2>2. /\ pc' = [u \in Threads |-> pc'[u]] /\ pc'[Acceptor] = pc[Acceptor]
          /\ pc'[Main] = "init" => pc[Main] = "init"
      BY <1>0, <1>13 DEF PushFail, Goto, At
    <2>3. QED
      BY <2>1, <2>2, OtherThread
  <1>14. ASSUME NEW t \in Senders, PushOk(t) PROVE IInv'
    <2>1. UNCHANGED clientVars
      BY <1>14 DEF PushOk, SignalTx
    <2>2. /\ pc' = [u \in Threads |-> pc'[u]] /\ pc'[Acceptor] = pc[Acceptor]
          /\ pc'[Main] = "init" => pc[Main] = "init"
      BY <1>0, <1>14 DEF PushOk, SignalTx, Goto, At
    <2>3. QED
      BY <2>1, <2>2, OtherThread
  <1>15. CASE RxClose
    <2>1. CloseClient
      BY <1>15 DEF RxClose
    <2>2. /\ pc' = [u \in Threads |-> pc'[u]] /\ pc'[Acceptor] = pc[Acceptor]
          /\ pc'[Main] = "init" => pc[Main] = "init"
      BY <1>0, <1>15 DEF RxClose, Goto
    <2>3. QED
      BY <2>1, <2>2, CloseClientInv
  <1>16. CASE TxClose
    <2>1. CloseClient
      BY <1>16 DEF TxClose
    <2>2. /\ pc' = [u \in Threads |-> pc'[u]] /\ pc'[Acceptor] = pc[Acceptor]
          /\ pc'[Main] = "init" => pc[Main] = "init"
      BY <1>0, <1>16 DEF TxClose, Goto
    <2>3. QED
      BY <2>1, <2>2, CloseClientInv
  <1>17. CASE CreateServer
    <2>1. /\ UNCHANGED <<files, conns, client_fd, new_fd>>
          /\ pc[Acceptor] = "create" /\ new_fd = NoFd
      BY <1>17 DEF CreateServer, clientVars, At, IInv, AcceptInv
    <2>2. /\ pc' = [u \in Threads |-> pc'[u]] /\ pc'[Acceptor] \in {"accept", "dead"}
          /\ pc'[Main] = pc[Main]
      BY <1>0, <1>17 DEF CreateServer, Goto
    <2>3. QED
      BY <2>1, <2>2 DEF IInv, ShapeInv, AcceptInv, ClientFdOpen, OwnedFds
  <1>18. ASSUME NEW c \in Conns, PeerClose(c) PROVE IInv'
    <2>1. UNCHANGED <<pc, files, conns, client_fd, new_fd>>
      BY <1>18 DEF PeerClose
    <2>2. QED
      BY <2>1 DEF IInv, ShapeInv, AcceptInv, ClientFdOpen, OwnedFds
  <1>19. CASE AcceptClient
    <2>1. PICK f \in FreeFds : new_fd' = f /\ files' = [files EXCEPT ![f] = conns + 1]
      BY <1>19 DEF AcceptClient
    <2>2. f \in Fds /\ files[f] = NoConn /\ f # NoFd
      BY <2>1 DEF FreeFds, Fds, NoFd
    <2>3. /\ conns \in Nat /\ conns' = conns + 1 /\ client_fd' = client_fd
          /\ pc[Acceptor] = "accept" /\ new_fd = NoFd
      BY <1>19 DEF AcceptClient, At, IInv, ShapeInv, AcceptInv
    <2>4. conns + 1 \in Nat /\ conns + 1 # NoConn
      BY <2>3 DEF NoConn
    <2>5. /\ pc' = [u \in Threads |-> pc'[u]] /\ pc'[Acceptor] = "publish"
          /\ pc'[Main] = pc[Main] /\ pc[Main] # "init"
      BY <1>0, <2>3, <1>19 DEF AcceptClient, Goto, IInv, AcceptInv
    <2>6. \A g \in Fds : files'[g] = IF g = f THEN conns + 1 ELSE files[g]
      BY <2>1, <2>2 DEF IInv, ShapeInv
    <2>7. f # client_fd
      BY <2>2 DEF IInv, ClientFdOpen
    <2>8. ShapeInv'
      BY <2>1, <2>2, <2>3, <2>4, <2>5 DEF IInv, ShapeInv
    <2>9. AcceptInv'
      BY <2>1, <2>2, <2>3, <2>4, <2>5, <2>6, <2>7 DEF AcceptInv
    <2>10. ClientFdOpen' /\ OwnedFds'
      <3>1. client_fd # NoFd => files'[client_fd] # NoConn
        BY <2>4, <2>6 DEF IInv, ShapeInv, ClientFdOpen
      <3>2. \A g \in Fds : g # NoFd
        BY DEF Fds, NoFd
      <3>3. QED
        BY <2>1, <2>3, <2>6, <3>1, <3>2 DEF IInv, ClientFdOpen, OwnedFds
    <2>11. QED
      BY <2>8, <2>9, <2>10 DEF IInv
  <1>20. CASE PublishClient
    <2>1. /\ client_fd' = new_fd /\ new_fd' = NoFd /\ conns' = conns
          /\ files' = IF client_fd = NoFd THEN files ELSE [files EXCEPT ![client_fd] = NoConn]
      BY <1>20 DEF PublishClient, Closed
    <2>2. /\ pc[Acceptor] = "publish" /\ new_fd # NoFd /\ new_fd # client_fd
          /\ files[new_fd] # NoConn /\ new_fd \in Fds
      BY <1>20 DEF PublishClient, At, IInv, ShapeInv, AcceptInv
    <2>3. /\ pc' = [u \in Threads |-> pc'[u]] /\ pc'[Acceptor] = "accept" /\ pc'[Main] # "init"
      BY <1>0, <2>2, <1>20 DEF PublishClient, Goto, IInv, AcceptInv
    <2>4. NoConn \in Nat /\ NoFd \notin Fds
      BY DEF NoConn, NoFd, Fds
    <2>5. \A f \in Fds : files'[f] = IF f = client_fd THEN NoConn ELSE files[f]
      BY <2>1, <2>4 DEF IInv, ShapeInv
    <2>6. ShapeInv' /\ AcceptInv'
      BY <2>1, <2>2, <2>3, <2>4 DEF IInv, ShapeInv, AcceptInv
    <2>7. ClientFdOpen' /\ OwnedFds'
      BY <2>1, <2>2, <2>5 DEF IInv, ClientFdOpen, OwnedFds
    <2>8. QED
      BY <2>6, <2>7 DEF IInv
  <1>21. CASE UNCHANGED vars
    <2>1. UNCHANGED <<pc, files, conns, client_fd, new_fd>>
      BY <1>21 DEF vars, clientVars
    <2>2. QED
      BY <2>1 DEF IInv, ShapeInv, AcceptInv, ClientFdOpen, OwnedFds
  <1>22. QED
    BY <1>1, <1>2, <1>3, <1>4, <1>5, <1>6, <1>7, <1>8, <1>9, <1>10, <1>11, <1>12, <1>13, <1>14, <1>15, <1>16, <1>17, <1>18, <1>19, <1>20, <1>21 DEF Next

\* comm_tcp.c:130-139, 298-312: client_fd never names a closed descriptor, so none is
\* closed twice.
THEOREM ClientIsOpen == Spec => []ClientFdOpen
  <1>1. IInv => ClientFdOpen
    BY DEF IInv
  <1>2. IInv /\ [Next]_vars => IInv'
    BY StepInv
  <1>3. QED
    BY InitInv, <1>1, <1>2, PTL DEF Spec

\* comm_tcp.c:298-312: no connection is left open without an owner.
THEOREM NoDescriptorLeaks == Spec => []OwnedFds
  <1>1. IInv => OwnedFds
    BY DEF IInv
  <1>2. IInv /\ [Next]_vars => IInv'
    BY StepInv
  <1>3. QED
    BY InitInv, <1>1, <1>2, PTL DEF Spec

-----------------------------------------------------------------------------
(* The queue, whatever becomes of the clients. *)

(***************************************************************************)
(* The position of the tx thread says whether it holds a frame: taken from *)
(* the ring, it is in its hands until it was written or freed.             *)
(***************************************************************************)
QInv == /\ RingOK
        /\ queue \in [Slot -> Frame \cup {NULL}]
        /\ accepted \in 0 .. MaxFrames
        /\ pc = [t \in Threads |-> pc[t]]
        /\ pc[Main] \in {"init", "init_rx", "init_tx"} => pc[Tx] = "off"
        /\ IF pc[Tx] \in {"getfd", "send"} THEN hand \in Frame ELSE hand = NULL
        /\ NoLostWakeup

\* The invariant holds initially.
LEMMA InitQInv == Init => QInv
  <1> SUFFICES ASSUME Init PROVE QInv
    OBVIOUS
  <1>1. queue = [s \in Slot |-> NULL] /\ queue_head = 0 /\ queue_tail = 0 /\ queue_count = 0
    BY DEF Init, QueueInit
  <1>2. 0 \in Slot /\ 0 \in 0 .. Capacity
    BY CapacityAssumption DEF Slot
  <1>3. (0 + 0) % Capacity = 0
    BY SlotAfter, CapacityAssumption DEF Slot
  <1>4. RingOK
    BY <1>1, <1>2, <1>3 DEF RingOK
  <1>5. accepted \in 0 .. MaxFrames
    BY TcpAssumption DEF Init
  <1>6. /\ pc = [t \in Threads |-> pc[t]] /\ pc[Tx] = "off" /\ hand = NULL
    BY ThreadsDistinct, TcpAssumption DEF Init
  <1>7. QED
    BY <1>1, <1>4, <1>5, <1>6 DEF QInv, NoLostWakeup, At

\* A step that leaves the ring and the frame in hand alone keeps the invariant, unless it
\* puts the tx thread to sleep or has it take or drop a frame.
LEMMA QueueUntouched ==
  ASSUME QInv, UNCHANGED <<queueVars, hand, accepted>>,
         pc' = [t \in Threads |-> pc'[t]],
         pc'[Main] \in {"init", "init_rx", "init_tx"} => pc'[Tx] = "off",
         pc'[Tx] \in {"getfd", "send"} <=> pc[Tx] \in {"getfd", "send"},
         pc'[Tx] = "wait" => pc[Tx] = "wait" \/ QueueEmpty
  PROVE  QInv'
  <1>1. UNCHANGED <<queue, queue_head, queue_tail, queue_count, hand, accepted>>
    BY DEF queueVars
  <1>2. RingOK' /\ QueueEmpty' = QueueEmpty
    BY <1>1 DEF QInv, RingOK, SlotOf, Slot, QueueEmpty
  <1>3. NoLostWakeup'
    BY <1>2 DEF QInv, NoLostWakeup, At
  <1>4. QED
    BY <1>1, <1>2, <1>3 DEF QInv, Slot

\* A step of a thread other than main and tx that does not come near the ring.
LEMMA QueueOtherThread ==
  ASSUME QInv, UNCHANGED <<queueVars, hand, accepted>>,
         pc' = [t \in Threads |-> pc'[t]], pc'[Main] = pc[Main], pc'[Tx] = pc[Tx]
  PROVE  QInv'
  BY QueueUntouched DEF QInv

\* Every step keeps the invariant.
LEMMA StepQInv ==
  ASSUME QInv, [Next]_vars
  PROVE  QInv'
  <1> USE ThreadsDistinct
  <1>0. /\ pc = [t \in Threads |-> pc[t]]
        /\ \A t \in Senders : t # Tx
        /\ Rx # Tx
    BY TcpAssumption DEF QInv
  <1>1. CASE InitAccept \/ InitRx \/ InitTx
    <2>1. UNCHANGED <<queueVars, hand, accepted>>
      BY <1>1 DEF InitAccept, InitRx, InitTx, Create, frameVars
    <2>2. \/ pc' = [pc EXCEPT ![Main] = "init_rx", ![Acceptor] = "create"] /\ pc[Main] = "init"
          \/ pc' = [pc EXCEPT ![Main] = "init_tx", ![Rx] = "getfd"] /\ pc[Main] = "init_rx"
          \/ pc' = [pc EXCEPT ![Main] = "done", ![Tx] = "pop"] /\ pc[Main] = "init_tx"
          \/ pc' = [pc EXCEPT ![Main] = "done"]
      BY <1>1 DEF InitAccept, InitRx, InitTx, Create, Goto, At
    <2>3. /\ pc' = [t \in Threads |-> pc'[t]]
          /\ pc'[Main] \in {"init", "init_rx", "init_tx"} => pc'[Tx] = "off"
          /\ pc'[Tx] = pc[Tx] \/ (pc'[Tx] = "pop" /\ pc[Tx] = "off")
      BY <1>0, <2>2 DEF QInv
    <2>4. QED
      BY <2>1, <2>3, QueueUntouched
  <1>2. CASE CreateServer \/ AcceptClient \/ PublishClient
    <2>1. UNCHANGED <<queueVars, hand, accepted>>
      BY <1>2 DEF CreateServer, AcceptClient, PublishClient, frameVars
    <2>2. pc' = [t \in Threads |-> pc'[t]] /\ pc'[Main] = pc[Main] /\ pc'[Tx] = pc[Tx]
      BY <1>0, <1>2 DEF CreateServer, AcceptClient, PublishClient, Goto
    <2>3. QED
      BY <2>1, <2>2, QueueOtherThread
  <1>3. ASSUME NEW c \in Conns, PeerClose(c) PROVE QInv'
    <2>1. UNCHANGED <<queueVars, hand, accepted, pc>>
      BY <1>3 DEF PeerClose, frameVars
    <2>2. QED
      BY <1>0, <2>1, QueueOtherThread
  <1>4. CASE RxGetFd \/ RxRecv \/ RxReturn \/ RxClose
    <2>1. UNCHANGED <<queueVars, hand, accepted>>
      BY <1>4 DEF RxGetFd, RxRecv, RxReturn, RxClose, frameVars
    <2>2. pc' = [t \in Threads |-> pc'[t]] /\ pc'[Main] = pc[Main] /\ pc'[Tx] = pc[Tx]
      BY <1>0, <1>4 DEF RxGetFd, RxRecv, RxReturn, RxClose, Goto
    <2>3. QED
      BY <2>1, <2>2, QueueOtherThread
  <1>5. ASSUME NEW t \in Senders, BeginSend(t) \/ PushFail(t) PROVE QInv'
    <2>1. UNCHANGED <<queueVars, hand, accepted>>
      BY <1>5 DEF BeginSend, PushFail, frameVars
    <2>2. pc' = [u \in Threads |-> pc'[u]] /\ pc'[Main] = pc[Main] /\ pc'[Tx] = pc[Tx]
      BY <1>0, <1>5 DEF BeginSend, PushFail, Goto
    <2>3. QED
      BY <2>1, <2>2, QueueOtherThread
  <1>6. ASSUME NEW t \in Senders, PushOk(t) PROVE QInv'
    <2> DEFINE f == [id |-> accepted + 1, from |-> t]
    <2>1. /\ Enqueue(f) /\ ~QueueFull /\ hand' = hand
          /\ accepted < MaxFrames /\ accepted' = accepted + 1
          /\ pc' = SignalTx([pc EXCEPT ![t] = "idle"])
      BY <1>6 DEF PushOk
    <2>2. accepted + 1 \in 1 .. MaxFrames
      BY <2>1, TcpAssumption DEF QInv
    <2>3. f \in Frame
      BY <2>2 DEF Frame
    <2>4. RingOK' /\ queue' \in [Slot -> Frame \cup {NULL}]
      BY <2>1, <2>3, TcpAssumption, EnqueueAppends DEF QInv
    <2>5. /\ pc' = [u \in Threads |-> pc'[u]] /\ pc'[Main] = pc[Main]
          /\ pc'[Tx] = IF pc[Tx] = "wait" THEN "pop" ELSE pc[Tx]
      BY <1>0, <2>1 DEF SignalTx
    <2>6. QED
      BY <2>1, <2>2, <2>4, <2>5 DEF QInv, NoLostWakeup, At
  <1>7. CASE WaitFrame \/ SpuriousWake
    <2>1. UNCHANGED <<queueVars, hand, accepted>>
      BY <1>7 DEF WaitFrame, SpuriousWake, frameVars
    <2>2. /\ pc' = [t \in Threads |-> pc'[t]] /\ pc'[Main] = pc[Main]
          /\ pc[Tx] \in {"pop", "wait"} /\ pc'[Tx] \in {"pop", "wait"}
          /\ pc'[Tx] = "wait" => QueueEmpty
      BY <1>0, <1>7 DEF WaitFrame, SpuriousWake, Goto, At
    <2>3. QED
      BY <2>1, <2>2, QueueUntouched DEF QInv
  <1>8. CASE Pop
    <2>1. /\ pc[Tx] = "pop" /\ ~QueueEmpty /\ hand' = Front /\ Dequeue
          /\ pc' = [pc EXCEPT ![Tx] = "getfd"] /\ accepted' = accepted
      BY <1>8 DEF Pop, At, Goto
    <2>2. Front \in Frame /\ RingOK' /\ queue' \in [Slot -> Frame \cup {NULL}]
      BY <2>1, TcpAssumption, DequeueTakesHead DEF QInv
    <2>3. pc' = [t \in Threads |-> pc'[t]] /\ pc'[Main] = pc[Main] /\ pc'[Tx] = "getfd"
      BY <1>0, <2>1
    <2>4. QED
      BY <2>1, <2>2, <2>3 DEF QInv, NoLostWakeup, At
  <1>9. CASE TxGetFd \/ TxSend \/ TxClose
    <2>1. /\ UNCHANGED <<queue, queue_head, queue_tail, queue_count, accepted>>
          /\ pc[Tx] \in {"getfd", "send", "close"}
      BY <1>9 DEF TxGetFd, TxSend, TxClose, frameVars, queueVars, At
    <2>2. /\ pc' = [t \in Threads |-> pc'[t]] /\ pc'[Main] = pc[Main]
          /\ \/ pc'[Tx] \in {"pop", "close"} /\ hand' = NULL
             \/ pc'[Tx] = "send" /\ pc[Tx] = "getfd" /\ hand' = hand
      BY <1>0, <1>9 DEF TxGetFd, TxSend, TxClose, frameVars, Goto, At, QInv
    <2>3. RingOK'
      BY <2>1 DEF QInv, RingOK, SlotOf, Slot
    <2>4. QED
      BY <2>1, <2>2, <2>3 DEF QInv, NoLostWakeup, At, Slot
  <1>10. CASE UNCHANGED vars
    <2>1. UNCHANGED <<queueVars, hand, accepted, pc>>
      BY <1>10 DEF vars, frameVars
    <2>2. QED
      BY <1>0, <2>1, QueueOtherThread
  <1>11. QED
    BY <1>1, <1>2, <1>3, <1>4, <1>5, <1>6, <1>7, <1>8, <1>9, <1>10 DEF Next

\* comm_tcp.c:100, 109-112: tx never sleeps on a ring that holds a frame.
THEOREM TxIsWoken == Spec => []NoLostWakeup
  <1>1. QInv => NoLostWakeup
    BY DEF QInv
  <1>2. QInv /\ [Next]_vars => QInv'
    BY StepQInv
  <1>3. QED
    BY InitQInv, <1>1, <1>2, PTL DEF Spec

-----------------------------------------------------------------------------
(* CommTcp implements FrameChannel. *)

\* A step that leaves the ring, the frame in hand and the frames written alone is
\* a stuttering step of the channel.
LEMMA ChannelStutters ==
  ASSUME UNCHANGED <<queueVars, hand, sent>>
  PROVE  UNCHANGED Channel!chanVars
  <1>1. UNCHANGED <<queue, queue_head, queue_tail, queue_count, hand, sent>>
    BY DEF queueVars
  <1>2. Contents' = Contents
    BY <1>1 DEF Contents, SlotOf
  <1>3. QED
    BY <1>1, <1>2 DEF Channel!chanVars, InFlight

\* A frame put in the ring is appended to the frames in flight.
LEMMA PushAccepts ==
  ASSUME QInv, NEW t \in Senders, PushOk(t)
  PROVE  Channel!Accept
  <1> DEFINE f == [id |-> accepted + 1, from |-> t]
             H == IF hand = NULL THEN <<>> ELSE <<hand>>
  <1>1. Enqueue(f) /\ ~QueueFull /\ UNCHANGED <<hand, sent>> /\ accepted < MaxFrames
    BY DEF PushOk
  <1>2. accepted + 1 \in 1 .. MaxFrames
    BY <1>1, TcpAssumption DEF QInv
  <1>3. f \in Frame
    BY <1>2 DEF Frame
  <1>4. Contents' = Append(Contents, f)
    BY <1>1, <1>3, TcpAssumption, EnqueueAppends DEF QInv
  <1>5. Contents \in Seq(Frame) /\ Len(Contents) = queue_count
    BY TcpAssumption, ContentsType DEF QInv
  <1>6. H \in Seq(Frame) /\ Len(H) \in 0 .. 1
    BY DEF QInv
  <1>7. Len(InFlight) <= Capacity
    <2>1. Len(InFlight) = Len(H) + queue_count
      BY <1>5, <1>6, ConcatProperties DEF InFlight
    <2>2. queue_count < Capacity
      BY <1>1, CapacityAssumption DEF QInv, RingOK, QueueFull
    <2>3. QED
      BY <2>1, <2>2, <1>6, CapacityAssumption DEF QInv, RingOK
  <1>8. InFlight' = Append(InFlight, f)
    <2>1. InFlight' = H \o Append(Contents, f)
      BY <1>1, <1>4 DEF InFlight
    <2>2. Append(Contents, f) = Contents \o <<f>> /\ <<f>> \in Seq(Frame)
      BY <1>3, <1>5, AppendIsConcat
    <2>3. H \o (Contents \o <<f>>) = (H \o Contents) \o <<f>>
      BY <1>5, <1>6, <2>2, ConcatAssociative
    <2>4. H \o Contents \in Seq(Frame)
      BY <1>5, <1>6, ConcatProperties
    <2>5. Append(H \o Contents, f) = (H \o Contents) \o <<f>>
      BY <1>3, <2>4, AppendIsConcat
    <2>6. H \o Append(Contents, f) = Append(H \o Contents, f)
      BY <2>2, <2>3, <2>5
    <2>7. QED
      BY <2>1, <2>6 DEF InFlight
  <1>9. QED
    BY <1>1, <1>3, <1>7, <1>8 DEF Channel!Accept

\* Taking a frame from the ring moves it, and leaves the frames in flight as they are.
LEMMA PopStutters ==
  ASSUME QInv, Pop
  PROVE  UNCHANGED Channel!chanVars
  <1>1. hand = NULL /\ ~QueueEmpty /\ hand' = Front /\ Dequeue /\ sent' = sent
    BY DEF Pop, At, QInv
  <1>2. /\ Front \in Frame /\ Front = Head(Contents)
        /\ Contents # <<>> /\ Contents' = Tail(Contents)
    BY <1>1, TcpAssumption, DequeueTakesHead DEF QInv
  <1>3. Contents \in Seq(Frame)
    BY TcpAssumption, ContentsType DEF QInv
  <1>4. InFlight = Contents
    BY <1>1, <1>3, ConcatEmptySeq DEF InFlight
  <1>5. InFlight' = <<Head(Contents)>> \o Tail(Contents)
    BY <1>1, <1>2, TcpAssumption DEF InFlight
  <1>6. QED
    BY <1>1, <1>2, <1>3, <1>4, <1>5, HeadThenTail DEF Channel!chanVars

\* The frame that leaves the hands of tx is the oldest in flight.
LEMMA TriedIsOldest ==
  ASSUME QInv, pc[Tx] \in {"getfd", "send"}, hand' = NULL, UNCHANGED queueVars,
         sent' = Append(sent, hand) \/ sent' = sent
  PROVE  Channel!Send \/ Channel!Lose
  <1>1. hand \in Frame /\ hand # NULL
    BY TcpAssumption DEF QInv
  <1>2. Contents \in Seq(Frame)
    BY TcpAssumption, ContentsType DEF QInv
  <1>3. InFlight = <<hand>> \o Contents
    BY <1>1 DEF InFlight
  <1>4. Contents' = Contents
    BY DEF queueVars, Contents, SlotOf
  <1>5. InFlight' = Contents
    BY <1>2, <1>4, ConcatEmptySeq DEF InFlight
  <1>6. InFlight # <<>> /\ Head(InFlight) = hand /\ Tail(InFlight) = Contents
    BY <1>1, <1>2, <1>3, PartsOfCons
  <1>7. QED
    BY <1>5, <1>6 DEF Channel!Send, Channel!Lose

\* comm_tcp.c:77-128, 252-275: the service is a bounded FIFO channel.
THEOREM ImplementsChannel == Spec => FifoChannel
  <1>1. Init => Channel!ChanInit
    <2> SUFFICES ASSUME Init PROVE Channel!ChanInit
      OBVIOUS
    <2>1. hand = NULL /\ sent = <<>> /\ queue_count = 0
      BY DEF Init, QueueInit
    <2>2. Contents = <<>>
      BY <2>1 DEF Contents
    <2>3. QED
      BY <2>1, <2>2 DEF Channel!ChanInit, InFlight
  <1>2. QInv /\ [Next]_vars => QInv'
    BY StepQInv
  <1>3. QInv /\ [Next]_vars => [Channel!ChanNext]_(Channel!chanVars)
    <2> SUFFICES ASSUME QInv, [Next]_vars
                 PROVE  Channel!ChanNext \/ UNCHANGED Channel!chanVars
      OBVIOUS
    <2>1. CASE \E t \in Senders : PushOk(t)
      BY <2>1, PushAccepts DEF Channel!ChanNext
    <2>2. CASE Pop
      BY <2>2, PopStutters
    <2>3. CASE TxGetFd \/ TxSend
      <3>1. /\ pc[Tx] \in {"getfd", "send"} /\ UNCHANGED queueVars
            /\ \/ hand' = NULL /\ (sent' = Append(sent, hand) \/ sent' = sent)
               \/ UNCHANGED <<hand, sent>>
        BY <2>3 DEF TxGetFd, TxSend, At
      <3>2. QED
        BY <3>1, TriedIsOldest, ChannelStutters DEF Channel!ChanNext
    <2>4. CASE ~(\E t \in Senders : PushOk(t)) /\ ~Pop /\ ~TxGetFd /\ ~TxSend
      <3>1. UNCHANGED <<queueVars, hand, sent>>
        BY <2>4 DEF Next, vars, frameVars, InitAccept, InitRx, InitTx, Create, CreateServer,
             AcceptClient, PublishClient, PeerClose, RxGetFd, RxRecv, RxReturn, RxClose, BeginSend,
             PushFail, WaitFrame, SpuriousWake, TxClose
      <3>2. QED
        BY <3>1, ChannelStutters
    <2>5. QED
      BY <2>1, <2>2, <2>3, <2>4
  <1>4. QED
    BY InitQInv, <1>1, <1>2, <1>3, PTL DEF Spec, FifoChannel, Channel!ChanSpec
==============================================================================
