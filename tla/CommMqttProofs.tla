---------------------------- MODULE CommMqttProofs ----------------------------
(***************************************************************************)
(* Proofs about CommMqtt, for every number of connections, descriptors and *)
(* other senders.                                                          *)
(***************************************************************************)
EXTENDS CommMqtt, TLAPS

(***************************************************************************)
(* The inductive invariant.  Only the tx thread makes a connection and     *)
(* puts it in the context, and it does both only while there is none; so   *)
(* what it puts there replaces nothing, although rx may clear the context  *)
(* at any time.                                                            *)
(***************************************************************************)
ShapeInv == /\ pc = [t \in Threads |-> pc[t]]
            /\ my_fd = [t \in Workers |-> my_fd[t]]
            /\ files = [f \in Fds |-> files[f]]
            /\ fd \in Fds \cup {NoFd}

ConnectInv == /\ pc[Main] \in {"init", "init_tx"} => pc[Tx] = "off"
              /\ pc[Tx] \in {"off", "connect", "publish_fd"} => fd = NoFd
              /\ pc[Tx] = "publish_fd" => my_fd[Tx] \in Fds /\ files[my_fd[Tx]] \in Conns

IInv == ShapeInv /\ ConnectInv /\ FdIsOwn /\ OwnedFds

-----------------------------------------------------------------------------
\* The thread names are distinct, and a connection is neither a free descriptor nor a log.
LEMMA NamesDistinct ==
  /\ Main \in Threads /\ Rx \in Threads /\ Tx \in Threads /\ Senders \subseteq Threads
  /\ Rx \in Workers /\ Tx \in Workers /\ Senders \subseteq Workers
  /\ Main # Rx /\ Main # Tx /\ Rx # Tx
  /\ \A t \in Senders : t # Main /\ t # Tx /\ t # Rx
  /\ NoConn \notin Conns /\ LogFile \notin Conns /\ NoFd \notin Fds
  BY MqttAssumption DEF Threads, Workers, NoConn, LogFile, Conns, NoFd, Fds

\* The invariant holds initially.
LEMMA InitInv == Init => IInv
  BY NamesDistinct DEF Init, IInv, ShapeInv, ConnectInv, FdIsOwn, OwnedFds, At

\* A step that moves one thread, and leaves the context and the descriptors alone, keeps the
\* invariant, if it is not the tx thread that comes from or gets to a connect.
LEMMA NothingMade ==
  ASSUME IInv, UNCHANGED <<ctxVars, files>>,
         pc' = [t \in Threads |-> pc'[t]],
         my_fd' = [t \in Workers |-> my_fd'[t]], my_fd'[Tx] = my_fd[Tx],
         pc'[Main] \in {"init", "init_tx"} => pc'[Tx] = "off",
         pc'[Tx] # pc[Tx] =>
           /\ pc[Tx] # "publish_fd" /\ pc'[Tx] # "publish_fd"
           /\ pc'[Tx] \in {"off", "connect"} => fd = NoFd
  PROVE  IInv'
  <1>1. UNCHANGED <<fd, connected, files>>
    BY DEF ctxVars
  <1>2. ShapeInv'
    BY <1>1 DEF IInv, ShapeInv
  <1>3. ConnectInv'
    BY <1>1 DEF IInv, ConnectInv
  <1>4. FdIsOwn' /\ OwnedFds'
    BY <1>1 DEF IInv, FdIsOwn, OwnedFds, At
  <1>5. QED
    BY <1>2, <1>3, <1>4 DEF IInv

\* Dropping the connection keeps the invariant, whichever thread does it: it is open, and
\* nothing but the context holds it.
LEMMA DisconnectInv ==
  ASSUME IInv, Disconnect, my_fd' = my_fd,
         pc' = [t \in Threads |-> pc'[t]], pc'[Main] = pc[Main],
         \/ pc'[Tx] = pc[Tx]
         \/ pc[Tx] = "drop" /\ pc'[Tx] = "connect"
  PROVE  IInv'
  <1> USE NamesDistinct
  <1>1. /\ fd' = NoFd /\ ~connected'
        /\ files' = IF fd = NoFd THEN files ELSE [files EXCEPT ![fd] = NoConn]
    BY DEF Disconnect
  <1>2. \A f \in Fds : files'[f] = IF f = fd THEN NoConn ELSE files[f]
    BY <1>1 DEF IInv, ShapeInv
  <1>3. ShapeInv'
    BY <1>1 DEF IInv, ShapeInv
  <1>4. ConnectInv'
    BY <1>1, <1>2 DEF IInv, ShapeInv, ConnectInv
  <1>5. FdIsOwn' /\ OwnedFds'
    BY <1>1, <1>2 DEF IInv, FdIsOwn, OwnedFds, At
  <1>6. QED
    BY <1>3, <1>4, <1>5 DEF IInv

\* Other files of the program come and go in descriptors no connection has.
LEMMA LogInv ==
  ASSUME IInv, OpenLog \/ CloseLog
  PROVE  IInv'
  <1> USE NamesDistinct
  <1>1. UNCHANGED <<pc, fd, connected, my_fd>>
    BY DEF OpenLog, CloseLog, ctxVars
  <1>2. PICK f \in Fds : /\ files[f] \notin Conns
                         /\ \/ files' = [files EXCEPT ![f] = LogFile]
                            \/ files' = [files EXCEPT ![f] = NoConn]
    BY DEF OpenLog, CloseLog, FreeFds
  <1>3. /\ files' = [g \in Fds |-> files'[g]]
        /\ \A g \in Fds : g # f => files'[g] = files[g]
        /\ files'[f] \notin Conns
    BY <1>2 DEF IInv, ShapeInv
  <1>4. ShapeInv' /\ ConnectInv'
    BY <1>1, <1>2, <1>3 DEF IInv, ShapeInv, ConnectInv
  <1>5. FdIsOwn' /\ OwnedFds'
    BY <1>1, <1>2, <1>3 DEF IInv, ShapeInv, FdIsOwn, OwnedFds, At
  <1>6. QED
    BY <1>4, <1>5 DEF IInv

\* Every step keeps the invariant.
LEMMA StepInv ==
  ASSUME IInv, [Next]_vars
  PROVE  IInv'
  <1> USE NamesDistinct
  <1>0. /\ pc = [t \in Threads |-> pc[t]] /\ my_fd = [t \in Workers |-> my_fd[t]]
        /\ pc[Main] \in {"init", "init_tx"} => pc[Tx] = "off"
    BY DEF IInv, ShapeInv, ConnectInv
  <1>1. CASE InitRx \/ InitTx
    <2>1. UNCHANGED <<ctxVars, files, my_fd>>
      BY <1>1 DEF InitRx, InitTx, Create
    <2>2. \/ pc' = [pc EXCEPT ![Main] = "init_tx", ![Rx] = "get"] /\ pc[Main] = "init"
          \/ pc' = [pc EXCEPT ![Main] = "done", ![Tx] = "connect"] /\ pc[Main] = "init_tx"
          \/ pc' = [pc EXCEPT ![Main] = "done"]
      BY <1>1 DEF InitRx, InitTx, Create, At
    <2>3. /\ pc' = [t \in Threads |-> pc'[t]]
          /\ pc'[Main] \in {"init", "init_tx"} => pc'[Tx] = "off"
          /\ pc'[Tx] # pc[Tx] => pc[Tx] = "off" /\ pc'[Tx] = "connect"
      BY <1>0, <2>2
    <2>4. pc[Tx] = "off" => fd = NoFd
      BY DEF IInv, ConnectInv
    <2>5. QED
      BY <1>0, <2>1, <2>3, <2>4, NothingMade
  <1>2. CASE RxGet \/ RxReceive \/ RxReceived
    <2>1. UNCHANGED <<ctxVars, files>>
      BY <1>2 DEF RxGet, RxReceive, RxReceived
    <2>2. \E l : pc' = [pc EXCEPT ![Rx] = l]
      BY <1>2 DEF RxGet, RxReceive, RxReceived, Get, Receive, Received, Goto
    <2>3. my_fd' = my_fd \/ \E f : my_fd' = [my_fd EXCEPT ![Rx] = f]
      BY <1>2 DEF RxGet, RxReceive, RxReceived, Get
    <2>4. /\ pc' = [t \in Threads |-> pc'[t]] /\ pc'[Tx] = pc[Tx] /\ pc'[Main] = pc[Main]
          /\ my_fd' = [t \in Workers |-> my_fd'[t]] /\ my_fd'[Tx] = my_fd[Tx]
      BY <1>0, <2>2, <2>3
    <2>5. QED
      BY <1>0, <2>1, <2>4, NothingMade
  <1>3. CASE RxLost
    <2>1. Disconnect /\ my_fd' = my_fd /\ pc' = [pc EXCEPT ![Rx] = "get"]
      BY <1>3 DEF RxLost, Goto
    <2>2. QED
      BY <1>0, <2>1, DisconnectInv
  <1>4. CASE TxConnect
    <2>1. PICK f \in Fds, c \in Conns :
            /\ files[f] = NoConn
            /\ files' = [files EXCEPT ![f] = c]
            /\ my_fd' = [my_fd EXCEPT ![Tx] = f]
            /\ pc' = [pc EXCEPT ![Tx] = "publish_fd"]
      BY <1>4 DEF TxConnect, FreeFds, FreeConns, Goto
    <2>2. UNCHANGED <<fd, connected>> /\ fd = NoFd /\ pc[Tx] = "connect"
      BY <1>4 DEF TxConnect, ctxVars, At, IInv, ConnectInv
    <2>3. /\ \A g \in Fds : files'[g] = IF g = f THEN c ELSE files[g]
          /\ my_fd'[Tx] = f /\ pc'[Tx] = "publish_fd" /\ pc'[Main] = pc[Main]
      BY <1>0, <2>1 DEF IInv, ShapeInv
    <2>4. ShapeInv'
      BY <1>0, <2>1, <2>2 DEF IInv, ShapeInv
    <2>5. ConnectInv'
      BY <2>1, <2>2, <2>3 DEF IInv, ConnectInv
    <2>6. FdIsOwn' /\ OwnedFds'
      BY <2>1, <2>2, <2>3 DEF IInv, FdIsOwn, OwnedFds, At
    <2>7. QED
      BY <2>4, <2>5, <2>6 DEF IInv
  <1>5. CASE TxPublishFd
    <2>1. /\ fd' = my_fd[Tx] /\ connected' /\ pc[Tx] = "publish_fd"
          /\ pc' = [pc EXCEPT ![Tx] = "hello"] /\ UNCHANGED <<my_fd, files>>
      BY <1>5 DEF TxPublishFd, At, Goto
    <2>2. my_fd[Tx] \in Fds /\ files[my_fd[Tx]] \in Conns /\ fd = NoFd
      BY <2>1 DEF IInv, ConnectInv
    <2>3. ShapeInv' /\ ConnectInv'
      BY <1>0, <2>1, <2>2 DEF IInv, ShapeInv, ConnectInv
    <2>4. FdIsOwn' /\ OwnedFds'
      BY <2>1, <2>2 DEF IInv, FdIsOwn, OwnedFds, At
    <2>5. QED
      BY <2>3, <2>4 DEF IInv
  <1>6. CASE TxHello \/ TxReceive \/ TxReceived \/ TxPublish \/ TxWrite \/ TxPing
    <2>1. UNCHANGED <<ctxVars, files, my_fd>>
      BY <1>6 DEF TxHello, TxReceive, TxReceived, TxPublish, TxWrite, TxPing
    <2>2. /\ \E l \in {"connack", "drop", "blocked", "publish", "write", "ping"} :
               pc' = [pc EXCEPT ![Tx] = l]
          /\ pc[Tx] \in {"hello", "connack", "blocked", "publish", "write", "ping"}
      BY <1>6 DEF TxHello, TxReceive, TxReceived, TxPublish, TxWrite, TxPing, Receive, Received,
                  Write, Goto, At
    <2>3. /\ pc' = [t \in Threads |-> pc'[t]] /\ pc'[Main] = pc[Main]
          /\ pc'[Tx] \in {"connack", "drop", "blocked", "publish", "write", "ping"}
      BY <1>0, <2>2
    <2>4. QED
      BY <1>0, <2>1, <2>2, <2>3, NothingMade
  <1>7. CASE TxDrop
    <2>1. /\ Disconnect /\ my_fd' = my_fd /\ pc' = [pc EXCEPT ![Tx] = "connect"]
          /\ pc[Tx] = "drop"
      BY <1>7 DEF TxDrop, Goto, At
    <2>2. QED
      BY <1>0, <2>1, DisconnectInv
  <1>8. ASSUME NEW t \in Senders, SendGet(t) \/ SendWrite(t) PROVE IInv'
    <2>1. UNCHANGED <<ctxVars, files>>
      BY <1>8 DEF SendGet, SendWrite
    <2>2. \E l : pc' = [pc EXCEPT ![t] = l]
      BY <1>8 DEF SendGet, SendWrite, Get, Write, Goto
    <2>3. my_fd' = my_fd \/ \E f : my_fd' = [my_fd EXCEPT ![t] = f]
      BY <1>8 DEF SendGet, SendWrite, Get
    <2>4. /\ pc' = [u \in Threads |-> pc'[u]] /\ pc'[Tx] = pc[Tx] /\ pc'[Main] = pc[Main]
          /\ my_fd' = [u \in Workers |-> my_fd'[u]] /\ my_fd'[Tx] = my_fd[Tx]
      BY <1>0, <2>2, <2>3
    <2>5. QED
      BY <1>0, <2>1, <2>4, NothingMade
  <1>9. ASSUME NEW c \in Conns, BrokerAnswers(c) \/ BrokerCloses(c) PROVE IInv'
    <2>1. UNCHANGED <<ctxVars, files, my_fd, pc>>
      BY <1>9 DEF BrokerAnswers, BrokerCloses
    <2>2. QED
      BY <1>0, <2>1, NothingMade
  <1>10. CASE OpenLog \/ CloseLog
    BY <1>10, LogInv
  <1>11. CASE UNCHANGED vars
    <2>1. UNCHANGED <<ctxVars, files, my_fd, pc>>
      BY <1>11 DEF vars
    <2>2. QED
      BY <1>0, <2>1, NothingMade
  <1>12. QED
    BY <1>1, <1>2, <1>3, <1>4, <1>5, <1>6, <1>7, <1>8, <1>9, <1>10, <1>11 DEF Next, RxNext, TxNext

\* comm_mqtt.c:103-114, 257-272, 352, 392: what the threads close as their connection is
\* one, and no file of another part of the program.
THEOREM NoForeignFileClosed == Spec => []FdIsOwn
  <1>1. IInv => FdIsOwn
    BY DEF IInv
  <1>2. IInv /\ [Next]_vars => IInv'
    BY StepInv
  <1>3. QED
    BY InitInv, <1>1, <1>2, PTL DEF Spec

\* comm_mqtt.c:103-114, 345-347: no connection is left open without an owner.
THEOREM NoConnectionLeaks == Spec => []OwnedFds
  <1>1. IInv => OwnedFds
    BY DEF IInv
  <1>2. IInv /\ [Next]_vars => IInv'
    BY StepInv
  <1>3. QED
    BY InitInv, <1>1, <1>2, PTL DEF Spec
==============================================================================
