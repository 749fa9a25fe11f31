------------------------------- MODULE CommTcp -------------------------------
(***************************************************************************)
(* The TCP service (core/src/comm_tcp.c): an accept thread that replaces   *)
(* the client whenever a new one connects, an rx thread that reads from    *)
(* the client, a tx thread that writes queued frames to it.  All three     *)
(* find the client by its descriptor number, read under state_mutex and    *)
(* used after the mutex is released; rx and tx close "the client" when a   *)
(* call on theirs has failed.  The kernel gives a new connection the       *)
(* lowest number that is free, so numbers come back.                       *)
(*                                                                         *)
(* As in CommUdp, one action is one critical section or one call, running  *)
(* is always 1, and the queue is RingQueue.  A send of a whole frame is    *)
(* one step: a blocking socket splits it only when a signal interrupts it. *)
(* A send to a reset connection may instead end the process by SIGPIPE,    *)
(* which nothing catches; then all behaviour simply stops.                 *)
(***************************************************************************)
EXTENDS RingQueue

CONSTANTS Senders,    \* threads that call comm_tcp_send
          Main, Acceptor, Rx, Tx,
          MaxFrames,  \* bound: frames accepted in a behaviour (then malloc fails)
          MaxConns,   \* bound: clients that connect in a behaviour
          MaxFds      \* the number of descriptors clients can have at a time

NoFd == 0             \* -1
NoConn == 0

Fds == 1 .. MaxFds
Conns == 1 .. MaxConns
Threads == Senders \cup {Main, Acceptor, Rx, Tx}

Frame == [id: 1 .. MaxFrames, from: Senders]

ASSUME TcpAssumption ==
  /\ MaxFrames \in Nat /\ MaxConns \in Nat /\ MaxFds \in Nat \ {0}
  /\ {Main, Acceptor, Rx, Tx} \cap Senders = {}
  /\ Main \notin {Acceptor, Rx, Tx} /\ Acceptor \notin {Rx, Tx} /\ Rx # Tx
  /\ NULL \notin Frame

VARIABLES pc,         \* where each thread is
          files,      \* the kernel's table: the connection a descriptor is, or NoConn
          conns,      \* connections made so far
          peer_open,  \* connections whose peer has not closed them
          client_fd,  \* g_comm_tcp_ctx.client_fd
          new_fd,     \* accept: its local client_fd until it is published
          rx_fd,      \* rx: its local copy of client_fd
          rx_conn,    \* rx: the connection a blocked recv holds on to
          tx_fd,      \* tx: its local copy of client_fd
          hand,       \* tx: the frame popped
          accepted,   \* history: frames put in the ring so far
          sent        \* history: frames written, in order

clientVars == <<files, conns, peer_open, client_fd, new_fd>>
frameVars == <<hand, accepted, sent>>
vars == <<queueVars, pc, clientVars, rx_fd, rx_conn, tx_fd, frameVars>>

At(t, label) == pc[t] = label
Goto(t, label) == pc' = [pc EXCEPT ![t] = label]

Init == /\ QueueInit
        /\ pc = [t \in Threads |-> IF t = Main THEN "init"
                                     ELSE IF t \in Senders THEN "idle" ELSE "off"]
        /\ files = [f \in Fds |-> NoConn]
        /\ conns = 0
        /\ peer_open = {}
        /\ client_fd = NoFd /\ new_fd = NoFd
        /\ rx_fd = NoFd /\ rx_conn = NoConn /\ tx_fd = NoFd
        /\ hand = NULL
        /\ accepted = 0
        /\ sent = <<>>

-----------------------------------------------------------------------------
(* comm_tcp_init: the threads one after the other; a failure leaves the     *)
(* ones already made running                                                *)

Create(from, t, first, then) ==
  /\ At(Main, from)
  /\ \/ pc' = [pc EXCEPT ![Main] = then, ![t] = first]
     \/ Goto(Main, "done")
  /\ UNCHANGED <<queueVars, clientVars, rx_fd, rx_conn, tx_fd, frameVars>>

InitAccept == Create("init", Acceptor, "create", "init_rx")
InitRx == Create("init_rx", Rx, "getfd", "init_tx")
InitTx == Create("init_tx", Tx, "pop", "done")

-----------------------------------------------------------------------------
(* accept thread *)

CreateServer ==
  /\ At(Acceptor, "create")
  /\ Goto(Acceptor, "accept") \/ Goto(Acceptor, "dead")
  /\ UNCHANGED <<queueVars, clientVars, rx_fd, rx_conn, tx_fd, frameVars>>

FreeFds == {f \in Fds : files[f] = NoConn}

\* accept; without a free descriptor it fails and is called again
AcceptClient ==
  /\ At(Acceptor, "accept")
  /\ conns < MaxConns
  /\ \E f \in FreeFds : /\ \A g \in FreeFds : f <= g
                        /\ new_fd' = f
                        /\ files' = [files EXCEPT ![f] = conns + 1]
  /\ conns' = conns + 1
  /\ peer_open' = peer_open \cup {conns + 1}
  /\ Goto(Acceptor, "publish")
  /\ UNCHANGED <<queueVars, client_fd, rx_fd, rx_conn, tx_fd, frameVars>>

Closed(f) == IF f = NoFd THEN files ELSE [files EXCEPT ![f] = NoConn]

\* Mutant of PublishClient: the client that is replaced is not closed.
PublishClient_leaking ==
  /\ At(Acceptor, "publish")
  /\ client_fd' = new_fd
  /\ new_fd' = NoFd
  /\ Goto(Acceptor, "accept")
  /\ UNCHANGED <<queueVars, files, conns, peer_open, rx_fd, rx_conn, tx_fd, frameVars>>

PublishClient ==
  /\ At(Acceptor, "publish")
  /\ files' = Closed(client_fd)
  /\ client_fd' = new_fd
  /\ new_fd' = NoFd
  /\ Goto(Acceptor, "accept")
  /\ UNCHANGED <<queueVars, conns, peer_open, rx_fd, rx_conn, tx_fd, frameVars>>

\* the peer closes its end: recv returns 0, send fails
PeerClose(c) ==
  /\ c \in peer_open
  /\ peer_open' = peer_open \ {c}
  /\ UNCHANGED <<queueVars, pc, files, conns, client_fd, new_fd, rx_fd, rx_conn, tx_fd, frameVars>>

-----------------------------------------------------------------------------
(* rx thread *)

\* Mutant of CloseClient: the number stays in client_fd.
CloseClient_keeping == /\ files' = Closed(client_fd)
                       /\ UNCHANGED <<client_fd, conns, peer_open, new_fd>>

\* comm_tcp_close_client: the client of now, whichever one failed
CloseClient == /\ files' = Closed(client_fd)
               /\ client_fd' = NoFd
               /\ UNCHANGED <<conns, peer_open, new_fd>>

\* comm_tcp_get_client_fd; without a client, sleep and look again
RxGetFd == /\ At(Rx, "getfd")
           /\ client_fd # NoFd
           /\ rx_fd' = client_fd
           /\ Goto(Rx, "recv")
           /\ UNCHANGED <<queueVars, clientVars, rx_conn, tx_fd, frameVars>>

\* recv begins: a number closed meanwhile is an error; else the call keeps the
\* connection even if its number is closed or reused while it blocks
RxRecv == /\ At(Rx, "recv")
          /\ rx_conn' = files[rx_fd]
          /\ Goto(Rx, IF files[rx_fd] = NoConn THEN "close" ELSE "blocked")
          /\ UNCHANGED <<queueVars, clientVars, rx_fd, tx_fd, frameVars>>

\* recv ends: with data, which is only printed, or because the peer closed
RxReturn == /\ At(Rx, "blocked")
            /\ Goto(Rx, IF rx_conn \in peer_open THEN "getfd" ELSE "close")
            /\ rx_conn' = NoConn
            /\ rx_fd' = NoFd
            /\ UNCHANGED <<queueVars, clientVars, tx_fd, frameVars>>

RxClose == /\ At(Rx, "close")
           /\ CloseClient
           /\ rx_fd' = NoFd
           /\ Goto(Rx, "getfd")
           /\ UNCHANGED <<queueVars, rx_conn, tx_fd, frameVars>>

-----------------------------------------------------------------------------
(* comm_tcp_send *)

BeginSend(t) == /\ At(t, "idle")
                /\ Goto(t, "push")
                /\ UNCHANGED <<queueVars, clientVars, rx_fd, rx_conn, tx_fd, frameVars>>

\* Mutant of SignalTx: the push does not signal.
SignalTx_missing(p) == p

\* pthread_cond_signal
SignalTx(p) == IF p[Tx] = "wait" THEN [p EXCEPT ![Tx] = "pop"] ELSE p

PushOk(t) == /\ At(t, "push")
             /\ ~QueueFull
             /\ accepted < MaxFrames
             /\ Enqueue([id |-> accepted + 1, from |-> t])
             /\ accepted' = accepted + 1
             /\ pc' = SignalTx([pc EXCEPT ![t] = "idle"])
             /\ UNCHANGED <<clientVars, rx_fd, rx_conn, tx_fd, hand, sent>>

PushFail(t) == /\ At(t, "push")                  \* EAGAIN, or malloc failed
               /\ Goto(t, "idle")
               /\ UNCHANGED <<queueVars, clientVars, rx_fd, rx_conn, tx_fd, frameVars>>

-----------------------------------------------------------------------------
(* tx thread *)

WaitFrame == /\ At(Tx, "pop")
             /\ QueueEmpty
             /\ Goto(Tx, "wait")
             /\ UNCHANGED <<queueVars, clientVars, rx_fd, rx_conn, tx_fd, frameVars>>

SpuriousWake == /\ At(Tx, "wait")
                /\ Goto(Tx, "pop")
                /\ UNCHANGED <<queueVars, clientVars, rx_fd, rx_conn, tx_fd, frameVars>>

Pop == /\ At(Tx, "pop")
       /\ ~QueueEmpty
       /\ hand' = Front
       /\ Dequeue
       /\ Goto(Tx, "getfd")
       /\ UNCHANGED <<clientVars, rx_fd, rx_conn, tx_fd, accepted, sent>>

\* without a client the frame is freed
TxGetFd == /\ At(Tx, "getfd")
           /\ tx_fd' = client_fd
           /\ IF client_fd = NoFd THEN Goto(Tx, "pop") /\ hand' = NULL
                                  ELSE Goto(Tx, "send") /\ UNCHANGED hand
           /\ UNCHANGED <<queueVars, clientVars, rx_fd, rx_conn, accepted, sent>>

\* comm_tcp_write_all to whatever connection the number is now; the kernel takes bytes
\* until it knows that the peer is gone
TxSend == /\ At(Tx, "send")
          /\ \/ /\ files[tx_fd] # NoConn
                /\ sent' = Append(sent, hand)
                /\ Goto(Tx, "pop")
             \/ /\ files[tx_fd] \notin peer_open
                /\ Goto(Tx, "close")
                /\ UNCHANGED sent
          /\ hand' = NULL
          /\ tx_fd' = NoFd
          /\ UNCHANGED <<queueVars, clientVars, rx_fd, rx_conn, accepted>>

TxClose == /\ At(Tx, "close")
           /\ CloseClient
           /\ Goto(Tx, "pop")
           /\ UNCHANGED <<queueVars, rx_fd, rx_conn, tx_fd, frameVars>>

-----------------------------------------------------------------------------
Next == \/ InitAccept \/ InitRx \/ InitTx
        \/ CreateServer \/ AcceptClient \/ PublishClient
        \/ (\E c \in Conns : PeerClose(c))
        \/ RxGetFd \/ RxRecv \/ RxReturn \/ RxClose
        \/ (\E t \in Senders : BeginSend(t) \/ PushOk(t) \/ PushFail(t))
        \/ WaitFrame \/ SpuriousWake \/ Pop \/ TxGetFd \/ TxSend \/ TxClose

Spec == Init /\ [][Next]_vars

-----------------------------------------------------------------------------
(* Properties *)

\* The number in client_fd is an open descriptor, so close_client and the accept thread
\* never close a number twice, which by then could be someone else's, although three
\* threads close it (comm_tcp.c:130-139, 311-317).
ClientFdOpen == client_fd # NoFd => files[client_fd] # NoConn

\* No descriptor leaks: an open connection is the client or about to become it, however
\* connects, failures and disconnections interleave (comm_tcp.c:300-317).
OwnedFds == \A f \in Fds : files[f] # NoConn => f \in {client_fd, new_fd}

\* The tx thread is never left asleep with a frame queued (comm_tcp.c:100, 109-112).
NoLostWakeup == At(Tx, "wait") => QueueEmpty

InFlight == (IF hand = NULL THEN <<>> ELSE <<hand>>) \o Contents

Channel == INSTANCE FrameChannel WITH inflight <- InFlight, out <- sent

\* The ring and the tx thread are a bounded FIFO channel also here: a frame is written
\* at most once, in the order of acceptance, whatever happens to the clients
\* (comm_tcp.c:77-128, 252-275).
FifoChannel == Channel!ChanSpec
==============================================================================
