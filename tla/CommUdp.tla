------------------------------- MODULE CommUdp -------------------------------
(***************************************************************************)
(* The UDP service (core/src/comm_udp.c) with the threads that meet in it: *)
(* main starts it, its rx thread owns the socket, remembers the peer that  *)
(* spoke last and runs the request handler, which may answer; the gnss     *)
(* thread sends positions and ephemerides whenever it has some; the tx     *)
(* thread takes frames from the ring and sends them.                       *)
(*                                                                         *)
(* One action is one critical section, or one call outside any lock.  No   *)
(* critical section of this file blocks while it holds a mutex, except     *)
(* pthread_cond_wait, which gives queue_mutex up; so a section is one      *)
(* step and the mutexes need no variables.                                 *)
(*                                                                         *)
(* The code's "running" is set once, before the threads exist, and cleared *)
(* nowhere, so its tests are all true and the code after them is dead.     *)
(***************************************************************************)
EXTENDS RingQueue

CONSTANTS Peers,      \* socket addresses datagrams come from
          Gnss,       \* threads other than rx that call comm_udp_send
          Main, Rx, Tx,
          NoPeer,     \* last_peer_valid = 0; no request being answered
          MaxFrames   \* bound: frames accepted in a behaviour (then malloc fails)

NoFd == 0
ServerFd == 1

Senders == Gnss \cup {Rx}

Threads == Senders \cup {Main, Tx}

\* from: the thread that built it; req: the peer it answers, or NoPeer;
\* peer: the destination recorded in the queue slot.  id and req are history.
Frame == [id: 1 .. MaxFrames, from: Senders, req: Peers \cup {NoPeer}, peer: Peers]

ASSUME UdpAssumption ==
  /\ MaxFrames \in Nat
  /\ NoPeer \notin Peers
  /\ Rx \notin Gnss \cup {Main, Tx}
  /\ Main \notin Gnss \cup {Tx}
  /\ Tx \notin Gnss
  /\ NULL \notin Frame

VARIABLES pc,         \* where each thread is
          fd,         \* g_comm_udp_ctx.fd
          last_peer,  \* g_comm_udp_ctx.last_peer, NoPeer while not valid
          req,        \* rx: source of the datagram it handles; others NoPeer
          dest,       \* the local copy of last_peer in comm_udp_send
          hand,       \* tx: the frame popped
          hand_fd,    \* tx: the local copy of fd
          accepted,   \* history: frames put in the ring so far
          sent        \* history: frames sendto took, in order

localVars == <<req, dest, hand, hand_fd>>
vars == <<queueVars, pc, fd, last_peer, localVars, accepted, sent>>

Goto(t, label) == pc' = [pc EXCEPT ![t] = label]

At(t, label) == pc[t] = label

Home(t) == IF t = Rx THEN "recv" ELSE "idle"

Init == /\ QueueInit
        /\ pc = [t \in Threads |->
                   IF t = Main THEN "init" ELSE IF t \in Gnss THEN "idle" ELSE "off"]
        /\ fd = NoFd
        /\ last_peer = NoPeer
        /\ req = [t \in Senders |-> NoPeer]
        /\ dest = [t \in Senders |-> NoPeer]
        /\ hand = NULL
        /\ hand_fd = NoFd
        /\ accepted = 0
        /\ sent = <<>>

-----------------------------------------------------------------------------
(* main: comm_udp_init.  The gnss threads already run. *)

InitRx == /\ At(Main, "init")
          /\ \/ pc' = [pc EXCEPT ![Main] = "init_tx", ![Rx] = "create"]
             \/ Goto(Main, "done")                \* pthread_create failed
          /\ UNCHANGED <<queueVars, fd, last_peer, localVars, accepted, sent>>

InitTx == /\ At(Main, "init_tx")
          /\ \/ pc' = [pc EXCEPT ![Main] = "done", ![Tx] = "pop"]
             \/ Goto(Main, "done")                \* rx is left running alone
          /\ UNCHANGED <<queueVars, fd, last_peer, localVars, accepted, sent>>

-----------------------------------------------------------------------------
(* rx thread *)

CreateServer == /\ At(Rx, "create")
                /\ Goto(Rx, "publish") \/ Goto(Rx, "dead")    \* socket or bind failed
                /\ UNCHANGED <<queueVars, fd, last_peer, localVars, accepted, sent>>

\* Mutant of PublishFd: rx serves without having published the socket.
PublishFd_never == /\ At(Rx, "publish")
                   /\ Goto(Rx, "recv")
                   /\ UNCHANGED <<queueVars, fd, last_peer, localVars, accepted, sent>>

PublishFd == /\ At(Rx, "publish")
             /\ fd' = ServerFd
             /\ Goto(Rx, "recv")
             /\ UNCHANGED <<queueVars, last_peer, localVars, accepted, sent>>

\* recvfrom returned a datagram; an error only repeats the call
Receive(p) == /\ At(Rx, "recv")
              /\ req' = [req EXCEPT ![Rx] = p]
              /\ Goto(Rx, "note")
              /\ UNCHANGED <<queueVars, fd, last_peer, dest, hand, hand_fd, accepted, sent>>

NotePeer == /\ At(Rx, "note")
            /\ last_peer' = req[Rx]
            /\ Goto(Rx, "process")
            /\ UNCHANGED <<queueVars, fd, localVars, accepted, sent>>

\* comm_service_receive, rev_process: a well-formed known request is answered
Process == /\ At(Rx, "process")
           /\ \/ Goto(Rx, "peer") /\ UNCHANGED req
              \/ Goto(Rx, "recv") /\ req' = [req EXCEPT ![Rx] = NoPeer]
           /\ UNCHANGED <<queueVars, fd, last_peer, dest, hand, hand_fd, accepted, sent>>

-----------------------------------------------------------------------------
(* comm_udp_send, run by the rx thread and by the gnss threads *)

BeginSend(t) == /\ t \in Gnss
                /\ At(t, "idle")
                /\ Goto(t, "peer")
                /\ UNCHANGED <<queueVars, fd, last_peer, localVars, accepted, sent>>

Return(t) == /\ Goto(t, Home(t))
             /\ req' = [req EXCEPT ![t] = NoPeer]

ReadPeer(t) ==
  /\ At(t, "peer")
  /\ IF last_peer = NoPeer                       \* ENOTCONN
       THEN Return(t) /\ UNCHANGED dest
       ELSE /\ dest' = [dest EXCEPT ![t] = last_peer]
            /\ Goto(t, "push")
            /\ UNCHANGED req
  /\ UNCHANGED <<queueVars, fd, last_peer, hand, hand_fd, accepted, sent>>

\* Mutant of SignalTx: the push does not signal.
SignalTx_missing(p) == p

\* pthread_cond_signal
SignalTx(p) == IF p[Tx] = "wait" THEN [p EXCEPT ![Tx] = "pop"] ELSE p

PushOk(t) ==
  /\ At(t, "push")
  /\ ~QueueFull
  /\ accepted < MaxFrames
  /\ Enqueue([id |-> accepted + 1, from |-> t, req |-> req[t], peer |-> dest[t]])
  /\ accepted' = accepted + 1
  /\ pc' = SignalTx([pc EXCEPT ![t] = Home(t)])
  /\ req' = [req EXCEPT ![t] = NoPeer]
  /\ UNCHANGED <<fd, last_peer, dest, hand, hand_fd, sent>>

\* Mutant of PushFail: a full ring is waited for.
PushFail_waits(t) ==
  /\ At(t, "push")
  /\ ~QueueFull
  /\ Return(t)
  /\ UNCHANGED <<queueVars, fd, last_peer, dest, hand, hand_fd, accepted, sent>>

PushFail(t) ==                                   \* EAGAIN, or malloc failed
  /\ At(t, "push")
  /\ Return(t)
  /\ UNCHANGED <<queueVars, fd, last_peer, dest, hand, hand_fd, accepted, sent>>

-----------------------------------------------------------------------------
(* tx thread *)

WaitFrame == /\ At(Tx, "pop")
             /\ QueueEmpty
             /\ Goto(Tx, "wait")
             /\ UNCHANGED <<queueVars, fd, last_peer, localVars, accepted, sent>>

\* a condition variable may wake its waiter without a signal
SpuriousWake == /\ At(Tx, "wait")
                /\ Goto(Tx, "pop")
                /\ UNCHANGED <<queueVars, fd, last_peer, localVars, accepted, sent>>

Pop == /\ At(Tx, "pop")
       /\ ~QueueEmpty
       /\ hand' = Front
       /\ Dequeue
       /\ Goto(Tx, "getfd")
       /\ UNCHANGED <<fd, last_peer, req, dest, hand_fd, accepted, sent>>

GetFd == /\ At(Tx, "getfd")
         /\ hand_fd' = fd
         /\ Goto(Tx, "send")
         /\ UNCHANGED <<queueVars, fd, last_peer, req, dest, hand, accepted, sent>>

\* Mutant of SendTo: sends to the peer known now, not to the one recorded.
SendTo_last_peer ==
  /\ At(Tx, "send")
  /\ sent' = IF hand_fd # NoFd THEN Append(sent, [hand EXCEPT !.peer = last_peer]) ELSE sent
  /\ hand' = NULL
  /\ Goto(Tx, "pop")
  /\ UNCHANGED <<queueVars, fd, last_peer, req, dest, hand_fd, accepted>>

\* sendto, whose failure is only reported, then free: the frame is gone either way
SendTo == /\ At(Tx, "send")
          /\ \E ok \in BOOLEAN :
               sent' = IF hand_fd # NoFd /\ ok THEN Append(sent, hand) ELSE sent
          /\ hand' = NULL
          /\ Goto(Tx, "pop")
          /\ UNCHANGED <<queueVars, fd, last_peer, req, dest, hand_fd, accepted>>

-----------------------------------------------------------------------------
RxNext == CreateServer \/ PublishFd \/ NotePeer \/ Process \/ \E p \in Peers : Receive(p)

SendNext(t) == BeginSend(t) \/ ReadPeer(t) \/ PushOk(t) \/ PushFail(t)

TxNext == WaitFrame \/ Pop \/ GetFd \/ SendTo

Next == InitRx \/ InitTx \/ RxNext \/ (\E t \in Senders : SendNext(t)) \/ TxNext \/ SpuriousWake

Spec == Init /\ [][Next]_vars

\* Every thread that can run does: the threads have equal priority and hold
\* no mutex across a blocking call.  Nothing makes a peer send, the gnss module
\* produce data, or a condition variable wake up by itself.
Fairness == /\ WF_vars(TxNext)
            /\ \A t \in Senders : WF_vars(ReadPeer(t)) /\ WF_vars(PushOk(t) \/ PushFail(t))

FairSpec == Spec /\ Fairness

-----------------------------------------------------------------------------
(* Properties *)

Labels == {"off", "init", "init_tx", "done", "idle", "create", "publish", "recv", "note",
           "process", "peer", "push", "dead", "pop", "wait", "getfd", "send"}

\* Type invariant: the shapes of all variables (comm_udp.c:17-53).
TypeOK == /\ queue \in [Slot -> Frame \cup {NULL}]
          /\ queue_head \in Slot
          /\ queue_tail \in Slot
          /\ queue_count \in 0 .. Capacity
          /\ pc \in [Threads -> Labels]
          /\ fd \in {NoFd, ServerFd}
          /\ last_peer \in Peers \cup {NoPeer}
          /\ req \in [Senders -> Peers \cup {NoPeer}]
          /\ dest \in [Senders -> Peers \cup {NoPeer}]
          /\ hand \in Frame \cup {NULL}
          /\ hand_fd \in {NoFd, ServerFd}
          /\ accepted \in 0 .. MaxFrames
          /\ sent \in Seq(Frame)

\* The frames that exist: in the ring, in the hands of tx, or sent.
Frames == ({queue[s] : s \in Slot} \cup {hand} \cup {sent[i] : i \in DOMAIN sent}) \ {NULL}

\* An answer goes to the peer that asked, although the destination is read from the
\* shared last_peer after the request was parsed and other threads send in between
\* (comm_udp.c:192-197, 255-266); and no other thread's frame counts as an answer.
ReplyToRequester == \A f \in Frames : IF f.from = Rx THEN f.peer = f.req ELSE f.req = NoPeer

\* The branch of the tx thread that frees a frame without sending it because the
\* socket does not exist (comm_udp.c:229, 241) is never taken: no frame is accepted
\* before rx has published its socket, even though senders never look at it.
FrameHasSocket == /\ ~QueueEmpty => fd = ServerFd
                  /\ At(Tx, "send") => hand_fd = ServerFd

\* The tx thread is never left asleep in pthread_cond_wait with a frame queued
\* (comm_udp.c:80, 88-92).
NoLostWakeup == At(Tx, "wait") => QueueEmpty

\* The frames not yet tried: the one tx holds is older than those in the ring.
InFlight == (IF hand = NULL THEN <<>> ELSE <<hand>>) \o Contents

Channel == INSTANCE FrameChannel WITH inflight <- InFlight, out <- sent

\* The ring, the lock and the tx thread together are a bounded FIFO channel: a frame
\* is tried once, unchanged, in the order of acceptance (comm_udp.c:55-108, 213-245).
FifoChannel == Channel!ChanSpec

IsInFlight(n) == \E i \in 1 .. Len(InFlight) : InFlight[i].id = n

\* If the tx thread was created, an accepted frame is tried eventually
\* (comm_udp.c:217-242).
AcceptedIsTried == \A n \in 1 .. MaxFrames :
                     (IsInFlight(n) /\ ~At(Tx, "off")) ~> ~IsInFlight(n)

\* comm_udp_send always returns to its caller, whatever becomes of the tx thread: a
\* full ring is an error and never a wait (comm_udp.c:66-72).
SenderReturns == \A t \in Senders : At(t, "push") ~> At(t, Home(t))
==============================================================================
