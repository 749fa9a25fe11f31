------------------------------- MODULE CommMqtt -------------------------------
(***************************************************************************)
(* The MQTT service (core/src/comm_mqtt.c): a tx thread that connects to   *)
(* the broker, publishes a status and pings, and connects again when       *)
(* something failed; an rx thread that reads whatever comes and drops the  *)
(* connection when recv fails; other threads that publish through          *)
(* comm_mqtt_send.  They find the connection by its descriptor number,     *)
(* read under state_mutex and used after the mutex is released.  The       *)
(* kernel gives a new connection the lowest free number, and the rest of   *)
(* the program opens and closes files too (the csv logs).                  *)
(*                                                                         *)
(* One action is one critical section or one call; running is always 1.    *)
(* A packet is written in one step: write_all needs a second send only     *)
(* when a signal interrupts the first; so send_mutex needs no variable.    *)
(***************************************************************************)
EXTENDS Naturals, FiniteSets

CONSTANTS Senders,   \* other threads that call comm_mqtt_send
          Main, Rx, Tx,
          MaxConns,  \* bound: connections that exist at a time
          MaxFds     \* bound: descriptors connections and log files can have

NoFd == 0      \* -1
NoConn == 0    \* a free descriptor; a thread that holds no connection

Fds == 1 .. MaxFds
Conns == 1 .. MaxConns
LogFile == MaxConns + 1
Threads == Senders \cup {Main, Rx, Tx}
Workers == Senders \cup {Rx, Tx}

ASSUME MqttAssumption ==
  /\ MaxConns \in Nat /\ MaxFds \in Nat \ {0}
  /\ {Main, Rx, Tx} \cap Senders = {}
  /\ Main \notin {Rx, Tx} /\ Rx # Tx

VARIABLES pc,        \* where each thread is
          fd,        \* g_comm_mqtt_ctx.fd
          connected, \* g_comm_mqtt_ctx.connected
          my_fd,     \* each thread's local fd
          held,      \* the connection a blocked recv holds on to
          files,     \* the kernel's table of descriptors
          peer_open, \* connections the broker has not closed
          unread,    \* connections on which a packet of the broker waits to be read
          greeted    \* connections on which the broker has got CONNECT

ctxVars == <<fd, connected>>
brokerVars == <<peer_open, unread, greeted>>
vars == <<pc, ctxVars, my_fd, held, files, brokerVars>>

At(t, label) == pc[t] = label
Goto(t, label) == pc' = [pc EXCEPT ![t] = label]

Init == /\ pc = [t \in Threads |-> IF t = Main THEN "init"
                                     ELSE IF t \in Senders THEN "idle" ELSE "off"]
        /\ fd = NoFd /\ connected = FALSE
        /\ my_fd = [t \in Workers |-> NoFd]
        /\ held = [t \in {Rx, Tx} |-> NoConn]
        /\ files = [f \in Fds |-> NoConn]
        /\ peer_open = {} /\ unread = {} /\ greeted = {}

-----------------------------------------------------------------------------
(* comm_mqtt_init *)

Create(from, t, first, following) ==
  /\ At(Main, from)
  /\ pc' \in {[pc EXCEPT ![Main] = following, ![t] = first], [pc EXCEPT ![Main] = "done"]}
  /\ UNCHANGED <<ctxVars, my_fd, held, files, brokerVars>>

InitRx == Create("init", Rx, "get", "init_tx")
InitTx == Create("init_tx", Tx, "connect", "done")

-----------------------------------------------------------------------------
(* The connection *)

\* Mutant of Disconnect: the number stays.
Disconnect_keeping == /\ files' = IF fd = NoFd THEN files ELSE [files EXCEPT ![fd] = NoConn]
                      /\ connected' = FALSE
                      /\ UNCHANGED fd

\* Mutant of Disconnect: nothing is closed.
Disconnect_leaking == fd' = NoFd /\ connected' = FALSE /\ UNCHANGED files

\* comm_mqtt_set_connection(-1, 0): the connection of now, whichever one failed
Disconnect == /\ files' = IF fd = NoFd THEN files ELSE [files EXCEPT ![fd] = NoConn]
              /\ fd' = NoFd
              /\ connected' = FALSE

\* A packet other than CONNECT sent to a number: ok when the number is a connection, also one
\* the broker has closed; a log file refuses it.
Write(t, ok, onward, back) ==
  LET what == files[my_fd[t]]
  IN  /\ IF ok THEN what \in Conns ELSE what \notin peer_open
      /\ Goto(t, IF ok THEN onward ELSE back)

\* comm_mqtt_get_connection
Get(t, onward, back) ==
  /\ my_fd' = [my_fd EXCEPT ![t] = IF connected THEN fd ELSE my_fd[t]]
  /\ Goto(t, IF connected /\ fd # NoFd THEN onward ELSE back)

\* recv begins: a number that is no connection is an error
Receive(t, onward, back) ==
  /\ held' = [held EXCEPT ![t] = IF files[my_fd[t]] \in Conns THEN files[my_fd[t]] ELSE NoConn]
  /\ Goto(t, IF files[my_fd[t]] \in Conns THEN onward ELSE back)

\* recv ends: with the packet, which one of the readers gets, or because the broker closed
Received(t, onward, back) ==
  /\ \/ held[t] \in unread /\ unread' = unread \ {held[t]} /\ Goto(t, onward)
     \/ held[t] \notin peer_open /\ Goto(t, back) /\ UNCHANGED unread
  /\ held' = [held EXCEPT ![t] = NoConn]

-----------------------------------------------------------------------------
(* rx thread *)

\* without a connection, sleep and look again
RxGet == /\ At(Rx, "get")
         /\ Get(Rx, "recv", "get")
         /\ UNCHANGED <<ctxVars, held, files, brokerVars>>

RxReceive == /\ At(Rx, "recv")
             /\ Receive(Rx, "blocked", "lost")
             /\ UNCHANGED <<ctxVars, my_fd, files, brokerVars>>

\* a packet is only printed, also a CONNACK
RxReceived == /\ At(Rx, "blocked")
              /\ Received(Rx, "get", "lost")
              /\ UNCHANGED <<ctxVars, my_fd, files, peer_open, greeted>>

RxLost == /\ At(Rx, "lost")
          /\ Disconnect
          /\ Goto(Rx, "get")
          /\ UNCHANGED <<my_fd, held, brokerVars>>

-----------------------------------------------------------------------------
(* tx thread *)

FreeFds == {f \in Fds : files[f] = NoConn}

FreeConns == Conns \ ({files[f] : f \in Fds} \cup {held[Rx], held[Tx]})

\* comm_mqtt_connect_broker; when it fails, sleep and try again
TxConnect ==
  /\ At(Tx, "connect")
  /\ \E f \in FreeFds, c \in FreeConns :
       /\ \A g \in FreeFds : f <= g
       /\ \A d \in FreeConns : c <= d
       /\ files' = [files EXCEPT ![f] = c]
       /\ my_fd' = [my_fd EXCEPT ![Tx] = f]
       /\ peer_open' = peer_open \cup {c}
       /\ unread' = unread \ {c}
       /\ greeted' = greeted \ {c}
       /\ Goto(Tx, "publish_fd")
  /\ UNCHANGED <<ctxVars, held>>

\* comm_mqtt_set_connection(fd, 1)
TxPublishFd == /\ At(Tx, "publish_fd")
               /\ fd' = my_fd[Tx]
               /\ connected' = TRUE
               /\ Goto(Tx, "hello")
               /\ UNCHANGED <<my_fd, held, files, brokerVars>>

\* comm_mqtt_send_connect
TxHello ==
  /\ At(Tx, "hello")
  /\ \/ files[my_fd[Tx]] \in Conns /\ Goto(Tx, "connack")
                                  /\ greeted' = greeted \cup {files[my_fd[Tx]]}
     \/ files[my_fd[Tx]] \notin peer_open /\ Goto(Tx, "drop") /\ UNCHANGED greeted
  /\ UNCHANGED <<ctxVars, my_fd, held, files, peer_open, unread>>

\* what recv returned for the CONNACK is not looked at
TxReceive == /\ At(Tx, "connack")
             /\ Receive(Tx, "blocked", "publish")
             /\ UNCHANGED <<ctxVars, my_fd, files, brokerVars>>

TxReceived == /\ At(Tx, "blocked")
              /\ Received(Tx, "publish", "publish")
              /\ UNCHANGED <<ctxVars, my_fd, files, peer_open, greeted>>

\* Mutant of TxPublish: without a connection it tries again instead of leaving the loop.
TxPublish_retrying == /\ At(Tx, "publish")
                      /\ Goto(Tx, IF connected THEN "write" ELSE "publish")
                      /\ UNCHANGED <<ctxVars, my_fd, held, files, brokerVars>>

\* comm_mqtt_send finds the tx thread's own connection, or none
TxPublish == /\ At(Tx, "publish")
             /\ Goto(Tx, IF connected /\ fd # NoFd THEN "write" ELSE "drop")
             /\ UNCHANGED <<ctxVars, my_fd, held, files, brokerVars>>

\* a PUBLISH, then five seconds, and after every fourth a PINGREQ
TxWrite == /\ At(Tx, "write")
           /\ \E next \in {"publish", "ping"}, ok \in BOOLEAN : Write(Tx, ok, next, "drop")
           /\ UNCHANGED <<ctxVars, my_fd, held, files, brokerVars>>

TxPing == /\ At(Tx, "ping")
          /\ \E ok \in BOOLEAN : Write(Tx, ok, "publish", "drop")
          /\ UNCHANGED <<ctxVars, my_fd, held, files, brokerVars>>

TxDrop == /\ At(Tx, "drop")
          /\ Disconnect
          /\ Goto(Tx, "connect")
          /\ UNCHANGED <<my_fd, held, brokerVars>>

-----------------------------------------------------------------------------
(* comm_mqtt_send of another thread *)

SendGet(t) == /\ At(t, "idle")
              /\ Get(t, "send", "idle")
              /\ UNCHANGED <<ctxVars, held, files, brokerVars>>

SendWrite(t) == /\ At(t, "send")
                /\ \E ok \in BOOLEAN : Write(t, ok, "idle", "idle")
                /\ UNCHANGED <<ctxVars, my_fd, held, files, brokerVars>>

-----------------------------------------------------------------------------
(* The broker, and the log files of the rest of the program *)

\* CONNACK, and PINGRESP later
BrokerAnswers(c) == /\ c \in greeted /\ c \in peer_open /\ c \notin unread
                    /\ unread' = unread \cup {c}
                    /\ UNCHANGED <<pc, ctxVars, my_fd, held, files, peer_open, greeted>>

BrokerCloses(c) == /\ c \in peer_open
                   /\ peer_open' = peer_open \ {c}
                   /\ UNCHANGED <<pc, ctxVars, my_fd, held, files, unread, greeted>>

\* no packet for one and a half times the keepalive: the client waits, or is gone
BrokerTimesOut(c) == /\ held[Tx] = c \/ \A f \in Fds : files[f] # c
                     /\ BrokerCloses(c)

OpenLog == /\ \E f \in FreeFds : /\ \A g \in FreeFds : f <= g
                                 /\ files' = [files EXCEPT ![f] = LogFile]
           /\ UNCHANGED <<pc, ctxVars, my_fd, held, brokerVars>>

CloseLog == /\ \E f \in Fds : files[f] = LogFile /\ files' = [files EXCEPT ![f] = NoConn]
            /\ UNCHANGED <<pc, ctxVars, my_fd, held, brokerVars>>

-----------------------------------------------------------------------------
RxNext == RxGet \/ RxReceive \/ RxReceived \/ RxLost

TxNext == \/ TxPublishFd \/ TxHello \/ TxReceive \/ TxReceived \/ TxPublish \/ TxWrite \/ TxPing
          \/ TxDrop

Next == \/ InitRx \/ InitTx \/ RxNext \/ TxConnect \/ TxNext
        \/ (\E t \in Senders : SendGet(t) \/ SendWrite(t))
        \/ (\E c \in Conns : BrokerAnswers(c) \/ BrokerCloses(c))
        \/ OpenLog \/ CloseLog

Spec == Init /\ [][Next]_vars

\* Both threads run; a connect succeeds sooner or later; the broker keeps to the keepalive
\* time of CONNECT; the log files are not kept open.
Fairness == /\ WF_vars(RxNext) /\ WF_vars(TxNext) /\ SF_vars(TxConnect) /\ WF_vars(CloseLog)
            /\ \A c \in Conns : WF_vars(BrokerTimesOut(c))

FairSpec == Spec /\ Fairness

-----------------------------------------------------------------------------
(* Properties *)

\* The number in the context is a connection of this service, so that neither thread ever
\* closes a file of another part of the program, although both close it and each may do so
\* for an older connection (comm_mqtt.c:103-114, 257-272, 352, 392).
FdIsOwn == /\ connected <=> fd # NoFd
           /\ fd # NoFd => files[fd] \in Conns

\* No descriptor leaks: an open connection is in the context or about to be put there
\* (comm_mqtt.c:103-114, 345-347).
OwnedFds == \A f \in Fds : files[f] \in Conns => f = fd \/ (f = my_fd[Tx] /\ At(Tx, "publish_fd"))

\* Without a connection, the tx thread makes one again, from wherever it is, also when the rx
\* thread has taken the CONNACK it waits for (comm_mqtt.c:257, 331-396).
Reconnects == ~connected /\ ~At(Tx, "off") ~> connected
==============================================================================
