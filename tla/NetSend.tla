------------------------------- MODULE NetSend -------------------------------
(***************************************************************************)
(* net_send and net_send_eph (core/src/comm_service.c).  Each builds its   *)
(* frame field by field in a static buffer of its own and hands a copy to  *)
(* the queue.  The rx thread calls net_send to answer a request, the gnss  *)
(* thread calls net_send with a position and net_send_eph with an          *)
(* ephemeris; no lock is held, so the statements of two net_send calls     *)
(* interleave in one buffer.                                               *)
(*                                                                         *)
(* One action is one statement of the call.  Finer interleavings (inside   *)
(* memcpy) exist in the build; they only add ways to mix two frames.       *)
(***************************************************************************)
EXTENDS NetFrame

CONSTANTS RxCaller, GnssCaller, \* the two threads
          DeviceId,             \* glob_comm_config.id
          Answers,              \* {cmd, payload} pairs the rx thread sends
          Positions,            \* payloads of SEND_CMD_POS
          Ephemerides,          \* payloads of SEND_CMD_EPH_INFO: the type byte, then the data
          BufSize,              \* bytes of a static buffer (65536 in the code)
          Idle                  \* a thread outside the two functions; nothing queued yet

Callers == {RxCaller, GnssCaller}

Builders == {"net_send", "net_send_eph"}

CallsOf(t) ==
  IF t = RxCaller
    THEN {[fn |-> "net_send", cmd |-> a.cmd, payload |-> a.payload] : a \in Answers}
    ELSE [fn: {"net_send"}, cmd: {SEND_CMD_POS}, payload: Positions]
           \cup [fn: {"net_send_eph"}, cmd: {SEND_CMD_EPH_INFO}, payload: Ephemerides]

Statements == <<"head", "cmd", "len", "id", "payload", "check", "tail", "queue">>

ASSUME NetSendAssumption ==
  /\ RxCaller # GnssCaller
  /\ DeviceId \in Nat /\ DeviceId < 65536
  /\ BufSize \in Nat

ASSUME CallsAssumption ==
  /\ \A i \in 1 .. Len(Statements) : Idle # Statements[i]
  /\ \A t \in Callers : \A c \in CallsOf(t) :
       /\ c # Idle
       /\ c.cmd \in Byte /\ c.payload \in Seq(Byte)
       /\ FrameSize(Len(c.payload)) <= BufSize

VARIABLES stmt,   \* the next statement of each thread
          call,   \* the arguments of its call, or Idle
          buf,    \* the static send_buf of each function
          alone,  \* history: no other call was in the same buffer meanwhile
          out     \* history: the frame the last step queued, its call, and alone

netVars == <<stmt, call, buf, alone, out>>

\* Mutant of BufferOf: one buffer for both functions.
BufferOf_shared(c) == "net_send"

\* The buffer a call builds its frame in.
BufferOf(c) == c.fn

After(s) == Statements[(CHOOSE i \in 1 .. 7 : Statements[i] = s) + 1]

\* What one statement of call c writes into the buffer b.
Written(s, c, b) ==
  LET n == Len(c.payload)
  IN  CASE s = "head"    -> Put(b, 0, LE16(HEAD))
        [] s = "cmd"     -> Put(b, CmdAt, <<c.cmd>>)
        [] s = "len"     -> Put(b, LenAt, LE16(n))
        [] s = "id"      -> Put(b, IdAt, LE16(DeviceId))
        [] s = "payload" -> Put(b, PayloadAt, c.payload)
        [] s = "check"   -> Put(b, CheckAt(n), LE16(check_sum(b, IdAt, n + 5)))
        [] s = "tail"    -> Put(b, TailAt(n), LE16(TAIL))

\* Mutant of QueuedSize: forgets one byte of the frame's overhead.
QueuedSize_short(c) == FrameSize(Len(c.payload)) - 1

\* len += sizeof(net_frame_t)
QueuedSize(c) == FrameSize(Len(c.payload))

NetInit == /\ stmt = [t \in Callers |-> Idle]
           /\ call = [t \in Callers |-> Idle]
           /\ buf = [f \in Builders |-> [i \in 0 .. BufSize - 1 |-> 0]]
           /\ alone = [t \in Callers |-> TRUE]
           /\ out = Idle

InBuffer(t, f) == call[t] # Idle /\ BufferOf(call[t]) = f

Begin(t, c) ==
  LET others == {u \in Callers \ {t} : InBuffer(u, BufferOf(c))}
  IN  /\ stmt[t] = Idle
      /\ call' = [call EXCEPT ![t] = c]
      /\ stmt' = [stmt EXCEPT ![t] = "head"]
      /\ alone' = [u \in Callers |->
                     IF u = t THEN others = {} ELSE alone[u] /\ u \notin others]
      /\ out' = Idle
      /\ UNCHANGED buf

Write(t) ==
  /\ stmt[t] \notin {Idle, "queue"}
  /\ LET f == BufferOf(call[t])
     IN  buf' = [buf EXCEPT ![f] = Written(stmt[t], call[t], buf[f])]
  /\ stmt' = [stmt EXCEPT ![t] = After(stmt[t])]
  /\ out' = Idle
  /\ UNCHANGED <<call, alone>>

\* comm_udp_send copies QueuedSize bytes of the buffer
Queue(t) ==
  /\ stmt[t] = "queue"
  /\ LET n == QueuedSize(call[t])
         b == buf[BufferOf(call[t])]
     IN  out' = [size |-> n, bytes |-> [i \in 0 .. n - 1 |-> b[i]],
                 call |-> call[t], alone |-> alone[t]]
  /\ stmt' = [stmt EXCEPT ![t] = Idle]
  /\ call' = [call EXCEPT ![t] = Idle]
  /\ UNCHANGED <<buf, alone>>

NetNext == \E t \in Callers : (\E c \in CallsOf(t) : Begin(t, c)) \/ Write(t) \/ Queue(t)

NetSpec == NetInit /\ [][NetNext]_netVars

-----------------------------------------------------------------------------
(* Properties *)

\* The sum of the bytes of a sequence.
Total(s) ==
  LET sum[i \in 0 .. Len(s)] == IF i = 0 THEN 0 ELSE sum[i - 1] + s[i]
  IN  sum[Len(s)]

\* The frame the protocol prescribes for a call, written down from its fields.
FrameOf(c) ==
  LET body == LE16(DeviceId) \o <<c.cmd>> \o LE16(Len(c.payload)) \o c.payload
  IN  LE16(HEAD) \o body \o <<Total(body) % 256>> \o LE16(TAIL)

IsFrameOf(o) == /\ o.size = Len(FrameOf(o.call))
                /\ \A i \in 1 .. o.size : o.bytes[i - 1] = FrameOf(o.call)[i]
                /\ Accepted(o.bytes, o.size)

\* A call of net_send that no other call overlapped queues exactly its frame, whatever
\* longer or half-written frame the static buffer still held (comm_service.c:127-140).
AloneIntact == (out # Idle /\ out.alone) => IsFrameOf(out)

\* An ephemeris frame is never damaged, although answers and positions are built at
\* the same time: net_send_eph has a buffer of its own and a single caller thread
\* (comm_service.c:152-166).
EphIntact == (out # Idle /\ out.call.fn = "net_send_eph") => IsFrameOf(out)

\* The comments on NET_SEND_CMD_t (comm_service.h) name the payload of each command: a
\* frame that passes the receiver's checks and carries SEND_CMD_POS is position data,
\* one that carries SEND_CMD_OUTPUT_FREQ an output frequency.
CommandNamesPayload ==
  (out # Idle /\ Accepted(out.bytes, out.size)) => out.bytes[CmdAt] = out.call.cmd
==============================================================================
