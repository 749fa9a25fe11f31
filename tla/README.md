# A verification development for the OK3506 GNSS communication terminal

The program (`src/core`) is one process on an embedded board. It configures a
GNSS module on a serial port, decodes what the module puts out, and offers
positions and ephemerides to a peer over UDP; it drives a satellite modem (DBB)
and holds code for a 4G modem, a TCP service, an MQTT client and LoRa. This
directory holds TLA+ models of its concurrent and stateful parts, the TLC runs
that check them on small instances, and TLAPS proofs of the properties that
matter most for every size.

## 1. Inventory

### Threads

`main` reads the console configuration and calls `thread_init`
(`src_thread.c:13-28`), which starts the `gnss` and `dbb` threads and then
`comm_service_init`, which starts the UDP `rx` and `tx` threads. The console
(`cli`) runs in the quagga event loop of the main thread. LoRa, 4G, TCP and MQTT
are compiled, but the calls that start them are commented out
(`src_thread.c:22-23`, `comm_service.c:101-109`).

| component | state | operations | talks to |
|---|---|---|---|
| UDP service `comm_udp.c` | socket, last peer, ring of 16 frames | rx thread, tx thread, `comm_udp_send` | request handler (call), gnss thread (call), peers |
| TCP service `comm_tcp.c` | client descriptor, ring of 16 frames | accept, rx, tx threads, `comm_tcp_send` | clients |
| MQTT service `comm_mqtt.c` | descriptor, connected flag | rx thread, tx thread, `comm_mqtt_send` | broker |
| frames and requests `comm_service.c` | two static frame buffers, `eph_sw`, `output_freq` | `net_send`, `net_send_eph`, `comm_service_receive`, `rev_process`, `update_eph_sw` | UDP service, GNSS control |
| GNSS control `gnss_thread.c` | `gnss_ctrl`: descriptor, output flags, mode | `gnss_cfg_*`, `gnss_reset`, startup | module (serial port), console, request handler |
| GNSS stream `gnss_thread.c`, `gnss_ephb.c` | line buffer, record buffer, mode | read loop, line assembler, record scanner | decoders, sentence handlers |
| GNSS sentences and logs `gnss_nmea.c`, `tty.c` | a switch and a path for each log, the log files, the system clock | nine sentence handlers, the log commands | console, `net_send`, files, kernel |
| GNSS decoders `gnss_ephb_decode.c`, `gnss_ephb_info.c` | none | one decoder per message | GNSS stream |
| DBB modem `dbb_*.c` | mode and status, the current capture, the last downlink, the message to send | two configurations, registration, corrections, downlink, uplink, SMS | modem (serial port), GNSS control |
| 4G modem `eth_4g.c` | state of the bring-up, capture | AT commands, interface up, DHCP | modem, kernel |
| console `cli.c`, `tty.c` | none of its own | commands | GNSS control, logs, `eph_sw` |
| LoRa, I/O, LED, tty drivers | none | system calls | kernel |

### What is hard

* Four threads share `gnss_ctrl`, `glob_comm_config`, `last_peer`, the static
  frame buffers and the ring. Some of it is under a mutex, some is not, and every
  mutex is released before the value read is used.
* A frame's destination is read when it is queued, from state that the next
  datagram overwrites.
* The GNSS module may ignore, lose or be restarted by a command; the program
  records what it asked for and not what the module does.
* TCP descriptors are numbers that the kernel hands out again.
* Modems answer commands and send unsolicited results on one line, and a result
  is recognised by searching whatever one capture happened to hold.
* A log's switch and path are written by the console and read by the gnss thread,
  once for every piece of a sentence, with nothing to order the two.

`PROJECT.json` lists under `hazards`, at their lines, those that a property speaks
of. Others are known and have none, as what the code does about them is nothing,
and the models just have it so; they are listed in section 4 under what was met
while modelling.

### What makes each component correct

* UDP: an answer goes to the requester; an accepted frame is tried once, in
  order; nobody sleeps on work; a sender never blocks.
* TCP: descriptors are neither closed twice nor leaked; the queue as above.
* Frames: what is queued is the frame of its call, whoever else is building one.
* Requests and GNSS control: the answer to a SET means that the module does it;
  records follow the module.
* GNSS stream: a record is decoded once, a sentence handled once, in order,
  however the reads cut them.
* Sentences and logs: a log that is reported on gets every sentence, one that is
  reported off at most one piece of one, and lines are whole; the clock follows the
  fixes.
* Decoders: each bit of a record is read once, into a member that holds it, with
  its sign (but for fields that are named), and none past the record's end; what is
  sent on is all of it.
* DBB: online only when configured, or registered; corrections forwarded in order
  and only in mode dppp; the newest downlink is kept; a message is sent once unless
  its result is lost; a
  module that answers is brought into service. Messages, numbers and downlinks are
  read back as they were written, or not at all.
* 4G: a status is reached only on what the modem said in this bring-up; a good
  modem gets online, unless the service is stranded in a way that is named.
* MQTT: no foreign descriptor is closed, none leaks, the client reconnects.

## 2. Plan

Modules, in the order of importance and of writing:

1. `RingQueue`, `FrameChannel`, `CommUdp`: everything the peer sees passes here.
2. `NetFrame`, `NetSend`: what is queued.
3. `GnssControl`: requests and commands against the module.
4. `CommTcp`, `CommMqtt`: the other services of the same family.
5. `GnssStream`, `GnssDecode`: from the serial port to the network.
6. `AtPort`, `Dbb`, `Eth4g`, `DbbCodec`: the modems.
7. `GnssLog`: from the sentences to the files and the clock.

All of these are written. Compositions: `CommUdp` and `CommTcp` extend
`RingQueue` and instantiate `FrameChannel`, the abstract specification they
implement; `NetSend` extends `NetFrame`; `Dbb` and `Eth4g` extend `AtPort`;
`MCDecoders` has the decoders of both receivers in one run;
`MC*` modules give a module its small sets where a `.cfg` cannot.

What the plan has left:

* Models: `Dbb` composed with `GnssControl`, which share `gnss_ctrl.calcType` and
  the GNSS module's port (`Dbb` has the mode as an environment variable, `dppp`).
* Proofs: `ValuesKept`, the signs that the decoders keep. Every other invariant and
  every action property of a passing run, and both refinements, are theorems;
  liveness stays with TLC (section 6).

No module declares a RECURSIVE operator (recursion is written with recursive
functions and folds), so that every one of them can be proved about.

## 3. The modules and the code

### RingQueue, FrameChannel

`RingQueue` is the array of 16 slots with `queue_head`, `queue_tail` and
`queue_count` that `comm_udp.c` and `comm_tcp.c` each have a copy of. `Enqueue`
and `Dequeue` are the bodies of the critical sections under `queue_mutex`;
`Contents` is what the ring stands for. `FrameChannel` is the abstract
specification: accepted frames in flight, at most `Capacity + 1` of them, each
tried once, in order, unchanged.

### CommUdp (`comm_udp.c`)

| model | code |
|---|---|
| `InitRx`, `InitTx` | `comm_udp_init`: the two `pthread_create`, of which either may fail (:269-288) |
| `CreateServer`, `PublishFd` | socket and bind, then `fd` under `state_mutex` (:110-166) |
| `Receive`, `NotePeer`, `Process` | `recvfrom`, `last_peer` under `state_mutex`, then the request handler (:168-211; `comm_service.c:309-336`) |
| `BeginSend`, `ReadPeer`, `PushOk`, `PushFail` | `comm_udp_send`: read `last_peer`, then malloc and the section under `queue_mutex` (:55-84, 247-267) |
| `WaitFrame`, `SpuriousWake`, `Pop`, `GetFd`, `SendTo` | the tx thread (:85-108, 213-245) |

One action is one critical section or one call outside any lock. No section
blocks while it holds a mutex except in `pthread_cond_wait`, which gives it up,
so the mutexes need no variables. A frame is a record of who sent it, for which
request and to which peer; its bytes are the subject of `NetSend`.

### NetFrame, NetSend (`comm_service.c:107-177`)

`NetFrame` has the layout of the frame as offsets, and the receiver's checks
(`comm_service_receive`). `NetSend` runs the statements of `net_send` and
`net_send_eph` one by one, in the order of the code, in buffers that keep their
contents from call to call, for the rx thread and the gnss thread at once. Its
specification is `NetSpec`, and `Init`, `Next` and `vars` have names of their own too,
so that `CommUdpProofs` can extend it and `CommUdp`. `check_sum` is the loop of the
code, in eight bits; `FrameOf`, the frame that the protocol prescribes, takes the sum of
all bytes and its remainder.

### GnssControl (`comm_service.c:179-300`, `gnss_thread.c`, `tty.c`)

`Request`, `TestSwitch`, `Answer` are `rev_process` and `update_eph_sw`, with one
action per switch; `Command` and `StoreSwitch` the console; `OpenDevice`,
`OpenRmc` and `ReadError` the gnss thread. Every `gnss_cfg_*` function is
`WriteOk`, `WriteAstray` (the descriptor was closed by a read error but its
number is still in use) or `WriteFail` under `fd_mutex`, followed by `Record`
outside it. The module is external: `dev` is the set of messages it has open.
`gnss save` and `gnss sys` are left out: they write to the port and record nothing
(for `gnss sys`, see section 4), and so are the settings of what is printed.

### GnssStream (`gnss_thread.c:63-134, 518-580`, `gnss_ephb.c`)

`Send` puts an item on the serial line, `Read(n)` is one `read` of up to `n`
cells with everything the code does with it: the record buffer, the scan, the
removal of what was handled, the line assembler. `SetParseDataType` is the
console. A cell knows the item it is of, so a record is whole exactly when its
cells are; the payload may hold a byte that looks like the start of a sentence.

### GnssDecode (`gnss_ephb_decode.c`, `gnss_ephb.c:181-360`, `gnss_func.h`)

A table of the fields of each of ten messages in the order of the reads, each
with the two numbers that the code has by hand, the bits that are read and the bits
the counter steps over, and with the size it is cast to and the C type it goes
through; and a table of the packed structs they fill. `DecodeRecord` is the
scanner's call of a decoder, with the length the record came with and the lengths
the scanner compares; `ReadField` takes the fields one by one, while the count of
bits runs beside them. What a field holds is a number in two's complement, as the set
of the positions of its one-bits, and it is followed through the reader (`ReadAs`,
with or without sign extension, to 32 or 64 bits) and the type it is converted to
(`Converted`). Scale factors are left out.

### GnssLog (`gnss_nmea.c`, `gnss_ephb_info.c:627-740`, `tty.c:230-286`)

| model | code |
|---|---|
| `Command`, `SwitchOff`, `CreateFails`, `CreateFile`, `CopyPath`, `SwitchOn` | `gnss file nmea/nmea_ex/ephb`: the wait, the header file, the store of the path, then that of the switch and what the console says |
| `HandleSentence`, `Pieces` | `handle_gnss_nmea`, and how many pieces the handler of each sentence writes |
| `TestLog`, `AppendPiece`, `AppendFails` | one `GNSS_NMEA_LOG` or `GNSS_NMEA_EX_LOG`: `en`, then open, append, close |
| `HandleRmc` | the clock and the position of an RMC sentence |

A path is a log and a second, as the file names are. The stores of the path and
of `en` are seen in their order; a path read while it is being copied is a file
that could not be opened. The change to mode AUTO that the commands begin with is
`SetParseDataType` of `GnssStream`, and `gnss_cfg_data` with which the one for
ephemerides ends a command of `GnssControl`.

### CommTcp, CommMqtt

One action per critical section or call, as in `CommUdp`. `files` is the
kernel's descriptor table: a new connection gets the lowest free number, so a
number read before can stand for another file when it is used. In `CommMqtt` the
rest of the program opens and closes its log files in between. `CommTcp` has the
accept, rx and tx threads and the ring; `CommMqtt` the tx thread with connect,
CONNECT, CONNACK, PUBLISH, ping and drop, the rx thread, and other senders.

### AtPort, Eth4g, Dbb, DbbCodec

`AtPort` is the serial line with an AT modem: answers come in the order of the
commands, as late as they like, and nothing relates one to its command. `Eth4g`
runs the scripts of the bring-up of `eth_4g.c` on it; what has a namesake in `Dbb` is
named with `Eth` there, so that `ModemProofs` can extend both.

`Dbb` is the DBB thread in both modes (`dbb_thread.c`, `dbb_at_response.c`,
`dbb_handle.c`):

| model | code |
|---|---|
| `Scripts`, `TaskNow`, `WriteCommand`, `StepDone` | `dbb_cfg_broadcast_mode`, `dbb_cfg_normal_mode`, the statuses of `dbb_online_func`, one `dbb_at_expect` |
| `CaptureResponse`, `CaptureTimeout`, `CaptureError` | the outcomes of `dbb_capture_response` |
| `AwaitActivation` | `dbb_wait_for_text` in `WAIT_CREV` |
| `CaptureReports`, `StoreDownlink`, `TakeSsr`, `Forward` | `dbb_handle_urc_blob`, `dbb_handle_dlnetdata`, `dbb_handle_ssrinfoxw` |
| `turn`, `UplinkNotDue`, `NoSms` | the order of `dbb_online_service` |
| `AskPrompt`, `CapturePrompt`, `CaptureResult`, `SmsTimeout`, `SmsError` | `dbb_send_sms` |

A report has two parts since a capture may end inside it. It comes in both modes, and
in normal mode it may be all that the capture of an answer holds: the command then
fails, and a message whose result was still to come goes out again, which
`CaptureResult` counts as a setback. A stored downlink has a number, whether it came whole, and in `over` the
number of a later one whose decode failed after it had written over the beginning of
`downlink_raw`. The mode and the message
to send are read in every round, but nothing in the program writes them:
`ChangeMode` and `WantSms` stand for the command that would.

`DbbCodec` is the text of downlinks, numbers and short messages, digit by digit:
BASE64 and hexadecimal into a buffer of limited size, from as many characters as
`sscanf` takes (`Seen`), a message as it is sent
(`SubmitPdu`) and as it is read (`ReadDeliver`), whole or cut by a capture. The digits
of a BASE64 group (`GroupDigits`), the text without its white space (`Solid`) and the
work on one report (`TakeReport`) have operators of their own.

## 4. Runs

| run | bounds | what it shows |
|---|---|---|
| `udp` | ring 2, 3 accepted frames, 2 peers, rx and gnss senders | answers reach the requester; no lost wakeup; no frame before the socket; FIFO channel; accepted frames are tried; senders return |
| `tcp` | ring 2, 3 frames, 3 connections, 3 numbers, 1 sender | no number closed twice or leaked by three threads; no lost wakeup; FIFO channel |
| `mqtt` | 3 connections, 2 numbers, 1 sender | the same of descriptors, among log files; reconnection |
| `net_send` | payloads of 1 to 3 bytes, 3 kinds of frame | a frame built alone is right; ephemerides are never damaged |
| `net_mixed` | as `net_send` | *violated*, see below |
| `gnss_control` | one request to set switches, one for the rate, four console commands | a SET is applied; records follow the module but where the code explains it |
| `gnss_net_up` | as `gnss_control` | *violated*, see below |
| `gnss_stream` | 3 items, buffers of 7 and 4 cells, reads of up to 3 | what is buffered came last, in order; records and sentences once and in order |
| `decoders` | all ten records, up to 2 satellites of 2 signals; 2 byte values, up to 4 bytes with room for 4, texts seen up to 7 characters, and after more than 2 bytes only whole reports (which leaves out no state); numbers of up to 4 characters, and of 10, 11 and 31 digits; texts of up to 3 characters with room for 4 bytes | bits read once and within the record, members that hold them, signs but of named fields, what is sent on; downlinks, numbers and messages are kept |
| `eth4g` | 3 unanswered commands; the modem drops out anywhere | nothing is confirmed by an old answer; a good modem gets online, or the service is stranded where the property says |
| `dbb` | 2 unanswered commands; 2 reports (a behaviour that changes the mode has 1, a downlink in normal mode, and no dppp); 1 change of mode; 4 sent; 2 setbacks in normal mode | online only when configured or registered; order of corrections; newest downlink; a message once; a good module gets into service |
| `gnss_log` | RMC and GSV of at most 1 satellite, 2 sentences, of moments 10 s apart, 2 commands, 1 second, 1 failed open | whole lines; what the console says of a log; one late piece; the clock |

Why the bounds are enough. A ring of two slots with three frames is full, wraps
and is emptied; `Capacity` occurs in the code in comparisons with the count and
in the remainder only. Two peers are what it takes to confuse one with another.
With three connections over reused numbers, an old holder of a number meets a
new connection under it, while a third replaces that one. Three late commands
are more than the longest script of `Eth4g` has in a status but `ONLINE`, where it
has three. The record buffer of seven cells holds one record and most of the
next, so it overflows, and reads of three cut every item everywhere. Up to four bytes
reach every length of a last BASE64 quartet. Of the text seven characters are seen,
as the code's 1023 are three more than whole quartets: four bytes fit the buffer
and are eight characters in either character set, one too many, just as the
code's 1024 bytes are; a number of eleven digits is where the code looks for 86. Two late
answers, or two setbacks (a refusal, a capture that failed or that a report ended),
are what it takes to confuse one command of a script with the next, and to send a
message twice. Two commands
switch a log on and off, or on again in the same or the next second, while one
sentence with many pieces (GSV) and the one that sets the clock (RMC) are written;
the other seven sentences differ in the number of pieces only. Moments ten seconds
apart, with a second that passes, lie on either side of the difference from which the
clock is set. Counters that the code lets grow (accepted frames, connections,
reports) are capped in the guards by the constants of these names.

Deadlock is checked in all runs but two: in `dbb`, where a module that activated
too early is waited for in vain, and in `gnss_log`, where a behaviour ends when its
sentences and commands are used up.

### What the properties leave out

Some of the code's hazards are in the code, and the properties say so by naming the
cases in which they promise less. They do not show those hazards to be absent:

* `RecordsFollowModule` excuses records that `drifted`: after `CLOSEALL`, `MODE` or
  `FRESET`, after commands of two threads that overlapped, and, for the mode, after a
  write that failed; and it says nothing once the port was closed.
* `OnlineConfigured` excuses a configuration in which an answer was late (`behind`), and
  `Configured` also an activation or a prompt that was `dropped`.
* `LinesWhole` excuses a sentence during which its log was switched or its file could not
  be opened (`torn`).
* `BringUp` allows the service to be `Stranded`; `ValuesKept` lists the fields of
  `SignsLost` and says that in these the sign is lost; `EveryBitRead` excepts the GPS
  mean anomaly, `ReadWithin` the kinds whose length is not compared.
* `SmsOnce` allows one more acceptance for every setback.

### Deviations found

Two are shown by a run, as what the repository says is violated by what the code
does:

* `net_mixed`: an answer and a position are built in one static buffer
  (`comm_service.c:127-130`), and the mixture passes the receiver's checks with
  one's command and the other's payload: the switches under `SEND_CMD_POS`.
* `gnss_net_up`: `gnss net up <type>` loads the word of switches, changes a bit
  and stores it (`tty.c:408-420`), and undoes a request served in between.

Met while modelling; the models have them as the code does:

* `CLOSEALL`, `MODE` and `FRESET` leave `.output` set (`gnss_thread.c:360`; `gnss_func.h:59`).
* `gnss sys` puts a blank before the name (`tty.c:165-170`), which the record is
  compared without (`gnss_thread.c:308`): `show gnss sys` says off for ever. The
  console's word for GPS is `gsp`.
* A rate of 0 passes from the network to the module (`comm_service.c:278`; `gnss_thread.c:261`).
* After a read error of the GNSS port its descriptor is closed and its number kept:
  commands go to whatever has the number next (`gnss_thread.c:567`).
* A TCP thread that fails on an old client closes the one that replaced it
  (`comm_tcp.c:231`).
* The switch bd3cnav2 is sent as `BD3CANV2EPHB` (`comm_service.c:243`).
* Records of five kinds are decoded whatever their length (`gnss_ephb.c:230`;
  `BD3CNAV3EPHB_PAYLOAD_LEN` is not used): a short one is read past its end.
* POSDATAB is never counted as done and is decoded again with every read until
  another record follows (`gnss_ephb.c:382`).
* The mean anomaly of GPS is read with 22 bits and stepped over with 32
  (`gnss_ephb_decode.c:593-594`; `gnss_func.h:139`). Of its neighbours the header
  says 14 and 33 bits (`gnss_func.h:138`, `140`) where 16 and 32 are read (591, 595).
* m0, deltaA, omega0, i0 and omega of the three BDS-3 messages are read without sign
  extension and scaled as signed: a negative one comes out as a large positive one
  (`gnss_ephb_decode.c:285`, `289`, `293`, `295`, `297`, and the same in 364-376 and
  441-453).
* Negative velocities and angles of POSDATAB lose their sign in a cast
  (`gnss_ephb_decode.c:856-894`; `gnss_func.h:467`).
* The carrier-to-noise ratio is scaled by 2^-2 (`gnss_ephb_decode.c:816`), where
  4295 is said to stand for 42.95 (`gnss_func.h:521`).
* The console gives ephemerides other names (`gps`) than the header function knows
  (`gpsephb`, `gnss_ephb_info.c:627`): no such log is ever switched on, though the
  console names its file, and the module is told of a message it does not have.
* A log switched on twice in a second is emptied; one whose file could not be
  created is reported on like any other (`tty.c:230-260`).
* Positions are sent without a fix too, and UTC is set as local time
  (`gnss_nmea.c:427-466`).
* A downlink cut by the end of a capture is stored if what there is of it decodes:
  its announced length is not compared (`dbb_handle.c:819`). A wrong character or a
  cut quartet is met when the beginning of `downlink_raw` is already overwritten
  (`dbb_handle.c:160-177`, `828`), and the length and the text of the earlier
  downlink stay with it.
* A downlink whose text is longer than 1023 characters is cut by `sscanf`
  (`dbb_handle.c:809`, `817`), no longer decodes, and is not stored, though its
  bytes would fit.
* A report that comes between a message and its result ends the capture after the
  idle time (`dbb_at_response.c:71-81`): the send counts as failed
  (`dbb_handle.c:650-658`) and the message goes out again (`dbb_thread.c:195-224`).
* The normal mode of the DBB service can be stuck for good: an activation that is
  reported while an answer is captured is dropped, and `WAIT_CREV` waits for another
  (`dbb_thread.c:373`); after a `>` that comes late the module takes all that
  follows for the text of a message (`dbb_handle.c:634`); a late `OK` passes for
  that of PSDATA. After a change from normal to broadcast mode that fails, and back,
  the status still is `ONLINE`.
* A message of more than 70 characters never fits, and is tried again in every
  round; an uplink is limited by the 256 bytes of the capture's command buffer
  (`dbb_at_response.c:30`). A clock that is set back stalls the uplink
  (`dbb_thread.c:208`).
* One late answer shifts the answers of the 4G bring-up by one command for ever
  (`eth_4g.c:182`), and a modem that drops out between `CFUN_OK` and `ONLINE` is
  asked the same query for ever, in `CFUN_OK` or in `APN_OK` (`eth_4g.c:706-712`,
  `722-727`): only `ONLINE` puts it to standby and starts again.
* A log that is switched while a sentence is written tears the sentence
  (`gnss_nmea.c:103`): its first pieces go to one file, or to none, and the rest to
  another.

## 5. Fairness

* `CommUdp`: the tx thread and a thread inside `comm_udp_send` take their next
  step if they can. They have equal priority and no thread holds a mutex over a
  blocking call. Nothing makes a peer send or the module speak. No fairness is
  assumed of the creation of threads: `AcceptedIsTried` says "if it was created".
* `CommMqtt`: rx and tx take their next step; `TxConnect` is strongly fair, that
  is, a connect that is tried again and again succeeds at last; log files are
  closed again; the broker closes a connection on which nothing comes within the
  keepalive time that CONNECT announces. `Reconnects` is about a network that
  works again, and would be void of meaning without.
* `Eth4g`, `Dbb`: the thread is a loop that nothing stops, and the modem answers
  each command some time; that of `Dbb` also reports its activation. The premise of
  the liveness properties, that from some time on every answer arrives before its
  capture ends (`Prompt`) and nothing is refused or fails (`~Setback`), is part of
  the property; the prefix before it is arbitrary, late answers included.
  `Configured` names the ways in which normal mode can be stuck before that time,
  and `BringUp` the way in which the 4G service can (`Stranded`).
* The other specifications state safety only and assume no fairness.

## 6. Proofs

`RingQueueProofs` has the lemmas about the ring: adding a frame appends it to
`Contents`, taking one removes the first, both keep `RingOK` (the tail is count
slots after the head, and exactly the slots between hold frames), for every
`Capacity`. The arithmetic of the remainder is done once, in `WrapOnce` and
`SlotAfter`.

`CommUdpProofs` proves, for every ring size, number of frames, and set of peers
and of other senders:

* `TypeCorrect`, `AnswersReachRequester`, `SocketBeforeFrames`, `NoWakeupIsLost`,
* `ImplementsChannel`: `Spec => Channel!ChanSpec`, step by step: a push is an
  accept of the channel, the try of the tx thread a resolution, all else a stutter.

The inductive invariant `IInv` adds three facts to these properties. `ThreadsInv`:
which threads exist at which step of initialisation. `SocketInv`: a peer is
known, or a frame on its way, only when `fd` is set. `AnswerInv`: while rx answers a request,
`last_peer` still is the peer that asked. The last one is why an answer cannot be
misdirected: only rx writes `last_peer`, and rx itself runs the handler. Without
it `ReplyToRequester` is not inductive, because the destination is read from
shared state.

Of `NetSend` it proves `LoneFrameIntact` and `EphemerisIntact`, for all payloads that
fit the buffer. The invariant `NetInv` has what a call knows of its buffer: one that is
alone finds all the fields that it has written so far, whatever was there before
(`BuiltInv`), one that shares the buffer has lost `alone` at the latest when the second
of the two began, and a call of `net_send_eph` never shares (`AloneInv`), because only
one thread makes such calls. `WrittenBuilds` goes through the statements: no field
reaches into one written before it, although the check sum, stored as a `uint16_t`,
reaches into the tail, which comes later. `CheckIsTotal` is the induction over the
bytes: the loop in eight bits comes to the sum modulo 256 (`LoopDefined` shows that
the recursive functions mean something at all).

`CommTcpProofs` proves `ClientIsOpen` and `NoDescriptorLeaks`, for any number of
clients, descriptors and senders. `OwnedFds` is not inductive alone: `AcceptInv`
says when the accept thread holds a descriptor not yet published and that it is
another one than the client's. Of the queue it proves `TxIsWoken` and
`ImplementsChannel`, from `QInv`: the ring is consistent, the tx thread has a frame
in hand exactly between its pop and the end of its try, and does not wait while one
is queued. That this client or that is closed meanwhile has no part in it.

`CommMqttProofs` proves `NoForeignFileClosed` and `NoConnectionLeaks`, for any
number of connections, descriptors and senders. Both threads drop the connection,
and only because of `ConnectInv` does neither hit a file of the program's: only tx
makes a connection, and only while the context has none, so that it never replaces
one, whatever rx clears in between.

`GnssControlProofs` proves, for all requests and commands:

* `RecordsFollow`. Flags are recorded outside `fd_mutex`, so between the write and
  the record the module and the flag differ; `MatchInv` says that what a thread is
  about to record is so in the module unless another command for it came between,
  and that whoever records last, uncrossed, repairs the flag.
* `AnswerMeansSet`. `SetInv` says how far a request has come: each switch before the
  current one is so in the module, because the eight names differ.

`GnssLogProofs` proves four theorems, for any sentences, commands and faults.

* `AtMostOneLatePiece`. `LateInv` says of a log that is off that it has had its late
  piece, or is about to, but not both: another one would take another look at `en`.
  While the console is at work on the log nothing is said of it.
* `LogsComplete`. The path is in place and `en` set before the console says that the
  log is on, and in that order (`NamedInv`: wherever `en` is set there is a path;
  `OnInv`), so every test since has found it on, and every piece went to
  the file that was named. That file is emptied by no other log's command, whose
  path is another. The sentence in hand is not owed yet; `HasInv` says of it that
  its first piece is there as soon as it has been its turn, unless the log was
  switched or the file could not be opened meanwhile.
* `SentencesInOrder`. `WholeInv` says that the last item of a log's file is the piece
  before the one in hand, unless the log was switched or its file could not be opened
  since the sentence's first piece; the next piece therefore continues it. Again the
  path of a log names that log, and no other log's command empties the file.
* `ClockIsSet`. Each RMC sentence with a fix leaves the clock within ten seconds of its
  moment, or says that it could not be set; from then on the clock and the age of the
  position advance together.

`ModemProofs` is about the two services behind `AtPort`. Of `Dbb`, for any number of
reports, messages and setbacks:

* `CorrectionsInOrder` and `NewestDownlinkKept`. `ReportsInv` is about the line:
  headers are numbered upwards, and only the last may be without its rest; so a cut
  downlink is behind every whole one of its capture, and everything on the line is
  newer than what was taken before (`ForwardInv`, `DownlinkInv`). So what a failed
  decode leaves in the stored bytes is newer than they are. `ForwardInv` also says
  that a correction in hand was taken while the mode was dppp, which is why one at
  most goes astray.
* `MessageAccepted`. `SmsOnce` counts acceptances against setbacks, of which a report that
  ends the capture of the result is one; `MessageInv` says
  what the next acceptance can still come from: a prompt on its way and a text on its
  way are never two at once, and while the service waits for the result, one more
  may be owed than there were setbacks.
* `ConfiguredOnline`. `Due` is what the module must have accepted by now, from the
  status and the place in the round. An `OK` is taken for the current command's
  because, unless an answer was late in this configuration, no other answer may
  come (`RoundInv`); `DueInv` says that all that is due was accepted. The theorem
  assumes `MaxModes <= 1`: once the mode was changed back and forth, a round can find
  the status that the other mode left (section 4), and the property is false. Nothing
  in the program changes the mode at present, and a module started in broadcast mode
  and sent to normal mode is within the theorem.

Of `Eth4g`, for any number of late answers: `ModemConfirmed`. `Confirmed` alone says
nothing of the answers that are still to come, and any of them may be read for the current command. `EthLate` says which those
are: a yes about the radio comes, if at all, only in the two statuses around its
query, and after everything that could undo it; a yes about the registration comes
after those. `EthSaid` says that what is unread was said in this bring-up. The SIM's
yes is not among them, since an old one does pass.

Of `DbbCodec`, for bytes, numbers and texts of any value and number within
`CodecAssumption`:

* `MessageReadAsWritten`. `SmsInv` says that `received` is what `ReadDeliver` makes of
  the bytes of a report built for the target and the text, cut somewhere. `SubmitBuilt`
  and `DeliverBuilt` say where in those bytes the centre, the number and the text are;
  `HexPrefix`, that the digits of a cut report decode to a beginning of its bytes;
  `ReadBack` goes through the reads of the decoder, each of which compares the lengths
  it was told with what is there, and so finds what was written or gives up.
* `DownlinkStoredAsSent`. `StoredAsSent` is inductive itself; the work is what the
  decoder makes of one text. `EncodeCodes` and `FoursFlat` say that a BASE64 text is
  groups of four digits, `FourDigits` and `GroupRead` that a group is read back to its
  bytes, `CodedQuartets` and `CodedRead` where the decoder stops in the text: at the
  pad or at the end of the buffer. `SolidWhole` and `SolidBroken` take out the white
  space, and `HexWhole` is the same for hexadecimal. Of a text that is longer than
  `sscanf` takes, it is said that it leaves the length and the text that are stored:
  cut, it has not as many characters as any encoding has (`TextSize` is no multiple of
  4, nor of 2).

`GnssStreamProofs` proves all that the runs check of `GnssStream`: `BuffersFit`,
`NoRecordTwice`, `EveryRecordDecoded` and `EverySentenceHeard`, for buffers and reads
of every size and any number of items. The invariant has three parts.

* `ComingInv`: the serial line is in order and without gaps (`Sorted`, `Follows`).
* `ScanInv`: what is in the record buffer is older than what is to come and younger
  than what was decoded, but for the last bytes of the record decoded last, which
  have no header (`RawInv`, `DecodedInv`). That is why no scan finds it twice. And
  the item which the last read cut is at the end of the buffer as far as it has come
  (`RawTail`); with `RecordsDecoded` alone nothing could be said of the next read.
* `LineInv`: the same of the line buffer (`LineState`, `LineTail`); it is stated for
  a place in the read, because the assembler's loop keeps it byte by byte
  (`ByteKeeps`, `ByteHeard`).

The two loops of the code, over the positions of the buffer and over the bytes of
the read, are recursive functions. That each is well defined on its finite domain
(`ScanDefined`, `LoopDefined`), and what it comes to, is shown by `Downwards` and
`Upwards`, induction over an interval without an operator as parameter:
a set of positions takes its place, and `LeastMember` finds the first exception.

And it proves what the runs check of `GnssDecode`, except `ValuesKept`, for any kinds of
records and, in a PRANGEB record, any number of satellites and signals:

* `BitsReadOnce`, from `ReadInv`: what was read lies end to end up to the counter, as far
  as it was stepped on (`Contiguous`). `FieldsKnown` goes through the tables and finds no
  field whose two numbers differ, the GPS mean anomaly and the reserved bits excepted;
  that is where a miscounted field would end the proof. `ValueKnown` only gives values
  their type.
* `NothingReadBeyond`, `MembersHoldFields` and `EphemerisSentWhole`. `InOrder` adds that
  the record in hand was long enough when its decoder was called, and that the i-th entry
  is the i-th field of its table, at the sum of the steps before it. The rest is about the
  tables. `Part(fields, struct, m, o, n)` says that a stretch of a decoder fits the n
  members after the o-th, and that those after the m-th are spare; `PartJoin` puts two
  stretches together, `BitsJoin` adds up their bits. So each kind is cut where its source
  repeats itself, and `GpsFits` and its like hold of the whole. For PRANGEB, whose
  decoder has fields that fill no member, `Pair` takes the place of `Part`:
  `PairFlatten` joins any number of signals, and of satellites (`PrangebPair`). `PartSent` compares the place where `net_send_eph` cuts the struct
  with the first spare member, and `LastTwo` finds it counted from the end.

The assumptions are those named in the modules (`CapacityAssumption`,
`UdpAssumption`, `NetSendAssumption`, `CallsAssumption`, `TcpAssumption`, `MqttAssumption`, `GnssAssumption`, `LogAssumption`,
`StreamAssumption`, `DecodeAssumption`, `AtAssumption`, `DbbAssumption`, `CodecAssumption`): sizes are positive, and those of buffers hold
more than the shortest item, and every frame that is built in them; at least one message may be sent; thread names are
distinct; requests, commands and sentences are those the program knows; and messages are as
the network makes them: numbers of 1 to 31 digits, characters of 16 bits, centres of
at most 255 bytes.

Only model-checked: `ValuesKept`, and liveness (`AcceptedIsTried`, `SenderReturns`, `Reconnects`,
`BringUp`, `Configured`), since neither fairness nor `ENABLED` is within the prover's
reach. Of what recursive functions and folds compute, only that is proved which goes by
an induction over the positions of a sequence, with a set in place of the predicate, as
above.

## 7. Not modelled

* Threads that are never started are modelled as the code has them (TCP, MQTT,
  4G); that they are not started is said here and in the modules.
* `running` is set before the threads exist and cleared nowhere; the code behind
  its tests is dead, and left out. So are `dbb_cfg_once` and the functions of
  `eth_4g.c` without a caller, and the lines of ephemerides in csv files, which
  cannot be reached since no such log is ever on. `+CGEV` is only printed.
* A `send` that writes part of a frame: blocking sockets do so only when
  interrupted by a signal. `SIGPIPE`, which nothing catches: the process ends.
* The printing of decoded records (most of `gnss_ephb_info.c`) and of sentences to
  the terminal, `iconv`, and the scale factors of fields.
* An `OK` inside the BASE64 text of a report, which `strstr` would take for an
  answer.
* LoRa, LED and tty drivers, the quagga console library, and the vendored
  `minmea`: system calls and third-party code.
